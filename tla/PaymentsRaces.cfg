\* One hosted intent whose events do not name the order, one PayPal order, two card
\* tokens, two tabs and a webhook handler; a delivery may die, no charge outlasts its lock;
\* and the carts behind it, with what their orders charge.
SPECIFICATION MCSpec
CONSTANTS
  Intents = {i1}
  Approvals = {p1}
  Tokens = {k1, k2}
  Untagged = {i1}
  Tabs = {t1, t2}
  Deliveries = {d1}
  NoId = NoId
  LockExpires = FALSE
  LostAnswers = FALSE
  Crashes = {d1}
  OperatorRaces = FALSE
  Variants = {"tee", "pin"}
  Cost <- Costs
  OptedOut = {"pin"}
  Pins = {"pin"}
  Bundles <- TwoForFive
  MarginPct = 25
  MemberPct = 30
  Coupon <- NineOff
  TaxRates = {0, 10}
  Shipping = 3
  Prices <- PriceLists
  Baskets <- SomeBaskets
  Orders = {k1, k2}
  NoOrder = NoOrder
SYMMETRY Symmetric
INVARIANTS AppliedIsSettled OneInPageCharge CheckoutPriced
PROPERTIES SettlesAsPromised
CHECK_DEADLOCK FALSE
