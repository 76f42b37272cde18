\* Two admins, two keys, either kind of gateway, webhooks that repeat,
\* refunds that fail late; no webhook overtakes the provider's answer.
SPECIFICATION Spec
CONSTANTS
  Keys = {k1, k2}
  Calls = {c1, c2}
  Deliveries = {d1, d2}
  NoKey = NoKey
  Total = 2
  Gateways <- AnyGateway
  Reversals = TRUE
  EarlyEvents = FALSE
  LostAnswers = FALSE
  Crashes <- Nowhere
  LastStatus = "shipped"
SYMMETRY Symmetric
INVARIANTS InlineSettles LedgerExact NeverOverRefund FullRefundCancels
PROPERTIES FailedStaysFailed
\* An order whose total has been refunded and cancelled takes no further step.
CHECK_DEADLOCK FALSE
