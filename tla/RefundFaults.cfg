\* Calls and deliveries die anywhere, answers of the provider are lost, and webhooks
\* overtake them.
SPECIFICATION Spec
CONSTANTS
  Keys = {k1, k2}
  Calls = {c1, c2}
  Deliveries = {d1}
  NoKey = NoKey
  Total = 2
  Gateways <- AnyGateway
  Reversals = FALSE
  EarlyEvents = TRUE
  LostAnswers = TRUE
  Crashes <- Anywhere
  LastStatus = "shipped"
SYMMETRY Symmetric
INVARIANTS AskedOnce NoticeOnReturn
\* An order whose total has been refunded and cancelled takes no further step.
CHECK_DEADLOCK FALSE
