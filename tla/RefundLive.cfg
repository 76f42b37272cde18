\* Synchronous and webhook gateways; no process dies and no webhook overtakes the
\* answer of the provider.
SPECIFICATION FairSpec
CONSTANTS
  Keys = {k1, k2}
  Calls = {c1}
  Deliveries = {d1}
  NoKey = NoKey
  Total = 2
  Gateways <- AnyGateway
  Reversals = TRUE
  EarlyEvents = FALSE
  LostAnswers = FALSE
  Crashes <- Nowhere
  LastStatus = "delivered"
PROPERTIES OutcomeRecorded FullReturnNotified
\* An order whose total has been refunded and cancelled takes no further step.
CHECK_DEADLOCK FALSE
