\* A hosted intent, a PayPal order and a card token, all named in their events; a
\* charge may outlast its lock, its answer may be lost and the tab may die.
SPECIFICATION FairSpec
CONSTANTS
  Intents = {i1}
  Approvals = {p1}
  Tokens = {k1}
  Untagged = {}
  Tabs = {t1}
  Deliveries = {d1}
  NoId = NoId
  LockExpires = TRUE
  LostAnswers = TRUE
  Crashes = {t1}
  OperatorRaces = TRUE
PROPERTIES CapturedSettles ApprovalIsCaptured
CHECK_DEADLOCK FALSE
