\* A re-sync to zero that makes the confirm fall short; no process dies and no direct
\* move falls inside the forced write.
SPECIFICATION FairSpec
CONSTANTS
  Orders = {o1, o2}
  Variants = {v1}
  Carts = {c1}
  Requests = {r1}
  Settlers = {s1}
  NoCart = NoCart
  NoOrder = NoOrder
  MaxQty = 2
  MaxStock = 1
  OpeningStock <- Two
  OpeningStatus <- Tracked
  StockWrites <- ResyncToZero
  DirectMoves <- AllStatuses
  OperatorRaces = FALSE
  Crashes = FALSE
INVARIANTS ReservedIsHeld NoSilentCharge
PROPERTIES FateDecided CapturedMovesForward CheckoutAnswers
