\* Two settlements per order, operators acting at any moment, a process that may die
\* anywhere, and a print-on-demand variant that a re-sync makes tracked and empty.
SPECIFICATION Spec
CONSTANTS
  Orders = {o1, o2}
  Variants = {v1}
  Carts = {c1}
  Requests = {r1}
  Settlers = {s1, s2}
  NoCart = NoCart
  NoOrder = NoOrder
  MaxQty = 2
  MaxStock = 1
  OpeningStock <- Two
  OpeningStatus <- Printed
  StockWrites <- ResyncToZero
  DirectMoves <- AllStatuses
  OperatorRaces = TRUE
  Crashes = TRUE
SYMMETRY Symmetric
INVARIANTS TypeOK ServedForGood HandedBackMatches
