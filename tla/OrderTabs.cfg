\* Two checkout tabs on one cart, nobody overwriting the shelf.
SPECIFICATION Spec
CONSTANTS
  Orders = {o1, o2}
  Variants = {v1}
  Carts = {c1}
  Requests = {r1, r2}
  Settlers = {s1}
  NoCart = NoCart
  NoOrder = NoOrder
  MaxQty = 2
  MaxStock = 1
  OpeningStock <- Two
  OpeningStatus <- Tracked
  StockWrites <- NoWrites
  DirectMoves <- AfterSale
  OperatorRaces = FALSE
  Crashes = TRUE
SYMMETRY Symmetric
INVARIANTS ShelfBalanced OneLiveOrderPerCart
