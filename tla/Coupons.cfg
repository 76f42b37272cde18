\* Two orders, two customers, two checkouts at a time, limits of one and two.
SPECIFICATION Spec
CONSTANTS
  Orders = {o1, o2}
  Tabs = {t1, t2}
  Customers = {u1, u2}
  Limits <- TightLimits
SYMMETRY Symmetric
INVARIANTS UsageExact CapsKept DiscountMatchesSlot
\* Every tab may have died and every order ended.
CHECK_DEADLOCK FALSE
