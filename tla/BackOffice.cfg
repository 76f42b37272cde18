\* Two of everything that may overlap: runs of a campaign, requests on the accounts,
\* visits, reads and writes.
SPECIFICATION MCSpec
CONSTANTS
  People = {p1}
  Nobody = nobody
  Runs = {r1, r2}
  Addresses = {x1, x2}
  Accounts = {a1, a2}
  Requests = {r1, r2}
  Customers = {m1}
  Visits = {r1, r2}
  Links <- SomeLinks
  Horizon = 2
  Signups = 2
  Readers = {r1, r2}
  Writers = {r1, r2}
  MaxWrites = 2
INVARIANTS TypesOK OneCopyEach ProofLetsIn SignupsKept FreshAfterWrite
PROPERTY SweptWereOver
SYMMETRY Sym
CHECK_DEADLOCK FALSE
