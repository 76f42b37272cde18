\* One order, each vendor in turn, up to three orders of its number at the vendor; two
\* parcels of two parties; three vendors of two brands.
SPECIFICATION MCSpec
CONSTANTS
  Copies = {1, 2, 3}
  NoCopy = NoCopy
  Providers <- EveryProvider
  Parcels = {s1, s2}
  NoParcel = none
  Parties = {shop, v1}
  Requests = {r1, r2}
  Vendors = {"v1", "v2", "v3"}
  NoVendor = "none"
  BrandOf <- ThreeVendors
  Setups <- SomeSetups
  Events = 2
INVARIANTS PrintedOncePaid ConfirmedIsMade ParcelsKept OwnLinesOnly
PROPERTIES PaidIsMade OwnerHearsOfIt
\* An order that is over and has no call under way takes no further step.
CHECK_DEADLOCK FALSE
