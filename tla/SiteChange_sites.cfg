SPECIFICATION Spec
CONSTANTS
  a = a
  k = k
  DomainLicenses = {a}
  KeyLicenses = {k}
  Commercial = {a}
  Domains = {d1, d2}
  Sites = {s1, s2}
  Orders = {o1}
  MaxSites = 1
  Free <- FreeChanges
  Price = 1
  InitialBalance = 1
  Adjustments <- Withdrawn
SYMMETRY Symmetry
INVARIANTS SitesWithinLimit OneDomain ChangesCovered BalanceAccounted
PROPERTIES PaidIsApplied FreeOncePerThirtyDays ImplementsPromise
CHECK_DEADLOCK FALSE
