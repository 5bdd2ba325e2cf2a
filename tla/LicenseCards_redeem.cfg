SPECIFICATION FairSpec
CONSTANTS
  c1 = c1
  c2 = c2
  b1 = b1
  Cards = {c1, c2}
  Batches = {b1}
  BatchOf <- OneBatch
  People = {p}
  Requests = {r1, r2}
  MaxSwitches = 2
INVARIANTS FollowsRedeemer
PROPERTIES IssuedWhileValid RequestsEnd ImplementsPromise
CHECK_DEADLOCK FALSE
