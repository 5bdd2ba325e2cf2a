SPECIFICATION Spec
CONSTANTS
  Orders = {o1, o2}
  Days = {1, 2}
  Capacity = 1
  Tasks = {t1, t2}
  Ads = {a1}
SYMMETRY Symmetry
INVARIANTS NoDayOversold NothingUnpaid
PROPERTY ImplementsPromise
CHECK_DEADLOCK FALSE
