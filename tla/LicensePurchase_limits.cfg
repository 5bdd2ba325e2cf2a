SPECIFICATION Spec
CONSTANTS
  u1 = u1
  u2 = u2
  a1 = a1
  Users = {u1, u2}
  Agents = {a1}
  Orders = {o1, o2, o3}
  Callbacks = {notify, return}
  Requests <- UserRequests
  PerOwnerLimit = 1
  StockLimit = 2
  InitialBalance = 1
  QuotaTotal = 1
SYMMETRY Symmetry
INVARIANT OneLicensePerPaidOrder
PROPERTIES AdmissionWithinLimits ImplementsPromise
CHECK_DEADLOCK FALSE
