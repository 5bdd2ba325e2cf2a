SPECIFICATION FairSpec
CONSTANTS
  u1 = u1
  u2 = u2
  a1 = a1
  Users = {u1, u2}
  Agents = {a1}
  Orders = {o1, o2}
  Callbacks = {notify, return}
  Requests <- AgentRequests
  PerOwnerLimit = 0
  StockLimit = 1
  InitialBalance = 2
  QuotaTotal = 1
INVARIANT BalanceAccounted
PROPERTY PendingEnds
CHECK_DEADLOCK FALSE
