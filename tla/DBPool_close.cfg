SPECIFICATION PoolSpec
CONSTANTS
  Plain = {h1}
  Nested = {s1}
  Returns = {r1}
  Pools = {p1, p2}
  DSNs = {d1, d2}
  MaxOpenConns = 2
INVARIANT CallersLeaveItOpen
CHECK_DEADLOCK FALSE
