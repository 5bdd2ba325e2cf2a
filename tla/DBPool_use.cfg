SPECIFICATION PoolFairSpec
CONSTANTS
  Plain = {}
  Nested = {s1, s2}
  Returns = {r1}
  Pools = {p1, p2}
  DSNs = {d1, d2}
  MaxOpenConns = 2
INVARIANT CurrentPoolOpen
PROPERTY RequestsEnd
CHECK_DEADLOCK FALSE
