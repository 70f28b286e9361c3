SPECIFICATION FairSpec
CONSTANTS
  None = None
  d1 = d1
  d2 = d2
  u1 = u1
  u2 = u2
  Run = {r1, r2, r3}
  Domain = {d1, d2}
  Url = {u1, u2}
  MaxWork = 4
  MaxKills = 1
  Plans <- Orders
INVARIANT OnlyOverlapHarms
PROPERTY EveryRunEnds
CHECK_DEADLOCK FALSE
