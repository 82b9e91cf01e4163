CONSTANTS
  p1 = p1
  p2 = p2
  p3 = p3
  Runs = {p1, p2, p3}
  Ttl = 2
  MaxHold = 2
  MaxDead = 1
SPECIFICATION LeaseSpec
INVARIANT MutualExclusion
CHECK_DEADLOCK FALSE
