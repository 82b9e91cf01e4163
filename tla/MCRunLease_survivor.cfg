CONSTANTS
  p1 = p1
  p2 = p2
  Runs = {p1, p2}
  Ttl = 2
  MaxHold = 2
  MaxDead = 1
SPECIFICATION LeaseFairSpec
INVARIANTS MutualExclusion LeaseIsMine
PROPERTY LeaseFreed
CHECK_DEADLOCK FALSE
