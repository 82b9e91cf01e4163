CONSTANTS
  p1 = p1
  p2 = p2
  Procs = {p1, p2}
  Events <- MCEvents
  Subject <- MCSubject
  TailIds <- MCTailIds
  Batches <- MCBatches
  Faults = {"death", "torn", "mirror", "loss", "restore"}
  MaxFaults = 3
  MaxSeq = 3
SPECIFICATION Spec
INVARIANTS CacheIsCoherent GapsAreExplained
PROPERTIES ImplementsEventLog MirrorKnownIsComplete
SYMMETRY Processes
CHECK_DEADLOCK FALSE
