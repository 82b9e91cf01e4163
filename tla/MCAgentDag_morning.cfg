CONSTANTS
  Dags = {"first", "second"}
  Fired <- MCFired
  Jobs <- MCJobs
  Requires <- MCRequires
  Order <- MCOrder
  Accepts <- MCAccepts
  Statuses <- MCStatuses
  Outcomes <- MCOutcomes
  MaxAttempts = 2
  MaxDead = 1
SPECIFICATION FairSpec
INVARIANT TargetIsRerun
PROPERTIES ShortCircuitIsSound EveryDagEnds
CHECK_DEADLOCK FALSE
