CONSTANTS
  Tasks = {"t1"}
  Subject <- OneSubject
  Day <- OneDay
  Priority <- OnePriority
  Cost <- OneCost
  Cap = 0
  Cooldown = 0
  MaxAttempts = 2
  Experts = {"thesis_builder", "risk_redteam"}
  MaxRounds = 0
  Workers = {"w1", "w2"}
  Contents <- PlainContents
  NoContent = NoContent
  Env = {"crash", "stall", "retry", "sweep", "manual", "slow"}
  Consumers = {"w1"}
  Opinions <- PlainOpinions
  RequireManifest = TRUE
  MaxFacts = 0
  VetoAt = 7
  ConflictAt = 6
  AdvanceAt = 6
  AdjudicateAt = 6
SPECIFICATION FairSpec
INVARIANTS OneVerdict FailureIsNotEvidence SnapshotCurrent
PROPERTIES VerdictNeedsAllRoles VerdictReflectsBoard  ClosedOrDeserted
CHECK_DEADLOCK FALSE
