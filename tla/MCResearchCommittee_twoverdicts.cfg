CONSTANTS
  Tasks = {"t1"}
  Subject <- OneSubject
  Day <- OneDay
  Priority <- OnePriority
  Cost <- OneCost
  Cap = 0
  Cooldown = 0
  MaxAttempts = 1
  Experts = {"thesis_builder", "risk_redteam"}
  MaxRounds = 1
  Workers = {"w1", "w2"}
  Contents <- DebateContents
  NoContent = NoContent
  Env = {"sweep"}
  Consumers = {"w1"}
  Opinions <- DebateOpinions
  RequireManifest = TRUE
  MaxFacts = 0
  VetoAt = 7
  ConflictAt = 6
  AdvanceAt = 6
  AdjudicateAt = 6
SPECIFICATION Spec
INVARIANT OneVerdict
CHECK_DEADLOCK FALSE
