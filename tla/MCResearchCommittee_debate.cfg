CONSTANTS
  Tasks = {"t1"}
  Subject <- OneSubject
  Day <- OneDay
  Priority <- OnePriority
  Cost <- OneCost
  Cap = 0
  Cooldown = 0
  MaxAttempts = 2
  Experts = {"thesis_builder", "risk_redteam"}
  MaxRounds = 1
  Workers = {w1, w2}
  Contents <- HeldContents
  NoContent = NoContent
  Env = {"crash", "torn"}
  Consumers = {w1, w2}
  Opinions <- DisputeOpinions
  RequireManifest = TRUE
  MaxFacts = 1
  VetoAt = 7
  ConflictAt = 6
  AdvanceAt = 6
  AdjudicateAt = 6
SPECIFICATION Spec
INVARIANTS CommitteeTypeOK ProposalMatchesVerdict RoundSpecificPack
PROPERTIES EscalationMovesForward ImplementsBus
CHECK_DEADLOCK FALSE
SYMMETRY SameHosts
