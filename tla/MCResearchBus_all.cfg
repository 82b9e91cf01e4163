CONSTANTS
  Tasks = {"t1", "t2", "t3"}
  Subject <- OneSubject
  Day <- TwoDays
  Priority <- Priorities
  Cost <- Costs
  Cap = 5
  Cooldown = 0
  MaxAttempts = 2
  MaxRounds = 0
  Experts = {"risk","thesis"}
  Workers = {"w1"}
  Contents = {"x"}
  NoContent = NoContent
SPECIFICATION BusSpec
INVARIANTS OneActivePerSubject BudgetHolds LatestClaimOnly BoardMatchesQueue PendingHasAttempts ReadyMeansReported
PROPERTIES AcceptedIsKept ClosedStaysClosed
CHECK_DEADLOCK FALSE
