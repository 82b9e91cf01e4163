CONSTANTS
  VetoAt = 7
  ConflictAt = 6
  AdvanceAt = 6
  AdjudicateAt = 6
  MaxRounds = 2
  Panels = {{"thesis_builder", "risk_redteam", "risk_neutral"},
            {"thesis_builder", "risk_redteam", "adjudicator"}}
  Levels = {5, 6, 7, 10}
SPECIFICATION Spec
INVARIANTS ProposalIsEarned DisagreementSurfaces AdjudicatorFailsClosed
PROPERTY OppositionNeverPromotes
