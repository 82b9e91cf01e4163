---------------------------- MODULE MCCandidateFsm ----------------------------
(* A committee of three without an adjudicator, as candidate_deep_dive has,  *)
(* and its verdicts on every board of a few findings.                        *)
EXTENDS CandidateFsm

CONSTANTS VetoAt, ConflictAt, AdvanceAt

Rules == INSTANCE ResearchVerdict WITH MaxRounds <- 0, AdjudicateAt <- ConflictAt

Findings ==
  [stance : {"support", "oppose"}, conf : {5, 7}, elig : BOOLEAN]
  \cup {[stance |-> "abstain", conf |-> 10, elig |-> TRUE]}

Boards == [{"evidence_auditor", "thesis_builder", "risk_redteam"} -> Findings]

MCDelivered == {"advance", "watch", "abstained", "rejected", "disputed", "review_only"}

ASSUME CommitteeDelivers ==
  MCDelivered = {Rules!DecideVerdict(b, 0).verdict : b \in Boards}
=============================================================================
