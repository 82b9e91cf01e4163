--------------------------- MODULE ResearchVerdict ---------------------------
(***************************************************************************)
(* The committee's verdict: research_synthesis.decide_verdict and the      *)
(* rules it tries in order, as operators on a board of findings.  A board  *)
(* is a function from the roles that reported to their findings; a finding *)
(* keeps what the rules read: its stance, its confidence in tenths, whether*)
(* its manifest is execution eligible after revalidation, and the peers    *)
(* the adjudicator cites.  The module has no variables: the synthesis and  *)
(* MCResearchVerdict instantiate it.                                       *)
(***************************************************************************)
EXTENDS Integers

CONSTANTS VetoAt,      \* synthesis.veto_confidence, in tenths
          ConflictAt,  \* synthesis.conflict_confidence
          AdvanceAt,   \* synthesis.advance_min_support_confidence
          AdjudicateAt,\* escalation.adjudicator.min_confidence, or else ConflictAt
          MaxRounds    \* escalation.max_rounds; 0 when escalation is disabled

ASSUME ThresholdsAssumption ==
  /\ VetoAt \in Nat /\ ConflictAt \in Nat /\ AdvanceAt \in Nat /\ AdjudicateAt \in Nat
  /\ MaxRounds \in Nat

Stances == {"support", "oppose", "neutral", "abstain"}

RiskRoles == {"risk_redteam", "risk_aggressive", "risk_neutral"}

Opinionated(f) == f.stance \in {"support", "oppose"}

\* Some finding of the board takes this stance with at least this confidence.
Confident(board, stance, level) ==
  \E r \in DOMAIN board : board[r].stance = stance /\ board[r].conf >= level

Decision(v, final) == [verdict |-> v, final |-> final]

(* The rules.  A rule applies or it does not; the first that applies wins. *)

\* Mutant: one eligible finding is enough.
NeedsReviewByAll(board) ==
  \A r \in DOMAIN board : board[r].stance # "abstain" => ~board[r].elig

\* _review_gate_decision, first half: a non-abstaining finding whose manifest
\* is not execution eligible keeps the whole task for a human.
NeedsReview(board) ==
  \E r \in DOMAIN board : board[r].stance # "abstain" /\ ~board[r].elig

\* _review_gate_decision, second half.
AllAbstain(board) ==
  /\ DOMAIN board # {}
  /\ \A r \in DOMAIN board : board[r].stance = "abstain"

RiskVeto(board) ==
  /\ "risk_redteam" \in DOMAIN board
  /\ board["risk_redteam"].stance = "oppose"
  /\ board["risk_redteam"].conf >= VetoAt

\* _adjudicator_decision: an adjudicator decides only in the configured last
\* round, with a direction, enough confidence and a directional peer cited.
AdjudicationValid(board, round) ==
  LET a == board["adjudicator"]
  IN  /\ MaxRounds > 0 /\ round = MaxRounds
      /\ Opinionated(a)
      /\ a.conf >= AdjudicateAt
      /\ \E p \in a.peers \cap DOMAIN board :
            p # "adjudicator" /\ Opinionated(board[p])

\* _risk_consensus_decision: at least two risk roles speak, and all oppose.
RiskTriadOpposes(board) ==
  LET voices == {r \in RiskRoles \cap DOMAIN board : Opinionated(board[r])}
  IN  /\ \E r, s \in voices : r # s
      /\ \A r \in voices : board[r].stance = "oppose"

\* Mutants: support is looked at first; the sides are swapped.
DirectionalSupportFirst(board) ==
  IF Confident(board, "support", AdvanceAt) THEN Decision("advance", "none")
  ELSE Decision("watch", "none")
DirectionalSwapped(board) ==
  LET supported == Confident(board, "oppose", AdvanceAt)
      opposed   == Confident(board, "support", ConflictAt)
  IN  IF opposed /\ supported THEN Decision("disputed", "none")
      ELSE IF supported THEN Decision("advance", "none") ELSE Decision("watch", "none")

\* _directional_decision.
Directional(board) ==
  LET supported == Confident(board, "support", AdvanceAt)
      opposed   == Confident(board, "oppose", ConflictAt)
  IN  CASE opposed /\ Confident(board, "support", ConflictAt) ->
                              Decision("disputed", "none")
        [] ~opposed /\ supported -> Decision("advance", "none")
        [] OTHER              -> Decision("watch", "none")

\* Mutant: an adjudication that does not count leaves the decision to the peers.
DecideVerdictByPeers(board, round) ==
  CASE NeedsReview(board) -> Decision("review_only", "none")
    [] ~NeedsReview(board) /\ AllAbstain(board) -> Decision("abstained", "none")
    [] OTHER ->
       IF RiskVeto(board) THEN Decision("rejected", "none")
       ELSE IF "adjudicator" \in DOMAIN board /\ AdjudicationValid(board, round)
       THEN Decision("adjudicated", board["adjudicator"].stance)
       ELSE IF RiskTriadOpposes(board) THEN Decision("disputed", "none")
       ELSE Directional(board)

\* decide_verdict.
DecideVerdict(board, round) ==
  CASE NeedsReview(board) -> Decision("review_only", "none")
    [] ~NeedsReview(board) /\ AllAbstain(board) -> Decision("abstained", "none")
    [] OTHER ->
       IF RiskVeto(board) THEN Decision("rejected", "none")
       ELSE IF "adjudicator" \in DOMAIN board
       THEN IF AdjudicationValid(board, round)
            THEN Decision("adjudicated", board["adjudicator"].stance)
            ELSE Decision("disputed", "oppose")
       ELSE IF RiskTriadOpposes(board) THEN Decision("disputed", "none")
       ELSE Directional(board)

\* _proposal_required.
ProposalRequired(d) ==
  d.verdict = "advance" \/ (d.verdict = "adjudicated" /\ d.final = "support")

\* _TERMINAL_STATUS.
TerminalStatus(v) ==
  IF v \in {"rejected", "abstained"} THEN v ELSE "done"
=============================================================================
