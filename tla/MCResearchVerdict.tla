-------------------------- MODULE MCResearchVerdict --------------------------
(***************************************************************************)
(* The verdict rules over every board of a panel whose roles revise their  *)
(* findings one at a time.  A run visits every board the value sets allow. *)
(***************************************************************************)
EXTENDS ResearchVerdict

CONSTANTS Panels, Levels

\* Every configured panel has the risk red team on it.
ASSUME PanelAssumption ==
  /\ Levels \subseteq Nat
  /\ \A P \in Panels : "risk_redteam" \in P

VARIABLES board, round

vars == <<board, round>>

Panel == DOMAIN board

\* validate_finding's contract: an adjudicator abstains or takes a side, and
\* an abstention carries no manifest, so its eligibility is never read.
Admissible(r) ==
  {f \in [stance : Stances, conf : Levels, elig : BOOLEAN,
          peers : {{}, {"risk_redteam"}}] :
     /\ f.stance = "abstain" => f.elig /\ f.conf = 10
     /\ f.stance # "abstain" => f.conf # 10
     /\ r = "adjudicator" => f.stance # "neutral"
     /\ r # "adjudicator" => f.peers = {}}

Init ==
  /\ round \in 0..MaxRounds
  /\ \E P \in Panels : board = [r \in P |-> [stance |-> "abstain", conf |-> 10,
                                            elig |-> TRUE, peers |-> {}]]

\* A role replaces its finding (a new turn in a new round, or another task).
Revise(r) ==
  /\ \E f \in Admissible(r) : board' = [board EXCEPT ![r] = f]
  /\ UNCHANGED round

Next == \E r \in Panel : Revise(r)

Spec == Init /\ [][Next]_vars

(* Properties *)

Verdict == DecideVerdict(board, round)

\* Fail closed: a proposal needs every directional or neutral opinion on the
\* board to be execution eligible, no veto by the risk red team, and a
\* supporter above the threshold (decide_verdict's order of rules).
ProposalIsEarned ==
  ProposalRequired(Verdict) =>
    /\ \A r \in Panel : board[r].stance # "abstain" => board[r].elig
    /\ ~(board["risk_redteam"].stance = "oppose" /\ board["risk_redteam"].conf >= 7)
    /\ \E r \in Panel : board[r].stance = "support" /\ board[r].conf >= 6

\* Confident disagreement is surfaced, never averaged away: a board of
\* eligible findings with a confident side each way and no adjudicator ends
\* disputed or vetoed (module docstring of research_synthesis).
DisagreementSurfaces ==
  LET sides == {board[r].stance : r \in {p \in Panel : board[p].conf >= 6}}
  IN  /\ "adjudicator" \notin Panel
      /\ \A r \in Panel : board[r].elig
      /\ {"support", "oppose"} \subseteq sides
      => Verdict.verdict \in {"disputed", "rejected"}

\* Without an adjudicator, a role that changes its mind to oppose never turns
\* a board that earned no proposal into one that does (the rules have no
\* inversion), whatever it said before.
OppositionNeverPromotes ==
  [][\A r \in Panel :
       /\ "adjudicator" \notin Panel
       /\ board'[r].stance = "oppose" /\ board[r].stance # "oppose"
       /\ board[r].elig
       => (ProposalRequired(Verdict') => ProposalRequired(Verdict))]_vars

\* Whether an adjudicator's finding may settle the dispute: in the last round,
\* a side taken, with confidence 0.6, on the evidence of a peer that takes one.
Settles(a) ==
  /\ round = MaxRounds
  /\ a.stance \in {"support", "oppose"} /\ a.conf >= 6
  /\ \E p \in Panel \ {"adjudicator"} :
        p \in a.peers /\ board[p].stance \in {"support", "oppose"}

\* Fail closed: where an adjudicator sits on the panel and its finding does not
\* settle the dispute, the board is disputed and counts as opposed, however much
\* its peers agree with each other.  Only a finding that needs review, a general
\* abstention and a veto go before (_adjudicator_decision in decide_verdict).
AdjudicatorFailsClosed ==
  LET reviewed == \E r \in Panel : board[r].stance # "abstain" /\ ~board[r].elig
      silent   == \A r \in Panel : board[r].stance = "abstain"
      vetoed   == board["risk_redteam"].stance = "oppose" /\ board["risk_redteam"].conf >= 7
  IN  "adjudicator" \in Panel /\ ~Settles(board["adjudicator"])
        /\ ~reviewed /\ ~silent /\ ~vetoed
      => Verdict.verdict = "disputed" /\ Verdict.final = "oppose"
=============================================================================
