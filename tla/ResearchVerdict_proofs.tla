------------------------ MODULE ResearchVerdict_proofs ------------------------
(***************************************************************************)
(* Proofs about the verdict rules, for every panel with a risk red team,   *)
(* every confidence and every number of rounds.                            *)
(*                                                                         *)
(* The properties name the confidences of the configuration (0.7 for the   *)
(* veto, 0.6 for conflict and support); the theorems assume of the         *)
(* thresholds only on which side of these they lie.                        *)
(***************************************************************************)
EXTENDS MCResearchVerdict, TLAPS

Finding(f) ==
  /\ f.stance \in Stances /\ f.conf \in Nat /\ f.elig \in BOOLEAN

\* What the rules may rely on: a panel with a red team, and findings on it.
BoardInv ==
  /\ "risk_redteam" \in Panel
  /\ \A r \in Panel : Finding(board[r])
  /\ \E P \in Panels : board = [r \in P |-> board[r]]

LEMMA BoardStep ==
  ASSUME BoardInv, [Next]_vars
  PROVE  BoardInv' /\ Panel' = Panel
<1>1. ASSUME NEW r \in Panel, Revise(r)
      PROVE  BoardInv' /\ Panel' = Panel
  <2>1. PICK f \in Admissible(r) : board' = [board EXCEPT ![r] = f]
    BY <1>1 DEF Revise
  <2>2. Finding(f)
    BY <2>1, PanelAssumption DEF Admissible, Finding
  <2>3. Panel' = Panel /\ \A q \in Panel : board'[q] = IF q = r THEN f ELSE board[q]
    BY <2>1, <1>1 DEF BoardInv, Panel
  <2>4. \E P \in Panels : board' = [q \in P |-> board'[q]]
    BY <2>1, <1>1 DEF BoardInv, Panel
  <2>5. QED
    BY <2>2, <2>3, <2>4 DEF BoardInv
<1>2. CASE UNCHANGED vars
  BY <1>2 DEF vars, BoardInv, Panel, Finding
<1>3. QED
  BY <1>1, <1>2 DEF Next

LEMMA BoardStart == Init => BoardInv
<1>1. SUFFICES ASSUME Init PROVE BoardInv
  OBVIOUS
<1>2. PICK P \in Panels : board = [r \in P |-> [stance |-> "abstain", conf |-> 10,
                                            elig |-> TRUE, peers |-> {}]]
  BY <1>1 DEF Init
<1>3. Panel = P /\ \A r \in P : Finding(board[r])
  BY <1>2 DEF Panel, Finding, Stances
<1>4. QED
  BY <1>2, <1>3, PanelAssumption DEF BoardInv

\* Boards keep their types, whatever is revised.
THEOREM BoardInvariant == Spec => []BoardInv
<1>1. BoardInv /\ [Next]_vars => BoardInv'
  BY BoardStep
<1>2. QED
  BY BoardStart, <1>1, PTL DEF Spec

\* What it takes to get past the review gate, the abstentions and the veto.
LEMMA EarlyRules ==
  ASSUME NEW v, Verdict.verdict = v, v \notin {"review_only", "abstained", "rejected"}
  PROVE  ~NeedsReview(board) /\ ~AllAbstain(board) /\ ~RiskVeto(board)
  BY DEF Verdict, DecideVerdict, Decision

\* And what the later rules then decide.
LEMMA LaterRules ==
  ASSUME ~NeedsReview(board), ~AllAbstain(board), ~RiskVeto(board)
  PROVE  Verdict = IF "adjudicator" \in DOMAIN board
                   THEN IF AdjudicationValid(board, round)
                        THEN Decision("adjudicated", board["adjudicator"].stance)
                        ELSE Decision("disputed", "oppose")
                   ELSE IF RiskTriadOpposes(board) THEN Decision("disputed", "none")
                   ELSE Directional(board)
  BY DEF Verdict, DecideVerdict
-----------------------------------------------------------------------------
(* Proposals *)

LEMMA Earned ==
  ASSUME VetoAt <= 7, AdvanceAt >= 6, AdjudicateAt >= 6, BoardInv
  PROVE  ProposalIsEarned
<1>. SUFFICES ASSUME ProposalRequired(Verdict)
             PROVE  /\ \A r \in Panel : board[r].stance # "abstain" => board[r].elig
                    /\ ~(board["risk_redteam"].stance = "oppose"
                           /\ board["risk_redteam"].conf >= 7)
                    /\ \E r \in Panel : board[r].stance = "support" /\ board[r].conf >= 6
  BY DEF ProposalIsEarned
<1>1. Verdict.verdict \in {"advance", "adjudicated"}
  BY DEF ProposalRequired
<1>2. ~NeedsReview(board) /\ ~AllAbstain(board) /\ ~RiskVeto(board)
  BY <1>1, EarlyRules
<1>3. \A r \in Panel : board[r].stance # "abstain" => board[r].elig
  BY <1>2 DEF NeedsReview, Panel
<1>4. ~(board["risk_redteam"].stance = "oppose" /\ board["risk_redteam"].conf >= 7)
  BY <1>2, ThresholdsAssumption DEF RiskVeto, BoardInv, Finding, Panel
<1>5. \E r \in Panel : board[r].stance = "support" /\ board[r].conf >= 6
  <2>1. CASE "adjudicator" \in Panel
    <3>1. AdjudicationValid(board, round) /\ board["adjudicator"].stance = "support"
      BY <1>1, <1>2, <2>1, LaterRules DEF Decision, ProposalRequired, Panel
    <3>2. board["adjudicator"].conf >= 6
      BY <3>1, <2>1, ThresholdsAssumption DEF AdjudicationValid, BoardInv, Finding
    <3>3. QED
      BY <2>1, <3>1, <3>2
  <2>2. CASE "adjudicator" \notin Panel
    <3>1. Confident(board, "support", AdvanceAt)
      BY <1>1, <1>2, <2>2, LaterRules DEF Decision, Directional, Panel
    <3>2. PICK r \in Panel : board[r].stance = "support" /\ board[r].conf >= AdvanceAt
      BY <3>1 DEF Confident, Panel
    <3>3. board[r].conf \in Nat
      BY DEF BoardInv, Finding
    <3>4. board[r].conf >= 6
      BY <3>2, <3>3, ThresholdsAssumption
    <3>5. QED
      BY <3>2, <3>4
  <2>3. QED
    BY <2>1, <2>2
<1>6. QED
  BY <1>3, <1>4, <1>5

\* A proposal needs eligible opinions, no veto and a confident supporter
\* (decide_verdict), if a veto is possible from 0.7, and support and adjudication
\* start at 0.6.
THEOREM ProposalsAreEarned ==
  ASSUME VetoAt <= 7, AdvanceAt >= 6, AdjudicateAt >= 6
  PROVE  Spec => []ProposalIsEarned
<1>1. BoardInv => ProposalIsEarned
  BY Earned
<1>2. QED
  BY <1>1, BoardInvariant, PTL
-----------------------------------------------------------------------------
(* Disputes and adjudications *)

LEMMA Surfaces ==
  ASSUME ConflictAt <= 6, BoardInv
  PROVE  DisagreementSurfaces
<1>. DEFINE sides == {board[r].stance : r \in {p \in Panel : board[p].conf >= 6}}
<1>. SUFFICES ASSUME "adjudicator" \notin Panel, \A r \in Panel : board[r].elig,
                     {"support", "oppose"} \subseteq sides
             PROVE  Verdict.verdict \in {"disputed", "rejected"}
  BY DEF DisagreementSurfaces
<1>1. PICK s \in Panel : board[s].stance = "support" /\ board[s].conf >= 6
  OBVIOUS
<1>2. PICK o \in Panel : board[o].stance = "oppose" /\ board[o].conf >= 6
  OBVIOUS
<1>3. ~NeedsReview(board) /\ ~AllAbstain(board)
  BY <1>1 DEF NeedsReview, AllAbstain, Panel
<1>4. CASE RiskVeto(board)
  BY <1>3, <1>4 DEF Verdict, DecideVerdict, Decision
<1>5. CASE ~RiskVeto(board) /\ RiskTriadOpposes(board)
  BY <1>3, <1>5, LaterRules DEF Decision, Panel
<1>6. CASE ~RiskVeto(board) /\ ~RiskTriadOpposes(board)
  <2>1. Confident(board, "support", ConflictAt) /\ Confident(board, "oppose", ConflictAt)
    BY <1>1, <1>2, ThresholdsAssumption DEF Confident, Panel, BoardInv, Finding
  <2>2. Verdict = Directional(board)
    BY <1>3, <1>6, LaterRules DEF Panel
  <2>3. QED
    BY <2>1, <2>2 DEF Directional, Decision
<1>7. QED
  BY <1>4, <1>5, <1>6

\* Confident disagreement among eligible findings ends disputed or vetoed
\* (_directional_decision), if confidence 0.6 is enough for a conflict.
THEOREM DisagreementsSurface ==
  ASSUME ConflictAt <= 6
  PROVE  Spec => []DisagreementSurfaces
<1>1. BoardInv => DisagreementSurfaces
  BY Surfaces
<1>2. QED
  BY <1>1, BoardInvariant, PTL

\* What a valid adjudication has is what settles a dispute.
LEMMA ValidSettles ==
  ASSUME AdjudicateAt >= 6, BoardInv, "adjudicator" \in Panel,
         AdjudicationValid(board, round)
  PROVE  Settles(board["adjudicator"])
<1>1. board["adjudicator"].conf \in Nat
  BY DEF BoardInv, Finding
<1>2. board["adjudicator"].conf >= 6
  BY <1>1, ThresholdsAssumption DEF AdjudicationValid
<1>3. QED
  BY <1>2 DEF AdjudicationValid, Settles, Opinionated, Panel

LEMMA FailsClosed ==
  ASSUME VetoAt >= 7, AdjudicateAt >= 6, BoardInv
  PROVE  AdjudicatorFailsClosed
<1>. SUFFICES ASSUME "adjudicator" \in Panel, ~Settles(board["adjudicator"]),
                     \A r \in Panel : board[r].stance = "abstain" \/ board[r].elig,
                     \E r \in Panel : board[r].stance # "abstain",
                     ~(board["risk_redteam"].stance = "oppose"
                         /\ board["risk_redteam"].conf >= 7)
             PROVE  Verdict.verdict = "disputed" /\ Verdict.final = "oppose"
  BY DEF AdjudicatorFailsClosed
<1>1. ~NeedsReview(board) /\ ~AllAbstain(board)
  BY DEF NeedsReview, AllAbstain, Panel
<1>2. ~RiskVeto(board)
  <2>1. board["risk_redteam"].conf \in Nat
    BY DEF BoardInv, Finding
  <2>2. QED
    BY <2>1, ThresholdsAssumption DEF RiskVeto
<1>3. ~AdjudicationValid(board, round)
  BY ValidSettles
<1>4. Verdict = Decision("disputed", "oppose")
  BY <1>1, <1>2, <1>3, LaterRules DEF Panel
<1>5. QED
  BY <1>4 DEF Decision

\* Where an adjudicator sits on the panel and does not settle the dispute, in the
\* last round and on a peer's evidence, the board stays disputed and opposed,
\* whatever its peers say (_adjudicator_decision), if a veto takes 0.7 and an
\* adjudication 0.6.
THEOREM AdjudicationsFailClosed ==
  ASSUME VetoAt >= 7, AdjudicateAt >= 6
  PROVE  Spec => []AdjudicatorFailsClosed
<1>1. BoardInv => AdjudicatorFailsClosed
  BY FailsClosed
<1>2. QED
  BY <1>1, BoardInvariant, PTL
-----------------------------------------------------------------------------
(* Changing one's mind *)

\* Where the triad opposed already, one more opposing voice leaves it so.
LEMMA TriadStays ==
  ASSUME BoardInv, NEW r \in Panel, Panel' = Panel,
         \A q \in Panel : q # r => board'[q] = board[q],
         board'[r].stance = "oppose", board[r].stance # "oppose",
         RiskTriadOpposes(board)
  PROVE  RiskTriadOpposes(board')
<1>. DEFINE voices == {q \in RiskRoles \cap Panel : Opinionated(board[q])}
            later  == {q \in RiskRoles \cap Panel : Opinionated(board'[q])}
<1>1. (\E p, q \in voices : p # q) /\ \A q \in voices : board[q].stance = "oppose"
  BY DEF RiskTriadOpposes, Panel
<1>2. r \notin voices
  BY <1>1
<1>3. voices \subseteq later /\ \A q \in later : board'[q].stance = "oppose"
  BY <1>1, <1>2 DEF Opinionated
<1>4. QED
  BY <1>1, <1>3 DEF RiskTriadOpposes, Panel

LEMMA Promotes ==
  ASSUME BoardInv, BoardInv', NEW r \in Panel, Panel' = Panel,
         \A q \in Panel : q # r => board'[q] = board[q],
         "adjudicator" \notin Panel, board[r].elig,
         board'[r].stance = "oppose", board[r].stance # "oppose",
         ProposalRequired(Verdict')
  PROVE  ProposalRequired(Verdict)
<1>1. Verdict'.verdict \in {"advance", "adjudicated"}
  BY DEF ProposalRequired
<1>2. ~NeedsReview(board') /\ ~AllAbstain(board') /\ ~RiskVeto(board')
  BY <1>1 DEF Verdict, DecideVerdict, Decision
<1>3. Verdict' = IF RiskTriadOpposes(board') THEN Decision("disputed", "none")
                 ELSE Directional(board')
  BY <1>2 DEF Verdict, DecideVerdict, Panel
<1>4. ~RiskTriadOpposes(board') /\ Directional(board').verdict = "advance"
  BY <1>1, <1>3 DEF Decision, Directional
<1>5. /\ Confident(board', "support", AdvanceAt)
      /\ ~Confident(board', "oppose", ConflictAt)
  BY <1>4 DEF Directional, Decision, Confident
<1>6. PICK s \in Panel : s # r /\ board[s].stance = "support" /\ board[s].conf >= AdvanceAt
  BY <1>5 DEF Confident, Panel
<1>7. ~NeedsReview(board) /\ ~AllAbstain(board) /\ ~RiskVeto(board)
  BY <1>2, <1>6 DEF NeedsReview, AllAbstain, RiskVeto, Panel
<1>8. ~RiskTriadOpposes(board)
  BY <1>4, TriadStays
<1>9. Confident(board, "support", AdvanceAt) /\ ~Confident(board, "oppose", ConflictAt)
  BY <1>5, <1>6 DEF Confident, Panel
<1>10. Verdict = Directional(board)
  BY <1>7, <1>8, LaterRules DEF Panel
<1>11. QED
  BY <1>9, <1>10 DEF Directional, Decision, ProposalRequired

\* Without an adjudicator, whoever turns to oppose does not bring a proposal
\* about (the order of decide_verdict's rules), whatever the thresholds.
THEOREM OppositionDoesNotPromote == Spec => OppositionNeverPromotes
<1>. DEFINE A == \A r \in Panel :
                   /\ "adjudicator" \notin Panel
                   /\ board'[r].stance = "oppose" /\ board[r].stance # "oppose"
                   /\ board[r].elig
                   => (ProposalRequired(Verdict') => ProposalRequired(Verdict))
<1>1. BoardInv /\ [Next]_vars => A
  <2>1. SUFFICES ASSUME BoardInv, [Next]_vars, NEW r \in Panel,
                        "adjudicator" \notin Panel, board[r].elig,
                        board'[r].stance = "oppose", board[r].stance # "oppose",
                        ProposalRequired(Verdict')
                 PROVE  ProposalRequired(Verdict)
    OBVIOUS
  <2>2. PICK p \in Panel : Revise(p)
    BY <2>1 DEF Next, vars
  <2>3. p = r /\ \A q \in Panel : q # r => board'[q] = board[q]
    <3>1. \A q \in Panel : q # p => board'[q] = board[q]
      BY <2>2 DEF Revise, BoardInv, Panel
    <3>2. QED
      BY <2>1, <3>1
  <2>4. BoardInv' /\ Panel' = Panel
    BY <2>1, BoardStep
  <2>5. QED
    BY <2>1, <2>3, <2>4, Promotes
<1>2. QED
  BY <1>1, BoardInvariant, PTL DEF Spec, OppositionNeverPromotes
=============================================================================
