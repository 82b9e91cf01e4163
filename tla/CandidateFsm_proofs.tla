-------------------------- MODULE CandidateFsm_proofs --------------------------
(***************************************************************************)
(* Proofs about the candidate state machine, for every gate configuration, *)
(* every pair of timeouts and every set of verdicts a committee delivers.  *)
(*                                                                         *)
(* The machine reads, judges and appends without a lock, so what protects  *)
(* a confirmation is not the caller but the research task: the verdict of  *)
(* a day, once delivered, is never replaced on that day, and no caller is  *)
(* carried over midnight.  GateInv says so.                                *)
(***************************************************************************)
EXTENDS CandidateFsm, TLAPS

\* A caller about to append a confirmation has been cleared by a verdict that
\* is still the verdict of the day.
Cleared ==
  mode = "enforce" =>
    \A j \in Callers : job[j].pc = "writes" /\ job[j].want = "confirmed" => today \in Clear

\* While the committee works on today's task, the task has no verdict.
Pending == open = "today" => today = "pending"

GateInv == FsmTypeOK /\ Cleared /\ Pending
-----------------------------------------------------------------------------
\* What a move leads to is a state or nothing.
LEMMA EffectiveType ==
  ASSUME NEW from, NEW want \in States \cup {Unknown}
  PROVE  Effective(from, want) \in States \cup {Unknown}
  BY DEF Effective, ReviewGate, States, Unknown

\* An enforced gate confirms only what today's verdict clears.
LEMMA EnforcedGate ==
  ASSUME mode = "enforce", NEW from, NEW want, Effective(from, want) = "confirmed"
  PROVE  today \in Clear
<1>1. Legal(from, want) /\ want = "confirmed"
  BY DEF Effective, ReviewGate, Unknown, Gated
<1>2. from = "candidate"
  BY <1>1 DEF Legal, Allowed, Unknown
<1>3. Gated(from, want) /\ ReviewGate = "clear"
  BY <1>1, <1>2 DEF Effective, Gated, ReviewGate, Unknown
<1>4. QED
  BY <1>3 DEF ReviewGate

\* The requests of a caller are states.
LEMMA AsksType ==
  ASSUME NEW j \in Callers, NEW want \in Asks(j)
  PROVE  want \in States
  BY DEF Asks, Callers, States
-----------------------------------------------------------------------------
LEMMA LookKeeps ==
  ASSUME FsmAssumption, GateInv, NEW j \in Callers, Look(j)
  PROVE  GateInv'
<1>1. PICK want \in Asks(j) :
        Set(j, IF j = "sweep" THEN [pc |-> "judges", want |-> want, from |-> state]
               ELSE Asking(want))
  BY DEF Look
<1>2. want \in States
  BY <1>1, AsksType
<1>3. FsmTypeOK'
  BY <1>1, <1>2 DEF GateInv, FsmTypeOK, Look, Set, Asking
<1>4. Cleared' /\ Pending'
  BY <1>1 DEF GateInv, FsmTypeOK, Cleared, Pending, Look, Set, Asking, Clear
<1>5. QED
  BY <1>3, <1>4 DEF GateInv

LEMMA MoveKeeps ==
  ASSUME FsmAssumption, GateInv, NEW j \in Callers, Move(j)
  PROVE  GateInv'
<1>1. CASE Read(j)
  BY <1>1, ZenonT(60) DEF GateInv, FsmTypeOK, Cleared, Pending, Read, Set, Clear
<1>2. CASE Judge(j)
  <2>1. Effective(job[j].from, job[j].want) \in States \cup {Unknown}
    BY EffectiveType DEF GateInv, FsmTypeOK
  <2>2. FsmTypeOK'
    BY <1>2, <2>1 DEF GateInv, FsmTypeOK, Judge, Set
  <2>3. mode = "enforce" /\ Effective(job[j].from, job[j].want) = "confirmed" => today \in Clear
    BY EnforcedGate
  <2>4. Cleared' /\ Pending'
    BY <1>2, <2>3 DEF GateInv, FsmTypeOK, Cleared, Pending, Judge, Set, Clear
  <2>5. QED
    BY <2>2, <2>4 DEF GateInv
<1>3. CASE Append(j)
  <2>1. Then(j) \in [pc : {"idle", "asks"}, want : States \cup {Unknown}, from : {Unknown}]
    BY DEF Then, Asking, Nothing, States
  <2>2. FsmTypeOK'
    <3>1. state' \in States \cup {Unknown} /\ age' \in 0..Oldest
      BY <1>3, FsmAssumption DEF GateInv, FsmTypeOK, Append, Oldest, Days
    <3>2. QED
      BY <1>3, <2>1, <3>1 DEF GateInv, FsmTypeOK, Append, Set
  <2>3. Cleared' /\ Pending'
    BY <1>3, <2>1 DEF GateInv, FsmTypeOK, Cleared, Pending, Append, Set, Clear
  <2>4. QED
    BY <2>2, <2>3 DEF GateInv
<1>4. QED
  BY <1>1, <1>2, <1>3 DEF Move

\* Research moves under the callers' feet, but never takes a clearance back.
LEMMA ResearchKeeps ==
  ASSUME FsmAssumption, GateInv, Dispatch \/ \E v \in Delivered : Deliver(v)
  PROVE  GateInv'
<1>1. CASE Dispatch
  BY <1>1 DEF GateInv, FsmTypeOK, Cleared, Pending, Dispatch, Clear, NoTask
<1>2. ASSUME NEW v \in Delivered, Deliver(v)
      PROVE  GateInv'
  BY <1>2 DEF GateInv, FsmTypeOK, Cleared, Pending, Deliver, Clear
<1>3. QED
  BY <1>1, <1>2

LEMMA TimeKeeps ==
  ASSUME FsmAssumption, GateInv, Later \/ NextDay
  PROVE  GateInv'
<1>1. CASE Later
  BY <1>1 DEF GateInv, FsmTypeOK, Cleared, Pending, Later, Clear, Slots
<1>2. CASE NextDay
  <2>1. age' \in 0..Oldest
    BY <1>2, FsmAssumption DEF GateInv, FsmTypeOK, NextDay, Oldest, Days
  <2>2. FsmTypeOK'
    BY <1>2, <2>1 DEF GateInv, FsmTypeOK, NextDay, Slots
  <2>3. Cleared' /\ Pending'
    BY <1>2 DEF GateInv, FsmTypeOK, Cleared, Pending, NextDay
  <2>4. QED
    BY <2>2, <2>3 DEF GateInv
<1>3. QED
  BY <1>1, <1>2

LEMMA GateStep ==
  ASSUME FsmAssumption, GateInv, [Next]_vars
  PROVE  GateInv'
<1>1. CASE UNCHANGED vars
  BY <1>1 DEF vars, GateInv, FsmTypeOK, Cleared, Pending, Clear
<1>2. CASE Next
  BY <1>2, LookKeeps, MoveKeeps, ResearchKeeps, TimeKeeps DEF Next
<1>3. QED
  BY <1>1, <1>2

LEMMA GateInit ==
  ASSUME FsmAssumption, Init
  PROVE  GateInv
  BY FsmAssumption
  DEF Init, GateInv, FsmTypeOK, Cleared, Pending, Nothing, Slots, Oldest, Days, NoTask

\* The log, the research and the callers keep their types, a caller about to
\* confirm has today's clearance, and today's open task has no verdict yet.
THEOREM GateInvariant == Spec => []GateInv
<1>1. Init => GateInv
  BY FsmAssumption, GateInit
<1>2. GateInv /\ [Next]_vars => GateInv'
  BY FsmAssumption, GateStep
<1>3. QED
  BY <1>1, <1>2, PTL DEF Spec

\* With review_gate.mode "enforce", every append that makes a stock confirmed
\* happens on a day whose deep dive cleared it (_review_gate_check, _guard),
\* although nothing locks the read, the judgement and the append together.
THEOREM ConfirmationsAreReviewed == Spec => ConfirmedIsReviewed
<1> DEFINE Reviewed ==
      mode = "enforce" /\ state # "confirmed" /\ state' = "confirmed" => today \in Clear
<1>1. ASSUME GateInv, Next PROVE Reviewed
  <2> SUFFICES ASSUME mode = "enforce", state # "confirmed", state' = "confirmed"
               PROVE  today \in Clear
    OBVIOUS
  <2>1. PICK j \in Callers : Append(j)
    BY <1>1 DEF Next, Look, Move, Read, Judge, Dispatch, Deliver, Later, NextDay
  <2>2. job[j].pc = "writes" /\ job[j].want = "confirmed"
    BY <2>1 DEF Append
  <2>3. QED
    BY <1>1, <2>2 DEF GateInv, Cleared
<1>2. GateInv /\ [Next]_vars => [Reviewed]_vars
  BY <1>1
<1>3. QED
  BY <1>2, GateInvariant, PTL DEF Spec, ConfirmedIsReviewed
=============================================================================
