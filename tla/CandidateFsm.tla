----------------------------- MODULE CandidateFsm -----------------------------
(***************************************************************************)
(* The candidate state machine (skills/common/candidate_fsm.py), the jobs  *)
(* that ask it for a move, and the research it consults.                   *)
(*                                                                         *)
(* One stock is followed through the days.  Each job looks at the stock's  *)
(* current state, asks for a move, and the machine reads the state again,  *)
(* judges the move and appends the outcome to the day's transition log:    *)
(* three reads or writes with no lock around them.  The review gate looks  *)
(* up the candidate_deep_dive task of the SAME day, which the dispatcher   *)
(* enqueues after the close (scripts/research_dispatch.py).                *)
(***************************************************************************)
EXTENDS Integers

CONSTANTS Modes,         \* review_gate.mode: off, advisory, enforce
          StaleDays,     \* timeouts.watching_stale_days
          StallDays,     \* timeouts.confirmed_stall_days
          Delivered,     \* the verdicts a committee may deliver
          ByHand         \* who works by hand: {}, {"moves"}, {"tasks"} or both

ASSUME FsmAssumption ==
  /\ Modes \subseteq {"off", "advisory", "enforce"}
  /\ StaleDays \in Nat \ {0} /\ StallDays \in Nat \ {0}

VARIABLES mode,   \* the configured review gate
          state,  \* to_state of the stock's last accepted transition
          age,    \* trading days since that transition, up to Oldest
          slot,   \* the time of day
          today,  \* the stock's research task of today: NoTask, pending or its verdict
          open,   \* the task the committee works on: "no", "today", or "older"
          last,   \* the last verdict it delivered
          job     \* the callers

vars == <<mode, state, age, slot, today, open, last, job>>

States == {"screened", "watching", "candidate", "confirmed", "dropped"}
Unknown == "none"
NoTask == "no_task"
Days == IF StaleDays > StallDays THEN StaleDays ELSE StallDays
Oldest == Days + 1

\* 1 before the open, 2 open confirmation, 3 checkpoints, 4 after the close,
\* 5 research dispatch, 6 sweep, 7 evening.
Slots == 1..7
Callers == {"discovery", "confirmation", "checkpoint", "sweep", "operator"}
SlotsOf(j) == CASE j = "discovery"    -> {1, 4}
                [] j = "confirmation" -> {2}
                [] j = "checkpoint"   -> {3}
                [] j = "sweep"        -> {6}
                [] j = "operator"     -> IF "moves" \in ByHand THEN Slots ELSE {}

Allowed(from, to) ==
  <<from, to>> \in {<<"screened", "watching">>, <<"watching", "candidate">>,
                    <<"candidate", "confirmed">>, <<"candidate", "watching">>,
                    <<"confirmed", "candidate">>}

Nothing == [pc |-> "idle", want |-> Unknown, from |-> Unknown]

Init ==
  /\ mode \in Modes
  /\ state = Unknown /\ age = 0 /\ slot = 1
  /\ today = NoTask /\ open = "no" /\ last = NoTask
  /\ job = [j \in Callers |-> Nothing]

Set(j, r) == job' = [job EXCEPT ![j] = r]
Asking(want) == [pc |-> "asks", want |-> want, from |-> Unknown]
-----------------------------------------------------------------------------
(* The callers *)

\* Mutant: a code is stale on one day only.
StaleThatDay(days) == age = days

Stale(days) == age >= days

\* What a caller asks for in view of the current state.
Asks(j) ==
  CASE j = "discovery"    -> {t \in {"screened", "watching"} :
                                state = IF t = "screened" THEN Unknown ELSE "screened"}
    [] j = "confirmation" -> {t \in {"candidate"} : state \in {Unknown, "watching"}}
    [] j = "checkpoint"   -> {t \in {"confirmed"} : state \in {Unknown, "candidate"}}
    [] j = "sweep"        -> {t \in {"dropped"} : state = "watching" /\ Stale(StaleDays)}
                             \cup {t \in {"candidate"} : state = "confirmed" /\ Stale(StallDays)}
    [] j = "operator"     -> States

Look(j) ==
  /\ job[j].pc = "idle" /\ slot \in SlotsOf(j)
  /\ \E want \in Asks(j) :
       Set(j, IF j = "sweep" THEN [pc |-> "judges", want |-> want, from |-> state]
              ELSE Asking(want))
  /\ UNCHANGED <<mode, state, age, slot, today, open, last>>

\* transition: current_state, unless the caller named a from_state.
Read(j) ==
  /\ job[j].pc = "asks"
  /\ Set(j, [job[j] EXCEPT !.pc = "judges", !.from = state])
  /\ UNCHANGED <<mode, state, age, slot, today, open, last>>
-----------------------------------------------------------------------------
(* The machine: _review_gate_check, _guard, _effective_move *)

Clear == {"advance", "watch", "abstained"}

\* Mutant: a dispute clears the gate in every mode.
GateOfClear ==
  CASE mode # "off" /\ today = "rejected" -> "downgrade"
    [] mode = "enforce" /\ today \notin Clear \cup {"rejected", "disputed"} -> "blocked"
    [] OTHER -> "clear"

\* A verdict outside the lists counts as not there yet.
ReviewGate ==
  CASE mode # "off" /\ today = "rejected" -> "downgrade"
    [] mode = "enforce" /\ today \notin Clear \cup {"rejected"} -> "blocked"
    [] OTHER -> "clear"

Legal(from, want) ==
  CASE want = "dropped"                    -> from # "dropped"
    [] want # "dropped" /\ from = Unknown -> want = "screened"
    [] want # "dropped" /\ from # Unknown -> Allowed(from, want)

Gated(from, want) == from = "candidate" /\ want = "confirmed"

\* The state a request leads to; Unknown if it is refused.
Effective(from, want) ==
  IF ~Legal(from, want) THEN Unknown
  ELSE IF ~Gated(from, want) THEN want
  ELSE CASE ReviewGate = "clear"     -> want
         [] ReviewGate = "downgrade" -> "watching"
         [] ReviewGate = "blocked"   -> Unknown

Judge(j) ==
  /\ job[j].pc = "judges"
  /\ Set(j, [pc |-> "writes", want |-> Effective(job[j].from, job[j].want),
             from |-> job[j].want])
  /\ UNCHANGED <<mode, state, age, slot, today, open, last>>

\* Discovery asks for two moves in a row, whatever became of the first.
Then(j) ==
  IF j = "discovery" /\ job[j].from = "screened" THEN Asking("watching") ELSE Nothing

\* _append_event; a refused move is logged and moves nothing.
Append(j) ==
  /\ job[j].pc = "writes"
  /\ Set(j, Then(j))
  /\ IF job[j].want = Unknown THEN UNCHANGED <<state, age>>
     ELSE state' = job[j].want /\ age' = 0
  /\ UNCHANGED <<mode, slot, today, open, last>>
-----------------------------------------------------------------------------
(* The research, and time *)

\* The daily dispatcher, or a human with the same script: one open task per
\* subject, one task per subject and day.
Dispatch ==
  /\ slot = 5 \/ "tasks" \in ByHand
  /\ open = "no" /\ today = NoTask
  /\ open' = "today" /\ today' = "pending"
  /\ UNCHANGED <<mode, state, age, slot, last, job>>

\* A verdict lands in the task of the day it was enqueued for.
Deliver(v) ==
  /\ open # "no"
  /\ open' = "no" /\ last' = v
  /\ today' = IF open = "today" THEN v ELSE today
  /\ UNCHANGED <<mode, state, age, slot, job>>

Scheduled == Callers \ {"operator"}

\* Jobs are killed at their timeouts: none runs into the next slot.
Later ==
  /\ \A j \in Scheduled : job[j].pc = "idle"
  /\ slot < 7 /\ slot' = slot + 1
  /\ UNCHANGED <<mode, state, age, today, open, last, job>>

NextDay ==
  /\ \A j \in Callers : job[j].pc = "idle"
  /\ slot = 7 /\ slot' = 1
  /\ age' = IF age < Oldest /\ state # Unknown THEN age + 1 ELSE age
  /\ today' = NoTask
  /\ open' = IF open = "no" THEN "no" ELSE "older"
  /\ UNCHANGED <<mode, state, last, job>>

Move(j) == Read(j) \/ Judge(j) \/ Append(j)

Next ==
  \/ \E j \in Callers : Look(j) \/ Move(j)
  \/ Dispatch \/ \E v \in Delivered : Deliver(v)
  \/ Later \/ NextDay

Spec == Init /\ [][Next]_vars

\* Callers finish, days pass though somebody may keep typing commands, and the
\* sweep is not missed for ever.
FairSpec ==
  /\ Spec
  /\ \A j \in Callers : WF_vars(Move(j))
  /\ WF_vars(Later) /\ SF_vars(NextDay)
  /\ SF_vars(Look("sweep"))
-----------------------------------------------------------------------------
(* Properties *)

\* Types of the log, the research and the callers.
FsmTypeOK ==
  /\ mode \in Modes /\ state \in States \cup {Unknown}
  /\ age \in 0..Oldest /\ slot \in Slots
  /\ today \in Delivered \cup {NoTask, "pending"} /\ last \in Delivered \cup {NoTask}
  /\ open \in {"no", "today", "older"}
  /\ job \in [Callers -> [pc : {"idle", "asks", "judges", "writes"},
                          want : States \cup {Unknown}, from : States \cup {Unknown}]]

\* With the gate enforced, nobody is confirmed without a verdict of the same
\* day that clears it, whatever the other callers and the committee did
\* between the look-up and the append.
ConfirmedIsReviewed ==
  [][mode = "enforce" /\ state # "confirmed" /\ state' = "confirmed" => today \in Clear]_vars

\* A stock that nobody promotes does not stay in the watch pool for ever,
\* even if single sweeps are missed.
WatchEnds == state = "watching" ~> state # "watching"

\* The checkpoint's move to confirmed is where the committee's verdict on the
\* candidate has its say (_advance_fsm_to_confirmed): whom the committee has
\* rejected last, the gate does not confirm.
RejectedIsNotConfirmed ==
  [][mode # "off" /\ state # "confirmed" /\ state' = "confirmed" => last # "rejected"]_vars
=============================================================================
