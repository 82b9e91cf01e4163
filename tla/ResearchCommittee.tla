-------------------------- MODULE ResearchCommittee --------------------------
(***************************************************************************)
(* The research committee: hosts that claim roles from the research bus,   *)
(* freeze an evidence pack, run a model turn and submit a finding          *)
(* (scripts/expert_runner.py, skills/common/research_consumer.py), and the *)
(* deterministic synthesis that reduces the board to a verdict or reopens  *)
(* the task for another round (skills/common/research_synthesis.py).       *)
(*                                                                         *)
(* A host's turn is many steps with the queue free in between, so it is    *)
(* many actions.  The synthesis holds a per-task lock but NOT the queue's: *)
(* it reads a snapshot of the task and board (SynthBegin) and overwrites   *)
(* fields of the queue from it later (SynthEnd).                           *)
(*                                                                         *)
(* Env names what the surroundings may do in an instance:                  *)
(*   "crash"  a host dies between two of its steps                         *)
(*   "stall"  a lease passes its TTL while its host is still working       *)
(*   "retry"  a host repeats a submission whose answer it lost             *)
(*   "sweep"  an operator runs synthesize without a task                   *)
(*   "manual" an operator runs synthesize --task                           *)
(*   "slow"   manifests pass manifest_max_age_minutes before the synthesis *)
(*   "torn"   a process dies between two writes of one operation           *)
(***************************************************************************)
EXTENDS ResearchBus, Sequences

CONSTANTS Env, Consumers,              \* workers run by research_consumer
          Opinions,                    \* what a model turn may conclude
          RequireManifest,             \* finding.require_model_run_manifest
          MaxFacts,                    \* bound: how often the facts change
          VetoAt, ConflictAt, AdvanceAt, AdjudicateAt

Verdicts == INSTANCE ResearchVerdict

ASSUME CommitteeAssumption ==
  /\ Env \subseteq {"crash", "stall", "retry", "sweep", "manual", "slow", "torn"}
  /\ Consumers \subseteq Workers /\ MaxFacts \in Nat /\ RequireManifest \in BOOLEAN
  /\ Opinions \subseteq [stance : Verdicts!Stances, conf : 0..10, elig : BOOLEAN,
                         peers : SUBSET Roles]

VARIABLES facts,     \* version of the facts a pack is built from
          packRef,   \* evidence_pack_ref of each task, in the queue file
          worker,    \* each host's turn
          synth,     \* the synthesis holding the task's synthesis.commit lock
          requests,  \* synthesize_task calls an operator has under way
          verdicts,  \* every verdict written to the task, in order
          proposal   \* proposals/pending/{task}.json exists

hostVars  == <<facts, packRef, worker>>
synthVars == <<synth, requests, verdicts, proposal>>
vars == <<busVars, hostVars, synthVars>>

\* A pack is content-addressed: the facts it froze and the round it is for.
Packs  == [facts : 0..MaxFacts, round : 0..MaxRounds]
NoPack == [facts |-> -1, round |-> -1]

\* A finding: the turn's opinion, the pack its manifest binds, and the pack
\* the turn was given to read.
FindingContents == [opinion : Opinions, pack : Packs, read : Packs]

Idle      == [pc |-> "idle"]
NoSynth   == [by |-> "nobody"]
Operator  == "operator"

Turn(pc, t, r, c, pack) == [pc |-> pc, t |-> t, r |-> r, c |-> c, pack |-> pack]

Busy(w) == worker[w].pc # "idle"

Held == {<<worker[w].t, worker[w].r, worker[w].c>> : w \in {v \in Workers : Busy(v)}}

\* Leases that may be past their TTL: without "stall", only those of a host
\* that is gone.
MayLapse ==
  {l \in Leases :
     "stall" \in Env \/ <<l[1], l[2], task[l[1]].roles[l[2]].claim>> \notin Held}
-----------------------------------------------------------------------------
(* Hosts *)

\* claim_next_work by an idle host; it keeps the claimed task's snapshot, of
\* which only evidence_pack_ref is read again.
Take(w, t, r, late) ==
  /\ ~Busy(w) /\ late \subseteq MayLapse
  /\ Claim(t, r, w, late)
  /\ worker' = [worker EXCEPT ![w] =
                  Turn("claimed", t, r, NextClaim(t, r, w), packRef[t])]
  /\ UNCHANGED <<facts, packRef, synthVars>>

\* claim_next_work that comes back empty-handed.
TakeNothing(w, late) ==
  /\ ~Busy(w) /\ late # {} /\ late \subseteq MayLapse
  /\ ClaimIdle(late)
  /\ UNCHANGED <<hostVars, synthVars>>

TakeDies(w, t) ==
  /\ "torn" \in Env /\ ~Busy(w)
  /\ ClaimDies(t)
  /\ UNCHANGED <<hostVars, synthVars>>

\* Mutant: the pack is rebuilt on every turn.
EnsurePackAlways(w) ==
  LET built == [facts |-> facts, round |-> 0]
  IN  /\ worker[w].pc = "claimed"
      /\ packRef' = [packRef EXCEPT ![worker[w].t] = built]
      /\ worker' = [worker EXCEPT ![w].pc = "working", ![w].pack = built]
      /\ UNCHANGED <<busVars, facts, synthVars>>

\* _ensure_pack: a snapshot without a ref builds a pack for its own round
\* (always 0: later rounds start with a ref) and overwrites the task's ref.
EnsurePack(w) ==
  LET turn  == worker[w]
      built == [facts |-> facts, round |-> 0]
  IN  /\ turn.pc = "claimed"
      /\ IF turn.pack = NoPack
         THEN /\ packRef' = [packRef EXCEPT ![turn.t] = built]
              /\ worker' = [worker EXCEPT ![w].pc = "working", ![w].pack = built]
         ELSE /\ worker' = [worker EXCEPT ![w].pc = "working"]
              /\ UNCHANGED packRef
      /\ UNCHANGED <<busVars, facts, synthVars>>

\* Until it is bound to a finding, a turn carries [pc, t, r, c, pack]; from
\* Validate on it also carries the finding x.
WithFinding(turn, pc, x) ==
  [pc |-> pc, t |-> turn.t, r |-> turn.r, c |-> turn.c, pack |-> turn.pack, x |-> x]

\* The consumer binds the manifest to the pack it handed the model; cmd_submit
\* loads whatever pack the task refers to by then.
BoundPack(w) == IF w \in Consumers THEN worker[w].pack ELSE packRef[worker[w].t]

\* submit_finding up to its mutation: find_task, validate_finding and
\* _validate_bound_evidence against that snapshot.  A finding whose manifest
\* binds another pack than the task's is rejected (an abstention has no
\* manifest), and the consumer gives the role up without a retry.
Validate(w, o) ==
  LET turn  == worker[w]
      x     == [opinion |-> o, pack |-> BoundPack(w), read |-> turn.pack]
      bound == o.stance = "abstain" \/ x.pack = packRef[turn.t]
  IN  /\ turn.pc = "working"
      /\ IF turn.r = Adjudicator THEN o.stance # "neutral" ELSE o.peers = {}
      /\ worker' = [worker EXCEPT ![w] =
                      IF bound THEN WithFinding(turn, "validated", x)
                      ELSE [turn EXCEPT !.pc = "rejected"]]
      /\ UNCHANGED <<busVars, facts, packRef, synthVars>>

\* Mutant: every submission is followed by a synthesis.
AfterEvery(w, allDone) == [worker[w] EXCEPT !.pc = "reduce"]

\* Mutant: nobody is told to synthesise.
AfterNothing(w, allDone) == Idle

\* What a host does next when told whether every role has reported.
After(w, allDone) ==
  IF allDone THEN [worker[w] EXCEPT !.pc = "reduce"] ELSE Idle

\* submit_finding's mutation, accepted.  The answer reaches the host, or is
\* lost and the host may repeat the call.
SubmitAccepted(w) ==
  LET turn == worker[w]
      done == AllRolesDone(Published(task[turn.t], turn.r, turn.c))
  IN  /\ turn.pc = "validated"
      /\ Submit(turn.t, turn.r, turn.c, turn.x)
      /\ \/ worker' = [worker EXCEPT ![w] = After(w, done)]
         \/ /\ "retry" \in Env
            /\ worker' = [worker EXCEPT ![w].pc = "unanswered"]
      /\ UNCHANGED <<facts, packRef, synthVars>>

\* submit_finding's mutation, refused by the fence: nothing is written, and
\* the consumer's fail_role is fenced out the same way.
SubmitFenced(w) ==
  LET turn == worker[w]
  IN  /\ turn.pc = "validated"
      /\ ~Fenced(turn.t, turn.r, turn.c)
      /\ worker' = [worker EXCEPT ![w] = Idle]
      /\ UNCHANGED <<busVars, facts, packRef, synthVars>>

SubmitDies(w) ==
  LET turn == worker[w]
  IN  /\ "torn" \in Env /\ turn.pc = "validated"
      /\ PublishDies(turn.t, turn.r, turn.c, turn.x)
      /\ worker' = [worker EXCEPT ![w] = Idle]
      /\ UNCHANGED <<facts, packRef, synthVars>>

\* _completed_submission_result: the same submission again succeeds, and
\* reports all_roles_done from the task's status; any other is an error.
SubmitAgain(w) ==
  LET turn == worker[w]
      same == /\ RoleIs(turn.t, turn.r, "done")
              /\ task[turn.t].roles[turn.r].sub = turn.c
  IN  /\ turn.pc = "unanswered"
      /\ worker' = [worker EXCEPT ![w] =
                      After(w, same /\ task[turn.t].status = "ready_to_synthesize")]
      /\ UNCHANGED <<busVars, facts, packRef, synthVars>>

\* fail_role after a failed turn (which may retry or not), or by
\* _release_rejected_submission (which never does).  Fenced out, it does nothing.
GiveUp(w, retry) ==
  LET turn == worker[w]
  IN  /\ turn.pc \in {"working", "rejected"}
      /\ turn.pc = "rejected" => ~retry
      /\ IF Fenced(turn.t, turn.r, turn.c) THEN Fail(turn.t, turn.r, turn.c, retry)
         ELSE UNCHANGED busVars
      /\ worker' = [worker EXCEPT ![w] = Idle]
      /\ UNCHANGED <<facts, packRef, synthVars>>

\* The host's process dies; its lease stays until it expires.
HostDies(w) ==
  /\ "crash" \in Env /\ Busy(w)
  /\ \A t \in Tasks : synth[t].by # w
  /\ worker' = [worker EXCEPT ![w] = Idle]
  /\ UNCHANGED <<busVars, facts, packRef, synthVars>>

\* The fact plane writes new artifacts: the next pack differs.
FactsMove ==
  /\ facts < MaxFacts
  /\ facts' = facts + 1
  /\ UNCHANGED <<busVars, packRef, worker, synthVars>>
-----------------------------------------------------------------------------
(* Synthesis *)

\* cmd_synthesize --task.
RequestManual(t) ==
  /\ "manual" \in Env /\ Known(t) /\ t \notin requests
  /\ requests' = requests \cup {t}
  /\ UNCHANGED <<busVars, hostVars, synth, verdicts, proposal>>

\* synthesize_ready_tasks: the tasks ready in ONE reading of the queue are
\* synthesised one after the other, whatever becomes of them meanwhile.
RequestSweep ==
  /\ "sweep" \in Env
  /\ LET ready == {t \in Tasks : task[t].status = "ready_to_synthesize"}
     IN  /\ ~(ready \subseteq requests)
         /\ requests' = requests \cup ready
  /\ UNCHANGED <<busVars, hostVars, synth, verdicts, proposal>>

\* load_findings: whatever board files the plan's roles have.
Reported(t) == {r \in Plan(t) : board[t][r] # NoFinding}

\* Mutant: a resolved task is reduced again.
NotReported(t) ==
  Reported(t) # Plan(t) \/ HasFailedRole(task[t])

\* _existing_synthesis and _finding_readiness_error: nothing to do.
NothingToReduce(t) ==
  \/ task[t].status \in {"done", "rejected", "abstained"}
  \/ Reported(t) # Plan(t)
  \/ HasFailedRole(task[t])

\* _revalidate_model_manifests: where manifests are required, an approval binds
\* the submission's claim id, and a manifest in "old" is past its age.
Revalidated(t, old) ==
  [r \in Plan(t) |->
     LET o == board[t][r].content.opinion
         current == board[t][r].claim = task[t].roles[r].sub
     IN  [o EXCEPT !.elig = @ /\ (RequireManifest => current /\ r \notin old)]]

Directed(t) == {r \in Plan(t) : Verdicts!Opinionated(board[t][r].content.opinion)}

Caller(t, by) ==
  IF by = Operator THEN t \in requests
  ELSE worker[by].pc = "reduce" /\ worker[by].t = t

Dismiss(t, by) ==
  IF by = Operator
  THEN requests' = requests \ {t} /\ UNCHANGED worker
  ELSE worker' = [worker EXCEPT ![by] = Idle] /\ UNCHANGED requests

\* synthesize_task takes the lock and finds the task resolved or not reducible.
SynthRefused(t, by) ==
  /\ synth[t] = NoSynth /\ Caller(t, by)
  /\ NothingToReduce(t)
  /\ Dismiss(t, by)
  /\ UNCHANGED <<busVars, facts, packRef, synth, verdicts, proposal>>

\* synthesize_task takes the lock, reads the task and the board, and decides.
SynthBegin(t, by, old) ==
  /\ synth[t] = NoSynth /\ Caller(t, by)
  /\ Known(t) /\ ~NothingToReduce(t)
  /\ old \subseteq Plan(t) /\ (old # {} => "slow" \in Env)
  /\ synth' = [synth EXCEPT ![t] =
                 [by |-> by, rec |-> task[t], directed |-> Directed(t),
                  decision |-> Verdicts!DecideVerdict(Revalidated(t, old), task[t].round)]]
  /\ UNCHANGED <<busVars, hostVars, requests, verdicts, proposal>>

\* _maybe_escalate applies below the last round, or once more for the
\* adjudicator when the plan has none.
Reopens(s) ==
  /\ s.decision.verdict = "disputed" /\ MaxRounds > 0
  /\ RoundsLeft(s.rec) \/ Adjudicator \notin s.rec.plan

Release(t) ==
  /\ synth' = [synth EXCEPT ![t] = NoSynth]
  /\ Dismiss(t, synth[t].by)

\* _maybe_escalate: status, round, roles and plan are overwritten from the
\* snapshot; below the last round so is the pack, rebuilt for the new round.
SynthReopen(t) ==
  LET s == synth[t]
  IN  /\ s # NoSynth /\ Reopens(s)
      /\ IF RoundsLeft(s.rec)
         THEN /\ task' = [task EXCEPT ![t] = Escalated(s.rec, s.directed)]
              /\ packRef' = [packRef EXCEPT ![t] =
                               [facts |-> facts, round |-> s.rec.round + 1]]
         ELSE /\ task' = [task EXCEPT ![t] = WithAdjudicator(s.rec)]
              /\ UNCHANGED packRef
      /\ Release(t)
      /\ UNCHANGED <<issued, board, budget, facts, verdicts, proposal>>

\* _write_proposal, then _commit_synthesis.
SynthCommit(t) ==
  LET s == synth[t]
  IN  /\ s # NoSynth /\ ~Reopens(s)
      /\ task' = [task EXCEPT ![t] =
                    Closed(@, Verdicts!TerminalStatus(s.decision.verdict))]
      /\ proposal' = IF Verdicts!ProposalRequired(s.decision)
                     THEN proposal \cup {t} ELSE proposal
      /\ verdicts' = [verdicts EXCEPT ![t] = Append(@, s.decision)]
      /\ Release(t)
      /\ UNCHANGED <<issued, board, budget, facts, packRef>>

\* Mutant: the queue is written before the proposal, and the process dies.
SynthDiesCommitted(t) ==
  LET s == synth[t]
  IN  /\ "torn" \in Env /\ s # NoSynth /\ ~Reopens(s)
      /\ task' = [task EXCEPT ![t] =
                    Closed(@, Verdicts!TerminalStatus(s.decision.verdict))]
      /\ verdicts' = [verdicts EXCEPT ![t] = Append(@, s.decision)]
      /\ Release(t)
      /\ UNCHANGED <<issued, board, budget, facts, packRef, proposal>>

\* The process dies holding the lock: before any write, or with the proposal,
\* report and board copy written but the queue untouched.
SynthDies(t) ==
  LET s == synth[t]
  IN  /\ "torn" \in Env /\ s # NoSynth
      /\ proposal' \in {proposal,
                        IF ~Reopens(s) /\ Verdicts!ProposalRequired(s.decision)
                        THEN proposal \cup {t} ELSE proposal}
      /\ Release(t)
      /\ UNCHANGED <<busVars, facts, packRef, verdicts>>
-----------------------------------------------------------------------------
Init ==
  /\ BusInit
  /\ facts = 0
  /\ packRef = [t \in Tasks |-> NoPack]
  /\ worker = [w \in Workers |-> Idle]
  /\ synth = [t \in Tasks |-> NoSynth]
  /\ requests = {}
  /\ verdicts = [t \in Tasks |-> <<>>]
  /\ proposal = {}

Submitted(t, force) == Enqueue(t, force) /\ UNCHANGED <<hostVars, synthVars>>

HostStep(w) ==
  \/ EnsurePack(w)
  \/ \E o \in Opinions : Validate(w, o)
  \/ SubmitAccepted(w) \/ SubmitFenced(w) \/ SubmitAgain(w)
  \/ \E retry \in BOOLEAN : GiveUp(w, retry)

Asks(w, late) ==
  \/ TakeNothing(w, late)
  \/ \E t \in Tasks, r \in Roles : Take(w, t, r, late)

SynthStep(t) ==
  \/ \E by \in Workers \cup {Operator} :
        SynthRefused(t, by) \/ \E old \in SUBSET Plan(t) : SynthBegin(t, by, old)
  \/ SynthReopen(t) \/ SynthCommit(t)

Disturbance ==
  \/ \E w \in Workers : SubmitDies(w) \/ HostDies(w) \/ \E t \in Tasks : TakeDies(w, t)
  \/ \E t \in Tasks : SynthDies(t) \/ RequestManual(t)
  \/ RequestSweep \/ FactsMove

Next ==
  \/ \E t \in Tasks, force \in BOOLEAN : Submitted(t, force)
  \/ \E w \in Workers : HostStep(w) \/ \E late \in SUBSET MayLapse : Asks(w, late)
  \/ \E t \in Tasks : Known(t) /\ SynthStep(t)
  \/ Disturbance

Spec == Init /\ [][Next]_vars
-----------------------------------------------------------------------------
(* Properties *)

Resolved(t) == task[t].status \in {"done", "rejected", "abstained"}

LastVerdict(t) == verdicts[t][Len(verdicts[t])]

\* Seen from the queue, hosts and synthesis are nothing but calls of the bus:
\* every step is a step of BusSpec or leaves the bus alone.  Most of all, a
\* synthesis that is many steps long acts like Resolve, in one step and on a
\* ready task; then all that is proved of the bus holds of the committee.
ImplementsBus == BusSpec

\* Types of the hosts, the synthesis and what they keep.
CommitteeTypeOK ==
  /\ BusTypeOK
  /\ facts \in 0..MaxFacts /\ requests \subseteq Tasks /\ proposal \subseteq Tasks
  /\ \A t \in Tasks : /\ packRef[t] \in Packs \cup {NoPack}
                      /\ synth[t].by \in Workers \cup {Operator, "nobody"}
                      /\ synth[t] # NoSynth => synth[t].rec \in TaskRecords
  /\ \A w \in Workers :
       /\ worker[w].pc \in {"idle", "claimed", "working", "validated", "rejected",
                           "unanswered", "reduce"}
       /\ Busy(w) => worker[w].c \in Claims /\ worker[w].c.by = w

\* "A deterministic synthesis reduces the board once every planned role has
\* reported" (research_bus docstring): when a verdict is written, every role
\* of the plan has reported in the task's current round.
VerdictNeedsAllRoles ==
  [][\A t \in Tasks : verdicts'[t] # verdicts[t] => AllRolesDone(task[t])]_vars

\* "One idempotent terminal artifact": a task gets at most one verdict.
OneVerdict == \A t \in Tasks : Len(verdicts[t]) <= 1

\* The synthesis reads a task, and later overwrites it from what it read
\* without ever holding the queue's lock; that is sound only if nothing it
\* read has changed meanwhile.
SnapshotCurrent == \A t \in Tasks : synth[t] # NoSynth => task[t] = synth[t].rec

\* The verdict written is the one the findings on the board at that moment
\* imply, for some ageing of their manifests.
VerdictReflectsBoard ==
  [][\A t \in Tasks : verdicts'[t] # verdicts[t] =>
       \E old \in SUBSET Plan(t) :
         verdicts'[t][Len(verdicts'[t])] =
           Verdicts!DecideVerdict(Revalidated(t, old), task[t].round)]_vars

\* Escalation is bounded and only ever moves forward: rounds go up one at a
\* time to MaxRounds, a role never leaves the plan, and the adjudicator joins
\* it in the last round only.
EscalationMovesForward ==
  [][\A t \in Tasks : Known(t) =>
       /\ task'[t].round \in {task[t].round, task[t].round + 1}
       /\ task[t].plan \subseteq task'[t].plan
       /\ Adjudicator \in task'[t].plan => task'[t].round = MaxRounds]_vars

\* "Agent failure is not neutral evidence": no task with a failed role is
\* ever resolved by a verdict.
FailureIsNotEvidence ==
  \A t \in Tasks : Known(t) /\ HasFailedRole(task[t]) => task[t].status = "failed"

\* A resolved task has a pending proposal exactly when its verdict calls for
\* one, also after a synthesis died between the proposal and the queue.
ProposalMatchesVerdict ==
  \A t \in Tasks : Resolved(t) =>
    (t \in proposal <=> Verdicts!ProposalRequired(LastVerdict(t)))

\* "A finding is bound to its ... evidence hashes": the pack an accepted
\* opinion is bound to is the pack its author was given to read.
EvidenceAsRead ==
  \A t \in Tasks, r \in Roles : Known(t) /\ RoleIs(t, r, "done") =>
    LET x == board[t][r].content
    IN  x.opinion.stance # "abstain" => x.pack = x.read

\* "Round-specific evidence packs": once a task is in round k its pack is the
\* one built for round k.
RoundSpecificPack ==
  \A t \in Tasks : Known(t) /\ task[t].round > 0 => packRef[t].round = task[t].round

\* A ready board that nobody is going to reduce: every role has reported, and
\* no host, synthesis or operator's call is left to do it.
Deserted(t) ==
  /\ task[t].status = "ready_to_synthesize"
  /\ synth[t] = NoSynth /\ t \notin requests
  /\ \A w \in Workers : worker[w].pc \in {"reduce", "unanswered"} => worker[w].t # t

\* Whoever was to reduce t dies, before its synthesis or in it.
ReducerDies(t) ==
  \/ SynthDies(t)
  \/ \E w \in Workers : /\ worker[w].pc \in {"reduce", "unanswered"} /\ worker[w].t = t
                        /\ ~NothingToReduce(t) /\ HostDies(w)

\* The host whose submission completes the board calls the synthesis
\* (cmd_submit, _consume_claimed): no order of submissions, lost answers, refusals and sweeps
\* leaves a ready board without somebody to reduce it.  Only the death of the one
\* who was to do it does.
OnlyDeathDeserts ==
  [][\A t \in Tasks : ~Deserted(t) /\ Deserted(t)' => ReducerDies(t)]_vars
=============================================================================
