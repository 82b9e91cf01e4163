----------------------- MODULE ResearchCommittee_proofs -----------------------
(***************************************************************************)
(* Proofs about the research committee, for every number of tasks, hosts,  *)
(* rounds and attempts and every set of opinions.                          *)
(*                                                                         *)
(* The synthesis reads a task, decides, and overwrites the task without    *)
(* holding the queue's lock in between.  What protects it is not a lock    *)
(* but a protocol, and the invariant CommInv spells it out: the host whose *)
(* submission completed the board is the only one that synthesises it      *)
(* (Reducers), and while the task is ready the claim fence refuses every   *)
(* change to it (Quiet).  The protocol holds among hosts that crash, stall *)
(* and race; an operator's synthesis, a sweep or a repeated submission     *)
(* breaks it, which is why Orderly leaves these three out.                 *)
(***************************************************************************)
EXTENDS ResearchCommittee, ResearchBus_proofs

Orderly ==
  /\ Env \cap {"sweep", "manual", "retry"} = {}
  /\ FindingContents \subseteq Contents

Ready(u) == task[u].status = "ready_to_synthesize"

\* A step of the bus that is no resolution leaves plan and round of a task
\* alone, and a task that is ready altogether, board included.
Quiet(u) ==
  /\ Known(u) => Known(u)' /\ Plan(u)' = Plan(u) /\ task'[u].round = task[u].round
  /\ ~Known(u) => ~Known(u)' \/ task'[u] = NewTask
  /\ Ready(u) => task'[u] = task[u] /\ board'[u] = board[u]
  /\ task[u].status \in Terminal => task'[u].status = task[u].status
  /\ Resolved(u)' => Resolved(u)
  /\ \A r \in Roles : board'[u][r] = board[u][r] \/ board'[u][r].content \in FindingContents
-----------------------------------------------------------------------------
(* The calls of the bus are quiet. *)

\* Nobody passes the fence of a task that is ready.
LEMMA ReadyIsFenced ==
  ASSUME BusInv, NEW t \in Tasks, NEW r \in Roles, NEW c, Fenced(t, r, c)
  PROVE  ~Ready(t)
  BY FenceFacts DEF Ready, Sound, AllRolesDone

\* What a claim and a publication leave of the record.
LEMMA ClaimedShape ==
  ASSUME NEW rec \in TaskRecords, NEW r \in Roles, NEW c
  PROVE  LET out == Claimed(rec, r, c)
         IN  /\ out.status = "in_progress" /\ out.plan = rec.plan
             /\ out.round = rec.round
             /\ out.roles[r].status = "claimed"
             /\ \A q \in Roles : q # r => out.roles[q] = rec.roles[q]
<1>1. ClaimedRole(rec.roles[r], c).status = "claimed"
  BY DEF ClaimedRole, TaskRecords, RoleStates
<1>2. QED
  BY <1>1 DEF Claimed, TaskRecords

LEMMA PublishedShape ==
  ASSUME NEW rec \in TaskRecords, NEW r \in Roles, NEW c
  PROVE  LET out == Published(rec, r, c)
         IN  out.plan = rec.plan /\ out.round = rec.round
  BY DEF Published, TaskRecords

LEMMA EnqueueQuiet ==
  ASSUME BusInv, NEW t \in Tasks, NEW force \in BOOLEAN, Enqueue(t, force), NEW u \in Tasks
  PROVE  Quiet(u)
<1>1. ~Known(t) /\ task' = [task EXCEPT ![t] = NewTask] /\ board' = board
  BY DEF Enqueue
<1>2. task'[u] = IF u = t THEN NewTask ELSE task[u]
  BY <1>1 DEF BusInv, BusTypeOK
<1>3. ~Known(t) => ~Ready(t) /\ task[t].status \notin Terminal
  BY DEF Known, Ready, Terminal
<1>4. QED
  BY <1>1, <1>2, <1>3 DEF Quiet, Known, Plan, Ready, Resolved, NewTask

LEMMA SweptQuiet ==
  ASSUME BusInv, NEW late \in SUBSET Leases, NEW u \in Tasks
  PROVE  LET out == Swept(late)[u]
         IN  /\ Known(u) => /\ out \in TaskRecords
                            /\ out.plan = Plan(u) /\ out.round = task[u].round
             /\ ~Known(u) => out = NoTask
             /\ Ready(u) => out = task[u]
             /\ task[u].status \in Terminal => out.status = task[u].status
             /\ out.status \in {"failed", task[u].status}
<1>1. Ready(u) => Known(u) /\ task[u].status \notin Open
  BY DEF Ready, Known, Open
<1>2. task[u].status \in Terminal => Known(u) /\ task[u].status \notin Open
  BY DEF Terminal, Known, Open
<1>3. QED
  BY <1>1, <1>2, SweptSound DEF Plan, Known, NoTask

LEMMA ClaimIdleQuiet ==
  ASSUME BusInv, NEW late \in SUBSET Leases, ClaimIdle(late), NEW u \in Tasks
  PROVE  Quiet(u)
<1>1. task' = Swept(late) /\ board' = board
  BY DEF ClaimIdle
<1>2. \A rec \in TaskRecords : rec.status # "absent"
  BY DEF TaskRecords, Active, Open, Terminal
<1>3. NoTask.status = "absent"
  BY DEF NoTask
<1>4. QED
  BY <1>1, <1>2, <1>3, SweptQuiet DEF Quiet, Known, Plan, Resolved

LEMMA ClaimQuiet ==
  ASSUME BusInv, NEW t \in Tasks, NEW r \in Roles, NEW w \in Workers,
         NEW late \in SUBSET Leases, Claim(t, r, w, late), NEW u \in Tasks
  PROVE  Quiet(u)
<1> DEFINE q == Swept(late)
           c == NextClaim(t, r, w)
<1>1. /\ Served(q, t, r) /\ board' = board
      /\ task' = [q EXCEPT ![t] = Claimed(q[t], r, c)]
  BY DEF Claim
<1>2. q[t].status \in Open /\ q[t].roles[r].attempts < MaxAttempts
  BY <1>1 DEF Served, Claimable
<1>3. Known(t)
  BY <1>2, SweptSound DEF NoTask, Open
<1>4. /\ q[t] \in TaskRecords /\ Sound(q[t], issued[t], board[t])
      /\ issued[t] \in [Roles -> Nat] /\ board[t] \in Boards
  BY <1>3, SweptSound, KnownIsTyped DEF BusInv
<1>5. c \in Claims /\ c.n = issued[t][r] + 1
  BY <1>4 DEF NextClaim, Claims
<1>6. DOMAIN q = Tasks
  BY DEF Swept
<1>7. CASE u = t
  <2>1. task'[u] = Claimed(q[t], r, c)
    BY <1>1, <1>6, <1>7
  <2>2. /\ task'[u].status = "in_progress" /\ task'[u].plan = q[t].plan
        /\ task'[u].round = q[t].round
    BY <1>4, <2>1, ClaimedShape
  <2>3. ~Ready(t) /\ task[t].status \notin Terminal
    BY <1>2, SweptQuiet DEF Ready, Open, Terminal
  <2>4. q[t].plan = Plan(t) /\ q[t].round = task[t].round
    BY <1>3, SweptQuiet
  <2>5. QED
    BY <1>1, <1>3, <1>7, <2>2, <2>3, <2>4 DEF Quiet, Known, Plan, Resolved
<1>8. CASE u # t
  <2>1. task'[u] = q[u]
    BY <1>1, <1>6, <1>8
  <2>2. \A rec \in TaskRecords : rec.status # "absent"
    BY DEF TaskRecords, Active, Open, Terminal
  <2>3. NoTask.status = "absent"
    BY DEF NoTask
  <2>4. QED
    BY <1>1, <2>1, <2>2, <2>3, SweptQuiet DEF Quiet, Known, Plan, Resolved
<1>9. QED
  BY <1>7, <1>8

LEMMA SubmitQuiet ==
  ASSUME BusInv, NEW t \in Tasks, NEW r \in Roles, NEW c \in Claims,
         NEW x \in FindingContents, FindingContents \subseteq Contents,
         Submit(t, r, c, x), NEW u \in Tasks
  PROVE  Quiet(u)
<1> DEFINE b   == [content |-> x, claim |-> c]
           rec == Published(task[t], r, c)
<1>1. /\ Fenced(t, r, c) /\ task' = [task EXCEPT ![t] = rec]
      /\ board' = [board EXCEPT ![t][r] = b]
  BY DEF Submit
<1>2. b \in Findings /\ b.claim = c /\ b.content = x
  BY DEF Findings
<1>3. /\ rec \in TaskRecords /\ rec.plan = task[t].plan /\ rec.round = task[t].round
      /\ task[t].status \in Terminal => rec.status = task[t].status
      /\ rec.status \in {task[t].status, "ready_to_synthesize"}
  <2>1. /\ task[t] \in TaskRecords /\ Sound(task[t], issued[t], board[t])
        /\ issued[t] \in [Roles -> Nat] /\ board[t] \in Boards
        /\ r \in task[t].plan /\ task[t].roles[r].status = "claimed"
        /\ task[t].roles[r].claim = c
    BY <1>1, FenceFacts
  <2>2. task[t].status \in Terminal => rec.status = task[t].status
    <3> HIDE DEF b
    <3>1. QED
      BY <1>2, <2>1, PublishedSound, ZenonT(60)
  <2>3. rec.plan = task[t].plan /\ rec.round = task[t].round
    BY <2>1, PublishedShape
  <2>4. rec \in TaskRecords /\ rec.status \in {task[t].status, "ready_to_synthesize"}
    <3> HIDE DEF b
    <3>1. QED
      BY <1>2, <2>1, PublishedSound
  <2>5. QED
    BY <2>2, <2>3, <2>4
<1>4. rec.status # "absent"
  BY <1>3 DEF TaskRecords, Active, Open, Terminal
<1> HIDE DEF rec, b
<1>5. task'[u] = IF u = t THEN rec ELSE task[u]
  BY <1>1 DEF BusInv, BusTypeOK
<1>6. /\ u # t => board'[u] = board[u]
      /\ \A p \in Roles : board'[u][p] = board[u][p] \/ board'[u][p] = b
  BY <1>1 DEF BusInv, BusTypeOK
<1>7. Known(t) /\ ~Ready(t)
  BY <1>1, ReadyIsFenced DEF Fenced
<1>8. QED
  BY <1>2, <1>3, <1>4, <1>5, <1>6, <1>7 DEF Quiet, Known, Plan, Ready, Resolved

LEMMA PublishDiesQuiet ==
  ASSUME BusInv, NEW t \in Tasks, NEW r \in Roles, NEW c \in Claims,
         NEW x \in FindingContents, PublishDies(t, r, c, x), NEW u \in Tasks
  PROVE  Quiet(u)
<1> DEFINE b == [content |-> x, claim |-> c]
<1>1. Fenced(t, r, c) /\ task' = task /\ board' = [board EXCEPT ![t][r] = b]
  BY DEF PublishDies
<1>2. b.content = x
  OBVIOUS
<1> HIDE DEF b
<1>3. /\ u # t => board'[u] = board[u]
      /\ \A p \in Roles : board'[u][p] = board[u][p] \/ board'[u][p] = b
  BY <1>1 DEF BusInv, BusTypeOK
<1>4. ~Ready(t)
  BY <1>1, ReadyIsFenced
<1>5. QED
  BY <1>1, <1>2, <1>3, <1>4 DEF Quiet, Known, Plan, Resolved

LEMMA FailQuiet ==
  ASSUME BusInv, NEW t \in Tasks, NEW r \in Roles, NEW c \in Claims, NEW retry \in BOOLEAN,
         Fail(t, r, c, retry), NEW u \in Tasks
  PROVE  Quiet(u)
<1> DEFINE rec == Failed(task[t], r, retry)
<1>1. Fenced(t, r, c) /\ task' = [task EXCEPT ![t] = rec] /\ board' = board
  BY DEF Fail
<1>2. /\ rec \in TaskRecords /\ rec.plan = task[t].plan /\ rec.round = task[t].round
      /\ task[t].status \in Terminal => rec.status = task[t].status
      /\ rec.status \in {task[t].status, "failed"}
  BY <1>1, FenceFacts, FailedSound
<1>3. rec.status # "absent"
  BY <1>2 DEF TaskRecords, Active, Open, Terminal
<1> HIDE DEF rec
<1>4. task'[u] = IF u = t THEN rec ELSE task[u]
  BY <1>1 DEF BusInv, BusTypeOK
<1>5. Known(t) /\ ~Ready(t)
  BY <1>1, ReadyIsFenced DEF Fenced
<1>6. QED
  BY <1>1, <1>2, <1>3, <1>4, <1>5 DEF Quiet, Known, Plan, Ready, Resolved

LEMMA StillQuiet ==
  ASSUME UNCHANGED busVars, NEW u \in Tasks
  PROVE  Quiet(u)
  BY DEF busVars, Quiet, Known, Plan, Resolved
-----------------------------------------------------------------------------
(* The inductive invariant. *)

\* A turn before and after it is bound to a finding.  "unanswered" is missing:
\* in an orderly committee no answer is lost.
Turns == [pc : {"claimed", "working", "rejected"}, t : Tasks, r : Roles, c : Claims,
          pack : Packs \cup {NoPack}]
BoundTurns == [pc : {"validated", "reduce"}, t : Tasks, r : Roles, c : Claims,
               pack : Packs, x : FindingContents]

\* A turn of host w, where ref is the packs the tasks refer to.
TurnOK(w, turn, ref) ==
  \/ turn = Idle
  \/ /\ turn \in Turns /\ turn.c.by = w
     /\ turn.pack = NoPack => turn.pc = "claimed"
     /\ turn.pack # NoPack => ref[turn.t] # NoPack
  \/ turn \in BoundTurns /\ turn.c.by = w

HostTypes ==
  /\ facts \in 0..MaxFacts /\ requests = {} /\ proposal \subseteq Tasks
  /\ packRef \in [Tasks -> Packs \cup {NoPack}]

TurnsHold ==
  /\ DOMAIN worker = Workers
  /\ \A w \in Workers : TurnOK(w, worker[w], packRef)

\* Every finding on a board is one a host bound.
Words == \A t \in Tasks, r \in Roles :
           board[t][r] # NoFinding => board[t][r].content \in FindingContents

\* The adjudicator is in the plan in the last round only.
LastRounds == \A t \in Tasks : Known(t) /\ Adjudicator \in Plan(t) => task[t].round = MaxRounds

Reducing(w, t) == worker[w].pc = "reduce" /\ worker[w].t = t

\* Whoever is about to synthesise a task finds it ready, and is alone.
Reducers ==
  \A t \in Tasks, w \in Workers : Reducing(w, t) =>
    /\ Ready(t)
    /\ \A v \in Workers : Reducing(v, t) => v = w

\* The decision of a synthesis under way is the one its task and board imply.
Decided(t) ==
  synth[t] # NoSynth =>
    /\ synth[t].by \in Workers \ {Operator} /\ Reducing(synth[t].by, t)
    /\ synth[t].rec = task[t] /\ synth[t].directed = Directed(t)
    /\ Reported(t) = Plan(t)
    /\ \E old \in SUBSET Plan(t) :
         /\ old # {} => "slow" \in Env
         /\ synth[t].decision = Verdicts!DecideVerdict(Revalidated(t, old), task[t].round)

Deciding == DOMAIN synth = Tasks /\ \A t \in Tasks : Decided(t)

\* A task has no verdict until it is closed, and one from then on.
Closings ==
  /\ DOMAIN verdicts = Tasks
  /\ \A t \in Tasks : \/ verdicts[t] = <<>>
                      \/ task[t].status \in Terminal /\ verdicts[t] = <<verdicts[t][1]>>

CommInv ==
  /\ BusInv /\ HostTypes /\ TurnsHold /\ Words /\ LastRounds
  /\ Reducers /\ Deciding /\ Closings
-----------------------------------------------------------------------------
(* What quiet steps preserve. *)

LEMMA WordsCarry ==
  ASSUME Words, \A u \in Tasks : Quiet(u)
  PROVE  Words'
  BY DEF Words, Quiet

LEMMA LastRoundsCarry ==
  ASSUME LastRounds, \A u \in Tasks : Quiet(u)
  PROVE  LastRounds'
<1> SUFFICES ASSUME NEW t \in Tasks, Known(t)', Adjudicator \in Plan(t)'
             PROVE  task'[t].round = MaxRounds
  BY DEF LastRounds
<1>1. CASE Known(t)
  BY <1>1 DEF LastRounds, Quiet
<1>2. CASE ~Known(t)
  <2>1. task'[t] = NewTask
    BY <1>2 DEF Quiet
  <2>2. QED
    BY <2>1, BusAssumption DEF Plan, NewTask
<1>3. QED
  BY <1>1, <1>2

LEMMA ReducersCarry ==
  ASSUME Reducers, \A u \in Tasks : Quiet(u),
         \A w \in Workers, t \in Tasks : Reducing(w, t)' => Reducing(w, t)
  PROVE  Reducers'
  BY DEF Reducers, Quiet, Ready

\* A synthesis under way is not disturbed while its task, its board and its
\* host stay as they are.
LEMMA DecidedCarry ==
  ASSUME NEW t \in Tasks, Decided(t), synth'[t] = synth[t],
         synth[t] # NoSynth => /\ task'[t] = task[t] /\ board'[t] = board[t]
                               /\ Reducing(synth[t].by, t)'
  PROVE  Decided(t)'
<1> SUFFICES ASSUME synth[t] # NoSynth PROVE Decided(t)'
  BY DEF Decided
<1>1. /\ Plan(t)' = Plan(t) /\ Directed(t)' = Directed(t) /\ Reported(t)' = Reported(t)
      /\ task'[t].round = task[t].round
  BY DEF Plan, Directed, Reported
<1>2. ASSUME NEW old \in SUBSET Plan(t)
      PROVE  Revalidated(t, old)' = Revalidated(t, old)
  BY DEF Revalidated, Plan
<1>3. PICK old \in SUBSET Plan(t) :
        /\ old # {} => "slow" \in Env
        /\ synth[t].decision = Verdicts!DecideVerdict(Revalidated(t, old), task[t].round)
  BY DEF Decided
<1>4. synth'[t].decision = Verdicts!DecideVerdict(Revalidated(t, old)', task'[t].round)
  BY <1>1, <1>2, <1>3
<1>5. QED
  BY <1>1, <1>3, <1>4 DEF Decided

LEMMA DecidingCarry ==
  ASSUME Deciding, Reducers, \A u \in Tasks : Quiet(u), synth' = synth,
         \A t \in Tasks : synth[t] # NoSynth => Reducing(synth[t].by, t)'
  PROVE  Deciding'
<1>1. ASSUME NEW t \in Tasks, synth[t] # NoSynth
      PROVE  task'[t] = task[t] /\ board'[t] = board[t]
  BY <1>1 DEF Deciding, Decided, Reducers, Quiet
<1>2. ASSUME NEW t \in Tasks
      PROVE  Decided(t)'
  BY <1>1, DecidedCarry DEF Deciding
<1>3. QED
  BY <1>2 DEF Deciding

LEMMA ClosingsCarry ==
  ASSUME Closings, \A u \in Tasks : Quiet(u), verdicts' = verdicts
  PROVE  Closings'
  BY DEF Closings, Quiet

\* One host moves to turn v; the tasks keep the packs they have.
LEMMA TurnChanges ==
  ASSUME TurnsHold, NEW w \in Workers, NEW v, worker' = [worker EXCEPT ![w] = v],
         TurnOK(w, v, packRef'),
         \A t \in Tasks : packRef[t] # NoPack => packRef'[t] # NoPack
  PROVE  TurnsHold'
<1>1. \A u \in Workers : worker'[u] = IF u = w THEN v ELSE worker[u]
  BY DEF TurnsHold
<1>2. ASSUME NEW u \in Workers PROVE TurnOK(u, worker'[u], packRef')
  <2>1. CASE u = w
    BY <1>1, <2>1
  <2>2. CASE u # w
    <3>1. TurnOK(u, worker[u], packRef) /\ worker'[u] = worker[u]
      BY <1>1, <2>2 DEF TurnsHold
    <3>2. QED
      BY <3>1 DEF TurnOK, Turns
  <2>3. QED
    BY <2>1, <2>2
<1>3. QED
  BY <1>2 DEF TurnsHold, TurnOK

\* A quiet step in which the host w moves to turn v and is not, or no longer,
\* one that synthesises.
LEMMA CalmStep ==
  ASSUME CommInv, BusInv', \A u \in Tasks : Quiet(u), HostTypes',
         UNCHANGED <<synth, verdicts>>,
         NEW w \in Workers, NEW v, worker' = [worker EXCEPT ![w] = v],
         TurnOK(w, v, packRef'), v.pc # "reduce",
         \A t \in Tasks : packRef[t] # NoPack => packRef'[t] # NoPack,
         \A t \in Tasks : synth[t] # NoSynth => synth[t].by # w
  PROVE  CommInv'
<1>1. \A u \in Workers : worker'[u] = IF u = w THEN v ELSE worker[u]
  BY DEF CommInv, TurnsHold
<1>2. TurnsHold'
  BY TurnChanges DEF CommInv
<1>3. \A u \in Workers, t \in Tasks : Reducing(u, t)' => Reducing(u, t)
  BY <1>1 DEF Reducing
<1>4. \A t \in Tasks : synth[t] # NoSynth => Reducing(synth[t].by, t)'
  BY <1>1 DEF CommInv, Deciding, Decided, Reducing
<1>5. QED
  BY <1>2, <1>3, <1>4, WordsCarry, LastRoundsCarry, ReducersCarry, DecidingCarry,
     ClosingsCarry DEF CommInv

\* The same for a step that moves no host.
LEMMA StillStep ==
  ASSUME CommInv, BusInv', \A u \in Tasks : Quiet(u), HostTypes',
         UNCHANGED <<synth, verdicts, worker, packRef>>
  PROVE  CommInv'
<1>1. TurnsHold'
  BY DEF CommInv, TurnsHold, TurnOK
<1>2. \A u \in Workers, t \in Tasks : Reducing(u, t)' = Reducing(u, t)
  BY DEF Reducing
<1>3. \A t \in Tasks : synth[t] # NoSynth => Reducing(synth[t].by, t)'
  BY DEF CommInv, Deciding, Decided, Reducing
<1>4. QED
  BY <1>1, <1>2, <1>3, WordsCarry, LastRoundsCarry, ReducersCarry, DecidingCarry,
     ClosingsCarry DEF CommInv
-----------------------------------------------------------------------------
(* The steps of a host.  Each is a step of the bus, or leaves it alone. *)

LEMMA NotReducing ==
  ASSUME CommInv, NEW w \in Workers, worker[w].pc # "reduce"
  PROVE  \A t \in Tasks : synth[t] # NoSynth => synth[t].by # w
  BY DEF CommInv, Deciding, Decided, Reducing

\* What a turn is made of, by where it stands.
LEMMA TurnFacts ==
  ASSUME CommInv, NEW w \in Workers
  PROVE  /\ worker[w].pc \in {"claimed", "working", "rejected"} =>
              /\ worker[w] \in Turns /\ worker[w].c.by = w
              /\ worker[w].pack = NoPack => worker[w].pc = "claimed"
              /\ worker[w].pack # NoPack => packRef[worker[w].t] # NoPack
         /\ worker[w].pc \in {"validated", "reduce"} =>
              worker[w] \in BoundTurns /\ worker[w].c.by = w
         /\ worker[w].pc \in {"idle", "claimed", "working", "rejected", "validated", "reduce"}
<1>1. TurnOK(w, worker[w], packRef)
  BY DEF CommInv, TurnsHold
<1>2. Idle.pc = "idle"
  BY DEF Idle
<1>3. QED
  BY <1>1, <1>2 DEF TurnOK, Turns, BoundTurns

\* A host that goes idle without touching the bus.
LEMMA HostRests ==
  ASSUME CommInv, NEW w \in Workers, worker' = [worker EXCEPT ![w] = Idle],
         UNCHANGED <<busVars, facts, packRef, synthVars>>,
         \A t \in Tasks : synth[t] # NoSynth => synth[t].by # w
  PROVE  CommInv'
<1>1. \A u \in Tasks : Quiet(u)
  BY StillQuiet
<1>2. BusInv'
  BY BusStepInv DEF CommInv
<1>3. HostTypes' /\ UNCHANGED <<synth, verdicts>>
  BY DEF CommInv, HostTypes, synthVars
<1>4. TurnOK(w, Idle, packRef') /\ Idle.pc # "reduce"
  BY DEF TurnOK, Idle
<1>5. QED
  BY <1>1, <1>2, <1>3, <1>4, CalmStep

LEMMA TakeStep ==
  ASSUME CommInv, NEW w \in Workers, NEW t \in Tasks, NEW r \in Roles,
         NEW late \in SUBSET MayLapse, Take(w, t, r, late)
  PROVE  BusNext /\ CommInv'
<1> DEFINE v == Turn("claimed", t, r, NextClaim(t, r, w), packRef[t])
<1>1. /\ ~Busy(w) /\ Claim(t, r, w, late) /\ late \in SUBSET Leases
      /\ worker' = [worker EXCEPT ![w] = v]
      /\ UNCHANGED <<facts, packRef, synthVars>>
  BY DEF Take, MayLapse
<1>2. BusNext
  BY <1>1 DEF BusNext
<1>3. BusInv' /\ \A u \in Tasks : Quiet(u)
  BY <1>1, <1>2, BusStepInv, ClaimQuiet DEF CommInv
<1>4. HostTypes' /\ UNCHANGED <<synth, verdicts>>
  BY <1>1 DEF CommInv, HostTypes, synthVars
<1>5. NextClaim(t, r, w) \in Claims /\ NextClaim(t, r, w).by = w
  BY DEF CommInv, BusInv, BusTypeOK, NextClaim, Claims
<1>6. TurnOK(w, v, packRef') /\ v.pc # "reduce"
  BY <1>1, <1>5 DEF TurnOK, Turns, Turn, CommInv, HostTypes
<1>7. \A u \in Tasks : synth[u] # NoSynth => synth[u].by # w
  BY <1>1, NotReducing DEF Busy
<1> HIDE DEF v
<1>8. CommInv'
  BY <1>1, <1>3, <1>4, <1>6, <1>7, CalmStep
<1>9. QED
  BY <1>2, <1>8

LEMMA TakeNothingStep ==
  ASSUME CommInv, NEW w \in Workers, NEW late \in SUBSET MayLapse, TakeNothing(w, late)
  PROVE  BusNext /\ CommInv'
<1>1. ClaimIdle(late) /\ late \in SUBSET Leases /\ UNCHANGED <<hostVars, synthVars>>
  BY DEF TakeNothing, MayLapse
<1>2. BusNext
  BY <1>1 DEF BusNext
<1>3. BusInv' /\ \A u \in Tasks : Quiet(u)
  BY <1>1, <1>2, BusStepInv, ClaimIdleQuiet DEF CommInv
<1>4. HostTypes' /\ UNCHANGED <<synth, verdicts, worker, packRef>>
  BY <1>1 DEF CommInv, HostTypes, synthVars, hostVars
<1>5. QED
  BY <1>2, <1>3, <1>4, StillStep

LEMMA TakeDiesStep ==
  ASSUME CommInv, NEW w \in Workers, NEW t \in Tasks, TakeDies(w, t)
  PROVE  BusNext /\ CommInv'
<1>1. ClaimDies(t) /\ UNCHANGED <<hostVars, synthVars>>
  BY DEF TakeDies
<1>2. BusNext
  BY <1>1 DEF BusNext
<1>3. \A u \in Tasks : Quiet(u)
  BY <1>1 DEF ClaimDies, Quiet, Known, Plan, Resolved
<1>4. BusInv'
  BY <1>2, BusStepInv DEF CommInv
<1>5. HostTypes' /\ UNCHANGED <<synth, verdicts, worker, packRef>>
  BY <1>1 DEF CommInv, HostTypes, synthVars, hostVars
<1>6. QED
  BY <1>2, <1>3, <1>4, <1>5, StillStep

LEMMA SubmittedStep ==
  ASSUME CommInv, NEW t \in Tasks, NEW force \in BOOLEAN, Submitted(t, force)
  PROVE  BusNext /\ CommInv'
<1>1. Enqueue(t, force) /\ UNCHANGED <<hostVars, synthVars>>
  BY DEF Submitted
<1>2. BusNext
  BY <1>1 DEF BusNext
<1>3. BusInv' /\ \A u \in Tasks : Quiet(u)
  BY <1>1, <1>2, BusStepInv, EnqueueQuiet DEF CommInv
<1>4. HostTypes' /\ UNCHANGED <<synth, verdicts, worker, packRef>>
  BY <1>1 DEF CommInv, HostTypes, synthVars, hostVars
<1>5. QED
  BY <1>2, <1>3, <1>4, StillStep

LEMMA FactsMoveStep ==
  ASSUME CommInv, FactsMove
  PROVE  UNCHANGED busVars /\ CommInv'
<1>1. facts' = facts + 1 /\ facts < MaxFacts /\ UNCHANGED <<busVars, packRef, worker, synthVars>>
  BY DEF FactsMove
<1>2. BusInv' /\ \A u \in Tasks : Quiet(u)
  BY <1>1, BusStepInv, StillQuiet DEF CommInv
<1>3. HostTypes' /\ UNCHANGED <<synth, verdicts, worker, packRef>>
  BY <1>1, CommitteeAssumption DEF CommInv, HostTypes, synthVars
<1>4. QED
  BY <1>1, <1>2, <1>3, StillStep

LEMMA HostDiesStep ==
  ASSUME CommInv, NEW w \in Workers, HostDies(w)
  PROVE  UNCHANGED busVars /\ CommInv'
  BY HostRests DEF HostDies

LEMMA SubmitFencedStep ==
  ASSUME CommInv, NEW w \in Workers, SubmitFenced(w)
  PROVE  UNCHANGED busVars /\ CommInv'
  BY HostRests, NotReducing DEF SubmitFenced

\* An answer is never lost in an orderly committee.
LEMMA SubmitAgainNever ==
  ASSUME CommInv, NEW w \in Workers
  PROVE  ~SubmitAgain(w)
  BY TurnFacts DEF SubmitAgain

LEMMA PacksHaveFacts == NoPack \notin Packs
  BY CommitteeAssumption DEF NoPack, Packs

LEMMA EnsurePackStep ==
  ASSUME CommInv, NEW w \in Workers, EnsurePack(w)
  PROVE  UNCHANGED busVars /\ CommInv'
<1> DEFINE turn  == worker[w]
           built == [facts |-> facts, round |-> 0]
<1>1. turn.pc = "claimed" /\ UNCHANGED <<busVars, facts, synthVars>>
  BY DEF EnsurePack
<1>2. turn \in Turns /\ turn.c.by = w /\ (turn.pack # NoPack => packRef[turn.t] # NoPack)
  BY <1>1, TurnFacts
<1>3. built \in Packs /\ built # NoPack
  BY BusAssumption, CommitteeAssumption DEF CommInv, HostTypes, Packs, NoPack
<1>4. BusInv' /\ \A u \in Tasks : Quiet(u)
  BY <1>1, BusStepInv, StillQuiet DEF CommInv
<1>5. UNCHANGED <<synth, verdicts>> /\ \A u \in Tasks : synth[u] # NoSynth => synth[u].by # w
  BY <1>1, NotReducing DEF synthVars
<1>6. CASE turn.pack = NoPack
  <2> DEFINE v == [turn EXCEPT !.pc = "working", !.pack = built]
  <2>1. /\ packRef' = [packRef EXCEPT ![turn.t] = built]
        /\ worker' = [worker EXCEPT ![w] = v]
    BY <1>6 DEF EnsurePack
  <2>2. v \in Turns /\ v.t = turn.t /\ v.c = turn.c /\ v.pack = built /\ v.pc = "working"
    BY <1>2, <1>3 DEF Turns
  <2> HIDE DEF v, built
  <2>3. turn.t \in Tasks /\ packRef \in [Tasks -> Packs \cup {NoPack}]
    BY <1>2 DEF Turns, CommInv, HostTypes
  <2> HIDE DEF turn
  <2>4. /\ HostTypes' /\ packRef'[turn.t] = built
        /\ \A u \in Tasks : packRef[u] # NoPack => packRef'[u] # NoPack
    BY <1>1, <1>3, <2>1, <2>3 DEF CommInv, HostTypes, synthVars
  <2>5. TurnOK(w, v, packRef')
    BY <1>2, <1>3, <2>2, <2>4 DEF TurnOK
  <2>6. CommInv'
    BY <1>4, <1>5, <2>1, <2>2, <2>4, <2>5, CalmStep
  <2>7. QED
    BY <1>1, <2>6
<1>7. CASE turn.pack # NoPack
  <2> DEFINE v == [turn EXCEPT !.pc = "working"]
  <2>1. packRef' = packRef /\ worker' = [worker EXCEPT ![w] = v]
    BY <1>7 DEF EnsurePack
  <2>2. v \in Turns /\ v.t = turn.t /\ v.c = turn.c /\ v.pack = turn.pack /\ v.pc = "working"
    BY <1>2 DEF Turns
  <2> HIDE DEF v, built
  <2>3. TurnOK(w, v, packRef')
    BY <1>2, <1>7, <2>1, <2>2 DEF TurnOK
  <2>4. HostTypes'
    BY <1>1, <2>1 DEF CommInv, HostTypes, synthVars
  <2>5. CommInv'
    BY <1>4, <1>5, <2>1, <2>2, <2>3, <2>4, CalmStep
  <2>6. QED
    BY <1>1, <2>5
<1>8. QED
  BY <1>6, <1>7

LEMMA ValidateStep ==
  ASSUME CommInv, NEW w \in Workers, NEW o \in Opinions, Validate(w, o)
  PROVE  UNCHANGED busVars /\ CommInv'
<1> DEFINE turn  == worker[w]
           x     == [opinion |-> o, pack |-> BoundPack(w), read |-> turn.pack]
           bound == o.stance = "abstain" \/ x.pack = packRef[turn.t]
           v     == IF bound THEN WithFinding(turn, "validated", x)
                    ELSE [turn EXCEPT !.pc = "rejected"]
<1>1. /\ turn.pc = "working" /\ worker' = [worker EXCEPT ![w] = v]
      /\ UNCHANGED <<busVars, facts, packRef, synthVars>>
  BY DEF Validate
<1>2. /\ turn \in Turns /\ turn.c.by = w
      /\ turn.pack # NoPack /\ packRef[turn.t] # NoPack
  BY <1>1, TurnFacts
<1>3. turn.pack \in Packs /\ packRef[turn.t] \in Packs
  BY <1>2 DEF Turns, CommInv, HostTypes
<1>4. x \in FindingContents
  BY <1>3 DEF BoundPack, FindingContents
<1> HIDE DEF x, bound
<1>5. TurnOK(w, v, packRef') /\ v.pc # "reduce"
  <2>1. CASE bound
    <3>1. v = WithFinding(turn, "validated", x)
      BY <2>1
    <3>2. v \in BoundTurns /\ v.c.by = w /\ v.pc = "validated"
      BY <1>2, <1>3, <1>4, <3>1 DEF BoundTurns, Turns, WithFinding
    <3>3. QED
      BY <3>2 DEF TurnOK
  <2>2. CASE ~bound
    <3>1. v = [turn EXCEPT !.pc = "rejected"]
      BY <2>2
    <3>2. v \in Turns /\ v.c = turn.c /\ v.pack = turn.pack /\ v.t = turn.t /\ v.pc = "rejected"
      BY <1>2, <3>1 DEF Turns
    <3>3. QED
      BY <1>1, <1>2, <3>2 DEF TurnOK
  <2>3. QED
    BY <2>1, <2>2
<1>6. BusInv' /\ \A u \in Tasks : Quiet(u)
  BY <1>1, BusStepInv, StillQuiet DEF CommInv
<1>7. UNCHANGED <<synth, verdicts>> /\ \A u \in Tasks : synth[u] # NoSynth => synth[u].by # w
  BY <1>1, NotReducing DEF synthVars
<1>8. HostTypes'
  BY <1>1 DEF CommInv, HostTypes, synthVars
<1> HIDE DEF v
<1>9. CommInv'
  BY <1>1, <1>5, <1>6, <1>7, <1>8, CalmStep
<1>10. QED
  BY <1>1, <1>9

\* A claim that passes the fence is one the bus has issued.
LEMMA FencedIsPresentable ==
  ASSUME CommInv, NEW t \in Tasks, NEW r \in Roles, NEW c \in Claims, Fenced(t, r, c)
  PROVE  c \in Presentable(t, r)
<1>1. c.n = issued[t][r] /\ issued[t][r] \in Nat
  BY FenceFacts DEF CommInv, Sound, SoundRole
<1>2. QED
  BY <1>1 DEF Claims, Presentable

LEMMA GiveUpStep ==
  ASSUME CommInv, NEW w \in Workers, NEW retry \in BOOLEAN, GiveUp(w, retry)
  PROVE  [BusNext]_busVars /\ CommInv'
<1> DEFINE turn == worker[w]
<1>1. /\ turn.pc \in {"working", "rejected"} /\ worker' = [worker EXCEPT ![w] = Idle]
      /\ UNCHANGED <<facts, packRef, synthVars>>
  BY DEF GiveUp
<1>2. turn \in Turns
  BY <1>1, TurnFacts
<1>3. \A u \in Tasks : synth[u] # NoSynth => synth[u].by # w
  BY <1>1, NotReducing
<1>4. CASE Fenced(turn.t, turn.r, turn.c)
  <2>1. Fail(turn.t, turn.r, turn.c, retry)
    BY <1>4 DEF GiveUp
  <2>2. turn.t \in Tasks /\ turn.r \in Roles /\ turn.c \in Claims
    BY <1>2 DEF Turns
  <2> HIDE DEF turn
  <2>3. BusNext
    BY <1>4, <2>1, <2>2, FencedIsPresentable DEF BusNext
  <2>4. BusInv' /\ \A u \in Tasks : Quiet(u)
    BY <2>1, <2>2, <2>3, BusStepInv, FailQuiet DEF CommInv
  <2>5. HostTypes' /\ UNCHANGED <<synth, verdicts>>
    BY <1>1 DEF CommInv, HostTypes, synthVars
  <2>6. TurnOK(w, Idle, packRef') /\ Idle.pc # "reduce"
    BY DEF TurnOK, Idle
  <2>7. CommInv'
    BY <1>1, <1>3, <2>4, <2>5, <2>6, CalmStep
  <2>8. QED
    BY <2>3, <2>7
<1>5. CASE ~Fenced(turn.t, turn.r, turn.c)
  <2>1. UNCHANGED busVars
    BY <1>5 DEF GiveUp
  <2>2. QED
    BY <1>1, <1>3, <2>1, HostRests
<1>6. QED
  BY <1>4, <1>5

LEMMA SubmitDiesStep ==
  ASSUME Orderly, CommInv, NEW w \in Workers, SubmitDies(w)
  PROVE  BusNext /\ CommInv'
<1> DEFINE turn == worker[w]
<1>1. /\ turn.pc = "validated" /\ worker' = [worker EXCEPT ![w] = Idle]
      /\ PublishDies(turn.t, turn.r, turn.c, turn.x)
      /\ UNCHANGED <<facts, packRef, synthVars>>
  BY DEF SubmitDies
<1>2. turn \in BoundTurns
  BY <1>1, TurnFacts
<1>3. \A u \in Tasks : synth[u] # NoSynth => synth[u].by # w
  BY <1>1, NotReducing
<1>4. /\ turn.t \in Tasks /\ turn.r \in Roles /\ turn.c \in Claims
      /\ turn.x \in FindingContents /\ turn.x \in Contents
  BY <1>2 DEF BoundTurns, Orderly
<1> HIDE DEF turn
<1>5. Fenced(turn.t, turn.r, turn.c)
  BY <1>1 DEF PublishDies
<1>6. BusNext
  BY <1>1, <1>4, <1>5, FencedIsPresentable DEF BusNext
<1>7. BusInv' /\ \A u \in Tasks : Quiet(u)
  BY <1>1, <1>4, <1>6, BusStepInv, PublishDiesQuiet DEF CommInv
<1>8. HostTypes' /\ UNCHANGED <<synth, verdicts>>
  BY <1>1 DEF CommInv, HostTypes, synthVars
<1>9. TurnOK(w, Idle, packRef') /\ Idle.pc # "reduce"
  BY DEF TurnOK, Idle
<1>10. CommInv'
  BY <1>1, <1>3, <1>7, <1>8, <1>9, CalmStep
<1>11. QED
  BY <1>6, <1>10

\* A submission that completes the board makes its host the reducer: the task
\* was not ready before, so no other host was one.
LEMMA SubmitAcceptedStep ==
  ASSUME Orderly, CommInv, NEW w \in Workers, SubmitAccepted(w)
  PROVE  BusNext /\ CommInv'
<1> DEFINE turn == worker[w]
           done == AllRolesDone(Published(task[turn.t], turn.r, turn.c))
           v    == After(w, done)
<1>1. /\ turn.pc = "validated" /\ worker' = [worker EXCEPT ![w] = v]
      /\ Submit(turn.t, turn.r, turn.c, turn.x)
      /\ UNCHANGED <<facts, packRef, synthVars>>
  BY DEF SubmitAccepted, Orderly
<1>2. turn \in BoundTurns /\ turn.c.by = w
  BY <1>1, TurnFacts
<1>3. \A u \in Tasks : synth[u] # NoSynth => synth[u].by # w
  BY <1>1, NotReducing
<1>4. /\ turn.t \in Tasks /\ turn.r \in Roles /\ turn.c \in Claims
      /\ turn.x \in FindingContents /\ turn.x \in Contents
  BY <1>2 DEF BoundTurns, Orderly
<1>5. v = IF done THEN [turn EXCEPT !.pc = "reduce"] ELSE Idle
  BY DEF After
<1>6. done => v \in BoundTurns /\ v.c = turn.c /\ v.pc = "reduce" /\ v.t = turn.t
  BY <1>2, <1>5 DEF BoundTurns
<1>7. ~done => v = Idle
  BY <1>5
<1> HIDE DEF v
<1>0. PICK t \in Tasks : t = turn.t
  BY <1>4
<1> DEFINE rec == Published(task[t], turn.r, turn.c)
<1>8. done => task'[t].status = "ready_to_synthesize"
  <2>1. task' = [task EXCEPT ![t] = rec]
    BY <1>0, <1>1 DEF Submit
  <2>2. task'[t] = rec
    BY <1>4, <2>1 DEF CommInv, BusInv, BusTypeOK
  <2>3. /\ task[t] \in TaskRecords /\ task[t].roles[turn.r] \in RoleStates
        /\ turn.r \in Roles
    BY <1>0, <1>1, <1>4, FenceFacts DEF Submit, CommInv, TaskRecords
  <2>4. done => rec.status = "ready_to_synthesize"
    <3> DEFINE marked == [task[t] EXCEPT !.roles[turn.r] =
                            PublishedRole(task[t].roles[turn.r], turn.c)]
    <3>1. marked \in TaskRecords
      BY <1>4, <2>3, RolePublished, SetRole
    <3>2. rec = IF AllRolesDone(marked)
                THEN [marked EXCEPT !.status = "ready_to_synthesize"] ELSE marked
      BY DEF Published
    <3> HIDE DEF marked
    <3>3. CASE AllRolesDone(marked)
      BY <3>1, <3>2, <3>3, SetStatus DEF Active
    <3>4. CASE ~AllRolesDone(marked)
      <4>1. rec = marked /\ (done <=> AllRolesDone(rec))
        BY <1>0, <3>2, <3>4
      <4>2. QED
        BY <3>4, <4>1
    <3>5. QED
      BY <3>3, <3>4
  <2>5. QED
    BY <1>0, <2>2, <2>4
<1> HIDE DEF rec
<1>9. Fenced(turn.t, turn.r, turn.c)
  BY <1>1 DEF Submit
<1> HIDE DEF turn, done
<1>10. BusNext
  BY <1>1, <1>4, <1>9, FencedIsPresentable DEF BusNext
<1>11. BusInv' /\ \A u \in Tasks : Quiet(u)
  BY <1>1, <1>4, <1>10, BusStepInv, SubmitQuiet DEF CommInv, Orderly
<1>12. HostTypes' /\ UNCHANGED <<synth, verdicts>>
  BY <1>1 DEF CommInv, HostTypes, synthVars
<1>13. CASE ~done
  <2>1. TurnOK(w, v, packRef') /\ v.pc # "reduce"
    BY <1>7, <1>13 DEF TurnOK, Idle
  <2>2. CommInv'
    BY <1>1, <1>3, <1>11, <1>12, <2>1, CalmStep
  <2>3. QED
    BY <1>10, <2>2
<1>14. CASE done
  <2>1. \A u \in Workers : worker'[u] = IF u = w THEN v ELSE worker[u]
    BY <1>1 DEF CommInv, TurnsHold
  <2>2. TurnsHold'
    <3>1. DOMAIN worker' = Workers
      BY <1>1 DEF CommInv, TurnsHold
    <3>2. ASSUME NEW u \in Workers PROVE TurnOK(u, worker'[u], packRef')
      <4>1. CASE u = w
        BY <1>2, <1>6, <1>14, <2>1, <4>1 DEF TurnOK, turn
      <4>2. CASE u # w
        BY <1>1, <2>1, <4>2 DEF CommInv, TurnsHold
      <4>3. QED
        BY <4>1, <4>2
    <3>3. QED
      BY <3>1, <3>2 DEF TurnsHold, TurnOK
  <2>3. ~Ready(t) /\ task'[t].status = "ready_to_synthesize"
    BY <1>0, <1>4, <1>8, <1>9, <1>14, ReadyIsFenced DEF CommInv
  <2>4. Reducers'
    <3> SUFFICES ASSUME NEW u \in Tasks, NEW a \in Workers, Reducing(a, u)'
                 PROVE  Ready(u)' /\ \A b \in Workers : Reducing(b, u)' => b = a
      BY DEF Reducers
    <3>1. CASE u = t
      <4>1. \A b \in Workers : Reducing(b, t)' => b = w
        BY <2>1, <2>3 DEF CommInv, Reducers, Reducing
      <4>2. QED
        BY <2>3, <3>1, <4>1 DEF Ready
    <3>2. CASE u # t
      <4>1. \A b \in Workers : Reducing(b, u)' => Reducing(b, u)
        BY <1>0, <1>6, <1>14, <2>1, <3>2 DEF Reducing
      <4>2. Ready(u) /\ \A b \in Workers : Reducing(b, u) => b = a
        BY <4>1 DEF CommInv, Reducers
      <4>3. QED
        BY <1>11, <4>1, <4>2 DEF Quiet, Ready
    <3>3. QED
      BY <3>1, <3>2
  <2>5. \A u \in Tasks : synth[u] # NoSynth => Reducing(synth[u].by, u)'
    BY <1>3, <1>12, <2>1 DEF CommInv, Deciding, Decided, Reducing
  <2>6. CommInv'
    BY <1>11, <1>12, <2>2, <2>4, <2>5, WordsCarry, LastRoundsCarry, DecidingCarry,
       ClosingsCarry DEF CommInv
  <2>7. QED
    BY <1>10, <2>6
<1>15. QED
  BY <1>13, <1>14
-----------------------------------------------------------------------------
(* The steps of the synthesis. *)

\* Only a host that completed a board ever calls it.
LEMMA CallerReduces ==
  ASSUME CommInv, NEW t \in Tasks, NEW by \in Workers \cup {Operator}, Caller(t, by)
  PROVE  by \in Workers \ {Operator} /\ Reducing(by, t)
  BY DEF Caller, CommInv, HostTypes, Reducing

LEMMA SynthRefusedStep ==
  ASSUME CommInv, NEW t \in Tasks, NEW by \in Workers \cup {Operator}, SynthRefused(t, by)
  PROVE  UNCHANGED busVars /\ CommInv'
<1>1. /\ synth[t] = NoSynth /\ Caller(t, by) /\ Dismiss(t, by)
      /\ UNCHANGED <<busVars, facts, packRef, synth, verdicts, proposal>>
  BY DEF SynthRefused
<1>2. by \in Workers \ {Operator} /\ Reducing(by, t)
  BY <1>1, CallerReduces
<1>3. worker' = [worker EXCEPT ![by] = Idle] /\ requests' = requests
  BY <1>1, <1>2 DEF Dismiss
<1>4. \A u \in Tasks : synth[u] # NoSynth => synth[u].by # by
  BY <1>1, <1>2 DEF CommInv, Deciding, Decided, Reducing
<1>5. CommInv'
  BY <1>1, <1>2, <1>3, <1>4, HostRests DEF synthVars
<1>6. QED
  BY <1>1, <1>5

LEMMA SynthBeginStep ==
  ASSUME CommInv, NEW t \in Tasks, NEW by \in Workers \cup {Operator},
         NEW old \in SUBSET Plan(t), SynthBegin(t, by, old)
  PROVE  UNCHANGED busVars /\ CommInv'
<1> DEFINE d == Verdicts!DecideVerdict(Revalidated(t, old), task[t].round)
           s == [by |-> by, rec |-> task[t], directed |-> Directed(t), decision |-> d]
<1>1. /\ Caller(t, by) /\ Reported(t) = Plan(t) /\ synth' = [synth EXCEPT ![t] = s]
      /\ old # {} => "slow" \in Env
      /\ UNCHANGED <<busVars, hostVars, requests, verdicts, proposal>>
  BY DEF SynthBegin, NothingToReduce
<1>2. by \in Workers \ {Operator} /\ Reducing(by, t)
  BY <1>1, CallerReduces
<1>3. BusInv' /\ \A u \in Tasks : Quiet(u)
  BY <1>1, BusStepInv, StillQuiet DEF CommInv
<1>4. \A v \in Workers, u \in Tasks : Reducing(v, u)' = Reducing(v, u)
  BY <1>1 DEF Reducing, hostVars
<1>5. HostTypes' /\ TurnsHold'
  BY <1>1 DEF CommInv, HostTypes, TurnsHold, TurnOK, hostVars
<1>6. Deciding'
  <2>1. s.by = by /\ s.rec = task[t] /\ s.directed = Directed(t) /\ s.decision = d
    OBVIOUS
  <2> HIDE DEF s
  <2>2. DOMAIN synth' = Tasks /\ \A u \in Tasks : synth'[u] = IF u = t THEN s ELSE synth[u]
    BY <1>1 DEF CommInv, Deciding
  <2>3. /\ task' = task /\ board' = board
        /\ Plan(t)' = Plan(t) /\ Directed(t)' = Directed(t) /\ Reported(t)' = Reported(t)
        /\ Revalidated(t, old)' = Revalidated(t, old)
    BY <1>1 DEF busVars, Plan, Directed, Reported, Revalidated
  <2>4. Decided(t)'
    BY <1>1, <1>2, <1>4, <2>1, <2>2, <2>3 DEF Decided
  <2>5. ASSUME NEW u \in Tasks, u # t PROVE Decided(u)'
    <3>1. Decided(u) /\ synth'[u] = synth[u]
      BY <2>2, <2>5 DEF CommInv, Deciding
    <3>2. synth[u] # NoSynth => Reducing(synth[u].by, u)'
      BY <1>1, <3>1 DEF Decided, Reducing, hostVars
    <3>3. QED
      BY <2>3, <3>1, <3>2, DecidedCarry
  <2>6. QED
    BY <2>2, <2>4, <2>5 DEF Deciding
<1>7. CommInv'
  BY <1>1, <1>3, <1>4, <1>5, <1>6, WordsCarry, LastRoundsCarry, ReducersCarry,
     ClosingsCarry DEF CommInv
<1>8. QED
  BY <1>1, <1>7

\* A synthesis ends: its host is done, and no other task is concerned.
LEMMA SynthEnds ==
  ASSUME CommInv, NEW t \in Tasks, synth[t] # NoSynth, Release(t),
         BusInv', board' = board, \A u \in Tasks : u # t => task'[u] = task[u],
         facts' = facts, proposal' \in SUBSET Tasks, LastRounds', Closings',
         packRef' \in [Tasks -> Packs \cup {NoPack}],
         \A u \in Tasks : packRef[u] # NoPack => packRef'[u] # NoPack
  PROVE  CommInv'
<1>0. PICK by \in Workers : by = synth[t].by /\ by # Operator /\ Reducing(by, t)
  BY DEF CommInv, Deciding, Decided
<1>1. /\ synth' = [synth EXCEPT ![t] = NoSynth] /\ requests' = requests
      /\ worker' = [worker EXCEPT ![by] = Idle]
  BY <1>0 DEF Release, Dismiss
<1>2. HostTypes'
  BY <1>1 DEF CommInv, HostTypes
<1>3. TurnsHold'
  <2>1. TurnOK(by, Idle, packRef')
    BY DEF TurnOK
  <2>2. QED
    BY <1>1, <2>1, TurnChanges DEF CommInv
<1>4. Words'
  BY DEF CommInv, Words
<1>5. \A v \in Workers, u \in Tasks : Reducing(v, u)' <=> v # by /\ Reducing(v, u)
  <2>1. \A v \in Workers : worker'[v] = IF v = by THEN Idle ELSE worker[v]
    BY <1>1 DEF CommInv, TurnsHold
  <2>2. Idle.pc # "reduce"
    BY DEF Idle
  <2>3. QED
    BY <2>1, <2>2 DEF Reducing
<1>6. \A v \in Workers, u \in Tasks : Reducing(v, u)' => u # t
  BY <1>0, <1>5 DEF CommInv, Reducers
<1>7. Reducers'
  BY <1>5, <1>6 DEF CommInv, Reducers, Ready
<1>8. Deciding'
  <2>1. /\ DOMAIN synth' = Tasks
        /\ \A u \in Tasks : synth'[u] = IF u = t THEN NoSynth ELSE synth[u]
    BY <1>1 DEF CommInv, Deciding
  <2>2. Decided(t)'
    BY <2>1 DEF Decided
  <2>3. ASSUME NEW u \in Tasks, u # t PROVE Decided(u)'
    <3>1. Decided(u) /\ synth'[u] = synth[u] /\ task'[u] = task[u] /\ board'[u] = board[u]
      BY <2>1, <2>3 DEF CommInv, Deciding
    <3>2. ASSUME synth[u] # NoSynth PROVE Reducing(synth[u].by, u)'
      <4>1. PICK v \in Workers : v = synth[u].by /\ Reducing(v, u)
        BY <3>1, <3>2 DEF Decided
      <4>2. v # by
        BY <1>0, <2>3, <4>1 DEF Reducing
      <4>3. QED
        BY <1>5, <3>1, <4>1, <4>2
    <3>3. QED
      BY <3>1, <3>2, DecidedCarry
  <2>4. QED
    BY <2>1, <2>2, <2>3 DEF Deciding
<1>9. QED
  BY <1>2, <1>3, <1>4, <1>7, <1>8 DEF CommInv

LEMMA SynthDiesStep ==
  ASSUME CommInv, NEW t \in Tasks, SynthDies(t)
  PROVE  UNCHANGED busVars /\ CommInv'
<1>1. /\ synth[t] # NoSynth /\ Release(t) /\ UNCHANGED <<busVars, facts, packRef, verdicts>>
      /\ proposal' \in {proposal, proposal \cup {t}}
  BY DEF SynthDies
<1>2. BusInv' /\ \A u \in Tasks : Quiet(u)
  BY <1>1, BusStepInv, StillQuiet DEF CommInv
<1>3. LastRounds' /\ Closings'
  BY <1>1, <1>2, LastRoundsCarry, ClosingsCarry DEF CommInv
<1>4. /\ proposal' \in SUBSET Tasks /\ packRef' \in [Tasks -> Packs \cup {NoPack}]
      /\ task' = task /\ board' = board
  BY <1>1 DEF CommInv, HostTypes, busVars
<1>5. CommInv'
  BY <1>1, <1>2, <1>3, <1>4, SynthEnds
<1>6. QED
  BY <1>1, <1>5

\* A synthesis under way holds a task that is ready, in its plan and round.
LEMMA SynthFacts ==
  ASSUME CommInv, NEW t \in Tasks, synth[t] # NoSynth
  PROVE  /\ Ready(t) /\ Known(t) /\ synth[t].rec = task[t]
         /\ task[t] \in TaskRecords /\ Sound(task[t], issued[t], board[t])
         /\ issued[t] \in [Roles -> Nat] /\ board[t] \in Boards
         /\ AllRolesDone(task[t]) /\ verdicts[t] = <<>>
<1>1. Ready(t) /\ synth[t].rec = task[t]
  BY DEF CommInv, Deciding, Decided, Reducers
<1>2. Known(t) /\ task[t].status \notin Terminal
  BY <1>1 DEF Ready, Known, Terminal
<1>3. QED
  BY <1>1, <1>2, KnownIsTyped DEF CommInv, BusInv, Sound, Closings, Ready

LEMMA SynthCommitStep ==
  ASSUME CommInv, NEW t \in Tasks, SynthCommit(t)
  PROVE  BusNext /\ CommInv'
<1> DEFINE s  == synth[t]
           st == Verdicts!TerminalStatus(s.decision.verdict)
           d  == s.decision
<1>1. /\ s # NoSynth /\ Release(t)
      /\ task' = [task EXCEPT ![t] = Closed(task[t], st)]
      /\ proposal' \in {proposal, proposal \cup {t}}
      /\ verdicts' = [verdicts EXCEPT ![t] = Append(verdicts[t], d)]
      /\ UNCHANGED <<issued, board, budget, facts, packRef>>
  BY DEF SynthCommit
<1>2. /\ Ready(t) /\ Known(t) /\ s.rec = task[t]
      /\ task[t] \in TaskRecords /\ Sound(task[t], issued[t], board[t])
      /\ issued[t] \in [Roles -> Nat] /\ board[t] \in Boards
      /\ verdicts[t] = <<>>
  BY <1>1, SynthFacts
<1>3. st \in Terminal \ {"failed"}
  BY DEF Verdicts!TerminalStatus, Terminal
<1> HIDE DEF st, d
<1>4. Resolve(t)
  BY <1>1, <1>2, <1>3 DEF Resolve, Ready
<1>5. BusNext
  BY <1>4 DEF BusNext
<1>6. BusInv'
  BY <1>5, BusStepInv DEF CommInv
<1>7. \A u \in Tasks : task'[u] = IF u = t THEN Closed(task[t], st) ELSE task[u]
  BY <1>1 DEF CommInv, BusInv, BusTypeOK
<1>8. /\ Closed(task[t], st).status = st /\ Closed(task[t], st).plan = task[t].plan
      /\ Closed(task[t], st).round = task[t].round
  BY <1>2, <1>3 DEF Closed, TaskRecords
<1>9. LastRounds'
  BY <1>2, <1>7, <1>8 DEF CommInv, LastRounds, Plan, Known
<1>10. Closings'
  <2>1. /\ DOMAIN verdicts' = Tasks
        /\ \A u \in Tasks : verdicts'[u] = IF u = t THEN Append(<<>>, d) ELSE verdicts[u]
    BY <1>1, <1>2 DEF CommInv, Closings
  <2>2. Append(<<>>, d) = <<d>> /\ <<d>>[1] = d
    OBVIOUS
  <2>3. QED
    BY <1>3, <1>7, <1>8, <2>1, <2>2 DEF CommInv, Closings
<1>11. proposal' \in SUBSET Tasks /\ packRef' \in [Tasks -> Packs \cup {NoPack}]
  BY <1>1 DEF CommInv, HostTypes
<1>12. CommInv'
  BY <1>1, <1>6, <1>7, <1>9, <1>10, <1>11, SynthEnds
<1>13. QED
  BY <1>5, <1>12

\* Without an adjudicator only findings that take a side can be in dispute.
LEMMA DisputeHasSides ==
  ASSUME NEW b, NEW round, "adjudicator" \notin DOMAIN b,
         Verdicts!DecideVerdict(b, round).verdict = "disputed"
  PROVE  \E r \in DOMAIN b : Verdicts!Opinionated(b[r])
<1>1. /\ ~Verdicts!NeedsReview(b) /\ ~Verdicts!AllAbstain(b) /\ ~Verdicts!RiskVeto(b)
      /\ \/ Verdicts!RiskTriadOpposes(b)
         \/ Verdicts!Directional(b).verdict = "disputed"
  BY DEF Verdicts!DecideVerdict, Verdicts!Decision
<1>2. CASE Verdicts!RiskTriadOpposes(b)
  BY <1>2 DEF Verdicts!RiskTriadOpposes
<1>3. CASE Verdicts!Directional(b).verdict = "disputed"
  <2>1. Verdicts!Confident(b, "oppose", ConflictAt)
    BY <1>3 DEF Verdicts!Directional, Verdicts!Decision
  <2>2. QED
    BY <2>1 DEF Verdicts!Confident, Verdicts!Opinionated
<1>4. QED
  BY <1>1, <1>2, <1>3

\* Revalidation only ever takes an approval away: whoever takes a side on the
\* revalidated board takes one on the board.
LEMMA RevalidatedKeepsSides ==
  ASSUME CommInv, NEW t \in Tasks, Plan(t) \subseteq Roles, Reported(t) = Plan(t),
         NEW old, NEW r \in Plan(t), Verdicts!Opinionated(Revalidated(t, old)[r])
  PROVE  r \in Directed(t)
<1> DEFINE o == board[t][r].content.opinion
<1>1. board[t][r] # NoFinding
  BY DEF Reported
<1>2. o \in Opinions
  BY <1>1 DEF CommInv, Words, FindingContents
<1>3. o \in [stance : Verdicts!Stances, conf : 0..10, elig : BOOLEAN, peers : SUBSET Roles]
  BY <1>2, CommitteeAssumption
<1>4. PICK e : Revalidated(t, old)[r] = [o EXCEPT !.elig = e]
  BY DEF Revalidated
<1>5. Revalidated(t, old)[r].stance = o.stance
  <2> HIDE DEF o
  <2>1. QED
    BY <1>3, <1>4
<1>6. QED
  BY <1>5 DEF Directed, Verdicts!Opinionated

LEMMA SynthReopenStep ==
  ASSUME CommInv, NEW t \in Tasks, SynthReopen(t)
  PROVE  BusNext /\ CommInv'
<1> DEFINE s == synth[t]
<1>1. /\ s # NoSynth /\ Reopens(s) /\ Release(t)
      /\ UNCHANGED <<issued, board, budget, facts, verdicts, proposal>>
  BY DEF SynthReopen
<1>2. /\ Ready(t) /\ Known(t) /\ s.rec = task[t]
      /\ task[t] \in TaskRecords /\ Sound(task[t], issued[t], board[t])
      /\ issued[t] \in [Roles -> Nat] /\ board[t] \in Boards
      /\ verdicts[t] = <<>>
  BY <1>1, SynthFacts
<1>3. Plan(t) \subseteq Roles /\ task[t].round \in 0..MaxRounds
  BY <1>2 DEF Plan, TaskRecords
<1>4. proposal' \in SUBSET Tasks /\ facts' = facts /\ board' = board
  BY <1>1 DEF CommInv, HostTypes
<1>5. ASSUME NEW rec \in TaskRecords, task' = [task EXCEPT ![t] = rec]
      PROVE  /\ \A u \in Tasks : task'[u] = IF u = t THEN rec ELSE task[u]
             /\ Closings'
  <2>1. \A u \in Tasks : task'[u] = IF u = t THEN rec ELSE task[u]
    BY <1>5 DEF CommInv, BusInv, BusTypeOK
  <2>2. QED
    BY <1>1, <1>2, <2>1 DEF CommInv, Closings
<1>6. CASE RoundsLeft(s.rec)
  <2> DEFINE rec  == Escalated(s.rec, s.directed)
             pack == [facts |-> facts, round |-> s.rec.round + 1]
  <2>1. task' = [task EXCEPT ![t] = rec] /\ packRef' = [packRef EXCEPT ![t] = pack]
    BY <1>6 DEF SynthReopen
  <2>2. task[t].round < MaxRounds /\ Adjudicator \notin Plan(t)
    BY <1>2, <1>3, <1>6, BusAssumption DEF RoundsLeft, CommInv, LastRounds
  <2>3. s.directed \in SUBSET Plan(t) /\ s.directed # {}
    <3>1. PICK old \in SUBSET Plan(t) :
            s.decision = Verdicts!DecideVerdict(Revalidated(t, old), task[t].round)
      BY <1>1 DEF CommInv, Deciding, Decided
    <3>2. s.directed = Directed(t) /\ Reported(t) = Plan(t)
      BY <1>1 DEF CommInv, Deciding, Decided
    <3>3. DOMAIN Revalidated(t, old) = Plan(t) /\ s.decision.verdict = "disputed"
      BY <1>1 DEF Revalidated, Reopens
    <3>4. \E r \in Plan(t) : Verdicts!Opinionated(Revalidated(t, old)[r])
      BY <2>2, <3>1, <3>3, DisputeHasSides DEF Adjudicator
    <3>5. Directed(t) # {}
      BY <1>3, <3>2, <3>4, RevalidatedKeepsSides
    <3>6. QED
      BY <3>2, <3>5 DEF Directed
  <2>4. Resolve(t)
    BY <1>1, <1>2, <1>6, <2>1, <2>3 DEF Resolve, Ready, RoundsLeft
  <2>5. BusNext /\ BusInv'
    BY <2>4, BusStepInv DEF BusNext, CommInv
  <2>6. rec \in TaskRecords /\ rec.plan = task[t].plan /\ s.directed \in SUBSET Roles
    BY <1>2, <1>3, <2>2, <2>3, EscalatedSound
  <2>7. pack \in Packs /\ pack # NoPack
    <3>1. s.rec.round + 1 \in 0..MaxRounds /\ facts \in 0..MaxFacts
      BY <1>2, <1>3, <2>2, BusAssumption DEF CommInv, HostTypes
    <3>2. pack \in Packs
      BY <3>1 DEF Packs
    <3>3. QED
      BY <3>2, PacksHaveFacts
  <2> HIDE DEF rec, pack
  <2>8. (\A u \in Tasks : task'[u] = IF u = t THEN rec ELSE task[u]) /\ Closings'
    BY <1>5, <2>1, <2>6
  <2>9. LastRounds'
    BY <1>2, <2>2, <2>6, <2>8 DEF CommInv, LastRounds, Plan, Known
  <2>10. /\ packRef' \in [Tasks -> Packs \cup {NoPack}]
         /\ \A u \in Tasks : packRef[u] # NoPack => packRef'[u] # NoPack
    BY <2>1, <2>7 DEF CommInv, HostTypes
  <2>11. CommInv'
    BY <1>1, <1>4, <2>5, <2>8, <2>9, <2>10, SynthEnds
  <2>12. QED
    BY <2>5, <2>11
<1>7. CASE ~RoundsLeft(s.rec)
  <2> DEFINE rec == WithAdjudicator(s.rec)
  <2>1. task' = [task EXCEPT ![t] = rec] /\ packRef' = packRef
    BY <1>7 DEF SynthReopen
  <2>2. MaxRounds > 0 /\ task[t].round = MaxRounds /\ Adjudicator \notin Plan(t)
    BY <1>1, <1>2, <1>3, <1>7, BusAssumption DEF Reopens, RoundsLeft, Plan
  <2>3. Resolve(t)
    BY <1>1, <1>2, <2>1, <2>2 DEF Resolve, Ready
  <2>4. BusNext /\ BusInv'
    BY <2>3, BusStepInv DEF BusNext, CommInv
  <2>5. rec \in TaskRecords /\ rec.round = task[t].round
    BY <1>2, WithAdjudicatorSound
  <2> HIDE DEF rec
  <2>6. (\A u \in Tasks : task'[u] = IF u = t THEN rec ELSE task[u]) /\ Closings'
    BY <1>5, <2>1, <2>5
  <2>7. LastRounds'
    BY <1>2, <2>2, <2>5, <2>6 DEF CommInv, LastRounds, Plan, Known
  <2>8. packRef' \in [Tasks -> Packs \cup {NoPack}]
    BY <2>1 DEF CommInv, HostTypes
  <2>9. CommInv'
    BY <1>1, <1>4, <2>1, <2>4, <2>6, <2>7, <2>8, SynthEnds
  <2>10. QED
    BY <2>4, <2>9
<1>8. QED
  BY <1>6, <1>7
-----------------------------------------------------------------------------
(* The theorems. *)

LEMMA CommInit == Init => CommInv
<1> SUFFICES ASSUME Init PROVE CommInv
  OBVIOUS
<1>1. BusInv /\ \A t \in Tasks : ~Known(t)
  BY BusInitInv DEF Init, BusInit, Known, NoTask
<1>2. HostTypes
  BY CommitteeAssumption DEF Init, HostTypes
<1>3. TurnsHold /\ \A w \in Workers, t \in Tasks : ~Reducing(w, t)
  BY DEF Init, TurnsHold, TurnOK, Reducing, Idle
<1>4. Words
  BY DEF Init, BusInit, Words
<1>5. Deciding /\ Closings
  BY DEF Init, Deciding, Decided, Closings
<1>6. QED
  BY <1>1, <1>2, <1>3, <1>4, <1>5 DEF CommInv, LastRounds, Reducers

LEMMA HostStepInv ==
  ASSUME Orderly, CommInv, NEW w \in Workers, HostStep(w)
  PROVE  [BusNext]_busVars /\ CommInv'
  BY EnsurePackStep, ValidateStep, SubmitAcceptedStep, SubmitFencedStep,
     SubmitAgainNever, GiveUpStep DEF HostStep

LEMMA SynthStepInv ==
  ASSUME CommInv, NEW t \in Tasks, SynthStep(t)
  PROVE  [BusNext]_busVars /\ CommInv'
<1>1. ASSUME NEW by \in Workers \cup {Operator}, SynthRefused(t, by)
      PROVE  [BusNext]_busVars /\ CommInv'
  BY <1>1, SynthRefusedStep
<1>2. ASSUME NEW by \in Workers \cup {Operator}, NEW old \in SUBSET Plan(t),
             SynthBegin(t, by, old)
      PROVE  [BusNext]_busVars /\ CommInv'
  BY <1>2, SynthBeginStep
<1>3. QED
  BY <1>1, <1>2, SynthReopenStep, SynthCommitStep DEF SynthStep

LEMMA DisturbanceInv ==
  ASSUME Orderly, CommInv, Disturbance
  PROVE  [BusNext]_busVars /\ CommInv'
<1>1. ~RequestSweep /\ \A t \in Tasks : ~RequestManual(t)
  BY DEF Orderly, RequestSweep, RequestManual
<1>2. ASSUME NEW w \in Workers, SubmitDies(w) \/ HostDies(w)
      PROVE  [BusNext]_busVars /\ CommInv'
  BY <1>2, SubmitDiesStep, HostDiesStep
<1>3. ASSUME NEW w \in Workers, NEW t \in Tasks, TakeDies(w, t)
      PROVE  [BusNext]_busVars /\ CommInv'
  BY <1>3, TakeDiesStep
<1>4. ASSUME NEW t \in Tasks, SynthDies(t)
      PROVE  [BusNext]_busVars /\ CommInv'
  BY <1>4, SynthDiesStep
<1>5. QED
  BY <1>1, <1>2, <1>3, <1>4, FactsMoveStep DEF Disturbance

\* Every step of the committee keeps the invariant and is a step of the bus.
LEMMA CommStep ==
  ASSUME Orderly, CommInv, [Next]_vars
  PROVE  [BusNext]_busVars /\ CommInv'
<1>1. ASSUME NEW t \in Tasks, NEW force \in BOOLEAN, Submitted(t, force)
      PROVE  [BusNext]_busVars /\ CommInv'
  BY <1>1, SubmittedStep
<1>2. ASSUME NEW w \in Workers, HostStep(w)
      PROVE  [BusNext]_busVars /\ CommInv'
  BY <1>2, HostStepInv
<1>3. ASSUME NEW w \in Workers, NEW late \in SUBSET MayLapse, Asks(w, late)
      PROVE  [BusNext]_busVars /\ CommInv'
  BY <1>3, TakeNothingStep, TakeStep DEF Asks
<1>4. ASSUME NEW t \in Tasks, SynthStep(t)
      PROVE  [BusNext]_busVars /\ CommInv'
  BY <1>4, SynthStepInv
<1>5. CASE UNCHANGED vars
  <2>1. UNCHANGED <<busVars, facts, packRef, worker, synthVars>>
    BY <1>5 DEF vars, hostVars
  <2>2. BusInv' /\ \A u \in Tasks : Quiet(u)
    BY <2>1, BusStepInv, StillQuiet DEF CommInv
  <2>3. HostTypes' /\ UNCHANGED <<synth, verdicts, worker, packRef>>
    BY <2>1 DEF CommInv, HostTypes, synthVars
  <2>4. QED
    BY <2>1, <2>2, <2>3, StillStep
<1>6. QED
  BY <1>1, <1>2, <1>3, <1>4, <1>5, DisturbanceInv DEF Next

THEOREM CommInvariant ==
  ASSUME Orderly PROVE Spec => []CommInv
<1>1. CommInv /\ [Next]_vars => CommInv'
  BY CommStep
<1>2. QED
  BY CommInit, <1>1, PTL DEF Spec

\* The committee implements the bus: a synthesis of many steps, among hosts
\* that die, stall and race, acts on the queue like one step on a ready task.
\* What ResearchBus_proofs shows of the bus holds of the committee.
THEOREM CommitteeIsBus ==
  ASSUME Orderly PROVE Spec => ImplementsBus
<1>1. Init => BusInit
  BY DEF Init
<1>2. CommInv /\ [Next]_vars => [BusNext]_busVars
  BY CommStep
<1>3. QED
  BY <1>1, <1>2, CommInvariant, PTL DEF Spec, ImplementsBus, BusSpec

\* What a synthesis read of the queue is still so when it writes, although it
\* never holds the queue's lock in between.
THEOREM SnapshotsStayCurrent ==
  ASSUME Orderly PROVE Spec => []SnapshotCurrent
<1>1. CommInv => SnapshotCurrent
  BY DEF CommInv, Deciding, Decided, SnapshotCurrent
<1>2. QED
  BY <1>1, CommInvariant, PTL

\* A task is decided at most once.
THEOREM DecidedOnce ==
  ASSUME Orderly PROVE Spec => []OneVerdict
<1>1. Len(<<>>) = 0 /\ \A d : Len(<<d>>) = 1
  OBVIOUS
<1>2. CommInv => OneVerdict
  <2> SUFFICES ASSUME CommInv, NEW t \in Tasks PROVE Len(verdicts[t]) <= 1
    BY DEF OneVerdict
  <2>1. PICK d : d = verdicts[t][1]
    OBVIOUS
  <2>2. verdicts[t] = <<>> \/ verdicts[t] = <<d>>
    BY <2>1 DEF CommInv, Closings
  <2> DEFINE n == Len(verdicts[t])
  <2>3. n = 0 \/ n = 1
    BY <1>1, <2>2
  <2> HIDE DEF n
  <2>4. n <= 1
    BY <2>3
  <2>5. QED
    BY <2>4 DEF n
<1>3. QED
  BY <1>2, CommInvariant, PTL

\* Hosts, packs, syntheses and proposals keep their types.
THEOREM CommitteeTypeCorrect ==
  ASSUME Orderly PROVE Spec => []CommitteeTypeOK
<1>1. CommInv => CommitteeTypeOK
  <2> SUFFICES ASSUME CommInv PROVE CommitteeTypeOK
    OBVIOUS
  <2>1. ASSUME NEW t \in Tasks
        PROVE  /\ packRef[t] \in Packs \cup {NoPack}
               /\ synth[t].by \in Workers \cup {Operator, "nobody"}
               /\ synth[t] # NoSynth => synth[t].rec \in TaskRecords
    BY SynthFacts DEF CommInv, HostTypes, Deciding, Decided, NoSynth
  <2>2. ASSUME NEW w \in Workers
        PROVE  /\ worker[w].pc \in {"idle", "claimed", "working", "validated",
                                    "rejected", "unanswered", "reduce"}
               /\ Busy(w) => worker[w].c \in Claims /\ worker[w].c.by = w
    BY TurnFacts DEF Busy, Turns, BoundTurns
  <2>3. QED
    BY <2>1, <2>2 DEF CommitteeTypeOK, CommInv, BusInv, HostTypes
<1>2. QED
  BY <1>1, CommInvariant, PTL

\* Only SynthCommit writes a verdict.
LEMMA VerdictByCommit ==
  ASSUME [Next]_vars, NEW t \in Tasks, verdicts'[t] # verdicts[t], CommInv
  PROVE  SynthCommit(t)
<1>1. ASSUME NEW u \in Tasks, SynthCommit(u)
      PROVE  SynthCommit(t)
  BY <1>1 DEF SynthCommit, CommInv, Closings
<1>2. QED
  BY <1>1, ZenonT(60)
     DEF Next, vars, synthVars, Submitted, HostStep, EnsurePack, Validate, SubmitAccepted,
         SubmitFenced, SubmitAgain, GiveUp, Asks, TakeNothing, Take, SynthStep,
         SynthRefused, SynthBegin, SynthReopen, Disturbance, SubmitDies, HostDies,
         TakeDies, SynthDies, RequestManual, RequestSweep, FactsMove

\* A verdict is written only when every role of the plan has reported in the
\* task's current round.
THEOREM VerdictsAwaitAllRoles ==
  ASSUME Orderly PROVE Spec => VerdictNeedsAllRoles
<1> DEFINE A == \A t \in Tasks : verdicts'[t] # verdicts[t] => AllRolesDone(task[t])
<1>1. CommInv /\ [Next]_vars => [A]_vars
  BY VerdictByCommit, SynthFacts DEF SynthCommit
<1>2. Spec => [][A]_vars
  BY <1>1, CommInvariant, PTL DEF Spec
<1>3. QED
  BY <1>2 DEF VerdictNeedsAllRoles

\* The verdict written is the one the board implies when it is written.
THEOREM VerdictsReflectBoards ==
  ASSUME Orderly PROVE Spec => VerdictReflectsBoard
<1> DEFINE A == \A t \in Tasks : verdicts'[t] # verdicts[t] =>
                  \E old \in SUBSET Plan(t) :
                    verdicts'[t][Len(verdicts'[t])] =
                      Verdicts!DecideVerdict(Revalidated(t, old), task[t].round)
<1>1. CommInv /\ [Next]_vars => [A]_vars
  <2> SUFFICES ASSUME CommInv, [Next]_vars, NEW t \in Tasks, verdicts'[t] # verdicts[t]
               PROVE  \E old \in SUBSET Plan(t) :
                        verdicts'[t][Len(verdicts'[t])] =
                          Verdicts!DecideVerdict(Revalidated(t, old), task[t].round)
    OBVIOUS
  <2> DEFINE d == synth[t].decision
  <2>1. synth[t] # NoSynth /\ verdicts' = [verdicts EXCEPT ![t] = Append(verdicts[t], d)]
    BY VerdictByCommit DEF SynthCommit
  <2>2. verdicts[t] = <<>>
    BY <2>1, SynthFacts
  <2> HIDE DEF d
  <2>3. verdicts'[t] = Append(<<>>, d)
    BY <2>1, <2>2 DEF CommInv, Closings
  <2>4. Append(<<>>, d) = <<d>> /\ Len(<<d>>) = 1 /\ <<d>>[1] = d
    OBVIOUS
  <2>5. \E old \in SUBSET Plan(t) :
          d = Verdicts!DecideVerdict(Revalidated(t, old), task[t].round)
    BY <2>1 DEF CommInv, Deciding, Decided, d
  <2>6. QED
    BY <2>3, <2>4, <2>5
<1>2. Spec => [][A]_vars
  BY <1>1, CommInvariant, PTL DEF Spec
<1>3. QED
  BY <1>2 DEF VerdictReflectsBoard
-----------------------------------------------------------------------------
(* Escalation and failure. *)

\* Whatever the bus does to a task, its round goes up by one or not at all and
\* no role leaves its plan.
Onward(u) ==
  Known(u) => /\ Known(u)' /\ Plan(u) \subseteq Plan(u)'
              /\ task'[u].round \in {task[u].round, task[u].round + 1}

\* A failed role means a failed task.
Honest(rec) == HasFailedRole(rec) => rec.status = "failed"

LEMMA RecordsAreKnown == \A rec \in TaskRecords : rec.status # "absent"
  BY DEF TaskRecords, Active, Open, Terminal

\* Setting one role to a state that is not failed.
LEMMA HonestRole ==
  ASSUME NEW rec \in TaskRecords, NEW out, NEW r \in Roles, Honest(rec),
         out.plan = rec.plan, \A q \in Roles : q # r => out.roles[q] = rec.roles[q],
         out.roles[r].status # "failed",
         rec.status = "failed" => out.status = "failed"
  PROVE  Honest(out)
  BY DEF Honest, HasFailedRole, TaskRecords

LEMMA SweptHonest ==
  ASSUME BusInv, NEW late \in SUBSET Leases, NEW u \in Tasks, Known(u) => Honest(task[u])
  PROVE  Known(u) => Honest(Swept(late)[u])
<1> DEFINE roles == [r \in Roles |-> IF <<u, r>> \in late
                                     THEN ExpiredRole(task[u].roles[r])
                                     ELSE task[u].roles[r]]
           rec   == [task[u] EXCEPT !.roles = roles]
<1>1. Swept(late)[u] = IF task[u].status \notin Open THEN task[u]
                       ELSE IF HasFailedRole(rec) THEN [rec EXCEPT !.status = "failed"] ELSE rec
  BY DEF Swept
<1>2. Known(u) => [rec EXCEPT !.status = "failed"].status = "failed"
  <2>1. Known(u) => task[u] \in TaskRecords
    BY KnownIsTyped DEF BusInv
  <2> HIDE DEF roles
  <2>2. QED
    BY <2>1 DEF TaskRecords
<1> HIDE DEF rec
<1>3. QED
  BY <1>1, <1>2 DEF Honest

LEMMA ResolveOnward ==
  ASSUME BusInv, NEW t \in Tasks, Resolve(t), NEW u \in Tasks,
         Known(u) => Honest(task[u])
  PROVE  Onward(u) /\ (Known(u)' => Honest(task'[u]))
<1>1. task[t].status = "ready_to_synthesize"
  BY DEF Resolve
<1>2. /\ task[t] \in TaskRecords /\ Sound(task[t], issued[t], board[t])
      /\ issued[t] \in [Roles -> Nat] /\ board[t] \in Boards /\ Known(t)
  BY <1>1, KnownIsTyped DEF BusInv, Known
<1>3. \A r \in task[t].plan : task[t].roles[r].status = "done"
  BY <1>1, <1>2 DEF Sound, AllRolesDone
<1>4. PICK rec \in TaskRecords :
        /\ task' = [task EXCEPT ![t] = rec]
        /\ task[t].plan \subseteq rec.plan
        /\ rec.round \in {task[t].round, task[t].round + 1}
        /\ ~HasFailedRole(rec)
  <2>1. CASE \E s \in Terminal \ {"failed"} : task' = [task EXCEPT ![t] = Closed(@, s)]
    <3>1. PICK s \in Terminal \ {"failed"} : task' = [task EXCEPT ![t] = Closed(task[t], s)]
      BY <2>1
    <3>2. /\ Closed(task[t], s) \in TaskRecords /\ Closed(task[t], s).plan = task[t].plan
          /\ Closed(task[t], s).round = task[t].round
          /\ Closed(task[t], s).roles = task[t].roles
      BY <1>1, <1>2, ClosedSound
    <3>3. ~HasFailedRole(Closed(task[t], s))
      BY <1>3, <3>2 DEF HasFailedRole
    <3>4. QED
      BY <3>1, <3>2, <3>3
  <2>2. CASE /\ task[t].round < MaxRounds
             /\ \E S \in SUBSET Plan(t) :
                   S # {} /\ task' = [task EXCEPT ![t] = Escalated(@, S)]
    <3>1. PICK S \in SUBSET Roles : task' = [task EXCEPT ![t] = Escalated(task[t], S)]
      BY <1>2, <2>2 DEF Plan, TaskRecords
    <3> DEFINE out == Escalated(task[t], S)
    <3>2. out \in TaskRecords /\ out.plan = task[t].plan /\ out.round = task[t].round + 1
      BY <1>2, <2>2, EscalatedSound
    <3>3. \A r \in Roles : out.roles[r] = IF r \in S THEN Unclaimed ELSE task[t].roles[r]
      BY <1>2 DEF Escalated, TaskRecords
    <3>4. Unclaimed.status = "pending"
      BY DEF Unclaimed
    <3> HIDE DEF out
    <3>5. ~HasFailedRole(out)
      BY <1>2, <1>3, <3>2, <3>3, <3>4 DEF HasFailedRole, TaskRecords
    <3>6. QED
      BY <3>1, <3>2, <3>5 DEF out
  <2>3. CASE task' = [task EXCEPT ![t] = WithAdjudicator(@)]
    <3> DEFINE out == WithAdjudicator(task[t])
    <3>1. task' = [task EXCEPT ![t] = out]
      BY <2>3
    <3>2. /\ out \in TaskRecords /\ out.plan = task[t].plan \cup {Adjudicator}
          /\ out.round = task[t].round
          /\ \A q \in Roles : q # Adjudicator => out.roles[q] = task[t].roles[q]
      BY <1>2, WithAdjudicatorSound
    <3>3. out.roles[Adjudicator].status = "pending"
      BY <1>2 DEF WithAdjudicator, Unclaimed, TaskRecords, Roles
    <3> HIDE DEF out
    <3>4. ~HasFailedRole(out)
      BY <1>2, <1>3, <3>2, <3>3 DEF HasFailedRole, TaskRecords
    <3>5. QED
      BY <3>1, <3>2, <3>4
  <2>4. QED
    BY <2>1, <2>2, <2>3 DEF Resolve, RoundsLeft
<1>5. task'[u] = IF u = t THEN rec ELSE task[u]
  BY <1>4 DEF BusInv, BusTypeOK
<1>6. QED
  BY <1>2, <1>4, <1>5, RecordsAreKnown DEF Onward, Honest, Plan, Known

\* A step of the bus moves every task onward and leaves it honest.
LEMMA BusOnward ==
  ASSUME BusInv, [BusNext]_busVars, NEW u \in Tasks, Known(u) => Honest(task[u])
  PROVE  Onward(u) /\ (Known(u)' => Honest(task'[u]))
<1> DEFINE Goal == Onward(u) /\ (Known(u)' => Honest(task'[u]))
<1>0. Known(u) => task[u] \in TaskRecords
  BY KnownIsTyped DEF BusInv
<1>1. ASSUME NEW t \in Tasks, NEW force \in BOOLEAN, Enqueue(t, force)
      PROVE  Goal
  <2>1. ~Known(t) /\ task'[u] = IF u = t THEN NewTask ELSE task[u]
    BY <1>1 DEF Enqueue, BusInv, BusTypeOK
  <2>2. Honest(NewTask)
    BY DEF Honest, HasFailedRole, NewTask, Unclaimed, Roles
  <2>3. QED
    BY <2>1, <2>2 DEF Onward, Known, Plan
<1>2. ASSUME NEW late \in SUBSET Leases, ClaimIdle(late)
      PROVE  Goal
  <2>1. task' = Swept(late)
    BY <1>2 DEF ClaimIdle
  <2>2. Known(u)' => Known(u)
    BY <2>1, SweptQuiet DEF Known, NoTask
  <2>3. QED
    BY <2>1, <2>2, SweptQuiet, SweptHonest, RecordsAreKnown DEF Onward, Plan, Known
<1>3. ASSUME NEW late \in SUBSET Leases, NEW t \in Tasks, NEW r \in Roles,
             NEW w \in Workers, Claim(t, r, w, late)
      PROVE  Goal
  <2> DEFINE q == Swept(late)
             c == NextClaim(t, r, w)
  <2>1. Served(q, t, r) /\ task' = [q EXCEPT ![t] = Claimed(q[t], r, c)]
    BY <1>3 DEF Claim
  <2>2. q[t].status \in Open /\ q[t].roles[r].attempts < MaxAttempts
    BY <2>1 DEF Served, Claimable
  <2>3. Known(t)
    BY <2>2, SweptSound DEF NoTask, Open
  <2>4. /\ q[t] \in TaskRecords /\ Sound(q[t], issued[t], board[t])
        /\ issued[t] \in [Roles -> Nat] /\ board[t] \in Boards
    BY <2>3, SweptSound, KnownIsTyped DEF BusInv
  <2>5. c \in Claims /\ c.n = issued[t][r] + 1
    BY <2>4 DEF NextClaim, Claims
  <2>6. DOMAIN q = Tasks
    BY DEF Swept
  <2>7. CASE u = t
    <3>1. task'[u] = Claimed(q[t], r, c)
      BY <2>1, <2>6, <2>7
    <3>2. q[t].plan = Plan(t) /\ q[t].round = task[t].round
      BY <2>3, SweptQuiet
    <3>3. Honest(q[t])
      BY <2>3, <2>7, SweptHonest
    <3> DEFINE out == Claimed(q[t], r, c)
    <3> HIDE DEF q, c
    <3>4. /\ out.plan = q[t].plan /\ out.round = q[t].round
          /\ out.status = "in_progress" /\ out.roles[r].status = "claimed"
          /\ \A p \in Roles : p # r => out.roles[p] = q[t].roles[p]
      BY <2>4, ClaimedShape
    <3> HIDE DEF out
    <3>6. q[t].status # "failed"
      BY <2>2 DEF Open
    <3>7. Honest(out)
      BY <2>4, <3>3, <3>4, <3>6, HonestRole
    <3>8. QED
      BY <2>7, <3>1, <3>2, <3>4, <3>7 DEF Onward, Plan, Known, out
  <2>8. CASE u # t
    <3>1. task'[u] = q[u]
      BY <2>1, <2>6, <2>8
    <3>2. Known(u)' => Known(u)
      BY <3>1, SweptQuiet DEF Known, NoTask
    <3>3. QED
      BY <3>1, <3>2, SweptQuiet, SweptHonest, RecordsAreKnown DEF Onward, Plan, Known
  <2>9. QED
    BY <2>7, <2>8
<1>4. ASSUME NEW t \in Tasks, ClaimDies(t)
      PROVE  Goal
  BY <1>0, <1>4 DEF ClaimDies, Onward, Known, Plan, TaskRecords
<1>5. ASSUME NEW t \in Tasks, Resolve(t)
      PROVE  Goal
  BY <1>5, ResolveOnward
<1>6. ASSUME NEW t \in Tasks, NEW r \in Roles, NEW c \in Presentable(t, r),
             NEW x \in Contents, Submit(t, r, c, x)
      PROVE  Goal
  <2> DEFINE rec == Published(task[t], r, c)
             b   == [content |-> x, claim |-> c]
  <2>1. Fenced(t, r, c) /\ task' = [task EXCEPT ![t] = rec]
    BY <1>6 DEF Submit
  <2>2. /\ task[t] \in TaskRecords /\ Sound(task[t], issued[t], board[t])
        /\ issued[t] \in [Roles -> Nat] /\ board[t] \in Boards
        /\ r \in task[t].plan /\ task[t].roles[r].status = "claimed"
        /\ task[t].roles[r].claim = c /\ Known(t) /\ c \in Claims
    BY <2>1, FenceFacts, PresentableType DEF Fenced
  <2>3. b \in Findings /\ b.claim = c
    BY <2>2 DEF Findings
  <2>4. rec.plan = task[t].plan /\ rec.round = task[t].round
    BY <2>2, PublishedShape
  <2> HIDE DEF b
  <2>5. /\ \A q \in Roles : q # r => rec.roles[q] = task[t].roles[q]
        /\ task[t].status \in Terminal => rec.status = task[t].status
        /\ rec \in TaskRecords
    <3> DEFINE old == task[t]
               iss == issued[t]
               brd == board[t]
    <3>1. /\ old \in TaskRecords /\ Sound(old, iss, brd)
          /\ iss \in [Roles -> Nat] /\ brd \in Boards
          /\ r \in old.plan /\ old.roles[r].status = "claimed"
          /\ old.roles[r].claim = c /\ c \in Claims
      BY <2>2
    <3> HIDE DEF old, iss, brd
    <3>2. /\ \A q \in Roles : q # r => Published(old, r, c).roles[q] = old.roles[q]
          /\ old.status \in Terminal => Published(old, r, c).status = old.status
          /\ Published(old, r, c) \in TaskRecords
      BY <2>3, <3>1, PublishedSound, ZenonT(60)
    <3>3. QED
      BY <3>2 DEF old
  <2>6. rec.roles[r].status = "done"
    <3> DEFINE s      == PublishedRole(task[t].roles[r], c)
               marked == [task[t] EXCEPT !.roles[r] = s]
    <3>1. s \in RoleStates /\ s.status = "done"
      BY <2>2, RolePublished DEF TaskRecords
    <3> HIDE DEF s
    <3>2. marked \in TaskRecords /\ marked.roles[r] = s
      BY <2>2, <3>1, SetRole
    <3>3. rec = IF AllRolesDone(marked)
                THEN [marked EXCEPT !.status = "ready_to_synthesize"] ELSE marked
      BY DEF Published, s
    <3> HIDE DEF marked, rec
    <3>4. rec.roles = marked.roles
      BY <3>2, <3>3, SetStatus DEF Active
    <3>5. QED
      BY <3>1, <3>2, <3>4
  <2> HIDE DEF rec
  <2>7. task'[u] = IF u = t THEN rec ELSE task[u]
    BY <2>1 DEF BusInv, BusTypeOK
  <2>8. u = t => Honest(rec)
    BY <2>2, <2>4, <2>5, <2>6, HonestRole DEF Terminal
  <2>9. QED
    BY <1>0, <2>2, <2>4, <2>5, <2>7, <2>8, RecordsAreKnown DEF Onward, Known, Plan, TaskRecords
<1>7. ASSUME NEW t \in Tasks, NEW r \in Roles, NEW c \in Presentable(t, r),
             NEW x \in Contents, PublishDies(t, r, c, x)
      PROVE  Goal
  BY <1>0, <1>7 DEF PublishDies, Onward, Known, Plan, TaskRecords
<1>8. ASSUME NEW t \in Tasks, NEW r \in Roles, NEW c \in Presentable(t, r),
             NEW retry \in BOOLEAN, Fail(t, r, c, retry)
      PROVE  Goal
  <2> DEFINE gone == task[t].roles[r].attempts >= MaxAttempts \/ ~retry
             rec  == Failed(task[t], r, retry)
             s    == FailedRole(task[t].roles[r], gone)
             mid  == [task[t] EXCEPT !.roles[r] = s]
  <2>1. Fenced(t, r, c) /\ task' = [task EXCEPT ![t] = rec]
    BY <1>8 DEF Fail
  <2>2. /\ task[t] \in TaskRecords /\ Sound(task[t], issued[t], board[t])
        /\ issued[t] \in [Roles -> Nat] /\ board[t] \in Boards
        /\ r \in task[t].plan /\ task[t].roles[r].status = "claimed" /\ Known(t)
    BY <2>1, FenceFacts DEF Fenced
  <2>3. rec \in TaskRecords /\ rec.plan = task[t].plan /\ rec.round = task[t].round
    BY <2>2, FailedSound
  <2>4. gone \in BOOLEAN /\ task[t].roles[r] \in RoleStates
    BY <2>2 DEF TaskRecords
  <2>5. rec = IF gone THEN [mid EXCEPT !.status = "failed"] ELSE mid
    BY DEF Failed
  <2> HIDE DEF gone
  <2>6. s \in RoleStates /\ s.status = IF gone THEN "failed" ELSE "pending"
    BY <2>4, RoleGivenUp
  <2> HIDE DEF s
  <2>7. /\ mid \in TaskRecords /\ mid.roles[r] = s /\ mid.plan = task[t].plan
        /\ mid.status = task[t].status
        /\ \A q \in Roles : q # r => mid.roles[q] = task[t].roles[q]
    BY <2>2, <2>6, SetRole
  <2> HIDE DEF mid, rec
  <2>8. u = t => Honest(rec)
    <3>1. CASE gone
      BY <2>5, <2>7, <3>1, SetStatus DEF Honest, Terminal
    <3>2. CASE ~gone
      BY <2>2, <2>5, <2>6, <2>7, <3>2, HonestRole
    <3>3. QED
      BY <3>1, <3>2
  <2>9. task'[u] = IF u = t THEN rec ELSE task[u]
    BY <2>1 DEF BusInv, BusTypeOK
  <2>10. QED
    BY <1>0, <2>2, <2>3, <2>8, <2>9, RecordsAreKnown DEF Onward, Known, Plan, TaskRecords
<1>9. ASSUME UNCHANGED busVars PROVE Goal
  BY <1>0, <1>9 DEF busVars, Onward, Known, Plan, TaskRecords
<1> HIDE DEF Goal
<1>10. ASSUME BusNext PROVE Goal
  BY <1>1, <1>2, <1>3, <1>4, <1>5, <1>6, <1>7, <1>8, <1>10, ZenonT(30) DEF BusNext
<1>11. Goal
  BY <1>9, <1>10
<1>12. QED
  BY <1>11 DEF Goal

\* A failure is never taken for an opinion: no task with a failed role is ever
\* resolved by a verdict.
THEOREM FailuresAreNotEvidence ==
  ASSUME Orderly PROVE Spec => []FailureIsNotEvidence
<1> DEFINE H == \A t \in Tasks : Known(t) => Honest(task[t])
<1>1. Init => H
  BY DEF Init, BusInit, Known, NoTask
<1>2. CommInv /\ H /\ [Next]_vars => H'
  <2> SUFFICES ASSUME CommInv, H, [Next]_vars, NEW t \in Tasks, Known(t)'
               PROVE  Honest(task[t])'
    OBVIOUS
  <2>1. Honest(task'[t])
    BY CommStep, BusOnward DEF CommInv
  <2>2. QED
    BY <2>1 DEF Honest, HasFailedRole
<1>3. H => FailureIsNotEvidence
  BY DEF Honest, FailureIsNotEvidence
<1>4. QED
  BY <1>1, <1>2, <1>3, CommInvariant, PTL DEF Spec

\* Escalation only moves forward, one round at a time, and the adjudicator
\* joins in the last round only.
THEOREM EscalationIsBounded ==
  ASSUME Orderly PROVE Spec => EscalationMovesForward
<1> DEFINE H == \A t \in Tasks : Known(t) => Honest(task[t])
           A == \A t \in Tasks : Known(t) =>
                  /\ task'[t].round \in {task[t].round, task[t].round + 1}
                  /\ task[t].plan \subseteq task'[t].plan
                  /\ Adjudicator \in task'[t].plan => task'[t].round = MaxRounds
<1>1. FailureIsNotEvidence => H
  BY DEF FailureIsNotEvidence, Honest
<1>2. CommInv /\ H /\ [Next]_vars => [A]_vars
  <2> SUFFICES ASSUME CommInv, H, [Next]_vars, NEW t \in Tasks, Known(t)
               PROVE  /\ task'[t].round \in {task[t].round, task[t].round + 1}
                      /\ task[t].plan \subseteq task'[t].plan
                      /\ Adjudicator \in task'[t].plan => task'[t].round = MaxRounds
    OBVIOUS
  <2>1. [BusNext]_busVars /\ CommInv'
    BY CommStep
  <2>2. Onward(t)
    BY <2>1, BusOnward DEF CommInv
  <2>3. QED
    BY <2>1, <2>2 DEF CommInv, LastRounds, Onward, Plan
<1>3. Spec => [][A]_vars
  BY <1>1, <1>2, CommInvariant, FailuresAreNotEvidence, PTL DEF Spec
<1>4. QED
  BY <1>3 DEF EscalationMovesForward
-----------------------------------------------------------------------------
(* Proposals. *)

\* A host's call of the bus, as far as its turn says what it calls with.
LEMMA HostStepQuiet ==
  ASSUME Orderly, CommInv, NEW w \in Workers, HostStep(w) \/ SubmitDies(w), NEW u \in Tasks
  PROVE  Quiet(u)
<1> DEFINE turn == worker[w]
<1>1. CASE UNCHANGED busVars
  BY <1>1, StillQuiet
<1>2. CASE SubmitAccepted(w) \/ SubmitDies(w)
  <2>1. turn.pc = "validated"
    BY <1>2 DEF SubmitAccepted, SubmitDies
  <2>2. turn \in BoundTurns
    BY <2>1, TurnFacts
  <2>3. /\ turn.t \in Tasks /\ turn.r \in Roles /\ turn.c \in Claims
        /\ turn.x \in FindingContents
    BY <2>2 DEF BoundTurns
  <2>4. \/ Submit(turn.t, turn.r, turn.c, turn.x)
        \/ PublishDies(turn.t, turn.r, turn.c, turn.x)
    BY <1>2 DEF SubmitAccepted, SubmitDies
  <2> HIDE DEF turn
  <2>5. QED
    BY <2>3, <2>4, SubmitQuiet, PublishDiesQuiet DEF CommInv, Orderly
<1>3. ASSUME NEW retry \in BOOLEAN, GiveUp(w, retry), Fenced(turn.t, turn.r, turn.c)
      PROVE  Quiet(u)
  <2>1. turn \in Turns /\ Fail(turn.t, turn.r, turn.c, retry)
    BY <1>3, TurnFacts DEF GiveUp
  <2>2. turn.t \in Tasks /\ turn.r \in Roles /\ turn.c \in Claims
    BY <2>1 DEF Turns
  <2> HIDE DEF turn
  <2>3. QED
    BY <2>1, <2>2, FailQuiet DEF CommInv
<1>4. ASSUME NEW o \in Opinions, Validate(w, o)
      PROVE  Quiet(u)
  BY <1>1, <1>4 DEF Validate
<1>5. CASE EnsurePack(w) \/ SubmitFenced(w) \/ SubmitAgain(w)
  BY <1>1, <1>5 DEF EnsurePack, SubmitFenced, SubmitAgain
<1>6. ASSUME NEW retry \in BOOLEAN, GiveUp(w, retry)
      PROVE  Quiet(u)
  BY <1>1, <1>3, <1>6 DEF GiveUp
<1>7. QED
  BY <1>1, <1>2, <1>4, <1>5, <1>6 DEF HostStep

\* Only a synthesis that ends closes or reopens a task, or writes a proposal.
LEMMA StepsAreQuiet ==
  ASSUME Orderly, CommInv, [Next]_vars
  PROVE  \/ (\A u \in Tasks : Quiet(u)) /\ UNCHANGED <<verdicts, proposal>>
         \/ \E t \in Tasks : SynthReopen(t) \/ SynthCommit(t) \/ SynthDies(t)
<1> DEFINE Goal == (\A u \in Tasks : Quiet(u)) /\ UNCHANGED <<verdicts, proposal>>
<1>0. ASSUME UNCHANGED busVars PROVE \A u \in Tasks : Quiet(u)
  BY <1>0, StillQuiet
<1>1. ASSUME NEW t \in Tasks, NEW force \in BOOLEAN, Submitted(t, force)
      PROVE  Goal
  BY <1>1, EnqueueQuiet DEF Submitted, synthVars, CommInv
<1>2. ASSUME NEW w \in Workers, HostStep(w) \/ SubmitDies(w)
      PROVE  Goal
  <2>1. UNCHANGED synthVars
    BY <1>2 DEF HostStep, EnsurePack, Validate, SubmitAccepted, SubmitFenced, SubmitAgain,
                GiveUp, SubmitDies
  <2>2. QED
    BY <1>2, <2>1, HostStepQuiet DEF synthVars
<1>3. ASSUME NEW w \in Workers, NEW late \in SUBSET MayLapse, Asks(w, late)
      PROVE  Goal
  <2>1. late \in SUBSET Leases
    BY DEF MayLapse
  <2>2. QED
    BY <1>3, <2>1, ClaimQuiet, ClaimIdleQuiet
       DEF Asks, TakeNothing, Take, synthVars, CommInv
<1>4. ASSUME NEW t \in Tasks, NEW by \in Workers \cup {Operator},
             SynthRefused(t, by) \/ \E old \in SUBSET Plan(t) : SynthBegin(t, by, old)
      PROVE  Goal
  BY <1>0, <1>4 DEF SynthRefused, SynthBegin
<1>5. ASSUME NEW w \in Workers, HostDies(w) \/ \E t \in Tasks : TakeDies(w, t)
      PROVE  Goal
  BY <1>0, <1>5 DEF HostDies, TakeDies, ClaimDies, synthVars, Quiet, Known, Plan, Resolved
<1>6. ASSUME FactsMove \/ UNCHANGED vars
      PROVE  Goal
  BY <1>0, <1>6 DEF FactsMove, vars, synthVars
<1>7. ~RequestSweep /\ \A t \in Tasks : ~RequestManual(t)
  BY DEF Orderly, RequestSweep, RequestManual
<1> HIDE DEF Goal
<1>8. Goal \/ \E t \in Tasks : SynthReopen(t) \/ SynthCommit(t) \/ SynthDies(t)
  BY <1>1, <1>2, <1>3, <1>4, <1>5, <1>6, <1>7 DEF Next, SynthStep, Disturbance
<1>9. QED
  BY <1>8 DEF Goal

\* The verdict the board implies while no manifest passes its age.
Implied(t) == Verdicts!DecideVerdict(Revalidated(t, {}), task[t].round)

\* A proposal on file belongs to a resolved task whose verdict calls for it, or
\* a synthesis died after writing it: then the task is still ready, and the
\* board, which nothing can change any more, implies the same verdict again.
Proposals ==
  \A t \in Tasks :
    /\ Resolved(t) => /\ verdicts[t] = <<verdicts[t][1]>>
                      /\ t \in proposal <=> Verdicts!ProposalRequired(verdicts[t][1])
    /\ t \in proposal /\ ~Resolved(t) =>
         /\ Ready(t) /\ Reported(t) = Plan(t)
         /\ Verdicts!ProposalRequired(Implied(t))

\* Without "slow" every synthesis decides what the board implies.
LEMMA DecidesImplied ==
  ASSUME CommInv, "slow" \notin Env, NEW t \in Tasks, synth[t] # NoSynth
  PROVE  synth[t].decision = Implied(t) /\ Reported(t) = Plan(t) /\ Ready(t)
<1>1. /\ synth[t].decision = Implied(t) /\ Reported(t) = Plan(t)
  BY DEF CommInv, Deciding, Decided, Implied
<1>2. QED
  BY <1>1, SynthFacts

\* What a step leaves alone keeps what Proposals says of it.
LEMMA ProposalKept ==
  ASSUME Proposals, NEW u \in Tasks, Quiet(u), verdicts'[u] = verdicts[u],
         u \in proposal' <=> u \in proposal
  PROVE  /\ Resolved(u)' => /\ verdicts'[u] = <<verdicts'[u][1]>>
                            /\ u \in proposal' <=> Verdicts!ProposalRequired(verdicts'[u][1])
         /\ u \in proposal' /\ ~Resolved(u)' =>
              /\ Ready(u)' /\ Reported(u)' = Plan(u)'
              /\ Verdicts!ProposalRequired(Implied(u)')
<1>1. Resolved(u)' <=> Resolved(u)
  BY DEF Quiet, Resolved, Terminal
<1>2. CASE Resolved(u)
  BY <1>1, <1>2 DEF Proposals
<1>3. CASE u \in proposal /\ ~Resolved(u)
  <2>1. /\ task'[u] = task[u] /\ board'[u] = board[u]
        /\ Ready(u) /\ Reported(u) = Plan(u) /\ Verdicts!ProposalRequired(Implied(u))
    BY <1>3 DEF Proposals, Quiet
  <2>2. /\ Ready(u)' /\ Reported(u)' = Reported(u) /\ Plan(u)' = Plan(u)
        /\ Revalidated(u, {})' = Revalidated(u, {}) /\ task'[u].round = task[u].round
    BY <2>1 DEF Ready, Reported, Plan, Revalidated
  <2>3. Implied(u)' = Implied(u)
    BY <2>2 DEF Implied
  <2>4. QED
    BY <1>1, <1>3, <2>1, <2>2, <2>3
<1>4. QED
  BY <1>1, <1>2, <1>3

LEMMA ProposalStep ==
  ASSUME Orderly, "slow" \notin Env, CommInv, Proposals, [Next]_vars
  PROVE  Proposals'
<1>1. CASE (\A u \in Tasks : Quiet(u)) /\ UNCHANGED <<verdicts, proposal>>
  BY <1>1, ProposalKept DEF Proposals
<1>2. ASSUME NEW t \in Tasks, SynthReopen(t) PROVE Proposals'
  <2>1. /\ synth[t] # NoSynth /\ synth[t].decision.verdict = "disputed"
        /\ board' = board /\ verdicts' = verdicts /\ proposal' = proposal
    BY <1>2 DEF SynthReopen, Reopens
  <2>2. t \notin proposal
    <3>1. ~Verdicts!ProposalRequired(Implied(t)) /\ Ready(t)
      BY <2>1, DecidesImplied DEF Verdicts!ProposalRequired
    <3>2. ~Resolved(t)
      BY <3>1 DEF Ready, Resolved
    <3>3. QED
      BY <3>1, <3>2 DEF Proposals
  <2>3. PICK rec : task' = [task EXCEPT ![t] = rec] /\ rec.status = "in_progress"
    <3>1. task[t] \in TaskRecords /\ synth[t].rec = task[t]
      BY <2>1, SynthFacts
    <3>2. /\ Escalated(task[t], synth[t].directed).status = "in_progress"
          /\ WithAdjudicator(task[t]).status = "in_progress"
      BY <3>1 DEF Escalated, WithAdjudicator, TaskRecords
    <3>3. QED
      BY <1>2, <3>1, <3>2 DEF SynthReopen
  <2>4. \A u \in Tasks : task'[u] = IF u = t THEN rec ELSE task[u]
    BY <2>3 DEF CommInv, BusInv, BusTypeOK
  <2>5. ~Resolved(t)'
    BY <2>3, <2>4 DEF Resolved
  <2>6. ASSUME NEW u \in Tasks, u # t PROVE Quiet(u)
    BY <2>1, <2>4, <2>6 DEF Quiet, Known, Plan, Resolved
  <2>7. QED
    BY <2>1, <2>2, <2>5, <2>6, ProposalKept DEF Proposals
<1>3. ASSUME NEW t \in Tasks, SynthCommit(t) PROVE Proposals'
  <2> DEFINE d  == synth[t].decision
             st == Verdicts!TerminalStatus(d.verdict)
  <2>1. /\ synth[t] # NoSynth /\ board' = board
        /\ task' = [task EXCEPT ![t] = Closed(task[t], st)]
        /\ verdicts' = [verdicts EXCEPT ![t] = Append(verdicts[t], d)]
        /\ proposal' = IF Verdicts!ProposalRequired(d) THEN proposal \cup {t} ELSE proposal
    BY <1>3 DEF SynthCommit
  <2>2. /\ Ready(t) /\ task[t] \in TaskRecords /\ verdicts[t] = <<>> /\ d = Implied(t)
    BY <2>1, SynthFacts, DecidesImplied
  <2>3. t \in proposal => Verdicts!ProposalRequired(d)
    BY <2>2 DEF Proposals, Ready, Resolved
  <2>4. st \in {"done", "rejected", "abstained"}
    BY DEF Verdicts!TerminalStatus
  <2> HIDE DEF d, st
  <2>5. /\ \A u \in Tasks : u # t => task'[u] = task[u] /\ verdicts'[u] = verdicts[u]
        /\ verdicts'[t] = Append(<<>>, d)
    BY <2>1, <2>2 DEF CommInv, BusInv, BusTypeOK, Closings
  <2>6. Append(<<>>, d) = <<d>> /\ <<d>>[1] = d
    OBVIOUS
  <2>7. t \in proposal' <=> Verdicts!ProposalRequired(verdicts'[t][1])
    BY <2>1, <2>3, <2>5, <2>6
  <2>8. Resolved(t)'
    BY <2>1, <2>2, <2>4 DEF CommInv, BusInv, BusTypeOK, Closed, TaskRecords, Resolved
  <2>9. ASSUME NEW u \in Tasks, u # t PROVE Quiet(u)
    BY <2>1, <2>5, <2>9 DEF Quiet, Known, Plan, Resolved
  <2>10. QED
    BY <2>1, <2>5, <2>6, <2>7, <2>8, <2>9, ProposalKept DEF Proposals
<1>4. ASSUME NEW t \in Tasks, SynthDies(t) PROVE Proposals'
  <2>1. /\ synth[t] # NoSynth /\ UNCHANGED <<busVars, verdicts>>
        /\ \/ proposal' = proposal
           \/ /\ Verdicts!ProposalRequired(synth[t].decision)
              /\ proposal' = proposal \cup {t}
    BY <1>4 DEF SynthDies
  <2>2. \A u \in Tasks : Quiet(u)
    BY <2>1, StillQuiet
  <2>3. /\ Ready(t) /\ Reported(t) = Plan(t) /\ synth[t].decision = Implied(t)
    BY <2>1, DecidesImplied
  <2>4. /\ Ready(t)' /\ Reported(t)' = Plan(t)' /\ Implied(t)' = Implied(t)
    BY <2>1, <2>3 DEF busVars, Ready, Reported, Plan, Implied, Revalidated
  <2>5. ~Resolved(t)'
    BY <2>4 DEF Ready, Resolved
  <2>6. CASE proposal' = proposal
    BY <2>1, <2>2, <2>6, ProposalKept DEF Proposals
  <2>7. CASE /\ Verdicts!ProposalRequired(synth[t].decision)
             /\ proposal' = proposal \cup {t}
    BY <2>1, <2>2, <2>3, <2>4, <2>5, <2>7, ProposalKept DEF Proposals
  <2>8. QED
    BY <2>1, <2>6, <2>7
<1>5. QED
  BY <1>1, <1>2, <1>3, <1>4, StepsAreQuiet

\* A resolved task has a pending proposal exactly when its verdict calls for
\* one, also when a synthesis died between the proposal and the queue and
\* another one ended its work: while manifests keep their age the second
\* decides what the first did.
THEOREM ProposalsMatchVerdicts ==
  ASSUME Orderly, "slow" \notin Env PROVE Spec => []ProposalMatchesVerdict
<1>1. Init => Proposals
  BY DEF Init, BusInit, NoTask, Proposals, Resolved
<1>2. CommInv /\ Proposals /\ [Next]_vars => Proposals'
  BY ProposalStep
<1>3. Proposals => ProposalMatchesVerdict
  <2> SUFFICES ASSUME Proposals, NEW t \in Tasks, Resolved(t)
               PROVE  t \in proposal <=> Verdicts!ProposalRequired(LastVerdict(t))
    BY DEF ProposalMatchesVerdict
  <2>1. PICK d : d = verdicts[t][1]
    OBVIOUS
  <2>2. verdicts[t] = <<d>> /\ (t \in proposal <=> Verdicts!ProposalRequired(d))
    BY <2>1 DEF Proposals
  <2>3. LastVerdict(t) = d
    BY <2>2 DEF LastVerdict
  <2>4. QED
    BY <2>2, <2>3
<1>4. QED
  BY <1>1, <1>2, <1>3, CommInvariant, PTL DEF Spec
-----------------------------------------------------------------------------
(* Evidence packs. *)

\* A host whose claim the fence still honours, because its lease was kept.
Holds(w) == worker[w].pc \in {"claimed", "working", "validated", "rejected"}

\* The fence honours claim c after the step.
StaysFenced(t, r, c) ==
  /\ task'[t].status # "absent" /\ r \in task'[t].plan
  /\ task'[t].roles[r].status = "claimed" /\ task'[t].roles[r].claim = c

\* A turn that keeps its claim, and will build a pack only in round 0.
HoldsOK(w) ==
  Holds(w) =>
    /\ Fenced(worker[w].t, worker[w].r, worker[w].c)
    /\ worker[w].pc = "claimed" /\ worker[w].pack = NoPack => task[worker[w].t].round = 0

Packed == RoundSpecificPack /\ \A w \in Workers : HoldsOK(w)

\* What keeps a claim fenced: its lease is not swept, and nobody else is told
\* the claim.
LEMMA SweptKeepsRole ==
  ASSUME BusInv, NEW t \in Tasks, NEW r \in Roles, NEW late, <<t, r>> \notin late, Known(t)
  PROVE  /\ Swept(late)[t].roles[r] = task[t].roles[r] /\ Swept(late)[t].plan = task[t].plan
         /\ Swept(late)[t].status # "absent"
<1> DEFINE roles == [q \in Roles |-> IF <<t, q>> \in late
                                     THEN ExpiredRole(task[t].roles[q])
                                     ELSE task[t].roles[q]]
           rec   == [task[t] EXCEPT !.roles = roles]
<1>1. Swept(late)[t] = IF task[t].status \notin Open THEN task[t]
                       ELSE IF HasFailedRole(rec) THEN [rec EXCEPT !.status = "failed"] ELSE rec
  BY DEF Swept
<1>2. task[t] \in TaskRecords /\ roles[r] = task[t].roles[r]
  BY KnownIsTyped DEF BusInv
<1> HIDE DEF roles
<1>3. /\ rec.roles = roles /\ rec.plan = task[t].plan /\ rec.status = task[t].status
      /\ [rec EXCEPT !.status = "failed"].roles = rec.roles
      /\ [rec EXCEPT !.status = "failed"].plan = rec.plan
      /\ [rec EXCEPT !.status = "failed"].status = "failed"
  BY <1>2 DEF TaskRecords
<1> HIDE DEF rec
<1>4. QED
  BY <1>1, <1>2, <1>3 DEF Known

LEMMA ClaimKeepsFence ==
  ASSUME BusInv, NEW t \in Tasks, NEW r \in Roles, NEW c, Fenced(t, r, c),
         NEW late \in SUBSET Leases, <<t, r>> \notin late,
         NEW u \in Tasks, NEW q \in Roles, NEW w \in Workers,
         ClaimIdle(late) \/ Claim(u, q, w, late)
  PROVE  StaysFenced(t, r, c)
<1> DEFINE s == Swept(late)
<1>1. s[t].roles[r] = task[t].roles[r] /\ s[t].plan = task[t].plan /\ s[t].status # "absent"
  BY SweptKeepsRole DEF Fenced
<1>2. CASE ClaimIdle(late)
  BY <1>1, <1>2 DEF ClaimIdle, StaysFenced, Fenced, RoleIs, Known, Plan
<1>3. CASE Claim(u, q, w, late)
  <2> DEFINE k == NextClaim(u, q, w)
  <2>1. s[u].roles[q].status = "pending" /\ task' = [s EXCEPT ![u] = Claimed(s[u], q, k)]
    BY <1>3 DEF Claim, Served, Claimable
  <2>2. DOMAIN s = Tasks
    BY DEF Swept
  <2> HIDE DEF k
  <2>3. CASE u # t
    BY <1>1, <2>1, <2>2, <2>3 DEF StaysFenced, Fenced, RoleIs, Known, Plan
  <2>4. CASE u = t
    <3>1. q # r
      BY <1>1, <2>1, <2>4 DEF Fenced, RoleIs
    <3>2. s[t] \in TaskRecords
      BY SweptSound DEF Fenced
    <3>3. task'[t] = Claimed(s[t], q, k)
      BY <2>1, <2>2, <2>4
    <3> DEFINE rec == s[t]
    <3> HIDE DEF s, rec
    <3>4. /\ Claimed(rec, q, k).status = "in_progress" /\ Claimed(rec, q, k).plan = rec.plan
          /\ Claimed(rec, q, k).roles[r] = rec.roles[r]
      BY <3>1, <3>2, ClaimedShape DEF rec
    <3>5. QED
      BY <1>1, <3>3, <3>4 DEF StaysFenced, Fenced, RoleIs, Known, Plan, rec
  <2>5. QED
    BY <2>3, <2>4
<1>4. QED
  BY <1>2, <1>3

LEMMA OtherCallKeepsFence ==
  ASSUME BusInv, FindingContents \subseteq Contents,
         NEW t \in Tasks, NEW r \in Roles, NEW c, Fenced(t, r, c),
         NEW u \in Tasks, NEW q \in Roles, NEW d \in Claims, d # c,
         \/ \E x \in FindingContents : Submit(u, q, d, x)
         \/ \E retry \in BOOLEAN : Fail(u, q, d, retry)
  PROVE  StaysFenced(t, r, c)
<1>1. Fenced(u, q, d) /\ <<u, q>> # <<t, r>>
  BY DEF Submit, Fail, Fenced
<1>2. /\ task[u] \in TaskRecords /\ Sound(task[u], issued[u], board[u])
      /\ issued[u] \in [Roles -> Nat] /\ board[u] \in Boards
      /\ q \in task[u].plan /\ task[u].roles[q].status = "claimed"
      /\ task[u].roles[q].claim = d
  BY <1>1, FenceFacts
<1>3. PICK rec \in TaskRecords :
        /\ task' = [task EXCEPT ![u] = rec] /\ rec.plan = task[u].plan
        /\ \A p \in Roles : p # q => rec.roles[p] = task[u].roles[p]
  <2>1. CASE \E x \in FindingContents : Submit(u, q, d, x)
    <3>0. PICK x \in FindingContents : Submit(u, q, d, x)
      BY <2>1
    <3> DEFINE b == [content |-> x, claim |-> d]
    <3>1. b \in Findings /\ b.claim = d
      BY DEF Findings
    <3> DEFINE old == task[u]
               iss == issued[u]
               brd == board[u]
    <3>2. /\ old \in TaskRecords /\ Sound(old, iss, brd)
          /\ iss \in [Roles -> Nat] /\ brd \in Boards
          /\ q \in old.plan /\ old.roles[q].status = "claimed" /\ old.roles[q].claim = d
      BY <1>2
    <3> HIDE DEF old, iss, brd, b
    <3>3. /\ Published(old, q, d) \in TaskRecords
          /\ \A p \in Roles : p # q => Published(old, q, d).roles[p] = old.roles[p]
          /\ Published(old, q, d).plan = old.plan
      BY <3>1, <3>2, PublishedSound, PublishedShape, ZenonT(60)
    <3>4. task' = [task EXCEPT ![u] = Published(old, q, d)]
      BY <3>0 DEF Submit, old
    <3>5. QED
      BY <3>3, <3>4 DEF old
  <2>2. CASE \E retry \in BOOLEAN : Fail(u, q, d, retry)
    <3>1. PICK retry \in BOOLEAN : task' = [task EXCEPT ![u] = Failed(task[u], q, retry)]
      BY <2>2 DEF Fail
    <3> DEFINE old == task[u]
               iss == issued[u]
               brd == board[u]
    <3>2. /\ old \in TaskRecords /\ Sound(old, iss, brd)
          /\ iss \in [Roles -> Nat] /\ brd \in Boards
          /\ q \in old.plan /\ old.roles[q].status = "claimed" /\ old.roles[q].claim = d
      BY <1>2
    <3> HIDE DEF old, iss, brd
    <3>3. /\ Failed(old, q, retry) \in TaskRecords
          /\ \A p \in Roles : p # q => Failed(old, q, retry).roles[p] = old.roles[p]
          /\ Failed(old, q, retry).plan = old.plan
      BY <3>1, <3>2, FailedSound, ZenonT(60)
    <3>4. task' = [task EXCEPT ![u] = Failed(old, q, retry)]
      BY <3>1 DEF old
    <3>5. QED
      BY <3>3, <3>4 DEF old
  <2>3. QED
    BY <2>1, <2>2
<1>4. task'[t] = IF t = u THEN rec ELSE task[t]
  BY <1>3 DEF BusInv, BusTypeOK
<1>5. rec.status # "absent"
  BY RecordsAreKnown
<1>6. CASE t = u
  BY <1>1, <1>3, <1>4, <1>5, <1>6 DEF StaysFenced, Fenced, RoleIs, Known, Plan
<1>7. CASE t # u
  BY <1>4, <1>7 DEF StaysFenced, Fenced, RoleIs, Known, Plan
<1>8. QED
  BY <1>6, <1>7

\* A host that does not move is as well off as before.
LEMMA HoldsKept ==
  ASSUME CommInv, NEW v \in Workers, HoldsOK(v), worker'[v] = worker[v],
         Holds(v) => /\ Quiet(worker[v].t)
                     /\ StaysFenced(worker[v].t, worker[v].r, worker[v].c)
  PROVE  HoldsOK(v)'
  BY DEF HoldsOK, Holds, StaysFenced, Fenced, RoleIs, Plan, Known, Quiet

\* The packs a quiet step leaves alone are still those of their rounds.
LEMMA PacksKept ==
  ASSUME RoundSpecificPack, \A u \in Tasks : Quiet(u), packRef' = packRef
  PROVE  RoundSpecificPack'
<1> SUFFICES ASSUME NEW u \in Tasks, Known(u)', task'[u].round > 0
             PROVE  packRef'[u].round = task'[u].round
  BY DEF RoundSpecificPack
<1>1. Known(u) /\ task'[u].round = task[u].round
  BY DEF Quiet, NewTask
<1>2. QED
  BY <1>1 DEF RoundSpecificPack

\* A turn that holds its claim, with the task it is for.
LEMMA HolderFacts ==
  ASSUME CommInv, NEW w \in Workers, Holds(w)
  PROVE  /\ worker[w].t \in Tasks /\ worker[w].r \in Roles /\ worker[w].c \in Claims
         /\ worker[w].c.by = w /\ Busy(w)
  BY TurnFacts DEF Holds, Turns, BoundTurns, Busy

\* Without "stall" no lease of a host at work is late.
LEMMA LeaseKept ==
  ASSUME CommInv, "stall" \notin Env, NEW w \in Workers, Holds(w), HoldsOK(w),
         NEW late \in SUBSET MayLapse
  PROVE  <<worker[w].t, worker[w].r>> \notin late
<1>1. <<worker[w].t, worker[w].r, worker[w].c>> \in Held
  BY HolderFacts DEF Held
<1>2. task[worker[w].t].roles[worker[w].r].claim = worker[w].c
  BY DEF HoldsOK, Fenced
<1>3. ASSUME NEW l \in MayLapse, l = <<worker[w].t, worker[w].r>>
      PROVE  FALSE
  <2>1. l[1] = worker[w].t /\ l[2] = worker[w].r
    BY <1>3
  <2>2. <<l[1], l[2], task[l[1]].roles[l[2]].claim>> \notin Held
    BY <1>3 DEF MayLapse
  <2>3. QED
    BY <1>1, <1>2, <2>1, <2>2
<1>4. QED
  BY <1>3

\* A step that leaves tasks and packs alone and in which hosts only go on with
\* the claims they hold.
LEMMA PackedStill ==
  ASSUME CommInv, Packed, task' = task, packRef' = packRef,
         \A v \in Workers : \/ ~Holds(v)'
                            \/ /\ Holds(v) /\ worker'[v].t = worker[v].t
                               /\ worker'[v].r = worker[v].r /\ worker'[v].c = worker[v].c
                               /\ worker'[v] = worker[v] \/ worker'[v].pc # "claimed"
  PROVE  Packed'
<1>1. RoundSpecificPack'
  BY DEF Packed, RoundSpecificPack, Known
<1>2. ASSUME NEW v \in Workers PROVE HoldsOK(v)'
  BY DEF Packed, HoldsOK, Holds, Fenced, RoleIs, Known, Plan
<1>3. QED
  BY <1>1, <1>2 DEF Packed

LEMMA TakePacked ==
  ASSUME CommInv, "stall" \notin Env, Packed, NEW w \in Workers, NEW t \in Tasks,
         NEW r \in Roles, NEW late \in SUBSET MayLapse, Take(w, t, r, late)
  PROVE  Packed'
<1> DEFINE c    == NextClaim(t, r, w)
           turn == Turn("claimed", t, r, c, packRef[t])
<1>1. /\ ~Busy(w) /\ Claim(t, r, w, late) /\ late \in SUBSET Leases
      /\ worker' = [worker EXCEPT ![w] = turn] /\ packRef' = packRef
  BY DEF Take, MayLapse
<1>2. \A u \in Tasks : Quiet(u)
  BY <1>1, ClaimQuiet DEF CommInv
<1>3. RoundSpecificPack'
  BY <1>1, <1>2, PacksKept DEF Packed
<1>4. \A v \in Workers : worker'[v] = IF v = w THEN turn ELSE worker[v]
  BY <1>1 DEF CommInv, TurnsHold
<1>5. ASSUME NEW v \in Workers, v # w PROVE HoldsOK(v)'
  <2>1. ASSUME Holds(v)
        PROVE  StaysFenced(worker[v].t, worker[v].r, worker[v].c)
    <3>1. /\ worker[v].t \in Tasks /\ worker[v].r \in Roles /\ worker[v].c \in Claims
          /\ <<worker[v].t, worker[v].r>> \notin late
          /\ Fenced(worker[v].t, worker[v].r, worker[v].c)
      BY <2>1, HolderFacts, LeaseKept DEF Packed, HoldsOK
    <3>2. QED
      BY <1>1, <3>1, ClaimKeepsFence DEF CommInv
  <2>2. QED
    BY <1>2, <1>4, <1>5, <2>1, HoldsKept, HolderFacts DEF Packed
<1>6. HoldsOK(w)'
  <2> DEFINE q == Swept(late)
  <2>1. Served(q, t, r) /\ task' = [q EXCEPT ![t] = Claimed(q[t], r, c)]
    BY <1>1 DEF Claim
  <2>2. q[t].status \in Open /\ r \in q[t].plan
    BY <2>1 DEF Served, Claimable
  <2>3. Known(t) /\ DOMAIN q = Tasks
    <3>1. DOMAIN q = Tasks
      BY DEF Swept
    <3>2. Known(t)
      BY <1>1, <2>2, SweptSound DEF NoTask, Open, CommInv
    <3>3. QED
      BY <3>1, <3>2
  <2>4. q[t] \in TaskRecords
    BY <1>1, <2>3, SweptSound DEF CommInv
  <2>5. task'[t] = Claimed(q[t], r, c)
    BY <2>1, <2>3
  <2>6. /\ turn.pc = "claimed" /\ turn.t = t /\ turn.r = r /\ turn.c = c
        /\ turn.pack = packRef[t]
    BY DEF Turn
  <2> HIDE DEF q, c, turn
  <2>7. task'[t].roles[r].claim = c
    BY <2>4, <2>5 DEF Claimed, ClaimedRole, TaskRecords, RoleStates
  <2>8. StaysFenced(t, r, c)
    BY <2>2, <2>4, <2>5, <2>7, ClaimedShape DEF StaysFenced, Known
  <2>9. packRef[t] = NoPack => task'[t].round = 0
    <3>1. task[t] \in TaskRecords /\ task'[t].round = task[t].round
      BY <1>2, <2>3, KnownIsTyped DEF Quiet, CommInv, BusInv
    <3>2. task[t].round \in Nat
      BY <3>1, BusAssumption DEF TaskRecords
    <3>3. packRef[t] = NoPack => ~(task[t].round > 0)
      BY <2>3, <3>2 DEF Packed, RoundSpecificPack, NoPack
    <3>4. QED
      BY <3>1, <3>2, <3>3
  <2>10. QED
    BY <1>4, <2>6, <2>8, <2>9 DEF HoldsOK, Fenced, StaysFenced, RoleIs, Known, Plan
<1>7. QED
  BY <1>3, <1>5, <1>6 DEF Packed

LEMMA TakeNothingPacked ==
  ASSUME CommInv, "stall" \notin Env, Packed, NEW w \in Workers,
         NEW late \in SUBSET MayLapse, TakeNothing(w, late)
  PROVE  Packed'
<1>1. /\ ClaimIdle(late) /\ late \in SUBSET Leases
      /\ worker' = worker /\ packRef' = packRef
  BY DEF TakeNothing, hostVars, MayLapse
<1>2. \A u \in Tasks : Quiet(u)
  BY <1>1, ClaimIdleQuiet DEF CommInv
<1>3. RoundSpecificPack'
  BY <1>1, <1>2, PacksKept DEF Packed
<1>4. ASSUME NEW v \in Workers PROVE HoldsOK(v)'
  <2>1. ASSUME Holds(v)
        PROVE  StaysFenced(worker[v].t, worker[v].r, worker[v].c)
    <3>1. /\ worker[v].t \in Tasks /\ worker[v].r \in Roles /\ worker[v].c \in Claims
          /\ <<worker[v].t, worker[v].r>> \notin late
          /\ Fenced(worker[v].t, worker[v].r, worker[v].c)
      BY <2>1, HolderFacts, LeaseKept DEF Packed, HoldsOK
    <3>2. QED
      BY <1>1, <3>1, ClaimKeepsFence DEF CommInv
  <2>2. QED
    BY <1>1, <1>2, <2>1, HoldsKept, HolderFacts DEF Packed
<1>5. QED
  BY <1>3, <1>4 DEF Packed

LEMMA SubmittedPacked ==
  ASSUME CommInv, Packed, NEW t \in Tasks, NEW force \in BOOLEAN, Submitted(t, force)
  PROVE  Packed'
<1>1. /\ ~Known(t) /\ task' = [task EXCEPT ![t] = NewTask]
      /\ worker' = worker /\ packRef' = packRef
  BY DEF Submitted, Enqueue, hostVars
<1>2. \A u \in Tasks : Quiet(u)
  BY EnqueueQuiet DEF Submitted, CommInv
<1>3. RoundSpecificPack'
  BY <1>1, <1>2, PacksKept DEF Packed
<1>4. ASSUME NEW v \in Workers PROVE HoldsOK(v)'
  <2>1. ASSUME Holds(v)
        PROVE  StaysFenced(worker[v].t, worker[v].r, worker[v].c)
    <3>1. worker[v].t \in Tasks /\ Fenced(worker[v].t, worker[v].r, worker[v].c)
      BY <2>1, HolderFacts DEF Packed, HoldsOK
    <3>2. task'[worker[v].t] = task[worker[v].t]
      BY <1>1, <3>1 DEF Fenced, CommInv, BusInv, BusTypeOK
    <3>3. QED
      BY <3>1, <3>2 DEF StaysFenced, Fenced, RoleIs, Known, Plan
  <2>2. QED
    BY <1>1, <1>2, <2>1, HoldsKept, HolderFacts DEF Packed
<1>5. QED
  BY <1>3, <1>4 DEF Packed

\* The end of a turn, when w hands in or gives back its own claim.
LEMMA TurnEndsPacked ==
  ASSUME Orderly, CommInv, Packed, NEW w \in Workers, Holds(w),
         \/ \E x \in FindingContents : Submit(worker[w].t, worker[w].r, worker[w].c, x)
         \/ \E retry \in BOOLEAN : Fail(worker[w].t, worker[w].r, worker[w].c, retry),
         packRef' = packRef, NEW v, worker' = [worker EXCEPT ![w] = v],
         v.pc \in {"idle", "reduce"}
  PROVE  Packed'
<1>1. /\ worker[w].t \in Tasks /\ worker[w].r \in Roles /\ worker[w].c \in Claims
      /\ worker[w].c.by = w
  BY HolderFacts
<1>2. \A u \in Tasks : Quiet(u)
  BY <1>1, SubmitQuiet, FailQuiet DEF CommInv, Orderly
<1>3. RoundSpecificPack'
  BY <1>2, PacksKept DEF Packed
<1>4. \A a \in Workers : worker'[a] = IF a = w THEN v ELSE worker[a]
  BY DEF CommInv, TurnsHold
<1>5. ASSUME NEW a \in Workers, a # w PROVE HoldsOK(a)'
  <2>1. ASSUME Holds(a)
        PROVE  StaysFenced(worker[a].t, worker[a].r, worker[a].c)
    <3>1. /\ worker[a].t \in Tasks /\ worker[a].r \in Roles /\ worker[a].c \in Claims
          /\ Fenced(worker[a].t, worker[a].r, worker[a].c)
          /\ worker[w].c # worker[a].c
      BY <1>1, <1>5, <2>1, HolderFacts DEF Packed, HoldsOK
    <3>2. QED
      BY <1>1, <3>1, OtherCallKeepsFence DEF CommInv, Orderly
  <2>2. QED
    BY <1>2, <1>4, <1>5, <2>1, HoldsKept, HolderFacts DEF Packed
<1>6. HoldsOK(w)'
  BY <1>4 DEF HoldsOK, Holds
<1>7. QED
  BY <1>3, <1>5, <1>6 DEF Packed

\* A pack is only built for a task in round 0: a later round starts with one.
LEMMA EnsurePackPacked ==
  ASSUME CommInv, Packed, NEW w \in Workers, EnsurePack(w)
  PROVE  Packed'
<1> DEFINE turn  == worker[w]
           built == [facts |-> facts, round |-> 0]
<1>1. turn.pc = "claimed" /\ task' = task
  BY DEF EnsurePack, busVars
<1>2. turn \in Turns
  BY <1>1, TurnFacts
<1>3. CASE turn.pack = NoPack
  <2> DEFINE v == [turn EXCEPT !.pc = "working", !.pack = built]
  <2>1. /\ packRef' = [packRef EXCEPT ![turn.t] = built]
        /\ worker' = [worker EXCEPT ![w] = v]
    BY <1>3 DEF EnsurePack
  <2>2. v.pc = "working" /\ v.t = turn.t /\ v.r = turn.r /\ v.c = turn.c
    BY <1>2 DEF Turns
  <2>3. turn.t \in Tasks /\ task[turn.t].round = 0 /\ Holds(w)
    BY <1>1, <1>2, <1>3 DEF Packed, HoldsOK, Holds, Turns
  <2> HIDE DEF v, built, turn
  <2>4. \A a \in Workers : worker'[a] = IF a = w THEN v ELSE worker[a]
    BY <2>1 DEF CommInv, TurnsHold
  <2>5. \A u \in Tasks : u # turn.t => packRef'[u] = packRef[u]
    BY <2>1 DEF CommInv, HostTypes
  <2>6. RoundSpecificPack'
    BY <1>1, <2>3, <2>5 DEF Packed, RoundSpecificPack, Known
  <2>7. ASSUME NEW a \in Workers PROVE HoldsOK(a)'
    BY <1>1, <2>2, <2>3, <2>4 DEF Packed, HoldsOK, Holds, Fenced, RoleIs, Known, Plan, turn
  <2>8. QED
    BY <2>6, <2>7 DEF Packed
<1>4. CASE turn.pack # NoPack
  <2> DEFINE v == [turn EXCEPT !.pc = "working"]
  <2>1. packRef' = packRef /\ worker' = [worker EXCEPT ![w] = v]
    BY <1>4 DEF EnsurePack
  <2>2. v.pc = "working" /\ v.t = turn.t /\ v.r = turn.r /\ v.c = turn.c
    BY <1>2 DEF Turns
  <2> HIDE DEF v
  <2>3. \A a \in Workers : worker'[a] = IF a = w THEN v ELSE worker[a]
    BY <2>1 DEF CommInv, TurnsHold
  <2>4. QED
    BY <1>1, <2>1, <2>2, <2>3, PackedStill DEF Holds
<1>5. QED
  BY <1>3, <1>4

LEMMA ValidatePacked ==
  ASSUME CommInv, Packed, NEW w \in Workers, NEW o \in Opinions, Validate(w, o)
  PROVE  Packed'
<1> DEFINE turn == worker[w]
<1>1. turn.pc = "working" /\ task' = task /\ packRef' = packRef
  BY DEF Validate, busVars
<1>2. turn \in Turns
  BY <1>1, TurnFacts
<1>3. PICK v : /\ worker' = [worker EXCEPT ![w] = v] /\ v.pc # "claimed"
               /\ v.t = turn.t /\ v.r = turn.r /\ v.c = turn.c
  <2>1. ASSUME NEW x
        PROVE  LET v == WithFinding(turn, "validated", x)
               IN  v.pc # "claimed" /\ v.t = turn.t /\ v.r = turn.r /\ v.c = turn.c
    BY DEF WithFinding
  <2>2. LET v == [turn EXCEPT !.pc = "rejected"]
        IN  v.pc # "claimed" /\ v.t = turn.t /\ v.r = turn.r /\ v.c = turn.c
    BY <1>2 DEF Turns
  <2>3. QED
    BY <2>1, <2>2 DEF Validate
<1>4. \A a \in Workers : worker'[a] = IF a = w THEN v ELSE worker[a]
  BY <1>3 DEF CommInv, TurnsHold
<1>5. QED
  BY <1>1, <1>3, <1>4, PackedStill DEF Holds

\* A step after which w is idle, and which changes neither tasks nor packs.
LEMMA RestPacked ==
  ASSUME CommInv, Packed, NEW w \in Workers, task' = task, packRef' = packRef,
         worker' = [worker EXCEPT ![w] = Idle]
  PROVE  Packed'
<1>1. \A a \in Workers : worker'[a] = IF a = w THEN Idle ELSE worker[a]
  BY DEF CommInv, TurnsHold
<1>2. \A a \in Workers : a # w => (Holds(a)' => Holds(a))
  BY <1>1 DEF Holds
<1>3. ~Holds(w)'
  BY <1>1 DEF Holds, Idle
<1>4. QED
  BY <1>1, <1>2, <1>3, PackedStill

LEMMA HostPacked ==
  ASSUME Orderly, CommInv, Packed, NEW w \in Workers,
         HostStep(w) \/ SubmitDies(w) \/ HostDies(w)
  PROVE  Packed'
<1>1. CASE EnsurePack(w)
  BY <1>1, EnsurePackPacked
<1>2. ASSUME NEW o \in Opinions, Validate(w, o) PROVE Packed'
  BY <1>2, ValidatePacked
<1>3. CASE SubmitAccepted(w)
  <2> DEFINE turn == worker[w]
             v    == After(w, AllRolesDone(Published(task[turn.t], turn.r, turn.c)))
  <2>1. /\ turn.pc = "validated" /\ Submit(turn.t, turn.r, turn.c, turn.x)
        /\ worker' = [worker EXCEPT ![w] = v] /\ packRef' = packRef
    BY <1>3 DEF SubmitAccepted, Orderly
  <2>2. turn \in BoundTurns /\ Holds(w)
    BY <2>1, TurnFacts DEF Holds
  <2>3. turn.x \in FindingContents /\ v.pc \in {"idle", "reduce"}
    BY <2>2 DEF BoundTurns, After, Idle
  <2> HIDE DEF v
  <2>4. QED
    BY <2>1, <2>2, <2>3, TurnEndsPacked
<1>4. ASSUME NEW retry \in BOOLEAN, GiveUp(w, retry) PROVE Packed'
  <2>1. /\ worker[w].pc \in {"working", "rejected"} /\ packRef' = packRef
        /\ worker' = [worker EXCEPT ![w] = Idle]
        /\ \/ Fail(worker[w].t, worker[w].r, worker[w].c, retry)
           \/ UNCHANGED busVars
    BY <1>4 DEF GiveUp
  <2>2. Holds(w) /\ Idle.pc = "idle"
    BY <2>1 DEF Holds, Idle
  <2>3. CASE UNCHANGED busVars
    BY <2>1, <2>3, RestPacked DEF busVars
  <2>4. CASE Fail(worker[w].t, worker[w].r, worker[w].c, retry)
    BY <2>1, <2>2, <2>4, TurnEndsPacked
  <2>5. QED
    BY <2>1, <2>3, <2>4
<1>5. CASE SubmitFenced(w) \/ SubmitDies(w) \/ HostDies(w)
  BY <1>5, RestPacked DEF SubmitFenced, SubmitDies, PublishDies, HostDies, busVars
<1>6. QED
  BY <1>1, <1>2, <1>3, <1>4, <1>5, SubmitAgainNever DEF HostStep

\* A synthesis that ends without touching the queue.
LEMMA ReleasePacked ==
  ASSUME CommInv, Packed, NEW t \in Tasks, synth[t] # NoSynth, Release(t),
         task' = task, packRef' = packRef
  PROVE  Packed'
<1>1. PICK by \in Workers : by = synth[t].by /\ by # Operator
  BY DEF CommInv, Deciding, Decided
<1>2. QED
  BY <1>1, RestPacked DEF Release, Dismiss

\* A synthesis that writes the queue: no host holds a claim of a ready task.
LEMMA ResolvePacked ==
  ASSUME CommInv, Packed, NEW t \in Tasks, synth[t] # NoSynth, Release(t),
         \A u \in Tasks : u # t => task'[u] = task[u] /\ packRef'[u] = packRef[u],
         task'[t].round > 0 => packRef'[t].round = task'[t].round
  PROVE  Packed'
<1>1. PICK by \in Workers : by = synth[t].by /\ by # Operator
  BY DEF CommInv, Deciding, Decided
<1>2. worker' = [worker EXCEPT ![by] = Idle] /\ Ready(t)
  BY <1>1, SynthFacts DEF Release, Dismiss
<1>3. \A a \in Workers : worker'[a] = IF a = by THEN Idle ELSE worker[a]
  BY <1>2 DEF CommInv, TurnsHold
<1>4. ASSUME NEW a \in Workers PROVE HoldsOK(a)'
  <2>1. CASE a = by
    BY <1>3, <2>1 DEF HoldsOK, Holds, Idle
  <2>2. ASSUME a # by, Holds(a) PROVE HoldsOK(a)'
    <3>1. /\ worker[a].t \in Tasks /\ worker[a].r \in Roles
          /\ Fenced(worker[a].t, worker[a].r, worker[a].c)
      BY <2>2, HolderFacts DEF Packed, HoldsOK
    <3>2. worker[a].t # t
      BY <1>2, <3>1, ReadyIsFenced DEF CommInv
    <3>3. task'[worker[a].t] = task[worker[a].t] /\ worker'[a] = worker[a]
      BY <1>3, <2>2, <3>1, <3>2
    <3>4. QED
      BY <2>2, <3>3 DEF Packed, HoldsOK, Holds, Fenced, RoleIs, Known, Plan
  <2>3. ASSUME a # by, ~Holds(a) PROVE HoldsOK(a)'
    BY <1>3, <2>3 DEF HoldsOK, Holds
  <2>4. QED
    BY <2>1, <2>2, <2>3
<1>5. RoundSpecificPack'
  BY DEF Packed, RoundSpecificPack, Known
<1>6. QED
  BY <1>4, <1>5 DEF Packed

LEMMA SynthPacked ==
  ASSUME CommInv, Packed, NEW t \in Tasks, SynthStep(t) \/ SynthDies(t)
  PROVE  Packed'
<1>1. ASSUME NEW by \in Workers \cup {Operator}, SynthRefused(t, by) PROVE Packed'
  <2>1. by \in Workers \ {Operator}
    BY <1>1, CallerReduces DEF SynthRefused
  <2>2. QED
    BY <1>1, <2>1, RestPacked DEF SynthRefused, Dismiss, busVars
<1>2. ASSUME NEW by \in Workers \cup {Operator}, NEW old \in SUBSET Plan(t),
             SynthBegin(t, by, old)
      PROVE  Packed'
  <2>1. task' = task /\ packRef' = packRef /\ worker' = worker
    BY <1>2 DEF SynthBegin, busVars, hostVars
  <2>2. \A v \in Workers : Holds(v)' => Holds(v)
    BY <2>1 DEF Holds
  <2>3. QED
    BY <2>1, <2>2, PackedStill
<1>3. CASE SynthDies(t)
  BY <1>3, ReleasePacked DEF SynthDies, busVars
<1>4. CASE SynthCommit(t)
  <2>1. PICK st : /\ synth[t] # NoSynth /\ Release(t) /\ packRef' = packRef
                  /\ task' = [task EXCEPT ![t] = Closed(task[t], st)]
    BY <1>4 DEF SynthCommit
  <2>2. Known(t) /\ task[t] \in TaskRecords
    BY <2>1, SynthFacts
  <2>3. Closed(task[t], st).round = task[t].round
    BY <2>2 DEF Closed, TaskRecords
  <2>4. \A u \in Tasks : task'[u] = IF u = t THEN Closed(task[t], st) ELSE task[u]
    BY <2>1 DEF CommInv, BusInv, BusTypeOK
  <2>5. task'[t].round > 0 => packRef'[t].round = task'[t].round
    BY <2>1, <2>2, <2>3, <2>4 DEF Packed, RoundSpecificPack
  <2>6. QED
    BY <2>1, <2>4, <2>5, ResolvePacked
<1>5. CASE SynthReopen(t)
  <2>1. synth[t] # NoSynth /\ Release(t)
    BY <1>5 DEF SynthReopen
  <2>2. Known(t) /\ task[t] \in TaskRecords /\ synth[t].rec = task[t]
    BY <2>1, SynthFacts
  <2>3. DOMAIN task = Tasks /\ DOMAIN packRef = Tasks
    BY DEF CommInv, BusInv, BusTypeOK, HostTypes
  <2>4. CASE RoundsLeft(synth[t].rec)
    <3> DEFINE rec  == Escalated(task[t], synth[t].directed)
               pack == [facts |-> facts, round |-> task[t].round + 1]
    <3>1. /\ task' = [task EXCEPT ![t] = rec] /\ packRef' = [packRef EXCEPT ![t] = pack]
      BY <1>5, <2>2, <2>4 DEF SynthReopen
    <3>2. rec.round = task[t].round + 1 /\ pack.round = task[t].round + 1
      BY <2>2 DEF Escalated, TaskRecords
    <3> HIDE DEF rec, pack
    <3>3. /\ \A u \in Tasks : u # t => task'[u] = task[u] /\ packRef'[u] = packRef[u]
          /\ task'[t].round = packRef'[t].round
      BY <2>3, <3>1, <3>2
    <3>4. QED
      BY <2>1, <3>3, ResolvePacked
  <2>5. CASE ~RoundsLeft(synth[t].rec)
    <3> DEFINE rec == WithAdjudicator(task[t])
    <3>1. task' = [task EXCEPT ![t] = rec] /\ packRef' = packRef
      BY <1>5, <2>2, <2>5 DEF SynthReopen
    <3>2. rec.round = task[t].round
      BY <2>2 DEF WithAdjudicator, TaskRecords
    <3> HIDE DEF rec
    <3>3. /\ \A u \in Tasks : u # t => task'[u] = task[u] /\ packRef'[u] = packRef[u]
          /\ task'[t].round = task[t].round /\ packRef'[t] = packRef[t]
      BY <2>3, <3>1, <3>2
    <3>4. task'[t].round > 0 => packRef'[t].round = task'[t].round
      BY <2>2, <3>3 DEF Packed, RoundSpecificPack
    <3>5. QED
      BY <2>1, <3>3, <3>4, ResolvePacked
  <2>6. QED
    BY <2>4, <2>5
<1>6. QED
  BY <1>1, <1>2, <1>3, <1>4, <1>5 DEF SynthStep

LEMMA PackedStep ==
  ASSUME Orderly, "stall" \notin Env, CommInv, Packed, [Next]_vars
  PROVE  Packed'
<1>1. ASSUME NEW t \in Tasks, NEW force \in BOOLEAN, Submitted(t, force) PROVE Packed'
  BY <1>1, SubmittedPacked
<1>2. ASSUME NEW w \in Workers, HostStep(w) \/ SubmitDies(w) \/ HostDies(w) PROVE Packed'
  BY <1>2, HostPacked
<1>3. ASSUME NEW w \in Workers, NEW late \in SUBSET MayLapse, Asks(w, late) PROVE Packed'
  BY <1>3, TakePacked, TakeNothingPacked DEF Asks
<1>4. ASSUME NEW t \in Tasks, SynthStep(t) \/ SynthDies(t) PROVE Packed'
  BY <1>4, SynthPacked
<1>5. ASSUME \/ FactsMove \/ UNCHANGED vars
             \/ \E w \in Workers, t \in Tasks : TakeDies(w, t)
      PROVE  Packed'
  <2>1. task' = task /\ packRef' = packRef /\ worker' = worker
    BY <1>5 DEF FactsMove, vars, TakeDies, ClaimDies, busVars, hostVars
  <2>2. \A v \in Workers : Holds(v)' => Holds(v)
    BY <2>1 DEF Holds
  <2>3. QED
    BY <2>1, <2>2, PackedStill
<1>6. ~RequestSweep /\ \A t \in Tasks : ~RequestManual(t)
  BY DEF Orderly, RequestSweep, RequestManual
<1>7. QED
  BY <1>1, <1>2, <1>3, <1>4, <1>5, <1>6 DEF Next, Disturbance

\* Once a task is in round k, its pack is the one built for round k, as long as
\* no lease passes its TTL under a host that still works: what protects the
\* pack is that nobody can be in its turn when a task is reopened.
THEOREM PacksAreOfTheirRound ==
  ASSUME Orderly, "stall" \notin Env PROVE Spec => []RoundSpecificPack
<1>1. Init => Packed
  BY DEF Init, BusInit, NoTask, Packed, RoundSpecificPack, Known, HoldsOK, Holds, Idle
<1>2. CommInv /\ Packed /\ [Next]_vars => Packed'
  BY PackedStep
<1>3. Packed => RoundSpecificPack
  BY DEF Packed
<1>4. QED
  BY <1>1, <1>2, <1>3, CommInvariant, PTL DEF Spec
-----------------------------------------------------------------------------
(* Boards nobody reduces. *)

\* Only a submission makes a task ready.
LEMMA SweptUnready ==
  ASSUME BusInv, NEW late \in SUBSET Leases, NEW u \in Tasks, ~Ready(u)
  PROVE  Swept(late)[u].status # "ready_to_synthesize"
<1> DEFINE roles == [r \in Roles |-> IF <<u, r>> \in late
                                     THEN ExpiredRole(task[u].roles[r])
                                     ELSE task[u].roles[r]]
           rec   == [task[u] EXCEPT !.roles = roles]
<1>1. Swept(late)[u] = IF task[u].status \notin Open THEN task[u]
                       ELSE IF HasFailedRole(rec) THEN [rec EXCEPT !.status = "failed"] ELSE rec
  BY DEF Swept
<1>2. CASE task[u].status \notin Open
  BY <1>1, <1>2 DEF Ready
<1>3. CASE task[u].status \in Open
  <2>1. task[u] \in TaskRecords
    BY <1>3, KnownIsTyped DEF BusInv, Known, Open
  <2> HIDE DEF roles
  <2>2. rec.status = task[u].status /\ [rec EXCEPT !.status = "failed"].status = "failed"
    BY <2>1 DEF TaskRecords
  <2> HIDE DEF rec
  <2>3. QED
    BY <1>1, <1>3, <2>2 DEF Ready
<1>4. QED
  BY <1>2, <1>3

LEMMA ClaimUnready ==
  ASSUME BusInv, NEW late \in SUBSET Leases, NEW u \in Tasks, ~Ready(u),
         \/ ClaimIdle(late)
         \/ \E t \in Tasks, r \in Roles, w \in Workers : Claim(t, r, w, late)
  PROVE  ~Ready(u)'
<1> DEFINE q == Swept(late)
<1>1. q[u].status # "ready_to_synthesize" /\ DOMAIN q = Tasks
  BY SweptUnready DEF Swept
<1>2. CASE ClaimIdle(late)
  BY <1>1, <1>2 DEF ClaimIdle, Ready
<1>3. ASSUME NEW t \in Tasks, NEW r \in Roles, NEW w \in Workers, Claim(t, r, w, late)
      PROVE  ~Ready(u)'
  <2> DEFINE c == NextClaim(t, r, w)
  <2>1. Served(q, t, r) /\ task' = [q EXCEPT ![t] = Claimed(q[t], r, c)]
    BY <1>3 DEF Claim
  <2>2. Known(t)
    BY <2>1, SweptSound DEF Served, Claimable, NoTask, Open
  <2>3. q[t] \in TaskRecords
    BY <2>2, SweptSound, KnownIsTyped DEF BusInv
  <2> HIDE DEF q, c
  <2>4. Claimed(q[t], r, c).status = "in_progress"
    BY <2>3, ClaimedShape
  <2>5. QED
    BY <1>1, <2>1, <2>4 DEF Ready
<1>4. QED
  BY <1>2, <1>3

LEMMA FailUnready ==
  ASSUME BusInv, NEW t \in Tasks, NEW r \in Roles, NEW c, NEW retry \in BOOLEAN,
         Fail(t, r, c, retry), NEW u \in Tasks, ~Ready(u)
  PROVE  ~Ready(u)'
<1>1. Fenced(t, r, c) /\ task' = [task EXCEPT ![t] = Failed(task[t], r, retry)]
  BY DEF Fail
<1>2. Failed(task[t], r, retry).status \in {task[t].status, "failed"}
  BY <1>1, FenceFacts, FailedSound
<1>3. task'[u] = IF u = t THEN Failed(task[t], r, retry) ELSE task[u]
  BY <1>1 DEF BusInv, BusTypeOK
<1>4. QED
  BY <1>2, <1>3 DEF Ready

\* A ready board has a host that is about to reduce it, or is deserted.
LEMMA DesertedMeans ==
  ASSUME Orderly, CommInv, NEW t \in Tasks
  PROVE  Deserted(t) <=> Ready(t) /\ \A w \in Workers : ~Reducing(w, t)
<1>1. requests = {} /\ \A w \in Workers : worker[w].pc # "unanswered"
  BY TurnFacts DEF CommInv, HostTypes
<1>2. synth[t] # NoSynth => \E w \in Workers : Reducing(w, t)
  BY DEF CommInv, Deciding, Decided
<1>3. QED
  BY <1>1, <1>2 DEF Deserted, Ready, Reducing

\* A host that is about to reduce a board can.
LEMMA ReadyIsReducible ==
  ASSUME CommInv, NEW t \in Tasks, Ready(t)
  PROVE  ~NothingToReduce(t)
<1>1. /\ task[t] \in TaskRecords /\ Sound(task[t], issued[t], board[t])
      /\ issued[t] \in [Roles -> Nat]
  BY KnownIsTyped DEF Ready, CommInv, BusInv, Known
<1>2. AllRolesDone(task[t]) /\ Plan(t) \subseteq Roles
  BY <1>1 DEF Ready, Sound, TaskRecords, Plan
<1>3. ASSUME NEW r \in Plan(t) PROVE board[t][r] # NoFinding
  BY <1>1, <1>2, <1>3 DEF AllRolesDone, Plan, Sound, SoundRole, NoFinding, NoClaim
<1>4. Reported(t) = Plan(t)
  BY <1>3 DEF Reported
<1>5. QED
  BY <1>2, <1>4 DEF NothingToReduce, Ready, HasFailedRole, AllRolesDone

\* A step that makes no task ready, in which no host but w moves, deserts only
\* what w was about to reduce.
LEMMA OthersReduce ==
  ASSUME Orderly, CommInv, CommInv', NEW t \in Tasks, ~Deserted(t), Deserted(t)',
         Ready(t)' => Ready(t), NEW w \in Workers,
         \A v \in Workers : v # w => worker'[v] = worker[v]
  PROVE  Ready(t) /\ Reducing(w, t) /\ ~Reducing(w, t)'
<1>1. Ready(t)' /\ \A v \in Workers : ~Reducing(v, t)'
  BY DEF Deserted, Ready, Reducing
<1>2. Ready(t) /\ \E v \in Workers : Reducing(v, t)
  BY <1>1, DesertedMeans
<1>3. QED
  BY <1>1, <1>2 DEF Reducing

\* The steps of a host.
LEMMA HostDeserts ==
  ASSUME Orderly, CommInv, CommInv', NEW w \in Workers, HostStep(w),
         NEW t \in Tasks, ~Deserted(t)
  PROVE  ~Deserted(t)'
<1> DEFINE turn == worker[w]
           done == AllRolesDone(Published(task[turn.t], turn.r, turn.c))
<1> SUFFICES ASSUME Deserted(t)' PROVE FALSE
  OBVIOUS
<1>1. \A v \in Workers : v # w => worker'[v] = worker[v]
  BY DEF HostStep, EnsurePack, Validate, SubmitAccepted, SubmitFenced, SubmitAgain, GiveUp,
         CommInv, TurnsHold
<1>2. turn.pc # "reduce" /\ ~SubmitAgain(w)
  BY SubmitAgainNever
     DEF HostStep, EnsurePack, Validate, SubmitAccepted, SubmitFenced, SubmitAgain, GiveUp
<1>3. CASE SubmitAccepted(w)
  <2>1. /\ turn.pc = "validated" /\ Submit(turn.t, turn.r, turn.c, turn.x)
        /\ worker' = [worker EXCEPT ![w] = After(w, done)]
    BY <1>3 DEF SubmitAccepted, Orderly
  <2>2. turn \in BoundTurns
    BY <2>1, TurnFacts
  <2>3. turn.t \in Tasks
    BY <2>2 DEF BoundTurns
  <2>4. task' = [task EXCEPT ![turn.t] = Published(task[turn.t], turn.r, turn.c)]
    BY <2>1 DEF Submit
  <2>5. task'[turn.t] = Published(task[turn.t], turn.r, turn.c)
        /\ \A u \in Tasks : u # turn.t => task'[u] = task[u]
    BY <2>3, <2>4 DEF CommInv, BusInv, BusTypeOK
  <2>6. CASE turn.t = t
    <3>1. Ready(t)'
      BY DEF Deserted, Ready
    <3>2. AllRolesDone(task'[t])
      BY <3>1 DEF CommInv, BusInv, BusTypeOK, ReadyMeansReported, Sound, Known, Ready
    <3>3. done
      BY <2>5, <2>6, <3>2
    <3>4. worker'[w] = [turn EXCEPT !.pc = "reduce"]
      BY <2>1, <3>3 DEF After, CommInv, TurnsHold
    <3>5. worker'[w].pc = "reduce" /\ worker'[w].t = t
      BY <2>2, <2>6, <3>4 DEF BoundTurns
    <3>6. QED
      BY <3>5 DEF Deserted
  <2>7. CASE turn.t # t
    <3>1. Ready(t)' => Ready(t)
      BY <2>5, <2>7 DEF Ready
    <3>2. QED
      BY <1>1, <1>2, <3>1, OthersReduce DEF Reducing
  <2>8. QED
    BY <2>6, <2>7
<1>4. ASSUME NEW retry \in BOOLEAN, GiveUp(w, retry), Fenced(turn.t, turn.r, turn.c)
      PROVE  Ready(t)' => Ready(t)
  <2>1. turn \in Turns /\ Fail(turn.t, turn.r, turn.c, retry)
    BY <1>4, TurnFacts DEF GiveUp
  <2>2. turn.t \in Tasks /\ turn.r \in Roles
    BY <2>1 DEF Turns
  <2> HIDE DEF turn
  <2>3. QED
    BY <2>1, <2>2, FailUnready DEF CommInv
<1>5. CASE ~SubmitAccepted(w)
  <2>1. Ready(t)' => Ready(t)
    BY <1>2, <1>4, <1>5
       DEF HostStep, EnsurePack, Validate, SubmitFenced, GiveUp, busVars, Ready
  <2>2. QED
    BY <1>1, <1>2, <2>1, OthersReduce DEF Reducing
<1>6. QED
  BY <1>3, <1>5

\* The steps of a synthesis.
LEMMA SynthDeserts ==
  ASSUME Orderly, CommInv, CommInv', NEW u \in Tasks, SynthStep(u) \/ SynthDies(u),
         NEW t \in Tasks, ~Deserted(t), Deserted(t)'
  PROVE  SynthDies(t)
<1>1. ASSUME NEW by \in Workers \cup {Operator}, SynthRefused(u, by)
      PROVE  FALSE
  <2>1. /\ Caller(u, by) /\ Dismiss(u, by) /\ NothingToReduce(u) /\ UNCHANGED busVars
    BY <1>1 DEF SynthRefused
  <2>2. by \in Workers \ {Operator} /\ Reducing(by, u)
    BY <2>1, CallerReduces
  <2>3. ~Ready(u)
    BY <2>1, ReadyIsReducible
  <2>4. QED
    BY <2>2, <2>3 DEF CommInv, Reducers
<1>2. ASSUME NEW by \in Workers \cup {Operator}, NEW old \in SUBSET Plan(u), SynthBegin(u, by, old)
      PROVE  FALSE
  <2>1. worker' = worker /\ task' = task
    BY <1>2 DEF SynthBegin, hostVars, busVars
  <2>2. PICK w \in Workers : worker[w].pc = "reduce" /\ worker[w].t = u
    BY <1>2, CallerReduces DEF SynthBegin, Reducing
  <2>3. QED
    BY <2>1, <2>2, OthersReduce DEF Ready, Reducing
<1>3. ASSUME synth[u] # NoSynth, Release(u), \A v \in Tasks : v # u => task'[v] = task[v]
      PROVE  t = u /\ Ready(u)'
  <2>1. PICK by \in Workers : by = synth[u].by /\ by # Operator /\ Reducing(by, u)
    BY <1>3 DEF CommInv, Deciding, Decided
  <2>2. worker' = [worker EXCEPT ![by] = Idle]
    BY <1>3, <2>1 DEF Release, Dismiss
  <2>3. \A v \in Workers : v # by => worker'[v] = worker[v]
    BY <2>2 DEF CommInv, TurnsHold
  <2>4. Ready(t)'
    BY DEF Deserted, Ready
  <2>5. ASSUME t # u PROVE FALSE
    <3>1. Ready(t)' => Ready(t)
      BY <1>3, <2>5 DEF Ready
    <3>2. Reducing(by, t)
      BY <2>3, <3>1, OthersReduce
    <3>3. QED
      BY <2>1, <2>5, <3>2 DEF Reducing
  <2>6. QED
    BY <2>4, <2>5
<1>4. CASE SynthDies(u)
  <2>1. t = u
    BY <1>3, <1>4 DEF SynthDies, busVars
  <2>2. QED
    BY <1>4, <2>1
<1>5. CASE SynthReopen(u) \/ SynthCommit(u)
  <2> DEFINE s == synth[u]
  <2>1. s # NoSynth /\ Release(u)
    BY <1>5 DEF SynthReopen, SynthCommit
  <2>2. Ready(u) /\ s.rec = task[u] /\ task[u] \in TaskRecords
    BY <2>1, SynthFacts
  <2>3. PICK rec : task' = [task EXCEPT ![u] = rec] /\ rec.status # "ready_to_synthesize"
    <3>1. Escalated(task[u], s.directed).status = "in_progress"
      BY <2>2 DEF Escalated, TaskRecords
    <3>2. WithAdjudicator(task[u]).status = "in_progress"
      BY <2>2 DEF WithAdjudicator, TaskRecords
    <3>3. \A x \in Active \cup Terminal : Closed(task[u], x).status = x
      BY <2>2 DEF Closed, TaskRecords
    <3>4. Verdicts!TerminalStatus(s.decision.verdict) \in Terminal
      BY DEF Verdicts!TerminalStatus, Terminal
    <3>5. "ready_to_synthesize" \notin Terminal
      BY DEF Terminal
    <3> DEFINE status == Verdicts!TerminalStatus(s.decision.verdict)
    <3>6. \/ task' = [task EXCEPT ![u] = Escalated(task[u], s.directed)]
          \/ task' = [task EXCEPT ![u] = WithAdjudicator(task[u])]
          \/ task' = [task EXCEPT ![u] = Closed(task[u], status)]
      BY <1>5, <2>2 DEF SynthReopen, SynthCommit
    <3>7. Closed(task[u], status).status = status
      BY <3>3, <3>4
    <3> HIDE DEF s, status
    <3>8. QED
      BY <3>1, <3>2, <3>4, <3>5, <3>6, <3>7 DEF s, status
  <2>4. \A v \in Tasks : task'[v] = IF v = u THEN rec ELSE task[v]
    BY <2>3 DEF CommInv, BusInv, BusTypeOK
  <2>5. t = u /\ Ready(u)'
    BY <1>3, <2>1, <2>4
  <2>6. QED
    BY <2>3, <2>4, <2>5 DEF Ready
<1>6. QED
  BY <1>1, <1>2, <1>4, <1>5 DEF SynthStep

\* A ready board has somebody to reduce it, unless the one who was to do it died
\* before its synthesis or in it (cmd_submit and _consume_claimed after the last
\* submission).
THEOREM ReadyBoardsAreReduced ==
  ASSUME Orderly PROVE Spec => OnlyDeathDeserts
<1> DEFINE A == \A t \in Tasks : ~Deserted(t) /\ Deserted(t)' => ReducerDies(t)
<1>1. CommInv /\ [Next]_vars => [A]_vars
  <2> SUFFICES ASSUME CommInv, Next, NEW t \in Tasks, ~Deserted(t), Deserted(t)'
               PROVE  ReducerDies(t)
    OBVIOUS
  <2>1. CommInv'
    BY CommStep
  <2>2. ASSUME NEW u \in Tasks, NEW force \in BOOLEAN, Submitted(u, force)
        PROVE  FALSE
    <3>1. worker' = worker
      BY <2>2 DEF Submitted, hostVars
    <3>2. task' = [task EXCEPT ![u] = NewTask]
      BY <2>2 DEF Submitted, Enqueue
    <3>3. Ready(t)' => Ready(t)
      BY <3>2 DEF Ready, NewTask, CommInv, BusInv, BusTypeOK
    <3>4. PICK w \in Workers : Reducing(w, t)
      BY <3>1, <3>3, DesertedMeans DEF Deserted, Ready
    <3>5. QED
      BY <2>1, <3>1, <3>3, <3>4, OthersReduce DEF Reducing
  <2>3. ASSUME NEW w \in Workers, HostStep(w) PROVE FALSE
    BY <2>1, <2>3, HostDeserts
  <2>4. ASSUME NEW w \in Workers, NEW late \in SUBSET MayLapse, Asks(w, late)
        PROVE  FALSE
    <3>1. late \in SUBSET Leases
      BY DEF MayLapse
    <3>2. worker[w].pc # "reduce" /\ \A v \in Workers : v # w => worker'[v] = worker[v]
      BY <2>4 DEF Asks, Take, TakeNothing, hostVars, Busy, CommInv, TurnsHold
    <3>3. Ready(t)' => Ready(t)
      BY <2>4, <3>1, ClaimUnready DEF Asks, Take, TakeNothing, CommInv
    <3>4. QED
      BY <2>1, <3>2, <3>3, OthersReduce DEF Reducing
  <2>5. ASSUME NEW u \in Tasks, SynthStep(u) \/ SynthDies(u)
        PROVE  SynthDies(t)
    BY <2>1, <2>5, SynthDeserts
  <2>6. ASSUME NEW w \in Workers, SubmitDies(w) \/ \E u \in Tasks : TakeDies(w, u)
        PROVE  FALSE
    <3>1. worker[w].pc # "reduce" /\ \A v \in Workers : v # w => worker'[v] = worker[v]
      BY <2>6 DEF SubmitDies, TakeDies, hostVars, Busy, CommInv, TurnsHold
    <3>2. Ready(t)' => Ready(t)
      BY <2>6 DEF SubmitDies, TakeDies, PublishDies, ClaimDies, Ready
    <3>3. QED
      BY <2>1, <3>1, <3>2, OthersReduce DEF Reducing
  <2>7. ASSUME NEW w \in Workers, HostDies(w)
        PROVE  /\ worker[w].pc \in {"reduce", "unanswered"} /\ worker[w].t = t
               /\ ~NothingToReduce(t) /\ HostDies(w)
    <3>1. \A v \in Workers : v # w => worker'[v] = worker[v]
      BY <2>7 DEF HostDies, CommInv, TurnsHold
    <3>2. Ready(t)' => Ready(t)
      BY <2>7 DEF HostDies, busVars, Ready
    <3>3. Ready(t) /\ Reducing(w, t)
      BY <2>1, <3>1, <3>2, OthersReduce
    <3>4. QED
      BY <2>7, <3>3, ReadyIsReducible DEF Reducing
  <2>8. ~FactsMove
    <3> SUFFICES ASSUME FactsMove PROVE FALSE
      OBVIOUS
    <3>1. worker' = worker /\ task' = task
      BY DEF FactsMove, busVars
    <3>2. PICK w \in Workers : Reducing(w, t)
      BY <3>1, DesertedMeans DEF Deserted, Ready
    <3>3. QED
      BY <2>1, <3>1, <3>2, OthersReduce DEF Reducing, Ready
  <2>9. ~RequestSweep /\ \A u \in Tasks : ~RequestManual(u)
    BY DEF Orderly, RequestSweep, RequestManual
  <2>10. QED
    BY <2>2, <2>3, <2>4, <2>5, <2>6, <2>7, <2>8, <2>9 DEF Next, Disturbance, ReducerDies
<1>2. QED
  BY <1>1, CommInvariant, PTL DEF Spec, OnlyDeathDeserts
=============================================================================
