----------------------------- MODULE ResearchBus -----------------------------
(***************************************************************************)
(* The research task bus (skills/common/research_bus.py): the task queue,  *)
(* the daily character budget and the per-task board of findings.          *)
(*                                                                         *)
(* Every operation of the bus is one mutate_json call, a read-modify-write *)
(* of the queue file under its lock, so it is one action here.  What is    *)
(* NOT one step is kept apart: the budget file and the board files are     *)
(* other files, written before the queue file, and a crash in between      *)
(* leaves them ahead of it (ClaimDies, PublishDies).                       *)
(*                                                                         *)
(* The bus trusts no caller.  On its own it is specified against every     *)
(* call that can arrive: any worker may present any claim id ever issued,  *)
(* at any time and in any order (late, duplicated, after its lease was     *)
(* reclaimed, after the task closed), and any task may be resolved or      *)
(* updated by the synthesis.  ResearchCommittee composes it with the       *)
(* workers and the synthesis that really call it.                          *)
(***************************************************************************)
EXTENDS Integers, FiniteSets

CONSTANTS Tasks,        \* task ids: one (kind, subject, trading date) each
          Subject,      \* Subject[t]: its (kind, subject_key)
          Day,          \* Day[t]: its trading date
          Priority,     \* Priority[t]: higher is claimed first
          Cost,         \* Cost[t]: budget.estimated_chars
          Cap,          \* budget.daily_char_budget; 0 means no cap
          Cooldown,     \* the kind's cooldown_days
          MaxAttempts,  \* max_attempts_per_role
          Experts,      \* the kind's expert plan
          MaxRounds,    \* escalation.max_rounds; 0 when escalation is disabled
          Workers,      \* names workers claim under
          Contents,     \* what a finding may say (its fields other than the claim)
          NoContent     \* a board file that does not exist

Adjudicator == "adjudicator"

ASSUME BusAssumption ==
  /\ Subject \in [Tasks -> STRING] /\ Day \in [Tasks -> Nat]
  /\ Priority \in [Tasks -> Nat] /\ Cost \in [Tasks -> Nat]
  /\ Cap \in Nat /\ Cooldown \in Nat /\ MaxAttempts \in Nat \ {0}
  /\ MaxRounds \in Nat /\ Adjudicator \notin Experts

VARIABLES task,     \* the queue file: task[t], or NoTask if never enqueued
          issued,   \* issued[t][r]: how many claim ids were drawn for a role
          board,    \* board/{role}.json of each task
          budget    \* research budget file of each day

busVars == <<task, issued, board, budget>>

Roles == Experts \cup {Adjudicator}
Days  == {Day[t] : t \in Tasks}

Open     == {"pending", "in_progress"}                \* claim_next_work looks here
Active   == Open \cup {"ready_to_synthesize"}         \* ACTIVE_STATUSES
Terminal == {"done", "failed", "abstained", "rejected"}

\* A claim id is a fresh uuid bound to the worker that holds it.
Claims  == [n : Nat \ {0}, by : Workers]
NoClaim == [n |-> 0, by |-> "nobody"]

Findings  == [content : Contents, claim : Claims]
NoFinding == [content |-> NoContent, claim |-> NoClaim]

RoleStates ==
  [status : {"pending", "claimed", "done", "failed"},
   attempts : 0..MaxAttempts,
   claim : Claims \cup {NoClaim},   \* claim_id, claimed_by, while claimed
   sub : Claims \cup {NoClaim}]     \* submission_claim_id, submission_worker

Unclaimed == [status |-> "pending", attempts |-> 0, claim |-> NoClaim, sub |-> NoClaim]

NoTask == [status |-> "absent"]

TaskRecords ==
  [status : Active \cup Terminal, plan : SUBSET Roles, roles : [Roles -> RoleStates],
   round : 0..MaxRounds, reserved : BOOLEAN]

Known(t) == task[t].status # "absent"

Plan(t) == task[t].plan

RoleIs(t, r, s) == r \in Plan(t) /\ task[t].roles[r].status = s

HasFailedRole(rec) == \E r \in rec.plan : rec.roles[r].status = "failed"

AllRolesDone(rec) == \A r \in rec.plan : rec.roles[r].status = "done"
-----------------------------------------------------------------------------
(* Enqueueing *)

\* Mutant: a task waiting for its synthesis is forgotten.
AlreadyOpen(t) ==
  \E u \in Tasks : Subject[u] = Subject[t] /\ task[u].status \in Open

AlreadyActive(t) ==
  \E u \in Tasks : Subject[u] = Subject[t] /\ task[u].status \in Active

InCooldown(t) ==
  /\ Cooldown > 0
  /\ \E u \in Tasks : /\ Subject[u] = Subject[t] /\ task[u].status \in Terminal
                      /\ Day[u] >= Day[t] - Cooldown

NewTask == [status |-> "pending", plan |-> Experts,
            roles |-> [r \in Roles |-> Unclaimed], round |-> 0, reserved |-> FALSE]

\* enqueue_task: refused for a known id, an active task on the subject, or
\* (unless forced) a task on the subject resolved within the cooldown.
Enqueue(t, force) ==
  /\ ~Known(t) /\ ~AlreadyActive(t) /\ (force \/ ~InCooldown(t))
  /\ task' = [task EXCEPT ![t] = NewTask]
  /\ UNCHANGED <<issued, board, budget>>
-----------------------------------------------------------------------------
(* Claiming *)

\* A role gives its claim back, for good or for another attempt.
FailedRole(state, gone) ==
  [state EXCEPT !.status = IF gone THEN "failed" ELSE "pending", !.claim = NoClaim]

\* Mutant: one attempt too many, which no claim can use.
ExpiredRoleLate(state) == FailedRole(state, state.attempts > MaxAttempts)

\* _expire_stale_claims on one role whose lease is past its TTL.
ExpiredRole(state) == FailedRole(state, state.attempts >= MaxAttempts)

\* The queue after expiry, when "late" holds the <<task, role>> leases that are
\* past their TTL: each goes back to pending or fails, and a task with a
\* failed role fails.  Only open tasks are looked at.
Swept(late) ==
  [t \in Tasks |->
     IF task[t].status \notin Open THEN task[t]
     ELSE LET rec == [task[t] EXCEPT !.roles =
                        [r \in Roles |-> IF <<t, r>> \in late
                                         THEN ExpiredRole(task[t].roles[r])
                                         ELSE task[t].roles[r]]]
          IN  IF HasFailedRole(rec) THEN [rec EXCEPT !.status = "failed"] ELSE rec]

\* Mutant: a role that reported counts as leased, too.
LeasesEver == {l \in Tasks \X Roles :
                 task[l[1]].status \in Open /\ \E s \in {"claimed", "done"} : RoleIs(l[1], l[2], s)}

\* Leases that exist: which of them are past the TTL is a matter of time.
Leases == {l \in Tasks \X Roles :
             task[l[1]].status \in Open /\ RoleIs(l[1], l[2], "claimed")}

Claimable(q, t, r) ==
  /\ q[t].status \in Open
  /\ r \in q[t].plan /\ q[t].roles[r].status = "pending"
  /\ q[t].roles[r].attempts < MaxAttempts

\* Mutant: the task's own cost is left out of the comparison.
AffordableSoFar(t) ==
  t \in budget[Day[t]].entries \/ Cap = 0 \/ budget[Day[t]].reserved <= Cap

\* reserve_budget: granted at once when the task already has an entry.
Affordable(t) ==
  \/ t \in budget[Day[t]].entries
  \/ Cap = 0
  \/ budget[Day[t]].reserved + Cost[t] <= Cap

Charge(t) ==
  IF t \in budget[Day[t]].entries THEN budget
  ELSE [budget EXCEPT ![Day[t]].entries = @ \cup {t},
                      ![Day[t]].reserved = @ + Cost[t]]

HasBudget(q, t) == q[t].reserved \/ Affordable(t)

\* The first task in (-priority, created_at) order with a claimable role and
\* budget is served; ties in priority may fall either way.
Served(q, t, r) ==
  /\ Claimable(q, t, r) /\ HasBudget(q, t)
  /\ \A u \in Tasks : Priority[u] > Priority[t] =>
        ~(Claimable(q, u, r) /\ HasBudget(q, u))

NextClaim(t, r, w) == [n |-> issued[t][r] + 1, by |-> w]

ClaimedRole(state, c) ==
  [state EXCEPT !.status = "claimed", !.claim = c, !.attempts = @ + 1]

Claimed(rec, r, c) ==
  [rec EXCEPT !.status = "in_progress", !.reserved = TRUE,
              !.roles[r] = ClaimedRole(rec.roles[r], c)]

\* claim_next_work: expire, then claim role r of t for worker w.  A worker may
\* ask for any one role, so r ranges over all.
Claim(t, r, w, late) ==
  /\ late \subseteq Leases
  /\ LET q == Swept(late)
     IN  /\ Served(q, t, r)
         /\ task' = [q EXCEPT ![t] = Claimed(@, r, NextClaim(t, r, w))]
         /\ budget' = IF q[t].reserved THEN budget ELSE Charge(t)
  /\ issued' = [issued EXCEPT ![t][r] = @ + 1]
  /\ UNCHANGED board

\* claim_next_work that finds no work: what expired is written all the same.
ClaimIdle(late) ==
  /\ late \subseteq Leases
  /\ task' = Swept(late)
  /\ UNCHANGED <<issued, board, budget>>

\* A crash after reserve_budget wrote the budget file and before the queue
\* file was replaced: the budget is charged, the task knows nothing of it.
ClaimDies(t) ==
  /\ \E r \in Roles : Served(task, t, r)
  /\ ~task[t].reserved
  /\ budget' = Charge(t)
  /\ UNCHANGED <<task, issued, board>>
-----------------------------------------------------------------------------
(* Submitting and failing *)

\* Mutants of the fence: any claim of a claimed role passes; the claim is
\* compared only while the role is claimed.
FencedByStatus(t, r, c) == Known(t) /\ RoleIs(t, r, "claimed")
FencedIfClaimed(t, r, c) ==
  /\ Known(t) /\ r \in Plan(t)
  /\ RoleIs(t, r, "claimed") => task[t].roles[r].claim = c

\* _claim_fence_error finds nothing wrong with claim c.
Fenced(t, r, c) == Known(t) /\ RoleIs(t, r, "claimed") /\ task[t].roles[r].claim = c

PublishedRole(state, c) ==
  [state EXCEPT !.status = "done", !.claim = NoClaim, !.sub = c]

\* Mutants: a role under way, or one that failed, counts as reported.
PublishedEarly(rec, r, c) ==
  LET marked == [rec EXCEPT !.roles[r] = PublishedRole(rec.roles[r], c)]
  IN  IF \A s \in rec.plan : marked.roles[s].status # "pending"
      THEN [marked EXCEPT !.status = "ready_to_synthesize"] ELSE marked
PublishedOverFailure(rec, r, c) ==
  LET marked == [rec EXCEPT !.roles[r] = PublishedRole(rec.roles[r], c)]
  IN  IF \A s \in rec.plan : marked.roles[s].status \in {"done", "failed"}
      THEN [marked EXCEPT !.status = "ready_to_synthesize"] ELSE marked

Published(rec, r, c) ==
  LET marked == [rec EXCEPT !.roles[r] = PublishedRole(rec.roles[r], c)]
  IN  IF AllRolesDone(marked)
      THEN [marked EXCEPT !.status = "ready_to_synthesize"]
      ELSE marked

\* submit_finding, accepted: the board file and then the queue.
Submit(t, r, c, x) ==
  /\ Fenced(t, r, c)
  /\ board' = [board EXCEPT ![t][r] = [content |-> x, claim |-> c]]
  /\ task' = [task EXCEPT ![t] = Published(@, r, c)]
  /\ UNCHANGED <<issued, budget>>

\* A crash between _publish_finding's write of the board file and the
\* replacement of the queue file.
PublishDies(t, r, c, x) ==
  /\ Fenced(t, r, c)
  /\ board' = [board EXCEPT ![t][r] = [content |-> x, claim |-> c]]
  /\ UNCHANGED <<task, issued, budget>>

\* Mutant: the role fails, the task goes on.
FailedAlone(rec, r, retry) ==
  [rec EXCEPT !.roles[r] = FailedRole(rec.roles[r], rec.roles[r].attempts >= MaxAttempts \/ ~retry)]

Failed(rec, r, retry) ==
  LET gone == rec.roles[r].attempts >= MaxAttempts \/ ~retry
      out  == [rec EXCEPT !.roles[r] = FailedRole(rec.roles[r], gone)]
  IN  IF gone THEN [out EXCEPT !.status = "failed"] ELSE out

\* fail_role, accepted.
Fail(t, r, c, retry) ==
  /\ Fenced(t, r, c)
  /\ task' = [task EXCEPT ![t] = Failed(@, r, retry)]
  /\ UNCHANGED <<issued, board, budget>>
-----------------------------------------------------------------------------
(* What the synthesis writes back (update_task overwrites whole fields) *)

\* _commit_synthesis: the task takes a terminal status.
Closed(rec, status) == [rec EXCEPT !.status = status]

\* Mutant: one round too many.
RoundsLeftOver(rec) == rec.round <= MaxRounds

RoundsLeft(rec) == rec.round < MaxRounds

\* _maybe_escalate below the last round: the roles with a direction start
\* over, with no attempts, and the round goes up by one.
Escalated(rec, conflicted) ==
  [rec EXCEPT !.status = "in_progress", !.round = @ + 1,
              !.roles = [r \in Roles |-> IF r \in conflicted THEN Unclaimed
                                         ELSE rec.roles[r]]]

\* Mutant: the adjudicator replaces the panel.
OnlyAdjudicator(rec) ==
  [rec EXCEPT !.status = "in_progress", !.plan = {Adjudicator},
              !.roles[Adjudicator] = Unclaimed]

\* _maybe_escalate in the last round: the adjudicator joins the plan.
WithAdjudicator(rec) ==
  [rec EXCEPT !.status = "in_progress", !.plan = @ \cup {Adjudicator},
              !.roles[Adjudicator] = Unclaimed]

\* The bus on its own sees a synthesis that does not overlap anything else:
\* it resolves or reopens a task that is ready.
Resolve(t) ==
  /\ task[t].status = "ready_to_synthesize"
  /\ \/ \E s \in Terminal \ {"failed"} : task' = [task EXCEPT ![t] = Closed(@, s)]
     \/ /\ RoundsLeft(task[t])
        /\ \E S \in SUBSET Plan(t) :
              S # {} /\ task' = [task EXCEPT ![t] = Escalated(@, S)]
     \/ /\ MaxRounds > 0 /\ task[t].round = MaxRounds /\ Adjudicator \notin Plan(t)
        /\ task' = [task EXCEPT ![t] = WithAdjudicator(@)]
  /\ UNCHANGED <<issued, board, budget>>
-----------------------------------------------------------------------------
BusInit ==
  /\ task = [t \in Tasks |-> NoTask]
  /\ issued = [t \in Tasks |-> [r \in Roles |-> 0]]
  /\ board = [t \in Tasks |-> [r \in Roles |-> NoFinding]]
  /\ budget = [d \in Days |-> [entries |-> {}, reserved |-> 0]]

\* Any claim id ever issued for the role may be presented, by any worker.
Presentable(t, r) == [n : 1..issued[t][r], by : Workers]

BusNext ==
  \/ \E t \in Tasks, force \in BOOLEAN : Enqueue(t, force)
  \/ \E late \in SUBSET Leases :
        \/ ClaimIdle(late)
        \/ \E t \in Tasks, r \in Roles, w \in Workers : Claim(t, r, w, late)
  \/ \E t \in Tasks : ClaimDies(t) \/ Resolve(t)
  \/ \E t \in Tasks, r \in Roles : \E c \in Presentable(t, r) :
        \/ \E x \in Contents : Submit(t, r, c, x) \/ PublishDies(t, r, c, x)
        \/ \E retry \in BOOLEAN : Fail(t, r, c, retry)

BusSpec == BusInit /\ [][BusNext]_busVars
-----------------------------------------------------------------------------
(* Properties *)

\* Types of the queue, the claim counters, the boards and the budget files.
BusTypeOK ==
  /\ task \in [Tasks -> TaskRecords \cup {NoTask}]
  /\ issued \in [Tasks -> [Roles -> Nat]]
  /\ board \in [Tasks -> [Roles -> Findings \cup {NoFinding}]]
  /\ budget \in [Days -> [entries : SUBSET Tasks, reserved : Nat]]

\* The claim fence works: the only claim that can be live or accepted for a
\* role is the one issued last, so a worker whose lease was reclaimed can
\* neither overwrite its successor nor be credited for it.
LatestClaimOnly ==
  \A t \in Tasks : Known(t) => \A r \in Roles :
    LET state == task[t].roles[r]
    IN  /\ state.status = "claimed" => state.claim.n = issued[t][r]
        /\ state.status = "done" => state.sub.n = issued[t][r]

\* Queue and board agree: the board file of a role that is done holds the
\* finding of the very submission the queue recorded, whatever late
\* submissions, crashes and reclaims came in between.
BoardMatchesQueue ==
  \A t \in Tasks : Known(t) => \A r \in Roles :
    task[t].roles[r].status = "done" => board[t][r].claim = task[t].roles[r].sub

\* No role is stranded: a pending role still has an attempt left, so in an
\* open task whatever is not reported is claimed or can be claimed.
PendingHasAttempts ==
  \A t \in Tasks : Known(t) => \A r \in Plan(t) :
    task[t].roles[r].status = "pending" => task[t].roles[r].attempts < MaxAttempts

\* A task is ready only when every planned role has reported.
ReadyMeansReported ==
  \A t \in Tasks : task[t].status = "ready_to_synthesize" => AllRolesDone(task[t])

\* The daily budget: what is reserved never passes the cap, and no task's
\* role was ever claimed without the task being charged on its day, once,
\* even when a crash separates the budget file from the queue.
BudgetHolds ==
  /\ Cap > 0 => \A d \in Days : budget[d].reserved <= Cap
  /\ \A t \in Tasks : Known(t) /\ task[t].reserved => t \in budget[Day[t]].entries
  /\ \A t \in Tasks, r \in Roles : issued[t][r] > 0 => task[t].reserved

\* At most one active task per subject: enqueue refuses a second one, and no
\* later operation makes a resolved task active again.
OneActivePerSubject ==
  \A t, u \in Tasks :
    t # u /\ Subject[t] = Subject[u] => ~(task[t].status \in Active /\ task[u].status \in Active)

\* A finding the bus accepted stays accepted, with its content, until the
\* synthesis reopens the role.
AcceptedIsKept ==
  [][\A t \in Tasks, r \in Roles :
       Known(t) /\ RoleIs(t, r, "done") /\ task'[t].round = task[t].round =>
         /\ task'[t].roles[r] = task[t].roles[r]
         /\ board'[t][r] = board[t][r]]_busVars

\* A closed task stays closed.
ClosedStaysClosed ==
  [][\A t \in Tasks : task[t].status \in Terminal => task'[t].status = task[t].status]_busVars
=============================================================================
