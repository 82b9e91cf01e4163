-------------------------- MODULE ResearchBus_proofs --------------------------
(***************************************************************************)
(* Proofs about the research bus, for every number of tasks, roles,        *)
(* workers, attempts and rounds.                                           *)
(*                                                                         *)
(* The argument is local to a task: Sound states what its record, its      *)
(* claim counters and its board have to do with each other, one lemma per  *)
(* operator shows that the operator keeps it, and the inductive invariant  *)
(* BusInv says that every known task is sound.                             *)
(***************************************************************************)
EXTENDS ResearchBus, TLAPS

\* A role against its claim counter n and its board file b.
SoundRole(s, n, b) ==
  /\ s.status = "claimed" => s.claim.n = n /\ n > 0
  /\ s.status = "done" => s.sub.n = n /\ n > 0 /\ b.claim = s.sub
  /\ s.status = "pending" => s.attempts < MaxAttempts

\* A task record against its counters and its board.
Sound(rec, iss, brd) ==
  /\ \A r \in Roles : SoundRole(rec.roles[r], iss[r], brd[r])
  /\ rec.status = "ready_to_synthesize" => AllRolesDone(rec)
  /\ rec.status = "failed" => HasFailedRole(rec)
  /\ rec.status \in Terminal \ {"failed"} => AllRolesDone(rec)

Boards == [Roles -> Findings \cup {NoFinding}]
-----------------------------------------------------------------------------
(* What the operators on task records preserve. *)

\* Setting one role of a record keeps its type, and nothing else changes.
LEMMA SetRole ==
  ASSUME NEW rec \in TaskRecords, NEW r \in Roles, NEW s \in RoleStates
  PROVE  LET out == [rec EXCEPT !.roles[r] = s]
         IN  /\ out \in TaskRecords
             /\ out.roles[r] = s
             /\ \A q \in Roles : q # r => out.roles[q] = rec.roles[q]
             /\ out.status = rec.status /\ out.plan = rec.plan
             /\ out.round = rec.round /\ out.reserved = rec.reserved
  BY DEF TaskRecords

\* Setting the status of a record.
LEMMA SetStatus ==
  ASSUME NEW rec \in TaskRecords, NEW s \in Active \cup Terminal
  PROVE  LET out == [rec EXCEPT !.status = s]
         IN  /\ out \in TaskRecords
             /\ out.status = s /\ out.roles = rec.roles /\ out.plan = rec.plan
             /\ out.round = rec.round /\ out.reserved = rec.reserved
  BY DEF TaskRecords

\* What claiming, publishing and giving up do to the state of the role.
LEMMA RoleClaimed ==
  ASSUME NEW s \in RoleStates, NEW c \in Claims, s.attempts < MaxAttempts
  PROVE  LET out == ClaimedRole(s, c)
         IN  out \in RoleStates /\ out.status = "claimed" /\ out.claim = c
<1>1. s.attempts + 1 \in 0..MaxAttempts
  BY BusAssumption DEF RoleStates
<1>2. QED
  BY <1>1 DEF RoleStates, ClaimedRole

LEMMA RolePublished ==
  ASSUME NEW s \in RoleStates, NEW c \in Claims
  PROVE  LET out == PublishedRole(s, c)
         IN  out \in RoleStates /\ out.status = "done" /\ out.sub = c
  BY DEF RoleStates, PublishedRole

LEMMA RoleGivenUp ==
  ASSUME NEW s \in RoleStates, NEW gone \in BOOLEAN
  PROVE  LET out == FailedRole(s, gone)
         IN  /\ out \in RoleStates /\ out.attempts = s.attempts
             /\ out.status = IF gone THEN "failed" ELSE "pending"
  BY DEF RoleStates, FailedRole

\* A claim marks a pending role with attempts left as claimed under a new id.
LEMMA ClaimedSound ==
  ASSUME NEW rec \in TaskRecords, NEW r \in Roles, NEW c \in Claims,
         NEW iss \in [Roles -> Nat], NEW brd \in Boards,
         Sound(rec, iss, brd),
         rec.roles[r].attempts < MaxAttempts, c.n = iss[r] + 1
  PROVE  LET out == Claimed(rec, r, c)
         IN  /\ out \in TaskRecords
             /\ Sound(out, [iss EXCEPT ![r] = @ + 1], brd)
             /\ out.roles[r].status = "claimed"
             /\ \A q \in Roles : q # r => out.roles[q] = rec.roles[q]
             /\ out.status = "in_progress" /\ out.reserved
             /\ out.plan = rec.plan /\ out.round = rec.round
<1> DEFINE s   == ClaimedRole(rec.roles[r], c)
           out == Claimed(rec, r, c)
<1>1. s \in RoleStates /\ s.status = "claimed" /\ s.claim = c
  BY RoleClaimed DEF TaskRecords
<1> HIDE DEF s
<1>2. out = [rec EXCEPT !.status = "in_progress", !.reserved = TRUE, !.roles[r] = s]
  BY DEF Claimed, s
<1>3. /\ out \in TaskRecords
      /\ out.roles = [rec.roles EXCEPT ![r] = s]
      /\ out.status = "in_progress" /\ out.reserved
      /\ out.plan = rec.plan /\ out.round = rec.round
  <2> HIDE DEF out
  <2>1. out.roles = [rec.roles EXCEPT ![r] = s]
    BY <1>2 DEF TaskRecords
  <2>2. /\ out.status = "in_progress" /\ out.reserved = TRUE
        /\ out.plan = rec.plan /\ out.round = rec.round
    BY <1>2 DEF TaskRecords
  <2>3. [rec.roles EXCEPT ![r] = s] \in [Roles -> RoleStates]
    BY <1>1 DEF TaskRecords
  <2>4. out = [status |-> "in_progress", plan |-> rec.plan,
               roles |-> [rec.roles EXCEPT ![r] = s], round |-> rec.round, reserved |-> TRUE]
    BY <1>2 DEF TaskRecords
  <2>5. out \in TaskRecords
    BY <2>3, <2>4 DEF TaskRecords, Active, Open
  <2>6. QED
    BY <2>1, <2>2, <2>5
<1> HIDE DEF out
<1>4. out.roles[r] = s /\ \A q \in Roles : q # r => out.roles[q] = rec.roles[q]
  BY <1>3 DEF TaskRecords
<1>5. \A q \in Roles : SoundRole(out.roles[q], [iss EXCEPT ![r] = @ + 1][q], brd[q])
  BY <1>1, <1>4 DEF Sound, SoundRole
<1>6. QED
  BY <1>1, <1>3, <1>4, <1>5 DEF Sound, Terminal, out

\* A publication marks a claimed role as done, with the submission's claim and
\* the finding it left on the board; a closed task stays closed.
LEMMA PublishedSound ==
  ASSUME NEW rec \in TaskRecords, NEW r \in Roles, NEW c \in Claims,
         NEW iss \in [Roles -> Nat], NEW brd \in Boards, NEW b \in Findings,
         Sound(rec, iss, brd),
         r \in rec.plan, rec.roles[r].status = "claimed", rec.roles[r].claim = c,
         b.claim = c
  PROVE  LET out == Published(rec, r, c)
         IN  /\ out \in TaskRecords
             /\ Sound(out, iss, [brd EXCEPT ![r] = b])
             /\ \A q \in Roles : q # r => out.roles[q] = rec.roles[q]
             /\ rec.status \in Terminal => out.status = rec.status
             /\ out.status \in {rec.status, "ready_to_synthesize"}
             /\ out.status \in Active => rec.status \in Active
             /\ out.plan = rec.plan /\ out.round = rec.round /\ out.reserved = rec.reserved
<1> DEFINE s      == PublishedRole(rec.roles[r], c)
           marked == [rec EXCEPT !.roles[r] = s]
           out    == Published(rec, r, c)
<1>1. s \in RoleStates /\ s.status = "done" /\ s.sub = c
  BY RolePublished DEF TaskRecords
<1> HIDE DEF s
<1>2. /\ marked \in TaskRecords /\ marked.roles[r] = s
      /\ \A q \in Roles : q # r => marked.roles[q] = rec.roles[q]
      /\ marked.status = rec.status /\ marked.plan = rec.plan
      /\ marked.round = rec.round /\ marked.reserved = rec.reserved
  BY <1>1, SetRole
<1>3. out = IF AllRolesDone(marked)
            THEN [marked EXCEPT !.status = "ready_to_synthesize"] ELSE marked
  BY DEF Published, s
<1> HIDE DEF marked, out
<1>4. ~AllRolesDone(rec)
  BY DEF AllRolesDone
<1>5. HasFailedRole(rec) => ~AllRolesDone(marked) /\ HasFailedRole(marked)
  BY <1>2 DEF HasFailedRole, AllRolesDone, TaskRecords
<1>6. rec.status # "ready_to_synthesize"
  BY <1>4 DEF Sound
<1>7. rec.status \in Terminal => rec.status = "failed" /\ HasFailedRole(rec)
  BY <1>4 DEF Sound
<1>8. \A q \in Roles : SoundRole(marked.roles[q], iss[q], [brd EXCEPT ![r] = b][q])
  BY <1>1, <1>2 DEF Sound, SoundRole, Boards
<1>9. CASE AllRolesDone(marked)
  <2>1. /\ out \in TaskRecords /\ out.status = "ready_to_synthesize"
        /\ out.roles = marked.roles /\ out.plan = marked.plan
        /\ out.round = marked.round /\ out.reserved = marked.reserved
    BY <1>2, <1>3, <1>9, SetStatus DEF Active
  <2>2. rec.status \in Active
    BY <1>5, <1>7, <1>9 DEF TaskRecords
  <2>3. Sound(out, iss, [brd EXCEPT ![r] = b])
    BY <1>8, <1>9, <2>1 DEF Sound, AllRolesDone, Terminal
  <2>4. QED
    BY <1>2, <1>5, <1>7, <1>9, <2>1, <2>2, <2>3 DEF out
<1>10. CASE ~AllRolesDone(marked)
  <2>1. out = marked
    BY <1>3, <1>10
  <2>2. Sound(out, iss, [brd EXCEPT ![r] = b])
    BY <1>2, <1>5, <1>6, <1>7, <1>8, <2>1 DEF Sound
  <2>3. QED
    BY <1>2, <2>1, <2>2 DEF out
<1>11. QED
  BY <1>9, <1>10 DEF out

\* Giving a claimed role up: nothing else changes, and only a role that fails
\* for good changes the status of the task, to failed.
LEMMA FailedSound ==
  ASSUME NEW rec \in TaskRecords, NEW r \in Roles, NEW retry \in BOOLEAN,
         NEW iss \in [Roles -> Nat], NEW brd \in Boards,
         Sound(rec, iss, brd),
         r \in rec.plan, rec.roles[r].status = "claimed"
  PROVE  LET out == Failed(rec, r, retry)
         IN  /\ out \in TaskRecords
             /\ Sound(out, iss, brd)
             /\ \A q \in Roles : q # r => out.roles[q] = rec.roles[q]
             /\ out.status \in {rec.status, "failed"}
             /\ rec.status \in Terminal => out.status = rec.status
             /\ out.plan = rec.plan /\ out.round = rec.round /\ out.reserved = rec.reserved
<1> DEFINE gone == rec.roles[r].attempts >= MaxAttempts \/ ~retry
           s    == FailedRole(rec.roles[r], gone)
           mid  == [rec EXCEPT !.roles[r] = s]
           out  == Failed(rec, r, retry)
<1>1. rec.roles[r] \in RoleStates /\ gone \in BOOLEAN
  BY DEF TaskRecords
<1>2. /\ s \in RoleStates /\ s.attempts = rec.roles[r].attempts
      /\ s.status = IF gone THEN "failed" ELSE "pending"
  BY <1>1, RoleGivenUp
<1>3. ~gone => s.attempts < MaxAttempts
  BY <1>1, <1>2, BusAssumption DEF RoleStates
<1>4. out = IF gone THEN [mid EXCEPT !.status = "failed"] ELSE mid
  BY DEF Failed
<1> HIDE DEF s, gone
<1>5. /\ mid \in TaskRecords /\ mid.roles[r] = s
      /\ \A q \in Roles : q # r => mid.roles[q] = rec.roles[q]
      /\ mid.status = rec.status /\ mid.plan = rec.plan
      /\ mid.round = rec.round /\ mid.reserved = rec.reserved
  BY <1>2, SetRole
<1> HIDE DEF mid, out
<1>6. \A q \in Roles : SoundRole(mid.roles[q], iss[q], brd[q])
  BY <1>2, <1>3, <1>5 DEF Sound, SoundRole
<1>7. ~AllRolesDone(rec) /\ (rec.status \in Terminal => rec.status = "failed")
  BY DEF AllRolesDone, Sound
<1>8. HasFailedRole(rec) => HasFailedRole(mid)
  BY <1>5 DEF HasFailedRole, TaskRecords
<1>9. CASE gone
  <2>1. /\ out \in TaskRecords /\ out.status = "failed" /\ out.roles = mid.roles
        /\ out.plan = mid.plan /\ out.round = mid.round /\ out.reserved = mid.reserved
    BY <1>4, <1>5, <1>9, SetStatus DEF Terminal
  <2>2. HasFailedRole(out)
    BY <1>2, <1>5, <1>9, <2>1 DEF HasFailedRole
  <2>3. Sound(out, iss, brd)
    BY <1>6, <2>1, <2>2 DEF Sound
  <2>4. QED
    BY <1>5, <1>7, <2>1, <2>3 DEF out
<1>10. CASE ~gone
  <2>1. out = mid
    BY <1>4, <1>10
  <2>2. Sound(out, iss, brd)
    BY <1>5, <1>6, <1>7, <1>8, <2>1 DEF Sound
  <2>3. QED
    BY <1>5, <2>1, <2>2 DEF out
<1>11. QED
  BY <1>9, <1>10 DEF out

\* What the synthesis writes back: a closed task, a task reopened for another
\* round, a task the adjudicator joins.
LEMMA ClosedSound ==
  ASSUME NEW rec \in TaskRecords, NEW st \in Terminal \ {"failed"},
         NEW iss \in [Roles -> Nat], NEW brd \in Boards,
         Sound(rec, iss, brd), rec.status = "ready_to_synthesize"
  PROVE  LET out == Closed(rec, st)
         IN  /\ out \in TaskRecords /\ Sound(out, iss, brd)
             /\ out.status = st /\ out.roles = rec.roles /\ out.plan = rec.plan
             /\ out.round = rec.round /\ out.reserved = rec.reserved
<1> DEFINE out == Closed(rec, st)
<1>1. /\ out \in TaskRecords
      /\ out.status = st /\ out.roles = rec.roles /\ out.plan = rec.plan
      /\ out.round = rec.round /\ out.reserved = rec.reserved
  BY SetStatus DEF Closed
<1> HIDE DEF out
<1>2. AllRolesDone(out)
  BY <1>1 DEF Sound, AllRolesDone
<1>3. st # "ready_to_synthesize"
  BY DEF Terminal
<1>4. QED
  BY <1>1, <1>2, <1>3 DEF Sound, out

LEMMA UnclaimedType == Unclaimed \in RoleStates /\ Unclaimed.attempts < MaxAttempts
  BY BusAssumption DEF Unclaimed, RoleStates

LEMMA EscalatedSound ==
  ASSUME NEW rec \in TaskRecords, NEW S \in SUBSET Roles,
         NEW iss \in [Roles -> Nat], NEW brd \in Boards,
         Sound(rec, iss, brd), rec.round < MaxRounds
  PROVE  LET out == Escalated(rec, S)
         IN  /\ out \in TaskRecords /\ Sound(out, iss, brd)
             /\ out.status = "in_progress" /\ out.plan = rec.plan
             /\ out.round = rec.round + 1 /\ out.reserved = rec.reserved
<1> DEFINE roles == [r \in Roles |-> IF r \in S THEN Unclaimed ELSE rec.roles[r]]
           out   == Escalated(rec, S)
<1>1. roles \in [Roles -> RoleStates]
  BY UnclaimedType DEF TaskRecords
<1>2. rec.round + 1 \in 0..MaxRounds
  BY BusAssumption DEF TaskRecords
<1>3. out = [status |-> "in_progress", plan |-> rec.plan, roles |-> roles,
             round |-> rec.round + 1, reserved |-> rec.reserved]
  <2>1. out = [rec EXCEPT !.status = "in_progress", !.round = rec.round + 1, !.roles = roles]
    BY DEF Escalated
  <2> HIDE DEF roles, out
  <2>2. QED
    BY <2>1 DEF TaskRecords
<1>4. \A r \in Roles : SoundRole(roles[r], iss[r], brd[r])
  BY UnclaimedType DEF Sound, SoundRole, Unclaimed
<1> HIDE DEF roles, out
<1>5. out \in TaskRecords
  BY <1>1, <1>2, <1>3 DEF TaskRecords, Active, Open
<1>6. out.roles = roles /\ out.status = "in_progress"
  BY <1>3
<1>7. Sound(out, iss, brd)
  BY <1>4, <1>6 DEF Sound, Terminal
<1>8. QED
  BY <1>3, <1>5, <1>7 DEF out

LEMMA WithAdjudicatorSound ==
  ASSUME NEW rec \in TaskRecords,
         NEW iss \in [Roles -> Nat], NEW brd \in Boards, Sound(rec, iss, brd)
  PROVE  LET out == WithAdjudicator(rec)
         IN  /\ out \in TaskRecords /\ Sound(out, iss, brd)
             /\ \A q \in Roles : q # Adjudicator => out.roles[q] = rec.roles[q]
             /\ out.status = "in_progress" /\ out.plan = rec.plan \cup {Adjudicator}
             /\ out.round = rec.round /\ out.reserved = rec.reserved
<1> DEFINE roles == [rec.roles EXCEPT ![Adjudicator] = Unclaimed]
           out   == WithAdjudicator(rec)
<1>1. Adjudicator \in Roles
  BY DEF Roles
<1>2. roles \in [Roles -> RoleStates]
  BY UnclaimedType DEF TaskRecords
<1>3. out = [status |-> "in_progress", plan |-> rec.plan \cup {Adjudicator},
             roles |-> roles, round |-> rec.round, reserved |-> rec.reserved]
  <2>1. out = [rec EXCEPT !.status = "in_progress", !.plan = rec.plan \cup {Adjudicator},
                          !.roles[Adjudicator] = Unclaimed]
    BY DEF WithAdjudicator
  <2> HIDE DEF out
  <2>2. QED
    BY <2>1 DEF TaskRecords
<1>4. \A r \in Roles : /\ SoundRole(roles[r], iss[r], brd[r])
                       /\ r # Adjudicator => roles[r] = rec.roles[r]
  BY UnclaimedType DEF Sound, SoundRole, Unclaimed, TaskRecords
<1> HIDE DEF roles, out
<1>5. out \in TaskRecords
  BY <1>1, <1>2, <1>3 DEF TaskRecords, Active, Open
<1>6. out.roles = roles /\ out.status = "in_progress"
  BY <1>3
<1>7. Sound(out, iss, brd)
  BY <1>4, <1>6 DEF Sound, Terminal
<1>8. QED
  BY <1>3, <1>4, <1>5, <1>7 DEF out

LEMMA NewTaskSound ==
  ASSUME NEW iss \in [Roles -> Nat], NEW brd \in Boards
  PROVE  /\ NewTask \in TaskRecords /\ Sound(NewTask, iss, brd)
         /\ NewTask.status = "pending" /\ ~NewTask.reserved
<1>1. NewTask \in TaskRecords
  BY UnclaimedType, BusAssumption DEF NewTask, TaskRecords, Active, Open, Roles
<1>2. \A r \in Roles : SoundRole(NewTask.roles[r], iss[r], brd[r])
  BY UnclaimedType DEF NewTask, SoundRole, Unclaimed
<1>3. NewTask.status = "pending" /\ NewTask.reserved = FALSE
  BY DEF NewTask
<1>4. QED
  BY <1>1, <1>2, <1>3 DEF Sound, Terminal

-----------------------------------------------------------------------------
(* The inductive invariant. *)

BusInv ==
  /\ BusTypeOK
  /\ \A t \in Tasks : Known(t) => Sound(task[t], issued[t], board[t])

\* A known task is a task record.
LEMMA KnownIsTyped ==
  ASSUME BusTypeOK, NEW t \in Tasks
  PROVE  /\ Known(t) <=> task[t] \in TaskRecords
         /\ ~Known(t) => task[t] = NoTask
         /\ issued[t] \in [Roles -> Nat] /\ board[t] \in Boards
  BY DEF BusTypeOK, Known, TaskRecords, NoTask, Active, Open, Terminal, Boards

\* Expiry: claimed roles go back to pending or fail, only in open tasks, and a
\* task with a failed role fails.
LEMMA SweptSound ==
  ASSUME BusInv, NEW late \in SUBSET Leases, NEW t \in Tasks
  PROVE  LET out == Swept(late)[t]
         IN  /\ ~Known(t) => out = NoTask
             /\ Known(t) =>
                  /\ out \in TaskRecords /\ Sound(out, issued[t], board[t])
                  /\ \A r \in Roles : task[t].roles[r].status # "claimed" =>
                                        out.roles[r] = task[t].roles[r]
                  /\ task[t].status \notin Open => out = task[t]
                  /\ out.status \in {task[t].status, "failed"}
                  /\ out.plan = task[t].plan /\ out.round = task[t].round
                  /\ out.reserved = task[t].reserved
<1> DEFINE out   == Swept(late)[t]
           roles == [r \in Roles |-> IF <<t, r>> \in late
                                     THEN ExpiredRole(task[t].roles[r])
                                     ELSE task[t].roles[r]]
           rec   == [task[t] EXCEPT !.roles = roles]
<1>1. out = IF task[t].status \notin Open THEN task[t]
            ELSE IF HasFailedRole(rec) THEN [rec EXCEPT !.status = "failed"] ELSE rec
  BY DEF Swept
<1>2. CASE ~Known(t)
  BY <1>1, <1>2, KnownIsTyped DEF BusInv, NoTask, Open
<1>3. CASE Known(t) /\ task[t].status \notin Open
  BY <1>1, <1>3, KnownIsTyped DEF BusInv
<1>4. CASE Known(t) /\ task[t].status \in Open
  <2>1. task[t] \in TaskRecords /\ Sound(task[t], issued[t], board[t])
    BY <1>4, KnownIsTyped DEF BusInv
  <2>2. \A r \in Roles : <<t, r>> \in late => task[t].roles[r].status = "claimed"
    BY DEF Leases, RoleIs
  <2>3. \A r \in Roles : /\ roles[r] \in RoleStates
                         /\ SoundRole(roles[r], issued[t][r], board[t][r])
                         /\ task[t].roles[r].status # "claimed" =>
                              roles[r] = task[t].roles[r]
    <3> SUFFICES ASSUME NEW r \in Roles
                 PROVE  /\ roles[r] \in RoleStates
                        /\ SoundRole(roles[r], issued[t][r], board[t][r])
                        /\ task[t].roles[r].status # "claimed" =>
                             roles[r] = task[t].roles[r]
      OBVIOUS
    <3> DEFINE state == task[t].roles[r]
    <3>1. state \in RoleStates /\ SoundRole(state, issued[t][r], board[t][r])
      BY <2>1 DEF TaskRecords, Sound
    <3>2. CASE <<t, r>> \in late
      <4> DEFINE gone == state.attempts >= MaxAttempts
      <4>1. roles[r] = FailedRole(state, gone) /\ gone \in BOOLEAN
        BY <3>2 DEF ExpiredRole
      <4> HIDE DEF gone
      <4>2. /\ roles[r] \in RoleStates /\ roles[r].attempts = state.attempts
            /\ roles[r].status = IF gone THEN "failed" ELSE "pending"
        BY <3>1, <4>1, RoleGivenUp
      <4>3. SoundRole(roles[r], issued[t][r], board[t][r])
        BY <3>1, <4>2, BusAssumption DEF SoundRole, RoleStates, gone
      <4>4. QED
        BY <2>2, <3>2, <4>2, <4>3
    <3>3. CASE <<t, r>> \notin late
      BY <3>1, <3>3
    <3>4. QED
      BY <3>2, <3>3
  <2>4. roles \in [Roles -> RoleStates]
    BY <2>3
  <2> HIDE DEF roles
  <2>5. rec = [status |-> task[t].status, plan |-> task[t].plan, roles |-> roles,
               round |-> task[t].round, reserved |-> task[t].reserved]
    BY <2>1 DEF TaskRecords
  <2>6. /\ rec \in TaskRecords /\ rec.roles = roles /\ rec.status = task[t].status
        /\ rec.plan = task[t].plan /\ rec.round = task[t].round
        /\ rec.reserved = task[t].reserved
    BY <2>1, <2>4, <2>5 DEF TaskRecords
  <2> HIDE DEF rec, out
  <2>7. CASE HasFailedRole(rec)
    <3>1. out = [rec EXCEPT !.status = "failed"]
      BY <1>1, <1>4, <2>7
    <3>2. /\ out \in TaskRecords /\ out.status = "failed" /\ out.roles = roles
          /\ out.plan = task[t].plan /\ out.round = task[t].round
          /\ out.reserved = task[t].reserved
      BY <2>6, <3>1, SetStatus DEF Terminal
    <3>3. HasFailedRole(out)
      BY <2>6, <2>7, <3>2 DEF HasFailedRole
    <3>4. Sound(out, issued[t], board[t])
      BY <2>3, <3>2, <3>3 DEF Sound
    <3>5. QED
      BY <1>4, <2>3, <3>2, <3>4 DEF out
  <2>8. CASE ~HasFailedRole(rec)
    <3>1. out = rec
      BY <1>1, <1>4, <2>8
    <3>2. Sound(out, issued[t], board[t])
      BY <1>4, <2>3, <2>6, <3>1 DEF Sound, Open, Terminal
    <3>3. QED
      BY <1>4, <2>3, <2>6, <3>1, <3>2 DEF out
  <2>9. QED
    BY <2>7, <2>8
<1>5. QED
  BY <1>2, <1>3, <1>4

\* The budget file after a charge.
LEMMA ChargeType ==
  ASSUME BusTypeOK, NEW t \in Tasks
  PROVE  /\ Charge(t) \in [Days -> [entries : SUBSET Tasks, reserved : Nat]]
         /\ Charge(t)[Day[t]].entries = budget[Day[t]].entries \cup {t}
         /\ Charge(t)[Day[t]].reserved =
              IF t \in budget[Day[t]].entries THEN budget[Day[t]].reserved
              ELSE budget[Day[t]].reserved + Cost[t]
         /\ \A d \in Days : d # Day[t] => Charge(t)[d] = budget[d]
<1> DEFINE d == Day[t]
           e == [entries |-> budget[d].entries \cup {t},
                 reserved |-> budget[d].reserved + Cost[t]]
<1>1. d \in Days /\ Cost[t] \in Nat
  BY BusAssumption DEF Days
<1>2. budget \in [Days -> [entries : SUBSET Tasks, reserved : Nat]]
  BY DEF BusTypeOK
<1>3. budget[d] \in [entries : SUBSET Tasks, reserved : Nat]
  BY <1>1, <1>2
<1>4. e \in [entries : SUBSET Tasks, reserved : Nat]
  BY <1>1, <1>3
<1>5. CASE t \in budget[d].entries
  BY <1>2, <1>5 DEF Charge
<1>6. CASE t \notin budget[d].entries
  <2>1. Charge(t) = [budget EXCEPT ![d].entries = @ \cup {t}, ![d].reserved = @ + Cost[t]]
    BY <1>6 DEF Charge
  <2>2. Charge(t) = [budget EXCEPT ![d] = e]
    BY <1>1, <1>2, <1>3, <2>1
  <2>3. QED
    BY <1>1, <1>2, <1>4, <1>6, <2>2
<1>7. QED
  BY <1>5, <1>6

-----------------------------------------------------------------------------
(* Every action preserves the invariant. *)

\* An action that changes one task's record and board, and no counter.
LEMMA OneTaskChanges ==
  ASSUME BusInv, NEW t \in Tasks, NEW rec \in TaskRecords,
         task' = [task EXCEPT ![t] = rec],
         board' \in [Tasks -> Boards], \A u \in Tasks : u # t => board'[u] = board[u],
         issued' = issued, budget' = budget,
         Sound(rec, issued[t], board'[t])
  PROVE  BusInv'
<1>1. BusTypeOK'
  BY DEF BusInv, BusTypeOK, Boards
<1>2. ASSUME NEW u \in Tasks, Known(u)'
      PROVE  Sound(task'[u], issued'[u], board'[u])
  <2>1. CASE u = t
    BY <2>1 DEF BusInv, BusTypeOK
  <2>2. CASE u # t
    BY <1>2, <2>2 DEF BusInv, BusTypeOK, Known
  <2>3. QED
    BY <2>1, <2>2
<1>3. QED
  BY <1>1, <1>2 DEF BusInv, Known, Sound, SoundRole, AllRolesDone, HasFailedRole

LEMMA EnqueueInv ==
  ASSUME BusInv, NEW t \in Tasks, NEW force \in BOOLEAN, Enqueue(t, force)
  PROVE  BusInv'
<1>1. NewTask \in TaskRecords /\ Sound(NewTask, issued[t], board[t])
  BY KnownIsTyped, NewTaskSound DEF BusInv
<1>2. board \in [Tasks -> Boards]
  BY DEF BusInv, BusTypeOK, Boards
<1>3. QED
  BY <1>1, <1>2, OneTaskChanges DEF Enqueue

LEMMA ClaimInv ==
  ASSUME BusInv, NEW t \in Tasks, NEW r \in Roles, NEW w \in Workers,
         NEW late \in SUBSET Leases, Claim(t, r, w, late)
  PROVE  BusInv'
<1> DEFINE q == Swept(late)
           c == NextClaim(t, r, w)
<1>1. /\ Served(q, t, r)
      /\ task' = [q EXCEPT ![t] = Claimed(q[t], r, c)]
      /\ budget' = IF q[t].reserved THEN budget ELSE Charge(t)
      /\ issued' = [issued EXCEPT ![t][r] = @ + 1] /\ board' = board
  BY DEF Claim
<1>2. q[t].status \in Open /\ q[t].roles[r].attempts < MaxAttempts
  BY <1>1 DEF Served, Claimable
<1>3. Known(t)
  BY <1>2, SweptSound DEF NoTask, Open
<1>4. /\ q[t] \in TaskRecords /\ Sound(q[t], issued[t], board[t])
      /\ issued[t] \in [Roles -> Nat] /\ board[t] \in Boards
  BY <1>3, SweptSound, KnownIsTyped DEF BusInv
<1>5. c \in Claims /\ c.n = issued[t][r] + 1
  BY <1>4 DEF NextClaim, Claims
<1>6. q \in [Tasks -> TaskRecords \cup {NoTask}]
  <2>1. \A u \in Tasks : q[u] \in TaskRecords \cup {NoTask}
    BY SweptSound
  <2>2. QED
    BY <2>1 DEF Swept
<1> HIDE DEF q, c
<1> DEFINE rec == Claimed(q[t], r, c)
           iss == [issued[t] EXCEPT ![r] = @ + 1]
<1>7. rec \in TaskRecords /\ Sound(rec, iss, board[t])
  BY <1>2, <1>4, <1>5, ClaimedSound
<1>8. issued' = [issued EXCEPT ![t] = iss] /\ iss \in [Roles -> Nat]
  BY <1>1, <1>4 DEF BusInv, BusTypeOK
<1> HIDE DEF rec, iss
<1>9. BusTypeOK'
  <2>1. task' \in [Tasks -> TaskRecords \cup {NoTask}]
    BY <1>1, <1>6, <1>7 DEF rec
  <2>2. issued' \in [Tasks -> [Roles -> Nat]]
    BY <1>8 DEF BusInv, BusTypeOK
  <2>3. budget' \in [Days -> [entries : SUBSET Tasks, reserved : Nat]]
    BY <1>1, ChargeType DEF BusInv, BusTypeOK
  <2>4. QED
    BY <1>1, <2>1, <2>2, <2>3 DEF BusInv, BusTypeOK
<1>10. ASSUME NEW u \in Tasks, Known(u)'
       PROVE  Sound(task'[u], issued'[u], board'[u])
  <2>1. CASE u = t
    BY <1>1, <1>6, <1>7, <1>8, <2>1 DEF rec, BusInv, BusTypeOK
  <2>2. CASE u # t
    <3>1. task'[u] = q[u] /\ issued'[u] = issued[u]
      BY <1>1, <1>6, <1>8, <2>2 DEF BusInv, BusTypeOK
    <3>2. Known(u)
      BY <1>10, <3>1, SweptSound DEF Known, NoTask, q
    <3>3. QED
      BY <1>1, <3>1, <3>2, SweptSound DEF q
  <2>3. QED
    BY <2>1, <2>2
<1>11. QED
  BY <1>9, <1>10 DEF BusInv, Known, Sound, SoundRole, AllRolesDone, HasFailedRole

LEMMA ClaimIdleInv ==
  ASSUME BusInv, NEW late \in SUBSET Leases, ClaimIdle(late)
  PROVE  BusInv'
<1>1. task' = Swept(late) /\ issued' = issued /\ board' = board /\ budget' = budget
  BY DEF ClaimIdle
<1>2. \A u \in Tasks : task'[u] \in TaskRecords \cup {NoTask}
  BY <1>1, SweptSound
<1>3. BusTypeOK'
  BY <1>1, <1>2 DEF BusInv, BusTypeOK, Swept
<1>4. ASSUME NEW u \in Tasks, Known(u)'
      PROVE  Sound(task'[u], issued'[u], board'[u])
  <2>1. Known(u)
    BY <1>1, <1>4, SweptSound DEF Known, NoTask
  <2>2. QED
    BY <1>1, <2>1, SweptSound
<1>5. QED
  BY <1>3, <1>4 DEF BusInv, Known, Sound, SoundRole, AllRolesDone, HasFailedRole

LEMMA ClaimDiesInv ==
  ASSUME BusInv, NEW t \in Tasks, ClaimDies(t)
  PROVE  BusInv'
<1>1. task' = task /\ issued' = issued /\ board' = board /\ budget' = Charge(t)
  BY DEF ClaimDies
<1>2. BusTypeOK'
  BY <1>1, ChargeType DEF BusInv, BusTypeOK
<1>3. QED
  BY <1>1, <1>2 DEF BusInv, Known, Sound, SoundRole, AllRolesDone, HasFailedRole

\* Whoever passes the fence presents the claim the role is held under.
LEMMA FenceFacts ==
  ASSUME BusInv, NEW t \in Tasks, NEW r \in Roles, NEW c, Fenced(t, r, c)
  PROVE  /\ task[t] \in TaskRecords /\ Sound(task[t], issued[t], board[t])
         /\ issued[t] \in [Roles -> Nat] /\ board[t] \in Boards
         /\ r \in task[t].plan /\ task[t].roles[r].status = "claimed"
         /\ task[t].roles[r].claim = c
  BY KnownIsTyped DEF BusInv, Fenced, RoleIs, Plan

LEMMA PresentableType ==
  ASSUME BusInv, NEW t \in Tasks, NEW r \in Roles, NEW c \in Presentable(t, r)
  PROVE  c \in Claims
  BY KnownIsTyped DEF BusInv, Presentable, Claims

LEMMA SubmitInv ==
  ASSUME BusInv, NEW t \in Tasks, NEW r \in Roles, NEW c \in Claims, NEW x \in Contents,
         Submit(t, r, c, x)
  PROVE  BusInv'
<1> DEFINE b   == [content |-> x, claim |-> c]
           rec == Published(task[t], r, c)
           brd == [board[t] EXCEPT ![r] = b]
<1>1. /\ Fenced(t, r, c) /\ task' = [task EXCEPT ![t] = rec]
      /\ board' = [board EXCEPT ![t][r] = b] /\ issued' = issued /\ budget' = budget
  BY DEF Submit
<1>2. b \in Findings /\ b.claim = c
  BY DEF Findings
<1>3. rec \in TaskRecords /\ Sound(rec, issued[t], brd)
  BY <1>1, <1>2, FenceFacts, PublishedSound
<1>4. board' = [board EXCEPT ![t] = brd] /\ brd \in Boards
  BY <1>1, <1>2, FenceFacts DEF BusInv, BusTypeOK, Boards
<1> HIDE DEF rec, brd, b
<1>5. /\ board' \in [Tasks -> Boards] /\ board'[t] = brd
      /\ \A u \in Tasks : u # t => board'[u] = board[u]
  BY <1>4 DEF BusInv, BusTypeOK, Boards
<1>6. QED
  BY <1>1, <1>3, <1>5, OneTaskChanges

LEMMA PublishDiesInv ==
  ASSUME BusInv, NEW t \in Tasks, NEW r \in Roles, NEW c \in Claims, NEW x \in Contents,
         PublishDies(t, r, c, x)
  PROVE  BusInv'
<1> DEFINE b   == [content |-> x, claim |-> c]
           brd == [board[t] EXCEPT ![r] = b]
<1>1. /\ Fenced(t, r, c) /\ task' = task
      /\ board' = [board EXCEPT ![t][r] = b] /\ issued' = issued /\ budget' = budget
  BY DEF PublishDies
<1>2. /\ task[t] \in TaskRecords /\ Sound(task[t], issued[t], board[t])
      /\ board[t] \in Boards /\ task[t].roles[r].status = "claimed"
  BY <1>1, FenceFacts
<1>3. b \in Findings
  BY DEF Findings
<1>4. board' = [board EXCEPT ![t] = brd] /\ brd \in Boards
  BY <1>1, <1>2, <1>3 DEF BusInv, BusTypeOK, Boards
<1>5. Sound(task[t], issued[t], brd)
  BY <1>2 DEF Sound, SoundRole, Boards
<1> HIDE DEF brd, b
<1>6. /\ board' \in [Tasks -> Boards] /\ board'[t] = brd
      /\ \A u \in Tasks : u # t => board'[u] = board[u]
  BY <1>4 DEF BusInv, BusTypeOK, Boards
<1>7. task' = [task EXCEPT ![t] = task[t]]
  BY <1>1 DEF BusInv, BusTypeOK
<1>8. QED
  BY <1>1, <1>2, <1>5, <1>6, <1>7, OneTaskChanges

LEMMA FailInv ==
  ASSUME BusInv, NEW t \in Tasks, NEW r \in Roles, NEW c \in Claims, NEW retry \in BOOLEAN,
         Fail(t, r, c, retry)
  PROVE  BusInv'
<1> DEFINE rec == Failed(task[t], r, retry)
<1>1. /\ Fenced(t, r, c) /\ task' = [task EXCEPT ![t] = rec]
      /\ issued' = issued /\ board' = board /\ budget' = budget
  BY DEF Fail
<1>2. rec \in TaskRecords /\ Sound(rec, issued[t], board[t])
  BY <1>1, FenceFacts, FailedSound
<1>3. board \in [Tasks -> Boards]
  BY DEF BusInv, BusTypeOK, Boards
<1> HIDE DEF rec
<1>4. QED
  BY <1>1, <1>2, <1>3, OneTaskChanges

LEMMA ResolveInv ==
  ASSUME BusInv, NEW t \in Tasks, Resolve(t)
  PROVE  BusInv'
<1>1. /\ task[t].status = "ready_to_synthesize"
      /\ issued' = issued /\ board' = board /\ budget' = budget
  BY DEF Resolve
<1>2. /\ task[t] \in TaskRecords /\ Sound(task[t], issued[t], board[t])
      /\ issued[t] \in [Roles -> Nat] /\ board[t] \in Boards
  BY <1>1, KnownIsTyped DEF BusInv, Known
<1>3. board \in [Tasks -> Boards]
  BY DEF BusInv, BusTypeOK, Boards
<1>4. PICK rec \in TaskRecords :
        Sound(rec, issued[t], board[t]) /\ task' = [task EXCEPT ![t] = rec]
  <2>1. CASE \E s \in Terminal \ {"failed"} : task' = [task EXCEPT ![t] = Closed(@, s)]
    <3>1. PICK s \in Terminal \ {"failed"} : task' = [task EXCEPT ![t] = Closed(task[t], s)]
      BY <2>1
    <3>2. QED
      BY <1>1, <1>2, <3>1, ClosedSound
  <2>2. CASE /\ task[t].round < MaxRounds
             /\ \E S \in SUBSET Plan(t) :
                   S # {} /\ task' = [task EXCEPT ![t] = Escalated(@, S)]
    <3>1. PICK S \in SUBSET Roles : task' = [task EXCEPT ![t] = Escalated(task[t], S)]
      BY <1>2, <2>2 DEF Plan, TaskRecords
    <3>2. QED
      BY <1>2, <2>2, <3>1, EscalatedSound
  <2>3. CASE task' = [task EXCEPT ![t] = WithAdjudicator(@)]
    BY <1>2, <2>3, WithAdjudicatorSound
  <2>4. QED
    BY <2>1, <2>2, <2>3 DEF Resolve, RoundsLeft
<1>5. QED
  BY <1>1, <1>3, <1>4, OneTaskChanges

-----------------------------------------------------------------------------
(* The theorems. *)

LEMMA BusInitInv == BusInit => BusInv
<1> SUFFICES ASSUME BusInit PROVE BusInv
  OBVIOUS
<1>1. BusTypeOK
  BY DEF BusInit, BusTypeOK
<1>2. \A t \in Tasks : ~Known(t)
  BY DEF BusInit, Known, NoTask
<1>3. QED
  BY <1>1, <1>2 DEF BusInv

LEMMA BusStepInv == BusInv /\ [BusNext]_busVars => BusInv'
<1> SUFFICES ASSUME BusInv, [BusNext]_busVars PROVE BusInv'
  OBVIOUS
<1>1. ASSUME NEW t \in Tasks, NEW force \in BOOLEAN, Enqueue(t, force)
      PROVE  BusInv'
  BY <1>1, EnqueueInv
<1>2. ASSUME NEW late \in SUBSET Leases, ClaimIdle(late)
      PROVE  BusInv'
  BY <1>2, ClaimIdleInv
<1>3. ASSUME NEW late \in SUBSET Leases, NEW t \in Tasks, NEW r \in Roles,
             NEW w \in Workers, Claim(t, r, w, late)
      PROVE  BusInv'
  BY <1>3, ClaimInv
<1>4. ASSUME NEW t \in Tasks, ClaimDies(t) \/ Resolve(t)
      PROVE  BusInv'
  BY <1>4, ClaimDiesInv, ResolveInv
<1>5. ASSUME NEW t \in Tasks, NEW r \in Roles, NEW c \in Presentable(t, r),
             NEW x \in Contents, Submit(t, r, c, x) \/ PublishDies(t, r, c, x)
      PROVE  BusInv'
  BY <1>5, PresentableType, SubmitInv, PublishDiesInv
<1>6. ASSUME NEW t \in Tasks, NEW r \in Roles, NEW c \in Presentable(t, r),
             NEW retry \in BOOLEAN, Fail(t, r, c, retry)
      PROVE  BusInv'
  BY <1>6, PresentableType, FailInv
<1>7. CASE UNCHANGED busVars
  BY <1>7 DEF busVars, BusInv, BusTypeOK, Known, Sound, SoundRole, AllRolesDone, HasFailedRole
<1>8. QED
  BY <1>1, <1>2, <1>3, <1>4, <1>5, <1>6, <1>7 DEF BusNext

\* Every known task's record, claim counters and board are sound in every
\* reachable state of the bus, whatever calls arrive in whatever order.
THEOREM BusInvariant == BusSpec => []BusInv
  BY BusInitInv, BusStepInv, PTL DEF BusSpec

LEMMA SoundGives ==
  BusInv => /\ LatestClaimOnly /\ BoardMatchesQueue
            /\ PendingHasAttempts /\ ReadyMeansReported
<1> SUFFICES ASSUME BusInv
             PROVE  /\ LatestClaimOnly /\ BoardMatchesQueue
                    /\ PendingHasAttempts /\ ReadyMeansReported
  OBVIOUS
<1>1. ASSUME NEW t \in Tasks, Known(t), NEW r \in Roles
      PROVE  SoundRole(task[t].roles[r], issued[t][r], board[t][r])
  BY <1>1 DEF BusInv, Sound
<1>2. LatestClaimOnly
  BY <1>1 DEF SoundRole, LatestClaimOnly
<1>3. BoardMatchesQueue
  BY <1>1 DEF SoundRole, BoardMatchesQueue
<1>4. \A t \in Tasks : Known(t) => Plan(t) \subseteq Roles
  BY KnownIsTyped DEF BusInv, Plan, TaskRecords
<1>5. PendingHasAttempts
  BY <1>1, <1>4 DEF SoundRole, PendingHasAttempts
<1>6. ReadyMeansReported
  BY DEF BusInv, Sound, Known, ReadyMeansReported
<1>7. QED
  BY <1>2, <1>3, <1>5, <1>6

\* The queue, the counters, the boards and the budget files keep their types.
THEOREM BusTypeCorrect == BusSpec => []BusTypeOK
<1>1. BusInv => BusTypeOK
  BY DEF BusInv
<1>2. QED
  BY <1>1, BusInvariant, PTL

\* The claim fence: only the claim issued last for a role can be live, and
\* only it can have been accepted.
THEOREM FenceIsSafe == BusSpec => []LatestClaimOnly
  BY SoundGives, BusInvariant, PTL

\* A role that is done has its own accepted finding on the board, in spite of
\* late submissions and of crashes between the board file and the queue file.
THEOREM BoardIsTrue == BusSpec => []BoardMatchesQueue
  BY SoundGives, BusInvariant, PTL

\* No role waits for an attempt it cannot have.
THEOREM NoRoleStranded == BusSpec => []PendingHasAttempts
  BY SoundGives, BusInvariant, PTL

\* A task is handed to the synthesis only with every planned role reported.
THEOREM ReadyIsComplete == BusSpec => []ReadyMeansReported
  BY SoundGives, BusInvariant, PTL

-----------------------------------------------------------------------------
(* What no step of the bus may do to a task. *)

\* The step does not touch a closed task's status, nor an accepted finding in
\* the round it was accepted in.
Kept(u) ==
  /\ task[u].status \in Terminal => task'[u].status = task[u].status
  /\ \A r \in Roles :
       Known(u) /\ RoleIs(u, r, "done") /\ task'[u].round = task[u].round =>
         task'[u].roles[r] = task[u].roles[r] /\ board'[u][r] = board[u][r]

LEMMA ClaimKeeps ==
  ASSUME BusInv, NEW t \in Tasks, NEW r \in Roles, NEW w \in Workers,
         NEW late \in SUBSET Leases, Claim(t, r, w, late), NEW u \in Tasks
  PROVE  Kept(u) /\ (~Known(u) => ~Known(u)')
<1> DEFINE q == Swept(late)
           c == NextClaim(t, r, w)
<1>1. /\ Served(q, t, r) /\ board' = board
      /\ task' = [q EXCEPT ![t] = Claimed(q[t], r, c)]
  BY DEF Claim
<1>2. /\ q[t].status \in Open /\ q[t].roles[r].attempts < MaxAttempts
      /\ q[t].roles[r].status = "pending"
  BY <1>1 DEF Served, Claimable
<1>3. Known(t)
  BY <1>2, SweptSound DEF NoTask, Open
<1>4. /\ q[t] \in TaskRecords /\ Sound(q[t], issued[t], board[t])
      /\ issued[t] \in [Roles -> Nat] /\ board[t] \in Boards
  BY <1>3, SweptSound, KnownIsTyped DEF BusInv
<1>5. c \in Claims /\ c.n = issued[t][r] + 1
  BY <1>4 DEF NextClaim, Claims
<1>6. DOMAIN q = Tasks
  BY DEF Swept
<1>7. CASE u = t
  <2>1. task'[u] = Claimed(q[t], r, c)
    BY <1>1, <1>6, <1>7
  <2>2. \A p \in Roles : p # r => task'[u].roles[p] = q[t].roles[p]
    <3> HIDE DEF q, c
    <3>1. \A p \in Roles : p # r => Claimed(q[t], r, c).roles[p] = q[t].roles[p]
      BY <1>2, <1>4, <1>5, ClaimedSound, ZenonT(60)
    <3>2. QED
      BY <2>1, <3>1
  <2>3. task[t].status \notin Terminal
    BY <1>2, <1>3, SweptSound DEF Open, Terminal
  <2>4. task[t].roles[r].status # "done"
    BY <1>2, <1>3, SweptSound
  <2>5. \A p \in Roles : task[t].roles[p].status = "done" => q[t].roles[p] = task[t].roles[p]
    BY <1>3, SweptSound
  <2>6. QED
    BY <1>1, <1>3, <1>7, <2>2, <2>3, <2>4, <2>5 DEF Kept, RoleIs
<1>8. CASE u # t
  <2>1. task'[u] = q[u]
    BY <1>1, <1>6, <1>8
  <2>2. QED
    BY <1>1, <2>1, SweptSound DEF Kept, RoleIs, Known, NoTask, Open, Terminal
<1>9. QED
  BY <1>7, <1>8

LEMMA ClaimIdleKeeps ==
  ASSUME BusInv, NEW late \in SUBSET Leases, ClaimIdle(late), NEW u \in Tasks
  PROVE  Kept(u) /\ (~Known(u) => ~Known(u)')
  BY SweptSound DEF ClaimIdle, Kept, RoleIs, Known, NoTask, Open, Terminal

LEMMA SubmitKeeps ==
  ASSUME BusInv, NEW t \in Tasks, NEW r \in Roles, NEW c \in Claims, NEW x \in Contents,
         Submit(t, r, c, x), NEW u \in Tasks
  PROVE  Kept(u) /\ (~Known(u) => ~Known(u)')
<1> DEFINE b   == [content |-> x, claim |-> c]
           rec == Published(task[t], r, c)
<1>1. /\ Fenced(t, r, c) /\ task' = [task EXCEPT ![t] = rec]
      /\ board' = [board EXCEPT ![t][r] = b]
  BY DEF Submit
<1>2. b \in Findings /\ b.claim = c
  BY DEF Findings
<1>3. /\ \A p \in Roles : p # r => rec.roles[p] = task[t].roles[p]
      /\ task[t].status \in Terminal => rec.status = task[t].status
      /\ task[t].roles[r].status # "done"
  <2>1. /\ task[t] \in TaskRecords /\ Sound(task[t], issued[t], board[t])
        /\ issued[t] \in [Roles -> Nat] /\ board[t] \in Boards
        /\ r \in task[t].plan /\ task[t].roles[r].status = "claimed"
        /\ task[t].roles[r].claim = c
    BY <1>1, FenceFacts
  <2> HIDE DEF b
  <2>2. QED
    BY <1>2, <2>1, PublishedSound, ZenonT(60)
<1> HIDE DEF rec, b
<1>4. /\ task'[u] = IF u = t THEN rec ELSE task[u]
      /\ \A p \in Roles : (u = t /\ p = r) \/ board'[u][p] = board[u][p]
  BY <1>1 DEF BusInv, BusTypeOK
<1>5. Known(t)
  BY <1>1 DEF Fenced
<1>6. QED
  BY <1>3, <1>4, <1>5 DEF Kept, RoleIs, Known

LEMMA PublishDiesKeeps ==
  ASSUME BusInv, NEW t \in Tasks, NEW r \in Roles, NEW c \in Claims, NEW x \in Contents,
         PublishDies(t, r, c, x), NEW u \in Tasks
  PROVE  Kept(u) /\ (~Known(u) => ~Known(u)')
<1>1. Fenced(t, r, c) /\ task' = task
  BY DEF PublishDies
<1>2. \A p \in Roles : (u = t /\ p = r) \/ board'[u][p] = board[u][p]
  BY DEF PublishDies, BusInv, BusTypeOK
<1>3. QED
  BY <1>1, <1>2, FenceFacts DEF Kept, RoleIs, Known

LEMMA FailKeeps ==
  ASSUME BusInv, NEW t \in Tasks, NEW r \in Roles, NEW c \in Claims, NEW retry \in BOOLEAN,
         Fail(t, r, c, retry), NEW u \in Tasks
  PROVE  Kept(u) /\ (~Known(u) => ~Known(u)')
<1> DEFINE rec == Failed(task[t], r, retry)
<1>1. Fenced(t, r, c) /\ task' = [task EXCEPT ![t] = rec] /\ board' = board
  BY DEF Fail
<1>2. /\ \A p \in Roles : p # r => rec.roles[p] = task[t].roles[p]
      /\ task[t].status \in Terminal => rec.status = task[t].status
      /\ task[t].roles[r].status # "done"
  BY <1>1, FenceFacts, FailedSound
<1> HIDE DEF rec
<1>3. task'[u] = IF u = t THEN rec ELSE task[u]
  BY <1>1 DEF BusInv, BusTypeOK
<1>4. Known(t)
  BY <1>1 DEF Fenced
<1>5. QED
  BY <1>1, <1>2, <1>3, <1>4 DEF Kept, RoleIs, Known

LEMMA ResolveKeeps ==
  ASSUME BusInv, NEW t \in Tasks, Resolve(t), NEW u \in Tasks
  PROVE  Kept(u) /\ (~Known(u) => ~Known(u)')
<1>1. task[t].status = "ready_to_synthesize" /\ board' = board
  BY DEF Resolve
<1>2. /\ task[t] \in TaskRecords /\ Sound(task[t], issued[t], board[t])
      /\ issued[t] \in [Roles -> Nat] /\ board[t] \in Boards
  BY <1>1, KnownIsTyped DEF BusInv, Known
<1>3. PICK rec \in TaskRecords :
        /\ task' = [task EXCEPT ![t] = rec]
        /\ \/ rec.round = task[t].round + 1
           \/ \A r \in Plan(t) : rec.roles[r] = task[t].roles[r]
  <2>1. CASE \E s \in Terminal \ {"failed"} : task' = [task EXCEPT ![t] = Closed(@, s)]
    <3>1. PICK s \in Terminal \ {"failed"} : task' = [task EXCEPT ![t] = Closed(task[t], s)]
      BY <2>1
    <3>2. QED
      BY <1>1, <1>2, <3>1, ClosedSound, ZenonT(60)
  <2>2. CASE /\ task[t].round < MaxRounds
             /\ \E S \in SUBSET Plan(t) :
                   S # {} /\ task' = [task EXCEPT ![t] = Escalated(@, S)]
    <3>1. PICK S \in SUBSET Roles : task' = [task EXCEPT ![t] = Escalated(task[t], S)]
      BY <1>2, <2>2 DEF Plan, TaskRecords
    <3>2. QED
      BY <1>2, <2>2, <3>1, EscalatedSound
  <2>3. CASE /\ Adjudicator \notin Plan(t)
             /\ task' = [task EXCEPT ![t] = WithAdjudicator(@)]
    <3>1. Plan(t) \subseteq Roles
      BY <1>2 DEF Plan, TaskRecords
    <3>2. /\ WithAdjudicator(task[t]) \in TaskRecords
          /\ \A r \in Plan(t) : WithAdjudicator(task[t]).roles[r] = task[t].roles[r]
      BY <1>2, <2>3, <3>1, WithAdjudicatorSound
    <3>3. QED
      BY <2>3, <3>2
  <2>4. QED
    BY <2>1, <2>2, <2>3 DEF Resolve, RoundsLeft
<1>4. task'[u] = IF u = t THEN rec ELSE task[u]
  BY <1>3 DEF BusInv, BusTypeOK
<1>5. task[t].round + 1 # task[t].round
  BY <1>2, BusAssumption DEF TaskRecords
<1>6. CASE u = t
  BY <1>1, <1>3, <1>4, <1>5, <1>6 DEF Kept, RoleIs, Known, Terminal
<1>7. CASE u # t
  BY <1>1, <1>4, <1>7 DEF Kept, RoleIs, Known
<1>8. QED
  BY <1>6, <1>7

LEMMA EnqueueKeeps ==
  ASSUME BusInv, NEW t \in Tasks, NEW force \in BOOLEAN, Enqueue(t, force), NEW u \in Tasks
  PROVE  Kept(u) /\ (u # t => task'[u] = task[u])
  BY DEF BusInv, BusTypeOK, Enqueue, Known, Kept, Terminal

\* Every step but an enqueueing leaves unknown tasks unknown.
LEMMA StepKeeps ==
  ASSUME BusInv, [BusNext]_busVars
  PROVE  /\ \A u \in Tasks : Kept(u)
         /\ \/ \A u \in Tasks : ~Known(u) => ~Known(u)'
            \/ \E t \in Tasks : /\ ~AlreadyActive(t)
                                /\ \A u \in Tasks : u # t => task'[u] = task[u]
<1> DEFINE Goal ==
      /\ \A u \in Tasks : Kept(u)
      /\ \/ \A u \in Tasks : ~Known(u) => ~Known(u)'
         \/ \E t \in Tasks : /\ ~AlreadyActive(t)
                             /\ \A u \in Tasks : u # t => task'[u] = task[u]
<1>1. ASSUME NEW t \in Tasks, NEW force \in BOOLEAN, Enqueue(t, force)
      PROVE  Goal
  <2>1. ~AlreadyActive(t)
    BY <1>1 DEF Enqueue
  <2>2. QED
    BY <1>1, <2>1, EnqueueKeeps
<1>2. ASSUME NEW late \in SUBSET Leases, ClaimIdle(late)
      PROVE  Goal
  BY <1>2, ClaimIdleKeeps
<1>3. ASSUME NEW late \in SUBSET Leases, NEW t \in Tasks, NEW r \in Roles,
             NEW w \in Workers, Claim(t, r, w, late)
      PROVE  Goal
  BY <1>3, ClaimKeeps
<1>4. ASSUME NEW t \in Tasks, ClaimDies(t)
      PROVE  Goal
  BY <1>4 DEF ClaimDies, Kept, Known
<1>5. ASSUME NEW t \in Tasks, Resolve(t)
      PROVE  Goal
  BY <1>5, ResolveKeeps
<1>6. ASSUME NEW t \in Tasks, NEW r \in Roles, NEW c \in Presentable(t, r),
             NEW x \in Contents, Submit(t, r, c, x)
      PROVE  Goal
  BY <1>6, PresentableType, SubmitKeeps
<1>7. ASSUME NEW t \in Tasks, NEW r \in Roles, NEW c \in Presentable(t, r),
             NEW x \in Contents, PublishDies(t, r, c, x)
      PROVE  Goal
  BY <1>7, PresentableType, PublishDiesKeeps
<1>8. ASSUME NEW t \in Tasks, NEW r \in Roles, NEW c \in Presentable(t, r),
             NEW retry \in BOOLEAN, Fail(t, r, c, retry)
      PROVE  Goal
  BY <1>8, PresentableType, FailKeeps
<1>9. ASSUME UNCHANGED busVars PROVE Goal
  BY <1>9 DEF busVars, Kept, Known
<1> HIDE DEF Goal
<1>10. ASSUME BusNext PROVE Goal
  BY <1>1, <1>2, <1>3, <1>4, <1>5, <1>6, <1>7, <1>8, <1>10, ZenonT(30) DEF BusNext
<1>11. Goal
  BY <1>9, <1>10
<1>12. QED
  BY <1>11 DEF Goal

\* A finding the bus accepted stays accepted, unchanged, until the synthesis
\* opens another round.
THEOREM AcceptanceIsFinal == BusSpec => AcceptedIsKept
<1> DEFINE A == \A t \in Tasks, r \in Roles :
                  Known(t) /\ RoleIs(t, r, "done") /\ task'[t].round = task[t].round =>
                    /\ task'[t].roles[r] = task[t].roles[r]
                    /\ board'[t][r] = board[t][r]
<1>1. BusInv /\ [BusNext]_busVars => [A]_busVars
  BY StepKeeps DEF Kept
<1>2. BusSpec => [][A]_busVars
  BY <1>1, BusInvariant, PTL DEF BusSpec
<1>3. QED
  BY <1>2 DEF AcceptedIsKept

\* A closed task keeps the status it was closed with.
THEOREM ClosedIsFinal == BusSpec => ClosedStaysClosed
<1> DEFINE A == \A t \in Tasks : task[t].status \in Terminal =>
                                   task'[t].status = task[t].status
<1>1. BusInv /\ [BusNext]_busVars => [A]_busVars
  BY StepKeeps DEF Kept
<1>2. BusSpec => [][A]_busVars
  BY <1>1, BusInvariant, PTL DEF BusSpec
<1>3. QED
  BY <1>2 DEF ClosedStaysClosed

\* No two active tasks ever share a subject.
THEOREM SubjectsAreExclusive == BusSpec => []OneActivePerSubject
<1>1. BusInit => OneActivePerSubject
  BY DEF BusInit, NoTask, OneActivePerSubject, Active, Open
<1>2. BusInv /\ OneActivePerSubject /\ [BusNext]_busVars => OneActivePerSubject'
  <2> SUFFICES ASSUME BusInv, OneActivePerSubject, [BusNext]_busVars,
                      NEW t \in Tasks, NEW u \in Tasks, t # u, Subject[t] = Subject[u],
                      task'[t].status \in Active, task'[u].status \in Active
               PROVE  FALSE
    BY DEF OneActivePerSubject
  <2>1. task[t].status \notin Terminal /\ task[u].status \notin Terminal
    BY StepKeeps DEF Kept, Active, Open, Terminal
  <2>2. \A v \in Tasks : Known(v) /\ task[v].status \notin Terminal => task[v].status \in Active
    BY KnownIsTyped DEF BusInv, TaskRecords
  <2>3. Known(t)' /\ Known(u)'
    BY DEF Known, Active, Open
  <2>4. CASE \A v \in Tasks : ~Known(v) => ~Known(v)'
    BY <2>1, <2>2, <2>3, <2>4 DEF OneActivePerSubject
  <2>5. ASSUME NEW s \in Tasks, ~AlreadyActive(s),
               \A v \in Tasks : v # s => task'[v] = task[v]
        PROVE  FALSE
    <3>1. CASE s = t
      BY <2>5, <3>1 DEF AlreadyActive
    <3>2. CASE s = u
      BY <2>5, <3>2 DEF AlreadyActive
    <3>3. CASE s # t /\ s # u
      BY <2>5, <3>3 DEF OneActivePerSubject
    <3>4. QED
      BY <3>1, <3>2, <3>3
  <2>6. QED
    BY <2>4, <2>5, StepKeeps
<1>3. QED
  BY <1>1, <1>2, BusInvariant, PTL DEF BusSpec

-----------------------------------------------------------------------------
(* The daily budget. *)

\* BudgetHolds, with the fact that only known tasks were ever claimed from.
BudgetInv ==
  /\ Cap > 0 => \A d \in Days : budget[d].reserved <= Cap
  /\ \A t \in Tasks : Known(t) /\ task[t].reserved => t \in budget[Day[t]].entries
  /\ \A t \in Tasks, r \in Roles : issued[t][r] > 0 => Known(t) /\ task[t].reserved

\* A step that leaves the reservation of a task as it is.
Unspent(u) ==
  /\ Known(u) => Known(u)' /\ task'[u].reserved = task[u].reserved
  /\ ~Known(u) /\ Known(u)' => task'[u].reserved = FALSE

LEMMA UnspentKeepsBudget ==
  ASSUME BusInv, BudgetInv, issued' = issued, budget' = budget,
         \A u \in Tasks : Unspent(u)
  PROVE  BudgetInv'
  BY DEF BudgetInv, Unspent, Known

\* A step that sets one known task to a record with the same reservation.
LEMMA SameReservation ==
  ASSUME BusInv, NEW t \in Tasks, Known(t), NEW rec \in TaskRecords,
         rec.reserved = task[t].reserved, task' = [task EXCEPT ![t] = rec]
  PROVE  \A u \in Tasks : Unspent(u)
<1>1. rec.status # "absent"
  BY DEF TaskRecords, Active, Open, Terminal
<1>2. \A u \in Tasks : task'[u] = IF u = t THEN rec ELSE task[u]
  BY DEF BusInv, BusTypeOK
<1>3. QED
  BY <1>1, <1>2 DEF Unspent, Known

LEMMA ClaimBudget ==
  ASSUME BusInv, BudgetInv, NEW t \in Tasks, NEW r \in Roles, NEW w \in Workers,
         NEW late \in SUBSET Leases, Claim(t, r, w, late)
  PROVE  BudgetInv'
<1> DEFINE q == Swept(late)
           c == NextClaim(t, r, w)
<1>1. /\ Served(q, t, r)
      /\ task' = [q EXCEPT ![t] = Claimed(q[t], r, c)]
      /\ budget' = IF q[t].reserved THEN budget ELSE Charge(t)
      /\ issued' = [issued EXCEPT ![t][r] = @ + 1]
  BY DEF Claim
<1>2. q[t].status \in Open /\ q[t].roles[r].attempts < MaxAttempts
  BY <1>1 DEF Served, Claimable
<1>3. Known(t)
  BY <1>2, SweptSound DEF NoTask, Open
<1>4. /\ q[t] \in TaskRecords /\ Sound(q[t], issued[t], board[t])
      /\ issued[t] \in [Roles -> Nat] /\ board[t] \in Boards
      /\ q[t].reserved = task[t].reserved
  BY <1>3, SweptSound, KnownIsTyped DEF BusInv
<1>5. c \in Claims /\ c.n = issued[t][r] + 1
  BY <1>4 DEF NextClaim, Claims
<1>6. \A u \in Tasks : u # t =>
        /\ Known(u)' => Known(u) /\ task'[u].reserved = task[u].reserved
        /\ Known(u) => Known(u)'
        /\ issued'[u] = issued[u]
  <2>1. \A u \in Tasks : u # t => task'[u] = q[u] /\ issued'[u] = issued[u]
    BY <1>1 DEF Swept, BusInv, BusTypeOK
  <2>2. \A u \in Tasks : /\ ~Known(u) => q[u].status = "absent"
                         /\ Known(u) => q[u].reserved = task[u].reserved
                         /\ Known(u) => q[u].status # "absent"
    BY SweptSound DEF NoTask, TaskRecords, Active, Open, Terminal
  <2>3. QED
    BY <2>1, <2>2 DEF Known
<1>7. HasBudget(q, t)
  BY <1>1 DEF Served
<1>8. task'[t].reserved /\ Known(t)'
  <2>1. task'[t] = Claimed(q[t], r, c)
    BY <1>1 DEF Swept
  <2> HIDE DEF q, c
  <2>2. Claimed(q[t], r, c).reserved /\ Claimed(q[t], r, c).status = "in_progress"
    BY <1>2, <1>4, <1>5, ClaimedSound, ZenonT(60)
  <2>3. QED
    BY <2>1, <2>2 DEF Known
<1> HIDE DEF q
<1>9. /\ t \in budget'[Day[t]].entries
      /\ \A d \in Days : budget[d].entries \subseteq budget'[d].entries
      /\ Cap > 0 => \A d \in Days : budget'[d].reserved <= Cap
  <2>1. CASE q[t].reserved
    BY <1>1, <1>3, <1>4, <2>1 DEF BudgetInv
  <2>2. CASE ~q[t].reserved
    <3>1. budget' = Charge(t) /\ Affordable(t) /\ Day[t] \in Days
      BY <1>1, <1>7, <2>2 DEF HasBudget, Days
    <3>2. Cap > 0 => \A d \in Days : budget'[d].reserved <= Cap
      BY <3>1, ChargeType, BusAssumption DEF Affordable, BudgetInv, BusInv
    <3>3. QED
      BY <3>1, <3>2, ChargeType DEF BusInv
  <2>3. QED
    BY <2>1, <2>2
<1>10. \A u \in Tasks : Day[u] \in Days
  BY DEF Days
<1>11. \A u \in Tasks : Known(u)' /\ task'[u].reserved => u \in budget'[Day[u]].entries
  BY <1>6, <1>9, <1>10 DEF BudgetInv
<1>12. \A u \in Tasks, p \in Roles : issued'[u][p] > 0 => Known(u)' /\ task'[u].reserved
  BY <1>6, <1>8 DEF BudgetInv
<1>13. QED
  BY <1>9, <1>11, <1>12 DEF BudgetInv, Known

LEMMA ClaimDiesBudget ==
  ASSUME BusInv, BudgetInv, NEW t \in Tasks, ClaimDies(t)
  PROVE  BudgetInv'
<1>1. /\ ~task[t].reserved /\ task' = task /\ issued' = issued /\ budget' = Charge(t)
      /\ \E r \in Roles : Served(task, t, r)
  BY DEF ClaimDies
<1>2. Affordable(t)
  BY <1>1 DEF Served, HasBudget
<1>3. \A u \in Tasks : Day[u] \in Days
  BY DEF Days
<1>4. Cap > 0 => \A d \in Days : budget'[d].reserved <= Cap
  BY <1>1, <1>2, <1>3, ChargeType, BusAssumption, SMTT(40) DEF Affordable, BudgetInv, BusInv
<1>5. \A d \in Days : budget[d].entries \subseteq budget'[d].entries
  BY <1>1, ChargeType DEF BusInv
<1>6. QED
  BY <1>1, <1>3, <1>4, <1>5 DEF BudgetInv, Known

LEMMA PublishedReserved ==
  ASSUME NEW rec \in TaskRecords, NEW r \in Roles, NEW c \in Claims
  PROVE  Published(rec, r, c).reserved = rec.reserved
  BY DEF Published, TaskRecords

LEMMA PublishedReservation ==
  ASSUME BusInv, NEW t \in Tasks, NEW r \in Roles, NEW c \in Claims, NEW x \in Contents,
         Submit(t, r, c, x)
  PROVE  LET rec == Published(task[t], r, c)
         IN  rec \in TaskRecords /\ rec.reserved = task[t].reserved
<1> DEFINE b == [content |-> x, claim |-> c]
<1>1. b \in Findings /\ b.claim = c
  BY DEF Findings
<1>2. /\ task[t] \in TaskRecords /\ Sound(task[t], issued[t], board[t])
      /\ issued[t] \in [Roles -> Nat] /\ board[t] \in Boards
      /\ r \in task[t].plan /\ task[t].roles[r].status = "claimed"
      /\ task[t].roles[r].claim = c
  BY FenceFacts DEF Submit
<1> HIDE DEF b
<1>3. Published(task[t], r, c) \in TaskRecords
  BY <1>1, <1>2, PublishedSound
<1>4. Published(task[t], r, c).reserved = task[t].reserved
  BY <1>2, PublishedReserved
<1>5. QED
  BY <1>3, <1>4

\* The reservations of a day stay within the cap, and no role of a task is
\* ever claimed without the task being charged, crash or no crash.
THEOREM BudgetIsSafe == BusSpec => []BudgetHolds
<1>1. BusInit => BudgetInv
  BY BusAssumption DEF BusInit, BudgetInv, Known, NoTask
<1>2. BusInv /\ BudgetInv /\ [BusNext]_busVars => BudgetInv'
  <2> SUFFICES ASSUME BusInv, BudgetInv, [BusNext]_busVars PROVE BudgetInv'
    OBVIOUS
  <2>1. ASSUME NEW t \in Tasks, NEW force \in BOOLEAN, Enqueue(t, force)
        PROVE  BudgetInv'
    <3>1. \A u \in Tasks : Unspent(u)
      BY <2>1 DEF Enqueue, Unspent, Known, NewTask, BusInv, BusTypeOK
    <3>2. QED
      BY <2>1, <3>1, UnspentKeepsBudget DEF Enqueue
  <2>2. ASSUME NEW late \in SUBSET Leases, ClaimIdle(late)
        PROVE  BudgetInv'
    <3>1. \A u \in Tasks : Unspent(u)
      BY <2>2, SweptSound
         DEF ClaimIdle, Unspent, Known, NoTask, TaskRecords, Active, Open, Terminal
    <3>2. QED
      BY <2>2, <3>1, UnspentKeepsBudget DEF ClaimIdle
  <2>3. ASSUME NEW late \in SUBSET Leases, NEW t \in Tasks, NEW r \in Roles,
               NEW w \in Workers, Claim(t, r, w, late)
        PROVE  BudgetInv'
    BY <2>3, ClaimBudget
  <2>4. ASSUME NEW t \in Tasks, ClaimDies(t)
        PROVE  BudgetInv'
    BY <2>4, ClaimDiesBudget
  <2>5. ASSUME NEW t \in Tasks, Resolve(t)
        PROVE  BudgetInv'
    <3>1. /\ task[t].status = "ready_to_synthesize" /\ issued' = issued /\ budget' = budget
      BY <2>5 DEF Resolve, RoundsLeft
    <3>2. /\ task[t] \in TaskRecords /\ Sound(task[t], issued[t], board[t])
          /\ issued[t] \in [Roles -> Nat] /\ board[t] \in Boards /\ Known(t)
      BY <3>1, KnownIsTyped DEF BusInv, Known
    <3>3. PICK rec \in TaskRecords :
            rec.reserved = task[t].reserved /\ task' = [task EXCEPT ![t] = rec]
      <4>1. CASE \E s \in Terminal \ {"failed"} : task' = [task EXCEPT ![t] = Closed(@, s)]
        <5>1. PICK s \in Terminal \ {"failed"} : task' = [task EXCEPT ![t] = Closed(task[t], s)]
          BY <4>1
        <5>2. QED
          BY <3>1, <3>2, <5>1, ClosedSound
      <4>2. CASE /\ task[t].round < MaxRounds
                 /\ \E S \in SUBSET Plan(t) :
                       S # {} /\ task' = [task EXCEPT ![t] = Escalated(@, S)]
        <5>1. PICK S \in SUBSET Roles : task' = [task EXCEPT ![t] = Escalated(task[t], S)]
          BY <3>2, <4>2 DEF Plan, TaskRecords
        <5>2. QED
          BY <3>2, <4>2, <5>1, EscalatedSound
      <4>3. CASE task' = [task EXCEPT ![t] = WithAdjudicator(@)]
        BY <3>2, <4>3, WithAdjudicatorSound
      <4>4. QED
        BY <2>5, <4>1, <4>2, <4>3 DEF Resolve, RoundsLeft
    <3>4. QED
      BY <3>1, <3>2, <3>3, SameReservation, UnspentKeepsBudget
  <2>6. ASSUME NEW t \in Tasks, NEW r \in Roles, NEW c \in Presentable(t, r),
               NEW x \in Contents, Submit(t, r, c, x)
        PROVE  BudgetInv'
    <3>3. LET rec == Published(task[t], r, c)
          IN  rec \in TaskRecords /\ rec.reserved = task[t].reserved
      BY <2>6, PresentableType, PublishedReservation
    <3>4. Known(t) /\ issued' = issued /\ budget' = budget
          /\ task' = [task EXCEPT ![t] = Published(task[t], r, c)]
      BY <2>6 DEF Submit, Fenced
    <3>5. QED
      BY <3>3, <3>4, SameReservation, UnspentKeepsBudget
  <2>7. ASSUME NEW t \in Tasks, NEW r \in Roles, NEW c \in Presentable(t, r),
               NEW x \in Contents, PublishDies(t, r, c, x)
        PROVE  BudgetInv'
    BY <2>7 DEF PublishDies, BudgetInv, Known
  <2>8. ASSUME NEW t \in Tasks, NEW r \in Roles, NEW c \in Presentable(t, r),
               NEW retry \in BOOLEAN, Fail(t, r, c, retry)
        PROVE  BudgetInv'
    <3>1. LET rec == Failed(task[t], r, retry)
          IN  rec \in TaskRecords /\ rec.reserved = task[t].reserved
      BY <2>8, FenceFacts, FailedSound DEF Fail
    <3>2. Known(t) /\ issued' = issued /\ budget' = budget
          /\ task' = [task EXCEPT ![t] = Failed(task[t], r, retry)]
      BY <2>8 DEF Fail, Fenced
    <3>3. QED
      BY <3>1, <3>2, SameReservation, UnspentKeepsBudget
  <2>9. CASE UNCHANGED busVars
    BY <2>9 DEF busVars, BudgetInv, Known
  <2>10. CASE BusNext
    BY <2>1, <2>2, <2>3, <2>4, <2>5, <2>6, <2>7, <2>8, <2>10, ZenonT(30) DEF BusNext
  <2>11. QED
    BY <2>9, <2>10
<1>3. BudgetInv => BudgetHolds
  BY DEF BudgetInv, BudgetHolds
<1>4. QED
  BY <1>1, <1>2, <1>3, BusInvariant, PTL DEF BusSpec

=============================================================================
