------------------------------- MODULE AgentDag -------------------------------
(***************************************************************************)
(* The run-scoped DAG (scripts/run_agent_dag.py) and the runner it starts  *)
(* for each job (scripts/hermes_job_runner.py, with the artifacts and the  *)
(* dependency gate of skills/common/runtime_context.py).                   *)
(*                                                                         *)
(* The crontab fires one DAG process per target; the processes of a batch  *)
(* share the upstream jobs.  Each walks its own order, reuses what it      *)
(* finds, runs what it misses, and stops early when an upstream failed and *)
(* nobody declared that it can do without.  They meet in two places: the   *)
(* job's lease (its promise here, its file-system calls in RunLease), and  *)
(* the artifacts, of which the youngest of a job is the one that counts.   *)
(* The lease is released BEFORE the artifact of the run is written.        *)
(***************************************************************************)
EXTENDS Integers, Sequences, FiniteSets, SequencesExt

CONSTANTS Dags,         \* DAG processes of one batch; each serves one firing
          Fired,        \* process -> the jobs the crontab may fire it for
          Jobs,
          Requires,     \* job -> sequence of its required same-day upstreams
          Order,        \* job -> the order in which a DAG for it walks the jobs
          Statuses,     \* what the status of an artifact may be
          Accepts,      \* consumer -> upstream -> accepted statuses
          Outcomes,     \* job -> what its process can end in: [status, rc]
          MaxAttempts,  \* retry_policy.max_attempts
          MaxDead       \* bound: how many DAG processes may die

TerminalFailures == {"failed", "timeout", "error", "blocked"}

\* build_artifact: an exit code other than 0 makes the status a failure, and
\* 75 and 78 make it "blocked".
ASSUME DagAssumption ==
  /\ MaxAttempts \in Nat \ {0} /\ MaxDead \in Nat
  /\ IsFiniteSet(Dags) /\ Fired \in [Dags -> SUBSET Jobs]
  /\ Requires \in [Jobs -> Seq(Jobs)]
  /\ TerminalFailures \cup {"missing", "ok", "reused", "none"} \subseteq Statuses
  /\ Outcomes \in [Jobs -> SUBSET [status : Statuses, rc : Nat]]
  /\ \A j \in Jobs : \A o \in Outcomes[j] :
       /\ o.rc # 0 => o.status \in TerminalFailures
       /\ o.rc \in {75, 78} => o.status = "blocked"

\* execution_order (DagOrder computes it): the target comes last, what a job
\* requires before it, and only what a later one requires is there.
ASSUME OrderAssumption ==
  /\ Order \in [Jobs -> Seq(Jobs)]
  /\ \A t \in Jobs :
       /\ Len(Order[t]) > 0 /\ Order[t][Len(Order[t])] = t
       /\ \A i \in DOMAIN Order[t] :
            /\ ToSet(Requires[Order[t][i]]) \subseteq {Order[t][k] : k \in 1..(i - 1)}
            /\ Order[t][i] # t =>
                 \E k \in i + 1..Len(Order[t]) : Order[t][i] \in ToSet(Requires[Order[t][k]])

VARIABLES artifacts,  \* job -> its youngest artifact of the batch, by mtime
          lease,      \* job -> the run that holds its lease, or NoRun
          dag         \* the DAG processes

vars == <<artifacts, lease, dag>>

NoRun == 0

\* _is_failure_status
Failing(status, rc) == rc # 0 \/ status \in TerminalFailures

NoArtifact == [run |-> NoRun, status |-> "missing", rc |-> 0]

\* load_latest_artifact
Latest(j) == artifacts[j]

Missing(a) == a.run = NoRun
Bad(a) == Failing(a.status, a.rc)
Good(a) == ~Missing(a) /\ ~Bad(a)

Job(d) == Order[dag[d].target][dag[d].at]
IsTarget(d) == Job(d) = dag[d].target

\* Mutant: before the fix, accepted_statuses was not looked at here.
ToleratingNobody(j, status, order) == {}

\* consumers_tolerating
Tolerating(j, status, order) ==
  {k \in ToSet(order) : j \in ToSet(Requires[k]) /\ status \in Accepts[k][j]}

NoOutcome == [status |-> "missing", rc |-> 0]

Idle ==
  [pc |-> "idle", target |-> "none", at |-> 1, tries |-> 0, run |-> NoRun,
   found |-> NoRun, holder |-> NoRun, heard |-> NoArtifact,
   outcome |-> NoOutcome, renewed |-> FALSE, result |-> "none"]

Walking == {"gate", "refused", "claim", "wait", "work", "report", "judge"}

Init ==
  /\ artifacts = [j \in Jobs |-> NoArtifact]
  /\ lease = [j \in Jobs |-> NoRun]
  /\ dag = [d \in Dags |-> Idle]

Set(d, r) == dag' = [dag EXCEPT ![d] = r]
At(d, pc) == dag[d].pc = pc

Ended(d, result) ==
  [Idle EXCEPT !.pc = "ended", !.target = dag[d].target, !.at = dag[d].at,
               !.renewed = dag[d].renewed, !.result = result]

Looking(target, at) == [Idle EXCEPT !.pc = "look", !.target = target, !.at = at]

\* The next job of the order, or the end with the target's status.
Further(d, status) ==
  Set(d, IF IsTarget(d) THEN Ended(d, status)
         ELSE Looking(dag[d].target, dag[d].at + 1))

\* An upstream has failed: go on if a consumer declares that it degrades.
AfterFailure(d, status, result) ==
  IF Tolerating(Job(d), status, Order[dag[d].target]) # {}
  THEN Further(d, result)
  ELSE Set(d, Ended(d, result))
-----------------------------------------------------------------------------
(* The walk: execute_dag *)

Start(d) ==
  /\ At(d, "idle")
  /\ \E t \in Fired[d] : Set(d, Looking(t, 1))
  /\ UNCHANGED <<artifacts, lease>>

\* Mutant: a scheduled target, too, counts as done once it has succeeded.
ReuseTargets(d) ==
  /\ At(d, "look") /\ Good(Latest(Job(d)))
  /\ Further(d, "reused")
  /\ UNCHANGED <<artifacts, lease>>

Reuse(d) ==
  /\ At(d, "look") /\ ~IsTarget(d) /\ Good(Latest(Job(d)))
  /\ Further(d, "reused")
  /\ UNCHANGED <<artifacts, lease>>

\* An upstream that failed earlier in this batch is not paid for again.
ShortCircuit(d) ==
  /\ At(d, "look") /\ ~IsTarget(d) /\ Bad(Latest(Job(d)))
  /\ AfterFailure(d, Latest(Job(d)).status, "blocked")
  /\ UNCHANGED <<artifacts, lease>>

Launch(d) ==
  /\ At(d, "look") /\ (IsTarget(d) \/ Missing(Latest(Job(d))))
  /\ Set(d, [dag[d] EXCEPT !.pc = "gate", !.tries = 1, !.found = Latest(Job(d)).run])
  /\ UNCHANGED <<artifacts, lease>>
-----------------------------------------------------------------------------
(* One run of the runner: run_job *)

\* evaluate_dependencies; "old" are the artifacts past max_age_minutes.
Passes(j, old) ==
  \A k \in ToSet(Requires[j]) : Latest(k).status \in Accepts[j][k] /\ k \notin old

AtJob(j) == {d \in Dags : dag[d].pc \in Walking \cup {"dead"} /\ Job(d) = j}

Mentioned(j) ==
  {NoRun, artifacts[j].run, lease[j]}
  \cup UNION {{dag[d].run, dag[d].found, dag[d].holder} : d \in AtJob(j)}

\* make_run_id: an id of its own within the job; one that nobody mentions any
\* more may come back.
NewRun(j) ==
  CHOOSE r \in 1..Cardinality(Mentioned(j)) : r \notin Mentioned(j)

Gate(d) ==
  /\ At(d, "gate")
  /\ \E old \in SUBSET ToSet(Requires[Job(d)]) :
       Set(d, [dag[d] EXCEPT !.pc = IF Passes(Job(d), old) THEN "claim" ELSE "refused",
                             !.run = NewRun(Job(d))])
  /\ UNCHANGED <<artifacts, lease>>

Judged(d, status, rc) ==
  [dag[d] EXCEPT !.pc = "judge", !.outcome = [status |-> status, rc |-> rc]]

\* write_artifact; "renewed" (history): a successful one came while d was here.
Written(d, status, rc) ==
  /\ artifacts' = [artifacts EXCEPT ![Job(d)] =
                    [run |-> dag[d].run, status |-> status, rc |-> rc]]
  /\ dag' = [x \in Dags |->
      LET y == IF x = d THEN Judged(d, status, rc) ELSE dag[x]
      IN  IF dag[x].pc \in Walking /\ Job(x) = Job(d) /\ ~Failing(status, rc)
          THEN [y EXCEPT !.renewed = TRUE] ELSE y]

\* The "blocked" artifact of a run whose gate did not pass.
Refuse(d) ==
  /\ At(d, "refused")
  /\ Written(d, "blocked", 75)
  /\ UNCHANGED lease

Claim(d) ==
  /\ At(d, "claim")
  /\ IF lease[Job(d)] = NoRun
     THEN /\ lease' = [lease EXCEPT ![Job(d)] = dag[d].run]
          /\ Set(d, [dag[d] EXCEPT !.pc = "work"])
     ELSE /\ Set(d, [dag[d] EXCEPT !.pc = "wait", !.holder = lease[Job(d)],
                                   !.outcome = [status |-> "missing", rc |-> 76]])
          /\ UNCHANGED lease
  /\ UNCHANGED artifacts

\* The business process ends, at the latest killed at its timeout; the lease
\* is released on the way out of the with block.
Work(d) ==
  /\ At(d, "work")
  /\ lease' = [lease EXCEPT ![Job(d)] = IF @ = dag[d].run THEN NoRun ELSE @]
  /\ \E o \in Outcomes[Job(d)] : Set(d, [dag[d] EXCEPT !.pc = "report", !.outcome = o])
  /\ UNCHANGED artifacts

Report(d) ==
  /\ At(d, "report")
  /\ Written(d, dag[d].outcome.status, dag[d].outcome.rc)
  /\ UNCHANGED lease

\* The runner fails before its artifact is out, and so does its crash net.
ReportLost(d) ==
  /\ At(d, "report")
  /\ Set(d, Judged(d, "missing", 1))
  /\ UNCHANGED <<artifacts, lease>>
-----------------------------------------------------------------------------
(* Back in execute_dag: exit code 76, retries and the status of the job *)

\* _wait_for_run_artifact: the youngest artifact is that of the holder's run.
Answered(d) == Latest(Job(d)).run = dag[d].holder

Hear(d) ==
  /\ At(d, "wait") /\ Answered(d)
  /\ Set(d, [dag[d] EXCEPT !.pc = "judge", !.heard = Latest(Job(d))])
  /\ UNCHANGED <<artifacts, lease>>

Dead == {d \in Dags : At(d, "dead")}

HolderGone(d) ==
  lease[Job(d)] # dag[d].holder \/ \E x \in Dead : Job(x) = Job(d) /\ dag[x].run = dag[d].holder

\* Mutant: a DAG that waits until the holder has answered.
GiveUpNever(d) == FALSE /\ UNCHANGED vars

\* The wait lasts as long as the job may: it ends in vain only if the holder's
\* process is gone and its artifact did not appear, or is no longer the youngest.
GiveUp(d) ==
  /\ At(d, "wait") /\ ~Answered(d) /\ HolderGone(d)
  /\ Set(d, [dag[d] EXCEPT !.pc = "judge"])
  /\ UNCHANGED <<artifacts, lease>>

Over(d) == dag[d].outcome.rc = 0 \/ ~Missing(dag[d].heard) \/ dag[d].tries = MaxAttempts

Retry(d) ==
  /\ At(d, "judge") /\ ~Over(d)
  /\ Set(d, [dag[d] EXCEPT !.pc = "gate", !.tries = @ + 1, !.run = NoRun,
                             !.holder = NoRun, !.outcome = NoOutcome])
  /\ UNCHANGED <<artifacts, lease>>

\* The status execute_dag gives the job it has just run.
Status(d) ==
  LET heard == dag[d].heard
      last == Latest(Job(d))
      rc == dag[d].outcome.rc
  IN  CASE Good(heard)                    -> heard.status
        [] rc = 0 /\ last.run # dag[d].found -> last.status
        [] rc = 0 /\ last.run = dag[d].found -> "ok"
        [] rc # 0 /\ ~Good(heard)         -> IF rc \in {75, 78} THEN "blocked" ELSE "failed"

Conclude(d) ==
  /\ At(d, "judge") /\ Over(d)
  /\ IF Failing(Status(d), IF Good(dag[d].heard) THEN 0 ELSE dag[d].outcome.rc)
     THEN AfterFailure(d, Status(d), Status(d))
     ELSE Further(d, Status(d))
  /\ UNCHANGED <<artifacts, lease>>
-----------------------------------------------------------------------------
\* A kill takes the process and its runner; only the TTL frees their lease.
\* (Killed anywhere else it leaves nothing that another process could see.)
Die(d) ==
  /\ Cardinality(Dead) < MaxDead
  /\ At(d, "work") \/ At(d, "report")
  /\ Set(d, [Idle EXCEPT !.pc = "dead", !.target = dag[d].target, !.at = dag[d].at,
                         !.run = dag[d].run])
  /\ UNCHANGED <<artifacts, lease>>

Expire(j) ==
  /\ lease[j] # NoRun /\ \E x \in Dead : Job(x) = j /\ dag[x].run = lease[j]
  /\ lease' = [lease EXCEPT ![j] = NoRun]
  /\ UNCHANGED <<artifacts, dag>>

Runner(d) == Gate(d) \/ Refuse(d) \/ Claim(d) \/ Work(d) \/ Report(d) \/ ReportLost(d)
Walk(d) == Reuse(d) \/ ShortCircuit(d) \/ Launch(d) \/ Hear(d) \/ GiveUp(d)
           \/ Retry(d) \/ Conclude(d)

Next ==
  \/ \E d \in Dags : Start(d) \/ Walk(d) \/ Runner(d) \/ Die(d)
  \/ \E j \in Jobs : Expire(j)

Spec == Init /\ [][Next]_vars

\* A live process goes on: its runner is killed at the job's timeout, and its
\* waits have deadlines.
FairSpec == Spec /\ \A d \in Dags : WF_vars(Walk(d) \/ Runner(d))
-----------------------------------------------------------------------------
(* Properties *)

\* Types of the artifacts, the leases and the DAG processes.
DagTypeOK ==
  /\ artifacts \in [Jobs -> [run : Nat, status : Statuses, rc : Nat]]
  /\ lease \in [Jobs -> Nat]
  /\ dag \in [Dags ->
       [pc : Walking \cup {"idle", "look", "ended", "dead"}, target : Jobs \cup {"none"},
        at : Nat \ {0}, tries : Nat, run : Nat, found : Nat, holder : Nat,
        heard : [run : Nat, status : Statuses, rc : Nat],
        outcome : [status : Statuses, rc : Nat], renewed : BOOLEAN, result : Statuses]]

\* A scheduled target is run again by default (docs/architecture-hardening.md):
\* a DAG that reports success has a successful artifact of its target written
\* after it came to it, never one it found.
TargetIsRerun ==
  \A d \in Dags : At(d, "ended") /\ ~Failing(dag[d].result, 0) =>
    dag[d].renewed

\* The jobs of the order whose own dependency gate can no longer pass once u
\* has ended with status: u's consumers that do not accept it, and on from
\* them, "blocked" being what such a job leaves behind.
Doomed(order, u, status) ==
  LET closed == {D \in SUBSET ToSet(order) :
                   \A k \in ToSet(order) \ D : \A r \in ToSet(Requires[k]) :
                     /\ r = u => status \in Accepts[k][r]
                     /\ r \in D => "blocked" \in Accepts[k][r]}
  IN  {k \in ToSet(order) : \A D \in closed : k \in D}

\* What the crontab's jobs declare (cron/hermes-cron-manifest.json): nobody
\* accepts an upstream that is blocked or missing, and who accepts a failure
\* accepts "failed".
ToleranceIsPlain ==
  \A t \in Jobs : \A k \in ToSet(Order[t]) : \A u \in ToSet(Requires[k]) :
    /\ Accepts[k][u] \cap {"blocked", "missing"} = {}
    /\ Accepts[k][u] \cap TerminalFailures # {} => "failed" \in Accepts[k][u]

\* What the job the DAG gives up for has left in this DAG's eyes.
LeftBehind(d) ==
  IF At(d, "look") THEN Latest(Job(d)).status
  ELSE IF ~Missing(dag[d].heard) THEN dag[d].heard.status
  ELSE IF dag[d].outcome.rc = 0 THEN Latest(Job(d)).status
  ELSE dag[d].outcome.status

\* The early stop is only a cost optimisation, each job's own gate decides
\* (consumers_tolerating): a DAG that gives up before its target does so for a
\* failed upstream after which the target's gate could not have passed.
ShortCircuitIsSound ==
  [][\A d \in Dags :
       /\ dag[d].pc \in {"look", "judge"} /\ ~IsTarget(d) /\ dag'[d].pc = "ended"
       => dag[d].target \in Doomed(Order[dag[d].target], Job(d), LeftBehind(d))]_vars

\* A dependency that already failed today must not be respawned
\* (tests/test_agent_dag.py): work on an upstream never starts over the failure
\* another run has reported.
NoRespawn ==
  [][\A d \in Dags :
       At(d, "claim") /\ dag'[d].pc = "work" /\ ~IsTarget(d) /\ dag[d].tries = 1
       => ~Bad(Latest(Job(d)))]_vars

\* Every DAG process that is not killed ends: no wait for a holder that died,
\* lost its artifact or was overtaken lasts for ever.
EveryDagEnds == \A d \in Dags : At(d, "look") ~> (At(d, "ended") \/ At(d, "dead"))
=============================================================================
