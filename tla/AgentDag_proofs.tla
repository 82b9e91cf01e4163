-------------------------- MODULE AgentDag_proofs --------------------------
(***************************************************************************)
(* Proofs about the agent DAG, for any number of DAG processes, of jobs,   *)
(* of attempts and of deaths.                                              *)
(*                                                                         *)
(* A DAG learns of another's run only through the youngest artifact of the *)
(* job and the id of the run that held the lease.  DagInv says why that is *)
(* enough: a run that holds a lease, or is on its way to its artifact, has *)
(* not written yet, its id is nobody else's, and it is not the id a DAG    *)
(* found when it came to the job.                                          *)
(*                                                                         *)
(* That a DAG stops early only where its target is lost needs two more     *)
(* facts: what the exit codes say of the artifacts (ToldInv), and that in  *)
(* the order every job but the target has a later consumer, so that        *)
(* "blocked" travels from the failed upstream to the target.               *)
(***************************************************************************)
EXTENDS AgentDag, FiniteSetTheorems, SequenceTheorems, TLAPS

\* A run that has an id and no artifact.
Running == {"refused", "claim", "work", "report", "wait", "dead"}

Somewhere == Walking \cup {"look", "dead"}

JobOf(r) == Order[r.target][r.at]

Placed(r) == r.pc \in Somewhere => r.target \in Jobs /\ r.at \in DOMAIN Order[r.target]

\* What the job's youngest artifact a means to the process r.
Fits(r, a) ==
  /\ r.pc \in Running => r.run # NoRun /\ a.run # r.run
  /\ r.pc \in (Walking \ {"judge"}) \cup {"look"} => Missing(r.heard)
  /\ r.pc = "report" /\ r.outcome.rc # 0 => r.outcome.status \in TerminalFailures
  /\ r.pc = "wait" => r.outcome.rc # 0 /\ (a.run = r.holder /\ Good(a) => r.renewed)
  /\ r.pc = "judge" /\ Good(r.heard) => r.renewed
  /\ r.pc = "judge" /\ r.outcome.rc = 0 =>
       Missing(r.heard) /\ a.run # r.found /\ (~Failing(a.status, 0) => r.renewed)

\* A success that is reported was written while the process was there.
Earned(r) == r.pc = "ended" /\ ~Failing(r.result, 0) => r.renewed

\* The runs of two processes at one job.
Apart(r, s) ==
  r.pc \in Running /\ s.pc \in Running /\ JobOf(r) = JobOf(s) => r.run # s.run

\* What r found at its job is not what s is going to write.
Earlier(r, s) ==
  r.pc \in Walking /\ s.pc \in Running /\ JobOf(r) = JobOf(s) => r.found # s.run

Holds(d, j) == dag[d].pc \in {"work", "dead"} /\ Job(d) = j /\ dag[d].run = lease[j]

DagInv ==
  /\ DagTypeOK
  /\ \A j \in Jobs : artifacts[j].rc # 0 => artifacts[j].status \in TerminalFailures
  /\ \A d \in Dags : /\ Placed(dag[d]) /\ Earned(dag[d])
                     /\ dag[d].pc \in Somewhere => Fits(dag[d], artifacts[Job(d)])
  /\ \A d, e \in Dags : d # e => Apart(dag[d], dag[e])
  /\ \A d, e \in Dags : Earlier(dag[d], dag[e])
  /\ \A j \in Jobs : lease[j] # NoRun => \E d \in Dags : Holds(d, j)
-----------------------------------------------------------------------------
(* Places, and new ids *)

LEMMA OrderFacts ==
  ASSUME NEW t \in Jobs
  PROVE  /\ Order[t] \in Seq(Jobs) /\ 1 \in DOMAIN Order[t]
         /\ \A i \in DOMAIN Order[t] :
              Order[t][i] \in Jobs /\ (Order[t][i] # t => i + 1 \in DOMAIN Order[t])
<1>1. Order[t] \in Seq(Jobs) /\ Len(Order[t]) > 0 /\ Order[t][Len(Order[t])] = t
  BY OrderAssumption
<1>2. QED
  BY <1>1

\* Where a process is somewhere, its job is a job.
LEMMA JobType ==
  ASSUME DagInv, NEW d \in Dags, dag[d].pc \in Somewhere
  PROVE  /\ dag[d].target \in Jobs /\ dag[d].at \in DOMAIN Order[dag[d].target]
         /\ JobOf(dag[d]) = Job(d) /\ Job(d) \in Jobs
<1>1. dag[d].target \in Jobs /\ dag[d].at \in DOMAIN Order[dag[d].target]
  BY DEF DagInv, Placed
<1>2. QED
  BY <1>1, OrderFacts DEF JobOf, Job

\* There is always an id that nobody mentions.
LEMMA NewRunIsNew ==
  ASSUME DagInv, NEW j \in Jobs
  PROVE  NewRun(j) \in Nat /\ NewRun(j) # NoRun /\ NewRun(j) \notin Mentioned(j)
<1> DEFINE M == Mentioned(j)
           n == Cardinality(M)
           f == [d \in AtJob(j) |-> {dag[d].run, dag[d].found, dag[d].holder}]
           T == {{dag[d].run, dag[d].found, dag[d].holder} : d \in AtJob(j)}
<1>1. IsFiniteSet(AtJob(j))
  BY DagAssumption, FS_Subset DEF AtJob
<1>2. f \in Surjection(AtJob(j), T)
  BY DEF Surjection
<1>3. IsFiniteSet(T)
  <2> HIDE DEF f, T
  <2>1. QED
    BY <1>1, <1>2, FS_Surjection
<1>4. \A S \in T : IsFiniteSet(S)
  <2>1. ASSUME NEW a, NEW b, NEW c
        PROVE  IsFiniteSet({a, b, c})
    <3>1. IsFiniteSet(({} \cup {a}) \cup {b})
      BY FS_EmptySet, FS_AddElement
    <3>2. IsFiniteSet((({} \cup {a}) \cup {b}) \cup {c})
      BY <3>1, FS_AddElement
    <3>3. (({} \cup {a}) \cup {b}) \cup {c} = {a, b, c}
      OBVIOUS
    <3>4. QED
      BY <3>2, <3>3
  <2>2. \A d \in AtJob(j) : IsFiniteSet({dag[d].run, dag[d].found, dag[d].holder})
    BY <2>1
  <2>3. QED
    BY <2>2
<1>5. IsFiniteSet(M)
  <2>1. IsFiniteSet(UNION T)
    <3> HIDE DEF T
    <3>1. QED
      BY <1>3, <1>4, FS_UNION
  <2>2. IsFiniteSet((UNION T) \cup {NoRun})
    BY <2>1, FS_AddElement
  <2>3. IsFiniteSet(((UNION T) \cup {NoRun}) \cup {artifacts[j].run})
    BY <2>2, FS_AddElement
  <2>4. IsFiniteSet((((UNION T) \cup {NoRun}) \cup {artifacts[j].run}) \cup {lease[j]})
    BY <2>3, FS_AddElement
  <2>5. M = (((UNION T) \cup {NoRun}) \cup {artifacts[j].run}) \cup {lease[j]}
    BY DEF Mentioned
  <2>6. QED
    BY <2>4, <2>5
<1>6. n \in Nat
  BY <1>5, FS_CardinalityType
<1>7. \E r \in 1..n : r \notin M
  <2> SUFFICES ASSUME \A r \in 1..n : r \in M PROVE FALSE
    OBVIOUS
  <2>1. 0 \in M
    BY DEF Mentioned, NoRun
  <2>2. 0..n \subseteq M
    <3> HIDE DEF M, n
    <3>1. QED
      BY <1>6, <2>1
  <2>3. Cardinality(0..n) = n + 1
    <3> HIDE DEF n
    <3>1. QED
      BY <1>6, FS_Interval
  <2>4. Cardinality(0..n) <= n
    BY <1>5, <2>2, FS_Subset
  <2>5. QED
    <3> HIDE DEF n
    <3>1. QED
      BY <1>6, <2>3, <2>4
<1>8. NewRun(j) \in 1..n /\ NewRun(j) \notin M
  BY <1>7 DEF NewRun
<1>9. QED
  <2> HIDE DEF n, M
  <2>1. Mentioned(j) = M
    BY DEF M
  <2>2. QED
    BY <1>6, <1>8, <2>1 DEF NoRun

LEMMA WhoIsMentioned ==
  ASSUME DagInv, NEW d \in Dags, dag[d].pc \in Walking \cup {"dead"}
  PROVE  /\ dag[d].run \in Mentioned(Job(d)) /\ dag[d].found \in Mentioned(Job(d))
         /\ artifacts[Job(d)].run \in Mentioned(Job(d))
<1>1. d \in AtJob(Job(d))
  BY DEF AtJob
<1>2. QED
  BY <1>1 DEF Mentioned
-----------------------------------------------------------------------------
(* What one process does without writing an artifact *)

Recs == [pc : Walking \cup {"idle", "look", "ended", "dead"}, target : Jobs \cup {"none"},
         at : Nat \ {0}, tries : Nat, run : Nat, found : Nat, holder : Nat,
         heard : [run : Nat, status : Statuses, rc : Nat],
         outcome : [status : Statuses, rc : Nat], renewed : BOOLEAN, result : Statuses]

Leased == \A j \in Jobs : lease[j] # NoRun => \E d \in Dags : Holds(d, j)

\* A process d that becomes r keeps its run at its job, or draws a new id;
\* and it keeps what it found, or looks again.
KeepsRun(d, r) ==
  r.pc \in Running =>
    \/ dag[d].pc \in Running /\ JobOf(r) = Job(d) /\ r.run = dag[d].run
    \/ r.run \notin Mentioned(JobOf(r))

KeepsFound(d, r) ==
  r.pc \in Walking =>
    \/ dag[d].pc \in Walking /\ JobOf(r) = Job(d) /\ r.found = dag[d].found
    \/ r.found = artifacts[JobOf(r)].run

LEMMA MoveKeeps ==
  ASSUME DagInv, NEW d \in Dags, NEW r \in Recs, Set(d, r), UNCHANGED artifacts,
         lease' \in [Jobs -> Nat], Leased',
         Placed(r), Earned(r), r.pc \in Somewhere => Fits(r, artifacts[JobOf(r)]),
         KeepsRun(d, r), KeepsFound(d, r), Earlier(r, r)
  PROVE  DagInv'
<1>1. dag' = [dag EXCEPT ![d] = r] /\ dag \in [Dags -> Recs]
  BY DEF Set, DagInv, DagTypeOK, Recs
<1>2. dag'[d] = r /\ \A e \in Dags \ {d} : dag'[e] = dag[e]
  BY <1>1
<1>3. DagTypeOK'
  BY <1>1 DEF DagInv, DagTypeOK, Recs
<1>4. \A e \in Dags : Job(e)' = JobOf(dag'[e])
  BY DEF Job, JobOf
<1>5. ASSUME NEW e \in Dags
      PROVE  /\ Placed(dag'[e]) /\ Earned(dag'[e])
             /\ dag'[e].pc \in Somewhere => Fits(dag'[e], artifacts'[Job(e)'])
  <2>1. CASE e = d
    BY <1>2, <1>4, <2>1
  <2>2. CASE e # d
    BY <1>2, <1>4, <2>2 DEF DagInv, Job, JobOf
  <2>3. QED
    BY <2>1, <2>2
<1>6. \A e \in Dags : dag[e].pc \in Somewhere => Job(e) = JobOf(dag[e])
  BY DEF Job, JobOf
<1>7. ASSUME NEW e \in Dags \ {d}, dag[e].pc \in Running, r.pc \in Running,
             JobOf(r) = JobOf(dag[e])
      PROVE  r.run # dag[e].run
  <2>1. CASE dag[d].pc \in Running /\ JobOf(r) = Job(d) /\ r.run = dag[d].run
    BY <1>7, <2>1 DEF DagInv, Apart, Job, JobOf
  <2>2. CASE r.run \notin Mentioned(JobOf(r))
    <3>1. dag[e].run \in Mentioned(Job(e))
      BY <1>7, WhoIsMentioned DEF Running, Walking
    <3>2. QED
      BY <1>7, <2>2, <3>1 DEF Job, JobOf
  <2>3. QED
    BY <1>7, <2>1, <2>2 DEF KeepsRun
<1>8. ASSUME NEW e \in Dags \ {d}, dag[e].pc \in Running, r.pc \in Walking,
             JobOf(r) = JobOf(dag[e])
      PROVE  r.found # dag[e].run
  <2>1. CASE dag[d].pc \in Walking /\ JobOf(r) = Job(d) /\ r.found = dag[d].found
    BY <1>8, <2>1 DEF DagInv, Earlier, Job, JobOf
  <2>2. CASE r.found = artifacts[JobOf(r)].run
    BY <1>8, <2>2 DEF DagInv, Fits, Job, JobOf, Somewhere, Running, Walking
  <2>3. QED
    BY <1>8, <2>1, <2>2 DEF KeepsFound
<1>9. ASSUME NEW e \in Dags \ {d}, dag[e].pc \in Walking, r.pc \in Running,
             JobOf(r) = JobOf(dag[e])
      PROVE  dag[e].found # r.run
  <2>1. CASE dag[d].pc \in Running /\ JobOf(r) = Job(d) /\ r.run = dag[d].run
    BY <1>9, <2>1 DEF DagInv, Earlier, Job, JobOf
  <2>2. CASE r.run \notin Mentioned(JobOf(r))
    <3>1. dag[e].found \in Mentioned(Job(e))
      BY <1>9, WhoIsMentioned
    <3>2. QED
      BY <1>9, <2>2, <3>1 DEF Job, JobOf
  <2>3. QED
    BY <1>9, <2>1, <2>2 DEF KeepsRun
<1>10. ASSUME NEW e \in Dags, NEW f \in Dags, e # f
       PROVE  Apart(dag'[e], dag'[f])
  BY <1>2, <1>7, <1>10 DEF DagInv, Apart
<1>11. ASSUME NEW e \in Dags, NEW f \in Dags
       PROVE  Earlier(dag'[e], dag'[f])
  BY <1>2, <1>8, <1>9 DEF DagInv, Earlier
<1>12. QED
  BY <1>3, <1>5, <1>10, <1>11 DEF DagInv, Leased

\* Who keeps the leases as they are, and holds none or keeps his own.
LEMMA LeaseKept ==
  ASSUME DagInv, NEW d \in Dags, NEW r \in Recs, Set(d, r), UNCHANGED lease,
         dag[d].pc \in {"work", "dead"} =>
           r.pc \in {"work", "dead"} /\ JobOf(r) = Job(d) /\ r.run = dag[d].run
  PROVE  lease' \in [Jobs -> Nat] /\ Leased'
<1>1. dag' = [dag EXCEPT ![d] = r] /\ dag \in [Dags -> Recs]
  BY DEF Set, DagInv, DagTypeOK, Recs
<1>2. ASSUME NEW j \in Jobs, NEW e \in Dags, Holds(e, j)
      PROVE  Holds(e, j)'
  BY <1>1, <1>2 DEF Holds, Job, JobOf
<1>3. QED
  BY <1>2 DEF DagInv, DagTypeOK, Leased
-----------------------------------------------------------------------------
(* An artifact is written *)

\* What a write makes of a process: its own is at "judge", one at the same job
\* may have been renewed by it, and nothing else changes.
LEMMA WrittenIs ==
  ASSUME dag \in [Dags -> Recs], NEW d \in Dags,
         NEW status \in Statuses, NEW rc \in Nat, Written(d, status, rc)
  PROVE  \A x \in Dags :
           /\ dag'[x] \in Recs /\ JobOf(dag'[x]) = JobOf(dag[x])
           /\ dag'[x].found = dag[x].found /\ dag'[x].run = dag[x].run
           /\ dag'[x].heard = dag[x].heard /\ dag'[x].holder = dag[x].holder
           /\ dag'[x].result = dag[x].result
           /\ dag'[x].target = dag[x].target /\ dag'[x].at = dag[x].at
           /\ x # d => dag'[x].pc = dag[x].pc /\ dag'[x].outcome = dag[x].outcome
           /\ x = d => dag'[x].pc = "judge" /\ dag'[x].outcome = [status |-> status, rc |-> rc]
           /\ dag[x].pc \in Walking /\ Job(x) = Job(d) /\ ~Failing(status, rc) => dag'[x].renewed
           /\ dag[x].renewed => dag'[x].renewed
<1> DEFINE good == ~Failing(status, rc)
           same(x) == dag[x].pc \in Walking /\ Job(x) = Job(d)
<1>1. dag \in [Dags -> Recs]
  OBVIOUS
<1>2. ASSUME NEW x \in Dags
      PROVE  /\ x = d => dag'[x] \in {Judged(d, status, rc), [Judged(d, status, rc) EXCEPT !.renewed = TRUE]}
             /\ x # d => dag'[x] \in {dag[x], [dag[x] EXCEPT !.renewed = TRUE]}
             /\ same(x) /\ good => dag'[x].renewed
             /\ dag[x].renewed => dag'[x].renewed
  BY <1>1 DEF Written, Judged, Recs
<1>3. ASSUME NEW r \in Recs
      PROVE  [r EXCEPT !.renewed = TRUE] \in Recs
  BY DEF Recs
<1>4. ASSUME NEW x \in Dags
      PROVE  /\ dag'[x] \in Recs /\ JobOf(dag'[x]) = JobOf(dag[x])
             /\ dag'[x].found = dag[x].found /\ dag'[x].run = dag[x].run
             /\ dag'[x].heard = dag[x].heard /\ dag'[x].holder = dag[x].holder
             /\ dag'[x].result = dag[x].result
             /\ dag'[x].target = dag[x].target /\ dag'[x].at = dag[x].at
             /\ x # d => dag'[x].pc = dag[x].pc /\ dag'[x].outcome = dag[x].outcome
             /\ x = d => dag'[x].pc = "judge" /\ dag'[x].outcome = [status |-> status, rc |-> rc]
  <2> DEFINE o == [status |-> status, rc |-> rc]
             s == [dag[d] EXCEPT !.pc = "judge", !.outcome = o]
  <2>1. dag[x] \in Recs /\ dag[d] \in Recs
    BY <1>1
  <2>2. o \in [status : Statuses, rc : Nat] /\ "judge" \in Walking
    BY DEF Walking
  <2>3. /\ s.pc = "judge" /\ s.outcome = o /\ s.run = dag[d].run /\ s.found = dag[d].found
        /\ s.heard = dag[d].heard /\ s.holder = dag[d].holder /\ s.result = dag[d].result
        /\ s.target = dag[d].target /\ s.at = dag[d].at
    <3> HIDE DEF o
    <3>1. QED
      BY <2>1 DEF Recs
  <2>4. s \in Recs
    <3> HIDE DEF o
    <3>1. QED
      BY <2>1, <2>2 DEF Recs
  <2>5. s = Judged(d, status, rc)
    BY DEF Judged
  <2>6. CASE x = d
    <3> HIDE DEF s, o
    <3>1. dag'[x] = s \/ dag'[x] = [s EXCEPT !.renewed = TRUE]
      BY <1>2, <2>5, <2>6
    <3>2. QED
      BY <1>3, <2>3, <2>4, <2>6, <3>1 DEF JobOf, Recs, o
  <2>7. CASE x # d
    <3>1. dag'[x] = dag[x] \/ dag'[x] = [dag[x] EXCEPT !.renewed = TRUE]
      BY <1>2, <2>7
    <3>2. QED
      BY <1>3, <2>1, <2>7, <3>1 DEF JobOf, Recs
  <2>8. QED
    BY <2>6, <2>7
<1>5. QED
  BY <1>2, <1>4

LEMMA WriteKeeps ==
  ASSUME DagInv, NEW d \in Dags, dag[d].pc \in {"refused", "report"},
         NEW status \in Statuses, NEW rc \in Nat, rc # 0 => status \in TerminalFailures,
         Written(d, status, rc), UNCHANGED lease
  PROVE  DagInv'
<1> DEFINE a == [run |-> dag[d].run, status |-> status, rc |-> rc]
           good == ~Failing(status, rc)
<1>1. dag \in [Dags -> Recs] /\ artifacts \in [Jobs -> [run : Nat, status : Statuses, rc : Nat]]
  BY DEF DagInv, DagTypeOK, Recs
<1>2. Job(d) \in Jobs /\ dag[d].pc \in Walking \cap Running \cap Somewhere
  BY JobType DEF Walking, Running, Somewhere
<1>3. artifacts' = [artifacts EXCEPT ![Job(d)] = a]
  BY DEF Written
<1>4. ASSUME NEW x \in Dags
      PROVE  /\ dag'[x] \in Recs /\ JobOf(dag'[x]) = JobOf(dag[x])
             /\ dag'[x].found = dag[x].found /\ dag'[x].run = dag[x].run
             /\ dag'[x].heard = dag[x].heard /\ dag'[x].holder = dag[x].holder
             /\ dag'[x].result = dag[x].result
             /\ dag'[x].target = dag[x].target /\ dag'[x].at = dag[x].at
             /\ x # d => dag'[x].pc = dag[x].pc /\ dag'[x].outcome = dag[x].outcome
             /\ x = d => dag'[x].pc = "judge" /\ dag'[x].outcome = [status |-> status, rc |-> rc]
             /\ dag[x].pc \in Walking /\ Job(x) = Job(d) /\ good => dag'[x].renewed
             /\ dag[x].renewed => dag'[x].renewed
  BY <1>1, WrittenIs
<1>5. DagTypeOK'
  <2>1. dag' \in [Dags -> Recs]
    <3>1. dag' = [x \in Dags |-> dag'[x]]
      BY DEF Written
    <3>2. QED
      BY <1>4, <3>1
  <2>2. artifacts' \in [Jobs -> [run : Nat, status : Statuses, rc : Nat]]
    BY <1>1, <1>3 DEF Recs
  <2>3. QED
    BY <2>1, <2>2 DEF DagInv, DagTypeOK, Recs
<1>6. \A j \in Jobs : artifacts'[j].rc # 0 => artifacts'[j].status \in TerminalFailures
  BY <1>1, <1>3 DEF DagInv
<1>7. \A x \in Dags : Job(x) = JobOf(dag[x]) /\ Job(x)' = JobOf(dag'[x]) /\ Job(x)' = Job(x)
  BY <1>4 DEF Job, JobOf
<1>8. ASSUME NEW x \in Dags, dag'[x].pc \in Somewhere
       PROVE  dag[x].pc \in Somewhere /\ Job(x) \in Jobs
  <2>1. dag[x].pc \in Somewhere
    BY <1>2, <1>4, <1>8 DEF Somewhere
  <2>2. QED
    BY <2>1, JobType
<1>9. ASSUME NEW x \in Dags, dag'[x].pc \in Somewhere
       PROVE  Fits(dag'[x], artifacts'[Job(x)])
  <2>1. Fits(dag[x], artifacts[Job(x)])
    BY <1>8, <1>9 DEF DagInv
  <2>2. CASE Job(x) # Job(d)
    <3>1. x # d /\ artifacts'[Job(x)] = artifacts[Job(x)]
      BY <1>1, <1>3, <2>2
    <3>2. QED
      BY <1>4, <2>1, <3>1 DEF Fits
  <2>3. CASE Job(x) = Job(d)
    <3>1. artifacts'[Job(x)] = a
      BY <1>1, <1>2, <1>3, <2>3
    <3>2. ~Failing(status, 0) => good
      BY DEF Failing
    <3>3. Good(a) => good
      BY DEF Good, Bad
    <3>4. dag'[x].pc \in Walking /\ good => dag'[x].renewed
      BY <1>2, <1>4, <2>3
    <3>5. dag[x].pc \in Walking => dag[x].found # a.run
      BY <1>2, <1>7, <2>3 DEF DagInv, Earlier
    <3>6. x # d /\ dag[x].pc \in Running => a.run # dag[x].run
      BY <1>2, <1>7, <2>3 DEF DagInv, Apart
    <3>7. CASE x = d
      <4>1. dag[x].pc \in Walking \ {"judge"}
        BY <1>2, <3>7 DEF Walking
      <4>2. Missing(dag'[x].heard)
        BY <1>4, <2>1, <4>1 DEF Fits
      <4>3. QED
        BY <1>4, <3>1, <3>2, <3>4, <3>5, <3>7, <4>1, <4>2
           DEF Fits, Good, Running, Walking
    <3>8. CASE x # d
      <4> HIDE DEF a, good
      <4>1. a.status = status
        BY DEF a
      <4>2. QED
        BY <1>4, <2>1, <3>1, <3>2, <3>3, <3>4, <3>5, <3>6, <3>8, <4>1
           DEF Fits, Walking
    <3>9. QED
      BY <3>7, <3>8
  <2>4. QED
    BY <2>2, <2>3
<1>10. ASSUME NEW x \in Dags
       PROVE  Placed(dag'[x]) /\ Earned(dag'[x])
  <2>1. Placed(dag[x]) /\ Earned(dag[x])
    BY DEF DagInv
  <2>2. QED
    BY <1>2, <1>4, <2>1 DEF Placed, Earned, Somewhere
<1>11. ASSUME NEW x \in Dags
       PROVE  /\ dag'[x].pc \in Running => dag[x].pc \in Running
              /\ dag'[x].pc \in Walking => dag[x].pc \in Walking
  BY <1>2, <1>4 DEF Running, Walking
<1>12. ASSUME NEW x \in Dags, NEW y \in Dags
       PROVE  /\ x # y => Apart(dag'[x], dag'[y])
              /\ Earlier(dag'[x], dag'[y])
  BY <1>4, <1>11 DEF DagInv, Apart, Earlier
<1>13. Leased'
  <2>1. ASSUME NEW j \in Jobs, NEW e \in Dags, Holds(e, j)
        PROVE  Holds(e, j)'
    <3>1. e # d
      BY <2>1 DEF Holds
    <3>2. QED
      BY <1>4, <1>7, <2>1, <3>1 DEF Holds
  <2>2. QED
    BY <2>1 DEF DagInv, Leased
<1>14. QED
  BY <1>5, <1>6, <1>7, <1>9, <1>10, <1>12, <1>13 DEF DagInv, Leased
-----------------------------------------------------------------------------
(* Going on, and ending *)

LEMMA IdleType == Idle \in Recs
<1>1. "missing" \in Statuses /\ "none" \in Statuses
  BY DagAssumption
<1>2. NoRun \in Nat /\ 1 \in Nat \ {0} /\ 0 \in Nat
  BY DEF NoRun
<1>3. NoArtifact \in [run : Nat, status : Statuses, rc : Nat]
  BY <1>1, <1>2 DEF NoArtifact
<1>4. NoOutcome \in [status : Statuses, rc : Nat]
  BY <1>1, <1>2 DEF NoOutcome
<1>5. QED
  BY <1>1, <1>2, <1>3, <1>4 DEF Idle, Recs

\* A process looks at a job it has just come to.
LEMMA LookKeeps ==
  ASSUME DagInv, NEW d \in Dags, dag[d].pc \in {"idle", "look", "judge"},
         NEW t \in Jobs, NEW n \in DOMAIN Order[t],
         Set(d, Looking(t, n)),
         UNCHANGED <<artifacts, lease>>
  PROVE  DagInv'
<1> DEFINE r == Looking(t, n)
<1>1. n \in Nat \ {0}
  BY OrderFacts
<1>2. /\ r \in Recs /\ r.pc = "look" /\ r.target = t /\ r.at = n
  BY <1>1, IdleType DEF Looking, Recs
<1>3. Missing(r.heard)
  BY DEF Looking, Idle, Missing, NoArtifact
<1>4. Set(d, r)
  OBVIOUS
<1> HIDE DEF r
<1>5. /\ Placed(r) /\ Earned(r) /\ KeepsRun(d, r) /\ KeepsFound(d, r) /\ Earlier(r, r)
      /\ Fits(r, artifacts[JobOf(r)])
  BY <1>2, <1>3 DEF Placed, Earned, KeepsRun, KeepsFound, Earlier, Fits, Running, Walking
<1>6. lease' \in [Jobs -> Nat] /\ Leased'
  BY <1>2, <1>4, LeaseKept
<1>7. QED
  BY <1>2, <1>4, <1>5, <1>6, MoveKeeps

LEMMA EndKeeps ==
  ASSUME DagInv, NEW d \in Dags, dag[d].pc \in {"look", "judge"}, NEW result \in Statuses,
         ~Failing(result, 0) => dag[d].renewed,
         Set(d, Ended(d, result)), UNCHANGED <<artifacts, lease>>
  PROVE  DagInv'
<1> DEFINE r == Ended(d, result)
<1>1. r \in Recs /\ r.pc = "ended" /\ r.renewed = dag[d].renewed /\ r.result = result
  BY IdleType DEF Ended, Idle, Recs, DagInv, DagTypeOK
<1> HIDE DEF r
<1>2. Placed(r) /\ Earned(r) /\ KeepsRun(d, r) /\ KeepsFound(d, r) /\ Earlier(r, r)
      /\ r.pc \notin Somewhere
  BY <1>1 DEF Placed, Earned, KeepsRun, KeepsFound, Earlier, Somewhere, Running, Walking
<1>3. lease' \in [Jobs -> Nat] /\ Leased'
  BY <1>1, LeaseKept DEF r
<1>4. QED
  BY <1>1, <1>2, <1>3, MoveKeeps DEF r

LEMMA FurtherKeeps ==
  ASSUME DagInv, NEW d \in Dags, dag[d].pc \in {"look", "judge"}, NEW status \in Statuses,
         IsTarget(d) /\ ~Failing(status, 0) => dag[d].renewed,
         Further(d, status), UNCHANGED <<artifacts, lease>>
  PROVE  DagInv'
<1>1. CASE IsTarget(d)
  BY <1>1, EndKeeps DEF Further
<1>2. CASE ~IsTarget(d)
  <2>1. /\ dag[d].target \in Jobs /\ dag[d].at \in DOMAIN Order[dag[d].target]
        /\ Order[dag[d].target][dag[d].at] # dag[d].target
    BY <1>2, JobType DEF Somewhere, Walking, IsTarget, Job
  <2>2. dag[d].at + 1 \in DOMAIN Order[dag[d].target]
    BY <2>1, OrderFacts
  <2>3. QED
    BY <1>2, <2>1, <2>2, LookKeeps DEF Further
<1>3. QED
  BY <1>1, <1>2

\* A failed upstream never makes a success of the target.
LEMMA AfterFailureKeeps ==
  ASSUME DagInv, NEW d \in Dags, dag[d].pc \in {"look", "judge"},
         NEW status, NEW result \in Statuses, Failing(result, 0),
         AfterFailure(d, status, result), UNCHANGED <<artifacts, lease>>
  PROVE  DagInv'
  BY FurtherKeeps, EndKeeps DEF AfterFailure
-----------------------------------------------------------------------------
(* Staying at the job *)

LEMMA Here ==
  ASSUME DagInv, NEW d \in Dags, dag[d].pc \in Somewhere
  PROVE  /\ dag[d] \in Recs /\ Fits(dag[d], artifacts[Job(d)])
         /\ Job(d) \in Jobs /\ JobOf(dag[d]) = Job(d)
         /\ artifacts[Job(d)] \in [run : Nat, status : Statuses, rc : Nat]
         /\ artifacts[Job(d)].rc # 0 => artifacts[Job(d)].status \in TerminalFailures
         /\ lease \in [Jobs -> Nat]
<1>1. Job(d) \in Jobs /\ JobOf(dag[d]) = Job(d)
  BY JobType
<1>2. QED
  BY <1>1 DEF DagInv, DagTypeOK, Recs

LEMMA StayKeeps ==
  ASSUME DagInv, NEW d \in Dags, dag[d].pc \in Somewhere,
         NEW r \in Recs, r.pc \in Somewhere,
         r.target = dag[d].target, r.at = dag[d].at,
         Set(d, r), UNCHANGED artifacts, lease' \in [Jobs -> Nat], Leased',
         Fits(r, artifacts[Job(d)]),
         r.pc \in Running =>
           \/ dag[d].pc \in Running /\ r.run = dag[d].run
           \/ r.run \notin Mentioned(Job(d)) /\ dag[d].pc \in Walking,
         r.pc \in Walking =>
           \/ dag[d].pc \in Walking /\ r.found = dag[d].found
           \/ r.found = artifacts[Job(d)].run
  PROVE  DagInv'
<1>1. JobOf(r) = Job(d) /\ JobOf(dag[d]) = Job(d)
  BY DEF JobOf, Job
<1>2. Placed(r) /\ Earned(r)
  BY DEF DagInv, Placed, Earned, Somewhere, Walking
<1>3. KeepsRun(d, r) /\ KeepsFound(d, r)
  BY <1>1 DEF KeepsRun, KeepsFound
<1>4. ASSUME r.pc \in Walking, r.pc \in Running
      PROVE  r.found # r.run
  <2>1. artifacts[Job(d)].run \in Mentioned(Job(d))
    BY DEF Mentioned
  <2>2. dag[d].pc \in Walking => dag[d].found \in Mentioned(Job(d))
    BY WhoIsMentioned
  <2>3. dag[d].pc \in Running => artifacts[Job(d)].run # dag[d].run
    BY Here DEF Fits
  <2>4. dag[d].pc \in Walking /\ dag[d].pc \in Running => dag[d].found # dag[d].run
    BY DEF DagInv, Earlier
  <2>5. QED
    BY <1>4, <2>1, <2>2, <2>3, <2>4
<1>5. Earlier(r, r)
  BY <1>4 DEF Earlier
<1>6. QED
  BY <1>1, <1>2, <1>3, <1>5, MoveKeeps

\* The statuses execute_dag gives a job whose last run failed are failures.
LEMMA FailureIsFailure == Failing("blocked", 0) /\ Failing("failed", 0)
  BY DEF Failing, TerminalFailures
-----------------------------------------------------------------------------
(* The actions *)

LEMMA StartKeeps ==
  ASSUME DagInv, NEW d \in Dags, Start(d) PROVE DagInv'
<1>1. PICK t \in Fired[d] : Set(d, Looking(t, 1))
  BY DEF Start
<1>2. t \in Jobs /\ 1 \in DOMAIN Order[t]
  BY DagAssumption, OrderFacts
<1>3. QED
  BY <1>1, <1>2, LookKeeps DEF Start, At

LEMMA ReuseKeeps ==
  ASSUME DagInv, NEW d \in Dags, Reuse(d) PROVE DagInv'
<1>1. "reused" \in Statuses
  BY DagAssumption
<1>2. QED
  BY <1>1, FurtherKeeps DEF Reuse, At

LEMMA ShortCircuitKeeps ==
  ASSUME DagInv, NEW d \in Dags, ShortCircuit(d) PROVE DagInv'
<1>1. "blocked" \in Statuses
  BY DagAssumption DEF TerminalFailures
<1>2. QED
  BY <1>1, FailureIsFailure, AfterFailureKeeps DEF ShortCircuit, At

LEMMA LaunchKeeps ==
  ASSUME DagInv, NEW d \in Dags, Launch(d) PROVE DagInv'
<1> DEFINE n == artifacts[Job(d)].run
           r == [dag[d] EXCEPT !.pc = "gate", !.tries = 1, !.found = n]
<1>1. dag[d].pc = "look" /\ dag[d].pc \in Somewhere
  BY DEF Launch, At, Somewhere
<1>2. dag[d] \in Recs /\ n \in Nat /\ "gate" \in Walking
  BY <1>1, Here DEF Walking
<1>3. Set(d, r)
  BY DEF Launch, Latest
<1> HIDE DEF n
<1>4. /\ r \in Recs /\ r.pc = "gate" /\ r.target = dag[d].target /\ r.at = dag[d].at
      /\ r.found = n /\ r.heard = dag[d].heard
  BY <1>2 DEF Recs
<1> HIDE DEF r
<1>5. lease' \in [Jobs -> Nat] /\ Leased'
  BY <1>1, <1>3, <1>4, LeaseKept DEF Launch
<1>6. Fits(r, artifacts[Job(d)])
  BY <1>1, <1>4, Here DEF Fits, Running
<1>7. QED
  BY <1>1, <1>3, <1>4, <1>5, <1>6, StayKeeps DEF Launch, Running, Somewhere, Walking, n

LEMMA GateKeeps ==
  ASSUME DagInv, NEW d \in Dags, Gate(d) PROVE DagInv'
<1> DEFINE n == NewRun(Job(d))
<1>1. PICK pc \in {"claim", "refused"} : Set(d, [dag[d] EXCEPT !.pc = pc, !.run = n])
  BY DEF Gate
<1> DEFINE r == [dag[d] EXCEPT !.pc = pc, !.run = n]
<1>2. dag[d].pc = "gate" /\ dag[d].pc \in Somewhere /\ pc \in Walking
  BY DEF Gate, At, Somewhere, Walking
<1>3. n \in Nat /\ n # NoRun /\ n \notin Mentioned(Job(d))
  BY <1>2, Here, NewRunIsNew
<1>4. dag[d] \in Recs
  BY <1>2, Here
<1> HIDE DEF n
<1>5. /\ r \in Recs /\ r.pc = pc /\ r.target = dag[d].target /\ r.at = dag[d].at
      /\ r.run = n /\ r.found = dag[d].found /\ r.heard = dag[d].heard
  BY <1>2, <1>3, <1>4 DEF Recs
<1>6. Set(d, r)
  BY <1>1
<1> HIDE DEF r
<1>7. lease' \in [Jobs -> Nat] /\ Leased'
  BY <1>2, <1>5, <1>6, LeaseKept DEF Gate
<1>8. artifacts[Job(d)].run # n
  BY <1>3 DEF Mentioned
<1>9. Fits(r, artifacts[Job(d)])
  BY <1>2, <1>3, <1>5, <1>8, Here DEF Fits, Running, Walking
<1>10. QED
  BY <1>2, <1>3, <1>5, <1>6, <1>7, <1>9, StayKeeps DEF Gate, Somewhere, Walking

LEMMA RefuseKeeps ==
  ASSUME DagInv, NEW d \in Dags, Refuse(d) PROVE DagInv'
<1>1. "blocked" \in Statuses /\ "blocked" \in TerminalFailures
  BY DagAssumption DEF TerminalFailures
<1>2. QED
  BY <1>1, WriteKeeps DEF Refuse, At

LEMMA ReportKeeps ==
  ASSUME DagInv, NEW d \in Dags, Report(d) PROVE DagInv'
<1>1. dag[d].pc = "report" /\ dag[d].pc \in Somewhere
  BY DEF Report, At, Somewhere, Walking
<1>2. dag[d].outcome \in [status : Statuses, rc : Nat]
  BY <1>1, Here DEF Recs
<1>3. dag[d].outcome.rc # 0 => dag[d].outcome.status \in TerminalFailures
  BY <1>1, Here DEF Fits
<1>4. QED
  BY <1>1, <1>2, <1>3, WriteKeeps DEF Report

LEMMA ReportLostKeeps ==
  ASSUME DagInv, NEW d \in Dags, ReportLost(d) PROVE DagInv'
<1> DEFINE o == [status |-> "missing", rc |-> 1]
           r == [dag[d] EXCEPT !.pc = "judge", !.outcome = o]
<1>1. dag[d].pc = "report" /\ dag[d].pc \in Somewhere /\ "judge" \in Walking
  BY DEF ReportLost, At, Somewhere, Walking
<1>2. dag[d] \in Recs /\ o \in [status : Statuses, rc : Nat] /\ o.rc = 1
  BY <1>1, Here, DagAssumption
<1>3. Set(d, r)
  BY DEF ReportLost, Judged
<1> HIDE DEF o
<1>4. /\ r \in Recs /\ r.pc = "judge" /\ r.target = dag[d].target /\ r.at = dag[d].at
      /\ r.found = dag[d].found /\ r.heard = dag[d].heard /\ r.outcome = o
  BY <1>1, <1>2 DEF Recs
<1> HIDE DEF r
<1>5. lease' \in [Jobs -> Nat] /\ Leased'
  BY <1>1, <1>3, <1>4, LeaseKept DEF ReportLost
<1>6. Missing(dag[d].heard)
  BY <1>1, Here DEF Fits, Walking
<1>7. Fits(r, artifacts[Job(d)])
  BY <1>2, <1>4, <1>6 DEF Fits, Running, Good
<1>8. QED
  BY <1>1, <1>3, <1>4, <1>5, <1>7, StayKeeps DEF ReportLost, Running, Somewhere, Walking

\* The holder a process waits for has not written, so no success of his can be
\* there before he is.
LEMMA ClaimKeeps ==
  ASSUME DagInv, NEW d \in Dags, Claim(d) PROVE DagInv'
<1> DEFINE j == Job(d)
<1>1. dag[d].pc = "claim" /\ dag[d].pc \in Somewhere /\ {"work", "wait"} \subseteq Walking
  BY DEF Claim, At, Somewhere, Walking
<1>2. dag[d] \in Recs /\ lease \in [Jobs -> Nat] /\ j \in Jobs /\ JobOf(dag[d]) = j
  BY <1>1, Here
<1>3. dag[d].run # NoRun /\ artifacts[j].run # dag[d].run /\ Missing(dag[d].heard)
  BY <1>1, Here DEF Fits, Running, Walking
<1>4. CASE lease[j] = NoRun
  <2> DEFINE r == [dag[d] EXCEPT !.pc = "work"]
  <2>1. /\ r \in Recs /\ r.pc = "work" /\ r.target = dag[d].target /\ r.at = dag[d].at
        /\ r.run = dag[d].run /\ r.found = dag[d].found /\ r.heard = dag[d].heard
    BY <1>1, <1>2 DEF Recs
  <2>2. Set(d, r) /\ lease' = [lease EXCEPT ![j] = dag[d].run]
    BY <1>4 DEF Claim
  <2> HIDE DEF r, j
  <2>3. lease' \in [Jobs -> Nat]
    BY <1>2, <2>2 DEF Recs
  <2>4. dag' = [dag EXCEPT ![d] = r] /\ dag \in [Dags -> Recs]
    BY <2>2 DEF Set, DagInv, DagTypeOK, Recs
  <2>5. ASSUME NEW k \in Jobs, k = j
        PROVE  Holds(d, k)'
    <3>1. dag'[d] = r /\ lease'[k] = dag[d].run
      BY <1>2, <2>2, <2>4, <2>5
    <3>2. Job(d)' = k
      BY <2>1, <2>5, <3>1 DEF Job, j
    <3>3. QED
      BY <2>1, <3>1, <3>2 DEF Holds
  <2>6. ASSUME NEW k \in Jobs, k # j, NEW e \in Dags, Holds(e, k)
        PROVE  Holds(e, k)'
    <3>1. e # d
      BY <2>6 DEF Holds, j
    <3>2. dag'[e] = dag[e] /\ lease'[k] = lease[k]
      BY <1>2, <2>2, <2>4, <2>6, <3>1
    <3>3. QED
      BY <2>6, <3>2 DEF Holds, Job
  <2>7. Leased'
    <3>1. SUFFICES ASSUME NEW k \in Jobs, lease'[k] # NoRun
                   PROVE  \E e \in Dags : Holds(e, k)'
      BY DEF Leased
    <3>2. CASE k = j
      BY <2>5, <3>2
    <3>3. CASE k # j
      <4>1. lease[k] # NoRun
        BY <1>2, <2>2, <3>1, <3>3
      <4>2. QED
        BY <2>6, <3>3, <4>1 DEF DagInv
    <3>4. QED
      BY <3>2, <3>3
  <2>8. Fits(r, artifacts[j])
    BY <1>3, <2>1 DEF Fits
  <2>9. QED
    BY <1>1, <2>1, <2>2, <2>3, <2>7, <2>8, StayKeeps DEF Claim, Running, Somewhere, j
<1>5. CASE lease[j] # NoRun
  <2> DEFINE h == lease[j]
             o == [status |-> "missing", rc |-> 76]
             r == [dag[d] EXCEPT !.pc = "wait", !.holder = h, !.outcome = o]
  <2>1. h \in Nat /\ o \in [status : Statuses, rc : Nat] /\ o.rc = 76
    BY <1>2, DagAssumption
  <2>2. Set(d, r) /\ lease' = lease
    BY <1>5 DEF Claim
  <2>3. artifacts[j].run # h
    <3>1. PICK e \in Dags : Holds(e, j)
      BY <1>2, <1>5 DEF DagInv
    <3>2. Fits(dag[e], artifacts[Job(e)]) /\ dag[e].pc \in Running
      BY <3>1, Here DEF Holds, Somewhere, Walking, Running
    <3>3. QED
      BY <3>1, <3>2 DEF Holds, Fits
  <2> HIDE DEF h, o
  <2>4. /\ r \in Recs /\ r.pc = "wait" /\ r.target = dag[d].target /\ r.at = dag[d].at
        /\ r.run = dag[d].run /\ r.found = dag[d].found /\ r.heard = dag[d].heard
        /\ r.holder = h /\ r.outcome = o
    BY <1>1, <1>2, <2>1 DEF Recs
  <2> HIDE DEF r
  <2>5. lease' \in [Jobs -> Nat] /\ Leased'
    BY <1>1, <2>2, <2>4, LeaseKept
  <2>6. Fits(r, artifacts[j])
    BY <1>3, <2>1, <2>3, <2>4 DEF Fits
  <2>7. QED
    BY <1>1, <2>2, <2>4, <2>5, <2>6, StayKeeps DEF Claim, Running, Somewhere
<1>6. QED
  BY <1>4, <1>5

LEMMA WorkKeeps ==
  ASSUME DagInv, NEW d \in Dags, Work(d) PROVE DagInv'
<1> DEFINE j == Job(d)
<1>1. dag[d].pc = "work" /\ dag[d].pc \in Somewhere /\ "report" \in Walking
  BY DEF Work, At, Somewhere, Walking
<1>2. dag[d] \in Recs /\ lease \in [Jobs -> Nat] /\ j \in Jobs
  BY <1>1, Here
<1>3. PICK o \in Outcomes[j] : Set(d, [dag[d] EXCEPT !.pc = "report", !.outcome = o])
  BY DEF Work
<1> DEFINE r == [dag[d] EXCEPT !.pc = "report", !.outcome = o]
<1>4. /\ o \in [status : Statuses, rc : Nat]
      /\ o.rc # 0 => o.status \in TerminalFailures
  BY <1>2, <1>3, DagAssumption
<1>5. /\ r \in Recs /\ r.pc = "report" /\ r.target = dag[d].target /\ r.at = dag[d].at
      /\ r.run = dag[d].run /\ r.found = dag[d].found /\ r.heard = dag[d].heard
      /\ r.outcome = o
  BY <1>1, <1>2, <1>4 DEF Recs
<1>6. Set(d, r)
  BY <1>3
<1> HIDE DEF r, j
<1>7. lease' = [lease EXCEPT ![j] = IF @ = dag[d].run THEN NoRun ELSE @]
  BY DEF Work, j
<1>8. lease' \in [Jobs -> Nat]
  BY <1>2, <1>7 DEF NoRun
<1>9. Leased'
  <2>1. dag' = [dag EXCEPT ![d] = r] /\ dag \in [Dags -> Recs]
    BY <1>6 DEF Set, DagInv, DagTypeOK, Recs
  <2>2. SUFFICES ASSUME NEW k \in Jobs, lease'[k] # NoRun
                 PROVE  \E e \in Dags : Holds(e, k)'
    BY DEF Leased
  <2>3. lease'[k] = lease[k] /\ (k = j => lease[k] # dag[d].run)
    BY <1>2, <1>7, <2>2
  <2>4. PICK e \in Dags : Holds(e, k)
    BY <2>2, <2>3 DEF DagInv
  <2>5. e # d
    BY <2>3, <2>4 DEF Holds, j
  <2>6. Holds(e, k)'
    BY <2>1, <2>3, <2>4, <2>5 DEF Holds, Job
  <2>7. QED
    BY <2>6
<1>10. Fits(r, artifacts[j])
  BY <1>1, <1>4, <1>5, Here DEF Fits, Running, Walking, j
<1>11. QED
  BY <1>1, <1>5, <1>6, <1>8, <1>9, <1>10, StayKeeps DEF Work, Running, Somewhere, j

LEMMA HearKeeps ==
  ASSUME DagInv, NEW d \in Dags, Hear(d) PROVE DagInv'
<1> DEFINE a == artifacts[Job(d)]
           r == [dag[d] EXCEPT !.pc = "judge", !.heard = a]
<1>1. dag[d].pc = "wait" /\ dag[d].pc \in Somewhere /\ "judge" \in Walking
  BY DEF Hear, At, Somewhere, Walking
<1>2. dag[d] \in Recs /\ a \in [run : Nat, status : Statuses, rc : Nat]
  BY <1>1, Here
<1>3. Set(d, r) /\ a.run = dag[d].holder
  BY DEF Hear, Latest, Answered
<1> HIDE DEF a
<1>4. /\ r \in Recs /\ r.pc = "judge" /\ r.target = dag[d].target /\ r.at = dag[d].at
      /\ r.found = dag[d].found /\ r.heard = a /\ r.outcome = dag[d].outcome
      /\ r.renewed = dag[d].renewed
  BY <1>1, <1>2 DEF Recs
<1> HIDE DEF r
<1>5. lease' \in [Jobs -> Nat] /\ Leased'
  BY <1>1, <1>3, <1>4, LeaseKept DEF Hear
<1>6. dag[d].outcome.rc # 0 /\ (Good(a) => dag[d].renewed)
  BY <1>1, <1>3, Here DEF Fits, a
<1>7. Fits(r, artifacts[Job(d)])
  BY <1>4, <1>6 DEF Fits, Running
<1>8. QED
  BY <1>1, <1>3, <1>4, <1>5, <1>7, StayKeeps DEF Hear, Running, Somewhere, Walking

LEMMA GiveUpKeeps ==
  ASSUME DagInv, NEW d \in Dags, GiveUp(d) PROVE DagInv'
<1> DEFINE r == [dag[d] EXCEPT !.pc = "judge"]
<1>1. dag[d].pc = "wait" /\ dag[d].pc \in Somewhere /\ "judge" \in Walking
  BY DEF GiveUp, At, Somewhere, Walking
<1>2. dag[d] \in Recs
  BY <1>1, Here
<1>3. Set(d, r)
  BY DEF GiveUp
<1>4. /\ r \in Recs /\ r.pc = "judge" /\ r.target = dag[d].target /\ r.at = dag[d].at
      /\ r.found = dag[d].found /\ r.heard = dag[d].heard /\ r.outcome = dag[d].outcome
  BY <1>1, <1>2 DEF Recs
<1> HIDE DEF r
<1>5. lease' \in [Jobs -> Nat] /\ Leased'
  BY <1>1, <1>3, <1>4, LeaseKept DEF GiveUp
<1>6. dag[d].outcome.rc # 0 /\ Missing(dag[d].heard)
  BY <1>1, Here DEF Fits, Walking
<1>7. Fits(r, artifacts[Job(d)])
  BY <1>4, <1>6 DEF Fits, Running, Good
<1>8. QED
  BY <1>1, <1>3, <1>4, <1>5, <1>7, StayKeeps DEF GiveUp, Running, Somewhere, Walking

LEMMA RetryKeeps ==
  ASSUME DagInv, NEW d \in Dags, Retry(d) PROVE DagInv'
<1> DEFINE n == dag[d].tries + 1
           r == [dag[d] EXCEPT !.pc = "gate", !.tries = n, !.run = NoRun,
                               !.holder = NoRun, !.outcome = NoOutcome]
<1>1. dag[d].pc = "judge" /\ dag[d].pc \in Somewhere /\ "gate" \in Walking
  BY DEF Retry, At, Somewhere, Walking
<1>2. dag[d] \in Recs
  BY <1>1, Here
<1>3. n \in Nat /\ NoRun \in Nat /\ NoOutcome \in [status : Statuses, rc : Nat]
  BY <1>2, IdleType DEF Recs, Idle, NoRun
<1>4. Set(d, r) /\ Missing(dag[d].heard)
  BY DEF Retry, Over
<1> HIDE DEF n
<1>5. /\ r \in Recs /\ r.pc = "gate" /\ r.target = dag[d].target /\ r.at = dag[d].at
      /\ r.found = dag[d].found /\ r.heard = dag[d].heard
  BY <1>1, <1>2, <1>3 DEF Recs
<1> HIDE DEF r
<1>6. lease' \in [Jobs -> Nat] /\ Leased'
  BY <1>1, <1>4, <1>5, LeaseKept DEF Retry
<1>7. Fits(r, artifacts[Job(d)])
  BY <1>4, <1>5 DEF Fits, Running
<1>8. QED
  BY <1>1, <1>4, <1>5, <1>6, <1>7, StayKeeps DEF Retry, Running, Somewhere, Walking

\* What the code makes of the last run: a status of the job, which is a success
\* only if one was written while the process was there.
LEMMA ConcludeKeeps ==
  ASSUME DagInv, NEW d \in Dags, Conclude(d) PROVE DagInv'
<1> DEFINE a == artifacts[Job(d)]
           heard == dag[d].heard
           rc == dag[d].outcome.rc
<1>1. dag[d].pc = "judge" /\ dag[d].pc \in Somewhere
  BY DEF Conclude, At, Somewhere, Walking
<1>2. /\ dag[d] \in Recs /\ a \in [run : Nat, status : Statuses, rc : Nat]
      /\ Fits(dag[d], a)
  BY <1>1, Here
<1>3. heard.status \in Statuses /\ rc \in Nat /\ a.status \in Statuses
  BY <1>2 DEF Recs
<1>4. {"blocked", "failed"} \subseteq Statuses
  BY DagAssumption DEF TerminalFailures
<1>5. Good(heard) => dag[d].renewed
  BY <1>1, <1>2 DEF Fits
<1>6. rc = 0 => /\ a.run # dag[d].found /\ ~Good(heard)
                /\ ~Failing(a.status, 0) => dag[d].renewed
  BY <1>1, <1>2 DEF Fits, Good
<1>7. /\ Good(heard) => Status(d) = heard.status
      /\ ~Good(heard) /\ rc = 0 => Status(d) = a.status
      /\ ~Good(heard) /\ rc # 0 => Status(d) \in {"blocked", "failed"}
  <2>1. CASE Good(heard)
    BY <1>6, <2>1 DEF Status
  <2>2. CASE ~Good(heard) /\ rc = 0
    BY <1>6, <2>2 DEF Status, Latest
  <2>3. CASE ~Good(heard) /\ rc # 0
    BY <2>3 DEF Status
  <2>4. QED
    BY <2>1, <2>2, <2>3
<1>8. Status(d) \in Statuses
  BY <1>3, <1>4, <1>7
<1>9. ~Failing(Status(d), 0) => dag[d].renewed
  BY <1>5, <1>6, <1>7, FailureIsFailure
<1>10. UNCHANGED <<artifacts, lease>>
  BY DEF Conclude
<1>11. CASE Failing(Status(d), IF Good(heard) THEN 0 ELSE rc)
  <2>1. AfterFailure(d, Status(d), Status(d))
    BY <1>11 DEF Conclude
  <2>2. Failing(Status(d), 0)
    <3>1. CASE Good(heard)
      BY <1>11, <3>1
    <3>2. CASE ~Good(heard) /\ rc = 0
      BY <1>11, <3>2
    <3>3. CASE ~Good(heard) /\ rc # 0
      BY <1>7, <3>3, FailureIsFailure
    <3>4. QED
      BY <3>1, <3>2, <3>3
  <2>3. QED
    BY <1>1, <1>8, <1>10, <2>1, <2>2, AfterFailureKeeps
<1>12. CASE ~Failing(Status(d), IF Good(heard) THEN 0 ELSE rc)
  <2>1. Further(d, Status(d))
    BY <1>12 DEF Conclude
  <2>2. QED
    BY <1>1, <1>8, <1>9, <1>10, <2>1, FurtherKeeps
<1>13. QED
  BY <1>11, <1>12

\* The dead keep their run: it holds the lease until that expires.
LEMMA DieKeeps ==
  ASSUME DagInv, NEW d \in Dags, Die(d) PROVE DagInv'
<1> DEFINE t == dag[d].target
           i == dag[d].at
           n == dag[d].run
           r == [Idle EXCEPT !.pc = "dead", !.target = t, !.at = i, !.run = n]
<1>1. dag[d].pc \in {"work", "report"} /\ dag[d].pc \in Somewhere
      /\ dag[d].pc \in Running
  BY DEF Die, At, Somewhere, Walking, Running
<1>2. dag[d] \in Recs
  BY <1>1, Here
<1>3. t \in Jobs \cup {"none"} /\ i \in Nat \ {0} /\ n \in Nat
  BY <1>2 DEF Recs
<1>4. Set(d, r)
  BY DEF Die
<1> HIDE DEF t, i, n
<1>5. r \in Recs /\ r.pc = "dead" /\ r.target = t /\ r.at = i /\ r.run = n
  BY <1>3, IdleType DEF Recs
<1> HIDE DEF r
<1>6. lease' \in [Jobs -> Nat] /\ Leased'
  <2>1. JobOf(r) = Job(d)
    BY <1>5 DEF JobOf, Job, t, i
  <2>2. QED
    BY <1>4, <1>5, <2>1, LeaseKept DEF Die, n
<1>7. Fits(r, artifacts[Job(d)])
  BY <1>1, <1>5, Here DEF Fits, Running, Walking, n
<1>8. QED
  BY <1>1, <1>4, <1>5, <1>6, <1>7, StayKeeps DEF Die, Somewhere, Walking, t, i, n

LEMMA ExpireKeeps ==
  ASSUME DagInv, NEW j \in Jobs, Expire(j) PROVE DagInv'
<1>1. lease' = [lease EXCEPT ![j] = NoRun] /\ artifacts' = artifacts /\ dag' = dag
  BY DEF Expire
<1>2. lease \in [Jobs -> Nat]
  BY DEF DagInv, DagTypeOK
<1>3. DagTypeOK'
  BY <1>1 DEF DagInv, DagTypeOK, NoRun
<1>4. ASSUME NEW k \in Jobs, lease'[k] # NoRun
      PROVE  \E d \in Dags : Holds(d, k)'
  <2>1. k # j /\ lease'[k] = lease[k]
    BY <1>1, <1>2, <1>4
  <2>2. PICK d \in Dags : Holds(d, k)
    BY <1>4, <2>1 DEF DagInv
  <2>3. QED
    BY <1>1, <2>1, <2>2 DEF Holds, Job
<1>5. \A d \in Dags : Job(d)' = Job(d)
  BY <1>1 DEF Job
<1>6. QED
  BY <1>1, <1>3, <1>4, <1>5 DEF DagInv

LEMMA DagStutters == DagInv /\ UNCHANGED vars => DagInv'
  BY DEF DagInv, DagTypeOK, Holds, Job, vars

LEMMA DagStarts == Init => DagInv
<1> SUFFICES ASSUME Init PROVE DagInv
  OBVIOUS
<1>1. \A d \in Dags : dag[d] = Idle
  BY DEF Init
<1>2. Idle.pc = "idle"
  BY DEF Idle
<1>3. Idle.pc \notin Somewhere /\ Idle.pc \notin Running /\ Idle.pc # "ended"
  BY <1>2 DEF Somewhere, Walking, Running
<1>4. NoArtifact \in [run : Nat, status : Statuses, rc : Nat] /\ NoArtifact.rc = 0
  BY IdleType DEF Idle, Recs, NoArtifact
<1>5. DagTypeOK
  BY <1>4, IdleType DEF Init, DagTypeOK, Recs, NoRun
<1>6. \A d \in Dags : Placed(dag[d]) /\ Earned(dag[d]) /\ dag[d].pc \notin Somewhere
  BY <1>1, <1>3 DEF Placed, Earned
<1>7. \A d, e \in Dags : Apart(dag[d], dag[e]) /\ Earlier(dag[d], dag[e])
  BY <1>1, <1>3 DEF Apart, Earlier, Somewhere
<1>8. QED
  BY <1>4, <1>5, <1>6, <1>7 DEF DagInv, Init

LEMMA DagSteps == DagInv /\ [Next]_vars => DagInv'
<1>1. ASSUME DagInv, NEW d \in Dags, Walk(d) PROVE DagInv'
  BY <1>1, ReuseKeeps, ShortCircuitKeeps, LaunchKeeps, HearKeeps, GiveUpKeeps,
     RetryKeeps, ConcludeKeeps DEF Walk
<1>2. ASSUME DagInv, NEW d \in Dags, Runner(d) PROVE DagInv'
  BY <1>2, GateKeeps, RefuseKeeps, ClaimKeeps, WorkKeeps, ReportKeeps, ReportLostKeeps
     DEF Runner
<1>3. QED
  BY <1>1, <1>2, StartKeeps, DieKeeps, ExpireKeeps, DagStutters DEF Next
-----------------------------------------------------------------------------
(* What a process may make of the codes it is told *)

\* 76 only where another run held the lease, 75 and 78 only with "blocked", and
\* a failure code only with a failure or with no artifact.
Told(r) ==
  /\ r.heard.rc # 0 => r.heard.status \in TerminalFailures
  /\ r.pc = "wait" => r.outcome.rc = 76
  /\ r.pc = "judge" /\ ~Missing(r.heard) => r.outcome.rc = 76
  /\ r.pc \in {"wait", "report", "judge"} =>
       /\ r.outcome.rc # 0 => r.outcome.status \in TerminalFailures \cup {"missing"}
       /\ r.outcome.rc \in {75, 78} => r.outcome.status = "blocked"

ToldInv == \A d \in Dags : Told(dag[d])

LEMMA SetKeepsTold ==
  ASSUME DagInv, ToldInv, NEW d \in Dags, NEW r, Set(d, r), Told(r)
  PROVE  ToldInv'
<1>1. dag \in [Dags -> Recs]
  BY DEF DagInv, DagTypeOK, Recs
<1>2. dag'[d] = r /\ \A e \in Dags \ {d} : dag'[e] = dag[e]
  BY <1>1 DEF Set
<1>3. QED
  BY <1>2 DEF ToldInv

\* Who has just come to a job, or has ended, has been told nothing.
LEMMA NothingTold ==
  ASSUME NEW d \in Dags, NEW t, NEW n, NEW result
  PROVE  Told(Looking(t, n)) /\ Told(Ended(d, result)) /\ Told(Idle)
<1>1. Idle.heard.rc = 0 /\ Idle.pc = "idle"
  BY DEF Idle, NoArtifact
<1>2. /\ Looking(t, n).heard = Idle.heard /\ Looking(t, n).pc = "look"
      /\ Ended(d, result).heard = Idle.heard /\ Ended(d, result).pc = "ended"
  BY DEF Looking, Ended, Idle
<1>3. QED
  BY <1>1, <1>2 DEF Told

LEMMA GoingOnKeepsTold ==
  ASSUME DagInv, ToldInv, NEW d \in Dags, NEW status, NEW result
  PROVE  /\ Further(d, result) => ToldInv'
         /\ AfterFailure(d, status, result) => ToldInv'
<1>1. Further(d, result) => ToldInv'
  BY NothingTold, SetKeepsTold DEF Further
<1>2. QED
  BY <1>1, NothingTold, SetKeepsTold DEF AfterFailure

LEMMA WriteKeepsTold ==
  ASSUME DagInv, ToldInv, NEW d \in Dags, dag[d].pc \in {"refused", "report"},
         NEW status \in Statuses, NEW rc \in Nat, Written(d, status, rc),
         rc # 0 => status \in TerminalFailures, rc \in {75, 78} => status = "blocked"
  PROVE  ToldInv'
<1> DEFINE o == [status |-> status, rc |-> rc]
<1>1. dag \in [Dags -> Recs]
  BY DEF DagInv, DagTypeOK, Recs
<1>2. Missing(dag[d].heard)
  BY Here DEF Fits, Somewhere, Walking
<1>3. ASSUME NEW x \in Dags
      PROVE  /\ dag'[x].heard = dag[x].heard
             /\ x # d => dag'[x].pc = dag[x].pc /\ dag'[x].outcome = dag[x].outcome
             /\ x = d => dag'[x].pc = "judge" /\ dag'[x].outcome = o
  BY <1>1, WrittenIs
<1>4. o.status = status /\ o.rc = rc
  OBVIOUS
<1> HIDE DEF o
<1>5. ASSUME NEW x \in Dags PROVE Told(dag'[x])
  <2>1. Told(dag[x])
    BY DEF ToldInv
  <2>2. CASE x = d
    BY <1>2, <1>3, <1>4, <2>1, <2>2 DEF Told
  <2>3. CASE x # d
    BY <1>3, <2>1, <2>3 DEF Told
  <2>4. QED
    BY <2>2, <2>3
<1>6. QED
  BY <1>5 DEF ToldInv

LEMMA ToldStarts == Init => ToldInv
<1> SUFFICES ASSUME Init, NEW d \in Dags PROVE Told(dag[d])
  BY DEF ToldInv
<1>1. dag[d] = Idle
  BY DEF Init
<1>2. QED
  BY <1>1, NothingTold

LEMMA WalkKeepsTold ==
  ASSUME DagInv, ToldInv, NEW d \in Dags, Start(d) \/ Walk(d) PROVE ToldInv'
<1>1. dag[d] \in Recs /\ Told(dag[d])
  BY DEF DagInv, DagTypeOK, Recs, ToldInv
<1>2. CASE Start(d)
  BY <1>2, NothingTold, SetKeepsTold DEF Start
<1>3. CASE Reuse(d) \/ ShortCircuit(d) \/ Conclude(d)
  BY <1>3, GoingOnKeepsTold DEF Reuse, ShortCircuit, Conclude
<1>4. CASE Launch(d)
  <2> DEFINE n == Latest(Job(d)).run
             r == [dag[d] EXCEPT !.pc = "gate", !.tries = 1, !.found = n]
  <2>1. Set(d, r)
    BY <1>4 DEF Launch
  <2> HIDE DEF n
  <2>2. r.pc = "gate" /\ r.heard = dag[d].heard
    BY <1>1 DEF Recs
  <2> HIDE DEF r
  <2>3. Told(r)
    BY <1>1, <2>2 DEF Told
  <2>4. QED
    BY <2>1, <2>3, SetKeepsTold
<1>5. CASE Hear(d)
  <2> DEFINE a == artifacts[Job(d)]
             r == [dag[d] EXCEPT !.pc = "judge", !.heard = a]
  <2>1. Set(d, r) /\ dag[d].pc = "wait"
    BY <1>5 DEF Hear, Latest, At
  <2>2. a.rc # 0 => a.status \in TerminalFailures
    BY <2>1, Here DEF Somewhere, Walking
  <2> HIDE DEF a
  <2>3. r.pc = "judge" /\ r.heard = a /\ r.outcome = dag[d].outcome
    BY <1>1 DEF Recs
  <2> HIDE DEF r
  <2>4. Told(r)
    BY <1>1, <2>1, <2>2, <2>3 DEF Told
  <2>5. QED
    BY <2>1, <2>4, SetKeepsTold
<1>6. CASE GiveUp(d)
  <2> DEFINE r == [dag[d] EXCEPT !.pc = "judge"]
  <2>1. Set(d, r) /\ dag[d].pc = "wait"
    BY <1>6 DEF GiveUp, At
  <2>2. r.pc = "judge" /\ r.heard = dag[d].heard /\ r.outcome = dag[d].outcome
    BY <1>1 DEF Recs
  <2> HIDE DEF r
  <2>3. Told(r)
    BY <1>1, <2>1, <2>2 DEF Told
  <2>4. QED
    BY <2>1, <2>3, SetKeepsTold
<1>7. CASE Retry(d)
  <2> DEFINE n == dag[d].tries + 1
             r == [dag[d] EXCEPT !.pc = "gate", !.tries = n, !.run = NoRun,
                                 !.holder = NoRun, !.outcome = NoOutcome]
  <2>1. Set(d, r)
    BY <1>7 DEF Retry
  <2> HIDE DEF n
  <2>2. r.pc = "gate" /\ r.heard = dag[d].heard
    BY <1>1 DEF Recs
  <2> HIDE DEF r
  <2>3. Told(r)
    BY <1>1, <2>2 DEF Told
  <2>4. QED
    BY <2>1, <2>3, SetKeepsTold
<1>8. QED
  BY <1>2, <1>3, <1>4, <1>5, <1>6, <1>7 DEF Walk

LEMMA RunnerKeepsTold ==
  ASSUME DagInv, ToldInv, NEW d \in Dags, Runner(d) \/ Die(d) PROVE ToldInv'
<1>1. dag[d] \in Recs /\ Told(dag[d])
  BY DEF DagInv, DagTypeOK, Recs, ToldInv
<1>2. CASE Gate(d)
  <2>1. PICK pc \in {"claim", "refused"} :
          Set(d, [dag[d] EXCEPT !.pc = pc, !.run = NewRun(Job(d))])
    BY <1>2 DEF Gate
  <2> DEFINE r == [dag[d] EXCEPT !.pc = pc, !.run = NewRun(Job(d))]
  <2>2. r.pc = pc /\ r.heard = dag[d].heard
    BY <1>1 DEF Recs
  <2>3. Set(d, r)
    BY <2>1
  <2> HIDE DEF r
  <2>4. Told(r)
    BY <1>1, <2>2 DEF Told
  <2>5. QED
    BY <2>3, <2>4, SetKeepsTold
<1>3. CASE Refuse(d)
  <2>1. "blocked" \in Statuses /\ "blocked" \in TerminalFailures
    BY DagAssumption DEF TerminalFailures
  <2>2. QED
    BY <1>3, <2>1, WriteKeepsTold DEF Refuse, At
<1>4. CASE Claim(d)
  <2> DEFINE o == [status |-> "missing", rc |-> 76]
             h == lease[Job(d)]
             held == [dag[d] EXCEPT !.pc = "work"]
             wait == [dag[d] EXCEPT !.pc = "wait", !.holder = h, !.outcome = o]
  <2>1. Set(d, held) \/ Set(d, wait)
    BY <1>4 DEF Claim
  <2>2. o.status = "missing" /\ o.rc = 76
    OBVIOUS
  <2> HIDE DEF o, h
  <2>3. /\ held.pc = "work" /\ held.heard = dag[d].heard
        /\ wait.pc = "wait" /\ wait.heard = dag[d].heard /\ wait.outcome = o
    BY <1>1 DEF Recs
  <2> HIDE DEF held, wait
  <2>4. Told(held) /\ Told(wait)
    BY <1>1, <2>2, <2>3 DEF Told
  <2>5. QED
    BY <2>1, <2>4, SetKeepsTold
<1>5. CASE Work(d)
  <2>1. PICK o \in Outcomes[Job(d)] :
          Set(d, [dag[d] EXCEPT !.pc = "report", !.outcome = o])
    BY <1>5 DEF Work
  <2> DEFINE r == [dag[d] EXCEPT !.pc = "report", !.outcome = o]
  <2>2. Job(d) \in Jobs /\ Missing(dag[d].heard)
    BY <1>5, Here DEF Work, At, Fits, Somewhere, Walking
  <2>3. o.rc # 0 => o.status \in TerminalFailures
    BY <2>1, <2>2, DagAssumption
  <2>4. o.rc \in {75, 78} => o.status = "blocked"
    BY <2>1, <2>2, DagAssumption
  <2>5. r.pc = "report" /\ r.heard = dag[d].heard /\ r.outcome = o
    BY <1>1 DEF Recs
  <2>6. Set(d, r)
    BY <2>1
  <2> HIDE DEF r
  <2>7. Told(r)
    BY <1>1, <2>3, <2>4, <2>5 DEF Told
  <2>8. QED
    BY <2>6, <2>7, SetKeepsTold
<1>6. CASE Report(d)
  <2>1. dag[d].pc = "report" /\ dag[d].outcome \in [status : Statuses, rc : Nat]
    BY <1>1, <1>6 DEF Report, At, Recs
  <2>2. dag[d].outcome.rc # 0 => dag[d].outcome.status \in TerminalFailures
    BY <2>1, Here DEF Fits, Somewhere, Walking
  <2>3. dag[d].outcome.rc \in {75, 78} => dag[d].outcome.status = "blocked"
    BY <1>1, <2>1 DEF Told
  <2>4. QED
    BY <1>6, <2>1, <2>2, <2>3, WriteKeepsTold DEF Report
<1>7. CASE ReportLost(d)
  <2> DEFINE o == [status |-> "missing", rc |-> 1]
             r == [dag[d] EXCEPT !.pc = "judge", !.outcome = o]
  <2>1. Set(d, r) /\ dag[d].pc = "report"
    BY <1>7 DEF ReportLost, Judged, At
  <2>2. o.status = "missing" /\ o.rc = 1
    OBVIOUS
  <2>3. Missing(dag[d].heard)
    BY <2>1, Here DEF Fits, Somewhere, Walking
  <2> HIDE DEF o
  <2>4. r.pc = "judge" /\ r.heard = dag[d].heard /\ r.outcome = o
    BY <1>1 DEF Recs
  <2> HIDE DEF r
  <2>5. Told(r)
    BY <1>1, <2>2, <2>3, <2>4 DEF Told
  <2>6. QED
    BY <2>1, <2>5, SetKeepsTold
<1>8. CASE Die(d)
  <2> DEFINE r == [Idle EXCEPT !.pc = "dead", !.target = dag[d].target,
                               !.at = dag[d].at, !.run = dag[d].run]
  <2>1. Set(d, r)
    BY <1>8 DEF Die
  <2>2. r.pc = "dead" /\ r.heard = Idle.heard
    BY IdleType DEF Recs
  <2> HIDE DEF r
  <2>3. Told(r)
    BY <2>2, NothingTold DEF Told
  <2>4. QED
    BY <2>1, <2>3, SetKeepsTold
<1>9. QED
  BY <1>2, <1>3, <1>4, <1>5, <1>6, <1>7, <1>8 DEF Runner

LEMMA ToldSteps == DagInv /\ ToldInv /\ [Next]_vars => ToldInv'
<1>1. DagInv /\ ToldInv /\ UNCHANGED vars => ToldInv'
  BY DEF ToldInv, vars
<1>2. ASSUME DagInv, ToldInv, NEW j \in Jobs, Expire(j) PROVE ToldInv'
  BY <1>2 DEF Expire, ToldInv
<1>3. QED
  BY <1>1, <1>2, WalkKeepsTold, RunnerKeepsTold DEF Next
-----------------------------------------------------------------------------
(* Giving up early *)

\* A set of numbers up to u has a last one.
LEMMA IntervalMax ==
  ASSUME NEW u \in Nat, NEW S \in SUBSET (0..u), S # {}
  PROVE  \E n \in S : \A m \in S : m <= n
<1> DEFINE R == {ss \in Nat \X Nat : ss[1] < ss[2]}
           T == {k \in 0..u : u - k \in S}
<1>1. IsWellFoundedOn(R, Nat)
  BY NatLessThanWellFounded DEF OpToRel
<1>2. T \subseteq Nat /\ T # {}
  <2>1. PICK s \in S : TRUE
    OBVIOUS
  <2>2. u - s \in 0..u /\ u - (u - s) = s
    BY <2>1
  <2>3. QED
    BY <2>1, <2>2
<1>3. PICK t \in T : \A y \in T : ~(<<y, t>> \in R)
  <2> HIDE DEF R, T
  <2>1. QED
    BY <1>1, <1>2, WFMin
<1>4. \A y \in T : t <= y
  <2>1. ASSUME NEW y \in T PROVE t <= y
    <3>1. y \in Nat /\ t \in Nat
      BY <1>2
    <3>2. ~(y < t)
      <4>1. y < t => <<y, t>> \in R
        BY <3>1
      <4>2. QED
        BY <1>3, <4>1
    <3>3. QED
      BY <3>1, <3>2
  <2>2. QED
    BY <2>1
<1>5. u - t \in S /\ \A m \in S : m <= u - t
  <2>1. ASSUME NEW m \in S PROVE m <= u - t
    <3>1. u - m \in T
      <4>1. m \in 0..u /\ u - m \in 0..u /\ u - (u - m) = m
        OBVIOUS
      <4>2. QED
        BY <4>1
    <3>2. t <= u - m
      BY <3>1, <1>4
    <3>3. QED
      BY <3>2
  <2>2. QED
    BY <2>1
<1>6. QED
  BY <1>5

\* Whatever D is closed as Doomed asks holds the target: the last job of the
\* order that is in D or is u could only be followed by a consumer in D.
LEMMA TargetIsDoomed ==
  ASSUME ToleranceIsPlain, NEW t \in Jobs, NEW u \in ToSet(Order[t]), u # t, NEW s,
         \A k \in ToSet(Order[t]) : u \in ToSet(Requires[k]) => s \notin Accepts[k][u]
  PROVE  t \in Doomed(Order[t], u, s)
<1> DEFINE o == Order[t]
           n == Len(o)
<1>1. o \in Seq(Jobs) /\ n \in Nat /\ n > 0 /\ o[n] = t /\ DOMAIN o = 1..n
  BY OrderAssumption
<1>2. \A i \in 1..n : o[i] # t => \E k \in i + 1..n : o[i] \in ToSet(Requires[o[k]])
  BY OrderAssumption, <1>1
<1>3. ToSet(o) = {o[i] : i \in 1..n}
  BY <1>1 DEF ToSet
<1>4. \A k \in ToSet(o) : \A r \in ToSet(Requires[k]) : "blocked" \notin Accepts[k][r]
  BY DEF ToleranceIsPlain
<1>5. \A k \in ToSet(o) : u \in ToSet(Requires[k]) => s \notin Accepts[k][u]
  OBVIOUS
<1>6. u \in ToSet(o)
  OBVIOUS
<1>7. Doomed(o, u, s) =
        {k \in ToSet(o) :
           \A D \in {D \in SUBSET ToSet(o) :
                       \A c \in ToSet(o) \ D : \A r \in ToSet(Requires[c]) :
                         /\ r = u => s \in Accepts[c][r]
                         /\ r \in D => "blocked" \in Accepts[c][r]} : k \in D}
  BY DEF Doomed
<1> HIDE DEF o, n
<1>8. ASSUME NEW D \in SUBSET ToSet(o),
             \A c \in ToSet(o) \ D : \A r \in ToSet(Requires[c]) :
               /\ r = u => s \in Accepts[c][r]
               /\ r \in D => "blocked" \in Accepts[c][r]
      PROVE  t \in D
  <2> DEFINE S == {i \in 1..n : o[i] \in D \cup {u}}
  <2>1. S \in SUBSET (0..n) /\ S # {}
    BY <1>1, <1>3, <1>6
  <2>2. PICK i \in S : \A k \in S : k <= i
    <3> HIDE DEF S
    <3>1. QED
      BY <1>1, <2>1, IntervalMax
  <2>3. o[i] = t
    <3> SUFFICES ASSUME o[i] # t PROVE FALSE
      OBVIOUS
    <3>1. PICK k \in i + 1..n : o[i] \in ToSet(Requires[o[k]])
      BY <1>2, <2>2
    <3>2. k \in 1..n /\ k > i /\ o[k] \in ToSet(o)
      BY <1>1, <1>3, <2>2, <3>1
    <3>3. o[k] \notin D
      BY <1>1, <2>2, <3>2
    <3>4. o[i] = u \/ o[i] \in D
      BY <2>2
    <3>5. QED
      BY <1>4, <1>5, <1>8, <3>1, <3>2, <3>3, <3>4
  <2>4. QED
    BY <2>2, <2>3
<1>9. t \in ToSet(o)
  BY <1>1, <1>3
<1>10. t \in Doomed(o, u, s)
  BY <1>7, <1>8, <1>9
<1>11. QED
  BY <1>10 DEF o

\* A process that is looking or judging is moved by its own steps only.
LEMMA OthersLeave ==
  ASSUME DagInv, NEW d \in Dags, NEW e \in Dags, e # d,
         Start(e) \/ Walk(e) \/ Runner(e) \/ Die(e)
  PROVE  dag'[d].pc = dag[d].pc
<1>1. dag \in [Dags -> Recs]
  BY DEF DagInv, DagTypeOK, Recs
<1>2. ASSUME NEW r, Set(e, r) PROVE dag'[d].pc = dag[d].pc
  BY <1>1, <1>2 DEF Set
<1>3. CASE Start(e) \/ Die(e)
  BY <1>2, <1>3 DEF Start, Die
<1>4. CASE Walk(e)
  <2>1. ASSUME NEW status, Further(e, status) PROVE dag'[d].pc = dag[d].pc
    BY <1>2, <2>1 DEF Further
  <2>2. ASSUME NEW status, NEW result, AfterFailure(e, status, result)
        PROVE  dag'[d].pc = dag[d].pc
    BY <1>2, <2>1, <2>2 DEF AfterFailure
  <2>3. CASE Reuse(e) \/ ShortCircuit(e) \/ Conclude(e)
    BY <2>1, <2>2, <2>3 DEF Reuse, ShortCircuit, Conclude
  <2>4. CASE Launch(e) \/ Hear(e) \/ GiveUp(e) \/ Retry(e)
    BY <1>2, <2>4 DEF Launch, Hear, GiveUp, Retry
  <2>5. QED
    BY <1>4, <2>3, <2>4 DEF Walk
<1>5. CASE Runner(e)
  <2>1. CASE Gate(e)
    BY <1>2, <2>1 DEF Gate
  <2>2. CASE Claim(e)
    BY <1>2, <2>2 DEF Claim
  <2>3. CASE Work(e) \/ ReportLost(e)
    BY <1>2, <2>3 DEF Work, ReportLost
  <2>4. ASSUME NEW status \in Statuses, NEW rc \in Nat, Written(e, status, rc)
        PROVE  dag'[d].pc = dag[d].pc
    BY <1>1, <2>4, WrittenIs
  <2>5. CASE Refuse(e)
    <3>1. "blocked" \in Statuses
      BY DagAssumption DEF TerminalFailures
    <3>2. QED
      BY <2>4, <2>5, <3>1 DEF Refuse
  <2>6. CASE Report(e)
    <3>1. dag[e].outcome \in [status : Statuses, rc : Nat]
      BY <1>1 DEF Recs
    <3>2. QED
      BY <2>4, <2>6, <3>1 DEF Report
  <2>7. QED
    BY <1>5, <2>1, <2>2, <2>3, <2>5, <2>6 DEF Runner
<1>6. QED
  BY <1>3, <1>4, <1>5

LEMMA GoingOnGoesOn ==
  ASSUME DagInv, NEW d \in Dags, ~IsTarget(d), NEW result, Further(d, result)
  PROVE  dag'[d].pc = "look"
<1>1. Set(d, Looking(dag[d].target, dag[d].at + 1)) /\ dag \in [Dags -> Recs]
  BY DEF Further, DagInv, DagTypeOK, Recs
<1>2. Looking(dag[d].target, dag[d].at + 1).pc = "look"
  BY DEF Looking, Idle
<1>3. QED
  BY <1>1, <1>2 DEF Set

\* Who ends before its target is giving up.
LEMMA EarlyEnd ==
  ASSUME DagInv, NEW d \in Dags, dag[d].pc \in {"look", "judge"}, ~IsTarget(d),
         dag'[d].pc = "ended", [Next]_vars
  PROVE  ShortCircuit(d) \/ Conclude(d)
<1>1. dag \in [Dags -> Recs] /\ dag[d] \in Recs
  BY DEF DagInv, DagTypeOK, Recs
<1>2. ~UNCHANGED vars /\ \A j \in Jobs : ~Expire(j)
  BY DEF vars, Expire
<1>3. Start(d) \/ Walk(d) \/ Runner(d) \/ Die(d)
  BY <1>2, OthersLeave DEF Next
<1>4. ~Start(d) /\ ~Runner(d) /\ ~Die(d)
  BY DEF Start, Runner, Gate, Refuse, Claim, Work, Report, ReportLost, Die, At
<1>5. ~Hear(d) /\ ~GiveUp(d)
  BY DEF Hear, GiveUp, At
<1>6. ~Reuse(d)
  BY GoingOnGoesOn DEF Reuse
<1>7. ~Launch(d)
  <2> SUFFICES ASSUME Launch(d) PROVE FALSE
    OBVIOUS
  <2> DEFINE n == Latest(Job(d)).run
             r == [dag[d] EXCEPT !.pc = "gate", !.tries = 1, !.found = n]
  <2>1. Set(d, r)
    BY DEF Launch
  <2> HIDE DEF n
  <2>2. r.pc = "gate"
    BY <1>1 DEF Recs
  <2> HIDE DEF r
  <2>3. QED
    BY <1>1, <2>1, <2>2 DEF Set
<1>8. ~Retry(d)
  <2> SUFFICES ASSUME Retry(d) PROVE FALSE
    OBVIOUS
  <2> DEFINE n == dag[d].tries + 1
             r == [dag[d] EXCEPT !.pc = "gate", !.tries = n, !.run = NoRun,
                                 !.holder = NoRun, !.outcome = NoOutcome]
  <2>1. Set(d, r)
    BY DEF Retry
  <2> HIDE DEF n
  <2>2. r.pc = "gate"
    BY <1>1 DEF Recs
  <2> HIDE DEF r
  <2>3. QED
    BY <1>1, <2>1, <2>2 DEF Set
<1>9. QED
  BY <1>3, <1>4, <1>5, <1>6, <1>7, <1>8 DEF Walk

LEMMA NobodyTolerates ==
  ASSUME DagInv, NEW d \in Dags, ~IsTarget(d), dag'[d].pc = "ended",
         NEW status, NEW result, AfterFailure(d, status, result)
  PROVE  \A k \in ToSet(Order[dag[d].target]) :
           Job(d) \in ToSet(Requires[k]) => status \notin Accepts[k][Job(d)]
<1>1. ~Further(d, result)
  BY GoingOnGoesOn
<1>2. Tolerating(Job(d), status, Order[dag[d].target]) = {}
  BY <1>1 DEF AfterFailure
<1>3. QED
  BY <1>2 DEF Tolerating

\* What the job has left behind is accepted by nobody, as the status is not
\* that the DAG gave it: it is that status, or another failure.
LEMMA NobodyAccepts ==
  ASSUME ToleranceIsPlain, DagInv, ToldInv, NEW d \in Dags,
         dag[d].pc \in {"look", "judge"}, ~IsTarget(d), dag'[d].pc = "ended",
         ShortCircuit(d) \/ Conclude(d)
  PROVE  \A k \in ToSet(Order[dag[d].target]) :
           Job(d) \in ToSet(Requires[k]) => LeftBehind(d) \notin Accepts[k][Job(d)]
<1> DEFINE heard == dag[d].heard
           rc == dag[d].outcome.rc
           a == artifacts[Job(d)]
<1>1. /\ dag[d] \in Recs /\ Fits(dag[d], a) /\ Told(dag[d])
      /\ dag[d].target \in Jobs
  BY Here, JobType DEF Somewhere, Walking, ToldInv
<1>2. CASE ShortCircuit(d)
  <2>1. dag[d].pc = "look" /\ AfterFailure(d, Latest(Job(d)).status, "blocked")
    BY <1>2 DEF ShortCircuit, At
  <2>2. LeftBehind(d) = Latest(Job(d)).status
    BY <2>1 DEF LeftBehind, At
  <2>3. QED
    BY <2>1, <2>2, NobodyTolerates
<1>3. CASE Conclude(d)
  <2>1. dag[d].pc = "judge"
    BY <1>3 DEF Conclude, At
  <2>2. ~Further(d, Status(d))
    BY GoingOnGoesOn
  <2>3. /\ Failing(Status(d), IF Good(heard) THEN 0 ELSE rc)
        /\ AfterFailure(d, Status(d), Status(d))
    BY <1>3, <2>2 DEF Conclude
  <2>4. \A k \in ToSet(Order[dag[d].target]) :
          Job(d) \in ToSet(Requires[k]) => Status(d) \notin Accepts[k][Job(d)]
    BY <2>3, NobodyTolerates
  <2>5. ~Good(heard)
    <3> SUFFICES ASSUME Good(heard) PROVE FALSE
      OBVIOUS
    <3>1. rc # 0
      BY <1>1, <2>1 DEF Fits, Good
    <3>2. Status(d) = heard.status
      BY <3>1 DEF Status
    <3>3. QED
      BY <2>3, <3>2 DEF Good, Bad, Failing
  <2>6. CASE rc = 0
    <3>1. Missing(heard) /\ a.run # dag[d].found
      BY <1>1, <2>1, <2>6 DEF Fits
    <3>2. Status(d) = a.status
      BY <2>5, <2>6, <3>1 DEF Status, Latest
    <3>3. LeftBehind(d) = a.status
      BY <2>1, <2>6, <3>1 DEF LeftBehind, At, Latest
    <3>4. QED
      BY <2>4, <3>2, <3>3
  <2>7. CASE rc # 0
    <3>1. Status(d) = IF rc \in {75, 78} THEN "blocked" ELSE "failed"
      BY <2>5, <2>7 DEF Status
    <3>2. LeftBehind(d) = IF Missing(heard) THEN dag[d].outcome.status ELSE heard.status
      BY <2>1, <2>7 DEF LeftBehind, At
    <3>3. \/ LeftBehind(d) \in {"blocked", "missing"}
          \/ LeftBehind(d) \in TerminalFailures /\ Status(d) = "failed"
      <4>1. CASE Missing(heard)
        BY <1>1, <2>1, <2>7, <3>1, <3>2, <4>1 DEF Told
      <4>2. CASE ~Missing(heard)
        <5>1. rc = 76 /\ (heard.rc # 0 => heard.status \in TerminalFailures)
          BY <1>1, <2>1, <4>2 DEF Told
        <5>2. heard.status \in TerminalFailures
          BY <2>5, <4>2, <5>1 DEF Good, Bad, Failing
        <5>3. QED
          BY <3>1, <3>2, <4>2, <5>1, <5>2
      <4>3. QED
        BY <4>1, <4>2
    <3>4. QED
      BY <1>1, <2>4, <3>3 DEF ToleranceIsPlain
  <2>8. QED
    BY <2>6, <2>7
<1>4. QED
  BY <1>2, <1>3

LEMMA EarlyStopStep ==
  ASSUME ToleranceIsPlain, DagInv, ToldInv, [Next]_vars, NEW d \in Dags,
         dag[d].pc \in {"look", "judge"}, ~IsTarget(d), dag'[d].pc = "ended"
  PROVE  dag[d].target \in Doomed(Order[dag[d].target], Job(d), LeftBehind(d))
<1>1. /\ dag[d].target \in Jobs /\ dag[d].at \in DOMAIN Order[dag[d].target]
      /\ Job(d) = Order[dag[d].target][dag[d].at]
  BY JobType DEF Somewhere, Walking, Job
<1>2. Job(d) \in ToSet(Order[dag[d].target]) /\ Job(d) # dag[d].target
  BY <1>1 DEF ToSet, IsTarget
<1>3. \A k \in ToSet(Order[dag[d].target]) :
        Job(d) \in ToSet(Requires[k]) => LeftBehind(d) \notin Accepts[k][Job(d)]
  BY EarlyEnd, NobodyAccepts
<1>4. QED
  BY <1>1, <1>2, <1>3, TargetIsDoomed
-----------------------------------------------------------------------------
(* Theorems *)

\* DagInv holds in every state: what a DAG concludes from the youngest artifact
\* and the holder's id is true of the runs themselves.
THEOREM DagInvariant == Spec => []DagInv
  BY DagStarts, DagSteps, PTL DEF Spec

\* Artifacts, leases and DAG processes keep their types.
THEOREM DagTypeCorrect == Spec => []DagTypeOK
<1>1. DagInv => DagTypeOK
  BY DEF DagInv
<1>2. QED
  BY <1>1, DagInvariant, PTL

\* A DAG that reports success reports a run of its target that was written
\* after it came to it: its own, or that of the run it waited for.
THEOREM TargetsAreRerun == Spec => []TargetIsRerun
<1>1. DagInv => TargetIsRerun
  BY DEF DagInv, TargetIsRerun, Earned, At
<1>2. QED
  BY <1>1, DagInvariant, PTL

\* A DAG that gives up before its target does so for a failed upstream after
\* which the target's own gate could not have passed, if nobody accepts a
\* blocked upstream, and who accepts a failure accepts "failed": the DAG judges
\* by the exit code what the gates judge by the artifact.
THEOREM EarlyStopsAreSound ==
  ASSUME ToleranceIsPlain PROVE Spec => ShortCircuitIsSound
<1>1. DagInv /\ ToldInv /\ [Next]_vars =>
        [\A d \in Dags :
           /\ dag[d].pc \in {"look", "judge"} /\ ~IsTarget(d) /\ dag'[d].pc = "ended"
           => dag[d].target \in Doomed(Order[dag[d].target], Job(d), LeftBehind(d))]_vars
  BY EarlyStopStep
<1>2. Spec => []ToldInv
  BY DagInvariant, ToldStarts, ToldSteps, PTL DEF Spec
<1>3. QED
  BY <1>1, <1>2, DagInvariant, PTL DEF Spec, ShortCircuitIsSound
=============================================================================
