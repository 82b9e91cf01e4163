------------------------------- MODULE RunLease -------------------------------
(***************************************************************************)
(* The run lease (skills/common/run_lease.py): the directory that keeps    *)
(* Hermes and OpenClaw from running the same job of the same batch at the  *)
(* same time.  hermes_job_runner wraps the business process in it.         *)
(*                                                                         *)
(* The lease has no lock of its own: it is a sequence of file-system calls *)
(* (mkdir, stat, rename, open, read, rmtree), each one an action here, and *)
(* runs of other processes may fall between any two of them.  A run that   *)
(* ends starts over as another run; a run that dies never comes back.      *)
(***************************************************************************)
EXTENDS Integers, FiniteSets

CONSTANTS Runs,      \* runner processes that compete for one job
          Ttl,       \* ttl_seconds: max(2 * timeout, 60)
          MaxHold,   \* the longest a live run keeps the lease: its timeout
          MaxDead    \* bound: how many runs may die

Nobody == "nobody"    \* a directory without a readable holder.json
NoName == "none"      \* no directory

ASSUME LeaseAssumption ==
  /\ Ttl \in Nat /\ MaxHold \in Nat /\ MaxDead \in Nat
  /\ IsFiniteSet(Runs) /\ Nobody \notin Runs /\ NoName \notin Runs

VARIABLES dir,    \* the lease directory: its holder.json, and its age (mtime)
          pc,     \* where each run is in claim() and in what it wraps
          tries,  \* the iteration of claim's for loop
          held    \* how long ago each run made the directory

leaseVars == <<dir, pc, tries, held>>

NoDir == [holder |-> NoName, age |-> -1]

Dirs == [holder : Runs \cup {Nobody}, age : 0..Ttl + 1]

\* Between mkdir and the end of the release.
Inside == {"made", "working", "leaving", "removing", "emptied"}

Steps == Inside \cup {"out", "mkdir", "stat", "rename", "dead"}

LeaseInit ==
  /\ dir = NoDir
  /\ pc = [p \in Runs |-> "out"]
  /\ tries = [p \in Runs |-> 0]
  /\ held = [p \in Runs |-> 0]

Goto(p, step) == pc' = [pc EXCEPT ![p] = step]
-----------------------------------------------------------------------------
(* claim() *)

Ask(p) ==
  /\ pc[p] = "out"
  /\ Goto(p, "mkdir")
  /\ tries' = [tries EXCEPT ![p] = 1]
  /\ UNCHANGED <<dir, held>>

\* os.mkdir succeeds, or raises FileExistsError.
MakeDir(p) ==
  /\ pc[p] = "mkdir"
  /\ IF dir = NoDir
     THEN /\ dir' = [holder |-> Nobody, age |-> 0]
          /\ held' = [held EXCEPT ![p] = 0]
          /\ Goto(p, "made")
     ELSE /\ Goto(p, "stat")
          /\ UNCHANGED <<dir, held>>
  /\ UNCHANGED tries

\* Mutant: one iteration too many.
AgainAndAgain(p) ==
  IF tries[p] <= 2
  THEN Goto(p, "mkdir") /\ tries' = [tries EXCEPT ![p] = @ + 1]
  ELSE Goto(p, "out") /\ UNCHANGED tries

\* The loop runs twice; after that the claim is refused.
Again(p) ==
  IF tries[p] < 2
  THEN Goto(p, "mkdir") /\ tries' = [tries EXCEPT ![p] = @ + 1]
  ELSE Goto(p, "out") /\ UNCHANGED tries

\* Mutants: a lease at its TTL, or never one with a holder, counts as stale.
StaleAtTtl == dir.age >= Ttl
StaleUnlessHeld == dir.age > Ttl /\ dir.holder = Nobody

Stale == dir.age > Ttl

\* _remove_stale's os.stat: gone, fresh (the claim is refused) or stale.
StatDir(p) ==
  /\ pc[p] = "stat"
  /\ IF dir = NoDir THEN Again(p)
     ELSE /\ Goto(p, IF Stale THEN "rename" ELSE "out")
          /\ UNCHANGED tries
  /\ UNCHANGED <<dir, held>>

\* _remove_stale's os.rename takes whatever directory bears the name by now.
TakeAway(p) ==
  /\ pc[p] = "rename"
  /\ IF dir = NoDir THEN Goto(p, "out") /\ UNCHANGED tries ELSE Again(p)
  /\ dir' = NoDir
  /\ UNCHANGED held

\* holder.json is written into the directory of that name.  Without one the
\* runner crashes; a new file renews the mtime, an overwritten one does not.
WriteHolder(p) ==
  /\ pc[p] = "made"
  /\ IF dir = NoDir THEN Goto(p, "out") /\ UNCHANGED dir
     ELSE /\ Goto(p, "working")
          /\ dir' = [holder |-> p, age |-> IF dir.holder = Nobody THEN 0 ELSE dir.age]
  /\ UNCHANGED <<tries, held>>
-----------------------------------------------------------------------------
(* The release: the finally clause of claim() *)

Finish(p) ==
  /\ pc[p] = "working"
  /\ Goto(p, "leaving")
  /\ UNCHANGED <<dir, tries, held>>

\* _read_holder: only a lease with our own token is removed.
ReadHolder(p) ==
  /\ pc[p] = "leaving"
  /\ Goto(p, IF dir.holder = p THEN "removing" ELSE "out")
  /\ UNCHANGED <<dir, tries, held>>

\* shutil.rmtree: first the file in the directory, then the directory.
Empty(p) ==
  /\ pc[p] = "removing"
  /\ IF dir = NoDir THEN Goto(p, "out") /\ UNCHANGED dir
     ELSE Goto(p, "emptied") /\ dir' = [holder |-> Nobody, age |-> 0]
  /\ UNCHANGED <<tries, held>>

RemoveDir(p) ==
  /\ pc[p] = "emptied"
  /\ dir' = IF dir.holder = Nobody THEN NoDir ELSE dir
  /\ Goto(p, "out")
  /\ UNCHANGED <<tries, held>>
-----------------------------------------------------------------------------
Dead == {p \in Runs : pc[p] = "dead"}

\* A kill or a power loss: no finally clause runs.
Killed(p) ==
  /\ Cardinality(Dead) < MaxDead
  /\ pc[p] \notin {"out", "dead"}
  /\ Goto(p, "dead")
  /\ UNCHANGED <<dir, tries, held>>

\* Time passes.  run_isolated kills the business process at its timeout, so a
\* live run is never inside for longer than MaxHold; between two calls of the
\* claim loop any time may pass.
TimePasses ==
  /\ \A p \in Runs : pc[p] \in Inside => held[p] < MaxHold
  /\ held' = [p \in Runs |-> IF pc[p] \in Inside THEN held[p] + 1 ELSE held[p]]
  /\ dir' = IF dir = NoDir THEN NoDir
            ELSE [dir EXCEPT !.age = IF @ <= Ttl THEN @ + 1 ELSE @]
  /\ UNCHANGED <<pc, tries>>

Act(p) ==
  \/ MakeDir(p) \/ StatDir(p) \/ TakeAway(p) \/ WriteHolder(p)
  \/ Finish(p) \/ ReadHolder(p) \/ Empty(p) \/ RemoveDir(p)

LeaseNext ==
  \/ \E p \in Runs : Ask(p) \/ Act(p) \/ Killed(p)
  \/ TimePasses

LeaseSpec == LeaseInit /\ [][LeaseNext]_leaseVars

\* A live run goes on, runs keep being started, and time passes.
LeaseFairSpec ==
  /\ LeaseSpec
  /\ \A p \in Runs : WF_leaseVars(Ask(p)) /\ WF_leaseVars(Act(p))
  /\ WF_leaseVars(TimePasses)
-----------------------------------------------------------------------------
(* Properties *)

\* Types of the lease directory and of the runs.
LeaseTypeOK ==
  /\ dir \in Dirs \cup {NoDir}
  /\ pc \in [Runs -> Steps]
  /\ tries \in [Runs -> 0..2]
  /\ held \in [Runs -> 0..MaxHold]

\* The atomic directory lease keeps two runtimes from executing the same node
\* at the same time (docs/architecture-hardening.md).
MutualExclusion ==
  \A p, q \in Runs : pc[p] = "working" /\ pc[q] = "working" => p = q

\* While a run works, the directory is there and names it: no other run has
\* taken the lease away or written its own name over it.
LeaseIsMine == \A p \in Runs : pc[p] = "working" => dir.holder = p

\* A lease never outlives its holder for good: whoever dies where, the name
\* is free again and again.
LeaseFreed == []<>(dir = NoDir)
=============================================================================
