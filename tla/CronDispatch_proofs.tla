-------------------------- MODULE CronDispatch_proofs --------------------------
(***************************************************************************)
(* Proofs about the two things that keep a job from running twice: the     *)
(* cron dispatcher, for every set of jobs, every schedule and every bound  *)
(* of the state file, and the lease of the runs it launches, for every     *)
(* number of runs and every TTL.                                           *)
(*                                                                         *)
(* Two invariants carry the dispatcher's.  ServeInv: a claim in the file,  *)
(* or in the file about to be written, stands for a launch that was made,  *)
(* or is the next step.  OnceInv: what was launched for the minute in      *)
(* service is in the file, which never forgets the newest minute as long   *)
(* as it has room for the jobs of one.  LeaseInv carries the lease's.      *)
(***************************************************************************)
EXTENDS CronDispatch, RunLease, FiniteSetTheorems, TLAPS

Looping == [pc : {"loop"}, now : Minutes, todo : SUBSET Jobs]
Serving == [pc : {"claim", "launch"}, now : Minutes, todo : SUBSET Jobs,
            job : Jobs, next : [Jobs -> 0..LastMinute]]

TypeInv ==
  /\ clock \in Minutes /\ done \subseteq Minutes
  /\ faults \subseteq {"die", "launch", "io", "corrupt"}
  /\ state \in [Jobs -> 0..LastMinute]
  /\ tried \in [Jobs -> [Minutes -> Nat]]
  /\ disp \in {Asleep} \cup Looping \cup Serving

\* The file holds at least the jobs of a minute.
RoomForAMinute == \A m \in Minutes : Cardinality(DueAt[m]) <= MaxEntries

\* s records launches that were made, except perhaps that of job x for minute n.
Launched(s, x, n) ==
  \A j \in Jobs : s[j] > 0 => tried[j][s[j]] >= 1 \/ (j = x /\ s[j] = n)

NoJob == CHOOSE x : x \notin Jobs

InService == IF disp.pc \in {"claim", "launch"} THEN disp.job ELSE NoJob

ServeInv ==
  faults \cap {"die", "launch"} = {} =>
    /\ \A m \in done : \A j \in DueAt[m] : tried[j][m] >= 1
    /\ disp.pc \in {"asleep", "loop", "claim"} => Launched(state, NoJob, 0)
    /\ disp.pc = "claim" => Launched(disp.next, disp.job, disp.now)
    /\ disp.pc = "launch" => Launched(state, disp.job, disp.now)
    /\ disp # Asleep =>
         \A j \in DueAt[disp.now] \ disp.todo : tried[j][disp.now] >= 1 \/ j = InService

\* The newest minute anyone has worked in.
Newest == IF disp = Asleep THEN clock ELSE disp.now

\* s keeps every job launched for the newest minute, and only jobs due.
Keeps(s) ==
  \A j \in Jobs :
    /\ s[j] <= Newest
    /\ s[j] > 0 => j \in DueAt[s[j]]
    /\ tried[j][Newest] >= 1 => s[j] = Newest

OnceInv ==
  faults \cap {"io", "corrupt"} = {} =>
    /\ \A j \in Jobs, m \in Minutes : tried[j][m] <= 1 /\ (tried[j][m] >= 1 => m <= Newest)
    /\ Keeps(state)
    /\ disp # Asleep => disp.now <= clock /\ disp.todo \subseteq DueAt[disp.now]
    /\ disp.pc \in {"claim", "launch"} =>
         tried[disp.job][disp.now] = 0 /\ disp.job \in DueAt[disp.now]
    /\ disp.pc = "claim" => Keeps(disp.next) /\ disp.next[disp.job] = disp.now
    /\ disp.pc = "launch" => state[disp.job] = disp.now
-----------------------------------------------------------------------------
(* Pruning *)

LEMMA PrunedType ==
  ASSUME NEW s \in [Jobs -> 0..LastMinute], NEW t \in Pruned(s)
  PROVE  t \in [Jobs -> 0..LastMinute] /\ \A j \in Jobs : t[j] \in {0, s[j]}
<1>1. CASE Cardinality(Entries(s)) <= MaxEntries
  BY <1>1 DEF Pruned
<1>2. CASE ~(Cardinality(Entries(s)) <= MaxEntries)
  <2>1. PICK keep \in SUBSET Entries(s) : t = [j \in Jobs |-> IF j \in keep THEN s[j] ELSE 0]
    BY <1>2 DEF Pruned
  <2>2. \A j \in Jobs : (IF j \in keep THEN s[j] ELSE 0) \in 0..LastMinute
    BY DispatchAssumption
  <2>3. QED
    BY <2>1, <2>2
<1>3. QED
  BY <1>1, <1>2

\* As long as the entries for the newest minute n fit, none of them is pruned.
LEMMA PrunedKeepsNewest ==
  ASSUME NEW s \in [Jobs -> 0..LastMinute], NEW t \in Pruned(s),
         NEW n \in Minutes, \A j \in Jobs : s[j] <= n,
         \A j \in Jobs : s[j] = n => j \in DueAt[n], Cardinality(DueAt[n]) <= MaxEntries,
         NEW k \in Jobs, s[k] = n
  PROVE  t[k] = n
<1> USE DispatchAssumption
<1>1. CASE Cardinality(Entries(s)) <= MaxEntries
  BY <1>1 DEF Pruned
<1>2. CASE ~(Cardinality(Entries(s)) <= MaxEntries)
  <2>1. PICK keep \in SUBSET Entries(s) :
          /\ Cardinality(keep) = MaxEntries
          /\ \A i \in keep, o \in Entries(s) \ keep : s[i] >= s[o]
          /\ t = [j \in Jobs |-> IF j \in keep THEN s[j] ELSE 0]
    BY <1>2 DEF Pruned
  <2>2. k \in Entries(s)
    BY DEF Entries, Minutes
  <2>3. ASSUME k \notin keep PROVE FALSE
    <3>1. \A i \in keep : i \in Jobs /\ s[i] >= s[k]
      BY <2>1, <2>2, <2>3 DEF Entries
    <3>2. \A i \in keep : s[i] = n
      BY <3>1 DEF Minutes
    <3>3. keep \cup {k} \subseteq DueAt[n]
      BY <3>1, <3>2
    <3>4. IsFiniteSet(DueAt[n]) /\ IsFiniteSet(keep)
      BY <2>1, FS_Subset DEF Entries, Minutes
    <3>5. Cardinality(keep \cup {k}) = Cardinality(keep) + 1
      BY <3>4, <2>3, FS_AddElement
    <3>6. Cardinality(keep \cup {k}) <= Cardinality(DueAt[n])
      BY <3>3, <3>4, FS_Subset
    <3>7. Cardinality(DueAt[n]) \in Nat
      BY <3>4, FS_CardinalityType
    <3>8. QED
      BY <2>1, <3>5, <3>6, <3>7
  <2>4. QED
    BY <2>1, <2>3
<1>3. QED
  BY <1>1, <1>2
-----------------------------------------------------------------------------
(* Types *)

\* The dispatcher has one shape per program counter.
LEMMA Shape ==
  ASSUME TypeInv
  PROVE  /\ disp = Asleep <=> disp.pc = "asleep"
         /\ disp.pc = "loop" <=> disp \in Looping
         /\ disp.pc \in {"claim", "launch"} <=> disp \in Serving
         /\ disp.pc \in {"asleep", "loop", "claim", "launch"}
<1>1. Asleep.pc = "asleep"
  BY DEF Asleep
<1>2. \A d \in Looping : d.pc = "loop"
  BY DEF Looping
<1>3. \A d \in Serving : d.pc \in {"claim", "launch"}
  BY DEF Serving
<1>4. QED
  BY <1>1, <1>2, <1>3 DEF TypeInv

LEMMA LookNext ==
  ASSUME TypeInv, NEW j \in Jobs, Look(j)
  PROVE  /\ disp \in Looping /\ j \in disp.todo
         /\ \/ AlreadyClaimed(j) /\ disp' \in Looping
               /\ disp'.now = disp.now /\ disp'.todo = disp.todo \ {j}
            \/ ~AlreadyClaimed(j) /\ disp' \in Serving /\ disp'.pc = "claim"
               /\ disp'.now = disp.now /\ disp'.todo = disp.todo \ {j} /\ disp'.job = j
               /\ disp'.next \in Pruned(ClaimedFor(j))
<1>1. disp \in Looping /\ j \in disp.todo
  BY Shape DEF Look
<1>2. CASE AlreadyClaimed(j)
  BY <1>1, <1>2 DEF Look, Looping
<1>3. CASE ~AlreadyClaimed(j)
  <2>1. PICK next \in Pruned(ClaimedFor(j)) :
          disp' = Awake("claim", disp.now, disp.todo \ {j}, j, next)
    BY <1>3 DEF Look
  <2>2. ClaimedFor(j) \in [Jobs -> 0..LastMinute]
    BY <1>1, DispatchAssumption DEF ClaimedFor, Looping, Minutes, TypeInv
  <2>3. next \in [Jobs -> 0..LastMinute]
    BY <2>2, PrunedType
  <2>4. QED
    BY <1>1, <1>3, <2>1, <2>3 DEF Awake, Looping, Serving
<1>4. QED
  BY <1>1, <1>2, <1>3

LEMMA PersistNext ==
  ASSUME TypeInv, Persist
  PROVE  /\ disp \in Serving /\ disp' \in Serving /\ disp'.pc = "launch"
         /\ disp'.now = disp.now /\ disp'.todo = disp.todo /\ disp'.job = disp.job
<1>1. disp \in Serving
  BY Shape DEF Persist
<1>2. QED
  BY <1>1 DEF Persist, Serving

LEMMA LaunchNext ==
  ASSUME TypeInv, Launch
  PROVE  /\ disp \in Serving /\ disp' \in Looping
         /\ disp'.now = disp.now /\ disp'.todo = disp.todo
         /\ tried' \in [Jobs -> [Minutes -> Nat]]
         /\ \/ /\ \A j \in Jobs, m \in Minutes :
                    tried'[j][m] = IF j = disp.job /\ m = disp.now THEN tried[j][m] + 1
                                   ELSE tried[j][m]
               /\ faults' = faults
            \/ tried' = tried /\ faults' = faults \cup {"launch"}
<1>1. disp \in Serving
  BY Shape DEF Launch
<1>2. disp.job \in Jobs /\ disp.now \in Minutes /\ disp.todo \in SUBSET Jobs
  BY <1>1 DEF Serving
<1>3. disp' \in Looping /\ disp'.now = disp.now /\ disp'.todo = disp.todo
  BY <1>2 DEF Launch, Looping
<1>4. CASE tried' = [tried EXCEPT ![disp.job][disp.now] = @ + 1] /\ UNCHANGED faults
  <2> DEFINE row == [tried[disp.job] EXCEPT ![disp.now] = tried[disp.job][disp.now] + 1]
  <2>1. tried \in [Jobs -> [Minutes -> Nat]] /\ tried[disp.job] \in [Minutes -> Nat]
    BY <1>2 DEF TypeInv
  <2>2. tried[disp.job][disp.now] + 1 \in Nat
    BY <1>2, <2>1
  <2>3. row \in [Minutes -> Nat]
    BY <2>1, <2>2
  <2>4. tried' = [tried EXCEPT ![disp.job] = row]
    BY <1>4
  <2>5. tried' \in [Jobs -> [Minutes -> Nat]]
    BY <2>1, <2>3, <2>4
  <2>6. ASSUME NEW j \in Jobs, NEW m \in Minutes
        PROVE  tried'[j][m] = IF j = disp.job /\ m = disp.now THEN tried[j][m] + 1
                              ELSE tried[j][m]
    <3>1. tried'[j] = IF j = disp.job THEN row ELSE tried[j]
      BY <2>1, <2>4
    <3>2. row[m] = IF m = disp.now THEN tried[disp.job][m] + 1 ELSE tried[disp.job][m]
      BY <2>1
    <3>3. QED
      BY <3>1, <3>2
  <2>7. QED
    BY <1>1, <1>3, <1>4, <2>5, <2>6
<1>5. CASE UNCHANGED tried /\ faults' = faults \cup {"launch"}
  BY <1>1, <1>3, <1>5 DEF TypeInv
<1>6. QED
  BY <1>4, <1>5 DEF Launch

LEMMA TypeStep ==
  ASSUME TypeInv, [Next]_vars
  PROVE  TypeInv'
<1> USE DispatchAssumption DEF TypeInv
<1>1. CASE Wake
  BY <1>1 DEF Wake, Looping, Minutes
<1>2. ASSUME NEW j \in Jobs, Look(j) PROVE TypeInv'
  BY <1>2, LookNext DEF Look
<1>3. CASE Persist
  BY <1>3, PersistNext DEF Persist, Serving
<1>4. CASE Launch
  BY <1>4, LaunchNext DEF Launch
<1>5. CASE Return
  BY <1>5, Shape DEF Return, Looping
<1>6. CASE Die
  BY <1>6 DEF Die
<1>7. CASE Corrupt
  BY <1>7 DEF Corrupt
<1>8. CASE Tick
  BY <1>8 DEF Tick, Minutes
<1>9. CASE UNCHANGED vars
  BY <1>9 DEF vars
<1>10. QED
  BY <1>1, <1>2, <1>3, <1>4, <1>5, <1>6, <1>7, <1>8, <1>9 DEF Next

LEMMA TypeInit == Init => TypeInv
  BY DispatchAssumption DEF Init, TypeInv, Minutes

\* The clock, the state file, the dispatcher and the counts keep their types.
THEOREM DispatchTypeCorrect == Spec => []DispatchTypeOK
<1>1. TypeInv => DispatchTypeOK
  BY Shape DEF TypeInv, DispatchTypeOK, Looping, Serving
<1>2. TypeInv /\ [Next]_vars => TypeInv'
  BY TypeStep
<1>3. QED
  BY <1>1, <1>2, TypeInit, PTL DEF Spec
-----------------------------------------------------------------------------
(* ServeInv *)

LEMMA ServeStep ==
  ASSUME TypeInv, ServeInv, [Next]_vars
  PROVE  ServeInv'
<1> SUFFICES ASSUME (faults \cap {"die", "launch"} = {})' PROVE
      /\ (\A m \in done : \A j \in DueAt[m] : tried[j][m] >= 1)'
      /\ (disp.pc \in {"asleep", "loop", "claim"} => Launched(state, NoJob, 0))'
      /\ (disp.pc = "claim" => Launched(disp.next, disp.job, disp.now))'
      /\ (disp.pc = "launch" => Launched(state, disp.job, disp.now))'
      /\ (disp # Asleep =>
            \A j \in DueAt[disp.now] \ disp.todo : tried[j][disp.now] >= 1 \/ j = InService)'
  BY DEF ServeInv
<1> USE DispatchAssumption
<1>0. NoJob \notin Jobs
  BY NoSetContainsEverything DEF NoJob
<1>a. TypeInv'
  BY TypeStep
<1>b. faults \cap {"die", "launch"} = {} /\ disp.pc = "loop" =>
        /\ Launched(state, NoJob, 0)
        /\ \A j \in DueAt[disp.now] \ disp.todo : tried[j][disp.now] >= 1
  <2> SUFFICES ASSUME faults \cap {"die", "launch"} = {}, disp.pc = "loop"
               PROVE  /\ Launched(state, NoJob, 0)
                      /\ \A j \in DueAt[disp.now] \ disp.todo : tried[j][disp.now] >= 1
    OBVIOUS
  <2>1. disp # Asleep /\ InService = NoJob /\ disp.now \in Minutes
    BY Shape DEF InService, Asleep, Looping
  <2>2. DueAt[disp.now] \subseteq Jobs
    BY <2>1 DEF Minutes
  <2>3. QED
    BY <1>0, <2>1, <2>2 DEF ServeInv
<1>1. CASE Wake
  <2>1. disp' \in Looping /\ disp'.now = clock /\ disp'.todo = DueAt[clock]
    BY <1>1 DEF Wake, Looping, TypeInv, Minutes
  <2>2. QED
    BY <1>1, <2>1, <1>a, Shape DEF Wake, ServeInv, Launched, Looping, Asleep
<1>2. ASSUME NEW j \in Jobs, Look(j) PROVE ServeInv'
  <2>1. disp \in Looping /\ disp.now \in Minutes
    BY <1>2, LookNext DEF Looping
  <2>2. Launched(state, NoJob, 0) /\ \A k \in DueAt[disp.now] \ disp.todo : tried[k][disp.now] >= 1
    BY <1>2, <1>b DEF Look
  <2>3. CASE AlreadyClaimed(j)
    <3>1. tried[j][disp.now] >= 1
      BY <1>0, <2>1, <2>2, <2>3 DEF AlreadyClaimed, Launched, Minutes
    <3>2. disp' \in Looping /\ disp'.now = disp.now /\ disp'.todo = disp.todo \ {j}
      BY <1>2, <2>3, LookNext
    <3>3. disp'.pc = "loop"
      BY <3>2 DEF Looping
    <3>4. QED
      BY <1>2, <2>2, <3>1, <3>2, <3>3 DEF Look, ServeInv, Launched
  <2>4. CASE ~AlreadyClaimed(j)
    <3>1. /\ disp'.pc = "claim" /\ disp'.now = disp.now /\ disp'.todo = disp.todo \ {j}
          /\ disp'.job = j /\ disp'.next \in Pruned(ClaimedFor(j))
      BY <1>2, <2>4, LookNext
    <3>2. ClaimedFor(j) \in [Jobs -> 0..LastMinute]
      BY <2>1 DEF ClaimedFor, Minutes, TypeInv
    <3>3. \A k \in Jobs : disp'.next[k] \in {0, ClaimedFor(j)[k]}
      BY <3>1, <3>2, PrunedType
    <3>4. \A k \in Jobs : disp'.next[k] > 0 =>
            disp'.next[k] = IF k = j THEN disp.now ELSE state[k]
      BY <3>3 DEF ClaimedFor, TypeInv
    <3>5. \A k \in Jobs : disp'.next[k] > 0 =>
            tried[k][disp'.next[k]] >= 1 \/ (k = j /\ disp'.next[k] = disp.now)
      BY <1>0, <2>2, <3>4 DEF Launched
    <3>6. QED
      BY <1>2, <2>2, <3>1, <3>5 DEF Look, ServeInv, Launched, InService
  <2>5. QED
    BY <2>3, <2>4
<1>3. CASE Persist
  <2>1. /\ disp \in Serving /\ disp'.pc = "launch" /\ disp'.now = disp.now
        /\ disp'.todo = disp.todo /\ disp'.job = disp.job /\ disp.pc = "claim"
    BY <1>3, PersistNext DEF Persist
  <2>2. Launched(state, NoJob, 0) /\ Launched(disp.next, disp.job, disp.now)
    BY <1>3, <2>1 DEF Persist, ServeInv
  <2>3. Launched(state, disp.job, disp.now)
    BY <1>0, <2>2 DEF Launched
  <2>4. QED
    BY <1>3, <2>1, <2>2, <2>3, Shape DEF Persist, ServeInv, Launched, InService
<1>4. CASE Launch
  <2>1. /\ disp \in Serving /\ disp' \in Looping
        /\ disp'.now = disp.now /\ disp'.todo = disp.todo
        /\ \A j \in Jobs, m \in Minutes :
             tried'[j][m] = IF j = disp.job /\ m = disp.now THEN tried[j][m] + 1
                            ELSE tried[j][m]
        /\ faults' = faults
    BY <1>4, LaunchNext
  <2>2. disp.job \in Jobs /\ disp.now \in Minutes /\ disp.pc = "launch" /\ disp'.pc = "loop"
    BY <1>4, <2>1 DEF Serving, Looping, Launch
  <2>3. \A j \in Jobs, m \in Minutes :
          tried[j][m] \in Nat /\ (tried[j][m] >= 1 => tried'[j][m] >= 1)
    BY <2>1 DEF TypeInv
  <2>4. tried'[disp.job][disp.now] >= 1
    BY <2>1, <2>2, <2>3
  <2>5. Launched(state, disp.job, disp.now)
    BY <1>4, <2>1, <2>2 DEF ServeInv
  <2>6. \A j \in Jobs : state[j] > 0 => tried'[j][state[j]] >= 1
    BY <2>3, <2>4, <2>5 DEF Launched, TypeInv, Minutes
  <2>7. \A m \in done : \A j \in DueAt[m] : tried'[j][m] >= 1
    BY <2>1, <2>3 DEF ServeInv, TypeInv, Minutes
  <2>8. \A j \in DueAt[disp.now] \ disp.todo : tried'[j][disp.now] >= 1
    <3>1. disp # Asleep
      BY <2>2, Shape
    <3>2. \A j \in DueAt[disp.now] \ disp.todo : tried[j][disp.now] >= 1 \/ j = disp.job
      BY <2>1, <2>2, <3>1 DEF ServeInv, InService
    <3>3. DueAt[disp.now] \subseteq Jobs
      BY <2>2 DEF Minutes
    <3>4. QED
      BY <2>2, <2>3, <2>4, <3>2, <3>3
  <2>9. QED
    BY <1>4, <2>1, <2>2, <2>6, <2>7, <2>8 DEF Launch, Launched
<1>5. CASE Return
  <2>1. disp \in Looping /\ disp.now \in Minutes /\ disp.pc = "loop"
    BY <1>5, Shape DEF Return, Looping
  <2>2. \A j \in DueAt[disp.now] : tried[j][disp.now] >= 1
    BY <1>5, <1>b DEF Return
  <2>3. disp' = Asleep /\ disp'.pc = "asleep"
    BY <1>5 DEF Return, Asleep
  <2>4. QED
    BY <1>5, <2>1, <2>2, <2>3 DEF Return, ServeInv, Launched
<1>6. CASE Die
  BY <1>6 DEF Die
<1>7. CASE Corrupt
  BY <1>7, <1>0 DEF Corrupt, ServeInv, Launched, InService
<1>8. CASE Tick
  BY <1>8 DEF Tick, ServeInv, Launched, InService
<1>9. CASE UNCHANGED vars
  BY <1>9 DEF vars, ServeInv, Launched, InService
<1>10. QED
  BY <1>1, <1>2, <1>3, <1>4, <1>5, <1>6, <1>7, <1>8, <1>9 DEF Next, ServeInv

LEMMA ServeInit == Init => ServeInv
  BY DEF Init, ServeInv, Launched, Asleep

\* A dispatcher that served a minute to the end left no due job out, whatever
\* happened to the state file (claim, cron_dispatch.py:127-153), unless one
\* died or a launch failed; for every schedule and every bound of the file.
THEOREM ServedMinutesAreComplete == Spec => []ServedMinuteIsComplete
<1>1. TypeInv /\ ServeInv /\ [Next]_vars => TypeInv' /\ ServeInv'
  BY TypeStep, ServeStep
<1>2. ServeInv => ServedMinuteIsComplete
  BY DEF ServeInv, ServedMinuteIsComplete
<1>3. QED
  BY <1>1, <1>2, TypeInit, ServeInit, PTL DEF Spec
-----------------------------------------------------------------------------
(* OnceInv *)

Undamaged == faults \cap {"io", "corrupt"} = {}

\* The clauses of OnceInv, with the damage to the file put aside.
OnceAll ==
  /\ \A j \in Jobs, m \in Minutes : tried[j][m] <= 1 /\ (tried[j][m] >= 1 => m <= Newest)
  /\ Keeps(state)
  /\ disp # Asleep => disp.now <= clock /\ disp.todo \subseteq DueAt[disp.now]
  /\ disp.pc \in {"claim", "launch"} =>
       tried[disp.job][disp.now] = 0 /\ disp.job \in DueAt[disp.now]
  /\ disp.pc = "claim" => Keeps(disp.next) /\ disp.next[disp.job] = disp.now
  /\ disp.pc = "launch" => state[disp.job] = disp.now

\* When a later minute n becomes the newest, nothing was launched for it yet.
LEMMA OnceLater ==
  ASSUME TypeInv, OnceAll, NEW n \in Minutes, Newest <= n,
         NEW j \in Jobs
  PROVE  /\ state[j] <= n /\ (tried[j][n] >= 1 => state[j] = n)
         /\ \A m \in Minutes : tried[j][m] >= 1 => m <= n
<1>1. Newest \in Minutes
  BY Shape DEF Newest, TypeInv, Looping, Serving
<1>2. QED
  BY <1>1 DEF OnceAll, Keeps, TypeInv, Minutes

LEMMA OnceStep ==
  ASSUME RoomForAMinute, TypeInv, OnceInv, [Next]_vars
  PROVE  OnceInv'
<1> SUFFICES ASSUME Undamaged' PROVE OnceAll'
  BY DEF OnceInv, OnceAll, Undamaged
<1> USE DispatchAssumption
<1>a. TypeInv' /\ (Undamaged => OnceAll)
  BY TypeStep DEF OnceInv, OnceAll, Undamaged
<1>b. Newest \in Minutes
  BY Shape DEF Newest, TypeInv, Looping, Serving
<1>1. CASE Wake
  <2>1. disp' \in Looping /\ disp'.now = clock /\ disp'.todo = DueAt[clock] /\ disp'.pc = "loop"
    BY <1>1 DEF Wake, Looping, TypeInv, Minutes
  <2>2. Newest' = Newest
    BY <1>1, <2>1 DEF Wake, Newest, Looping, Asleep
  <2>3. OnceAll
    BY <1>1, <1>a DEF Wake, Undamaged
  <2>4. clock <= clock
    BY DEF TypeInv, Minutes
  <2>5. QED
    BY <1>1, <2>1, <2>2, <2>3, <2>4 DEF Wake, OnceAll, Keeps
<1>2. ASSUME NEW j \in Jobs, Look(j) PROVE OnceAll'
  <2>1. disp \in Looping /\ disp.now \in Minutes /\ j \in disp.todo /\ disp.pc = "loop"
    BY <1>2, LookNext DEF Looping
  <2>2. OnceAll /\ disp # Asleep /\ Newest = disp.now
    BY <1>2, <2>1, <1>a, Shape DEF Look, Undamaged, Newest, Asleep
  <2>3. CASE AlreadyClaimed(j)
    <3>1. disp' \in Looping /\ disp'.now = disp.now /\ disp'.todo = disp.todo \ {j}
      BY <1>2, <2>3, LookNext
    <3>2. disp'.pc = "loop" /\ disp' # Asleep
      BY <3>1 DEF Looping, Asleep
    <3>3. Newest' = Newest
      BY <2>2, <3>1, <3>2 DEF Newest
    <3>4. QED
      BY <1>2, <2>2, <3>1, <3>2, <3>3 DEF Look, OnceAll, Keeps
  <2>4. CASE ~AlreadyClaimed(j)
    <3>1. /\ disp' \in Serving /\ disp'.pc = "claim" /\ disp'.now = disp.now
          /\ disp'.todo = disp.todo \ {j} /\ disp'.job = j
          /\ disp'.next \in Pruned(ClaimedFor(j))
      BY <1>2, <2>4, LookNext
    <3>2. disp' # Asleep /\ Newest' = Newest /\ Newest = disp.now
      BY <2>2, <3>1 DEF Newest, Asleep
    <3>3. ClaimedFor(j) \in [Jobs -> 0..LastMinute]
      BY <2>1 DEF ClaimedFor, Minutes, TypeInv
    <3>4. \A k \in Jobs : ClaimedFor(j)[k] = IF k = j THEN disp.now ELSE state[k]
      BY DEF ClaimedFor, TypeInv
    <3>5. j \in DueAt[disp.now] /\ tried[j][disp.now] = 0
      <4>1. ~(tried[j][disp.now] >= 1)
        BY <2>2, <2>4 DEF OnceAll, Keeps, AlreadyClaimed
      <4>2. tried[j][disp.now] \in Nat
        BY <2>1 DEF TypeInv
      <4>3. QED
        BY <2>1, <2>2, <4>1, <4>2 DEF OnceAll
    <3>6. \A k \in Jobs : ClaimedFor(j)[k] <= disp.now
                          /\ (ClaimedFor(j)[k] > 0 => k \in DueAt[ClaimedFor(j)[k]])
      BY <2>1, <2>2, <3>4, <3>5 DEF OnceAll, Keeps, Minutes
    <3>7. \A k \in Jobs : disp'.next[k] \in {0, ClaimedFor(j)[k]}
      BY <3>1, <3>3, PrunedType
    <3>8. \A k \in Jobs : ClaimedFor(j)[k] = disp.now => disp'.next[k] = disp.now
      <4>1. \A k \in Jobs : ClaimedFor(j)[k] = disp.now => k \in DueAt[disp.now]
        BY <2>1, <3>6 DEF Minutes
      <4>2. Cardinality(DueAt[disp.now]) <= MaxEntries
        BY <2>1 DEF RoomForAMinute
      <4>3. QED
        BY <2>1, <3>1, <3>3, <3>6, <4>1, <4>2, PrunedKeepsNewest
    <3>9. \A k \in Jobs : tried[k][disp.now] >= 1 => ClaimedFor(j)[k] = disp.now
      BY <2>2, <3>4, <3>5 DEF OnceAll, Keeps
    <3>10. \A k \in Jobs : /\ disp'.next[k] <= disp.now
                           /\ disp'.next[k] > 0 => k \in DueAt[disp'.next[k]]
                           /\ tried[k][disp.now] >= 1 => disp'.next[k] = disp.now
      <4>1. 0 <= disp.now /\ ~(0 > 0)
        BY <2>1 DEF Minutes
      <4>2. QED
        BY <3>6, <3>7, <3>8, <3>9, <4>1
    <3>11. disp'.next[j] = disp.now
      BY <3>4, <3>8
    <3>12. Keeps(disp.next)'
      BY <1>2, <3>2, <3>10 DEF Look, Keeps
    <3>13. Keeps(state)'
      BY <1>2, <2>2, <3>2 DEF Look, OnceAll, Keeps
    <3>14. QED
      BY <1>2, <2>2, <3>1, <3>2, <3>5, <3>11, <3>12, <3>13 DEF Look, OnceAll
  <2>5. QED
    BY <2>3, <2>4
<1>3. CASE Persist
  <2>1. /\ disp \in Serving /\ disp' \in Serving /\ disp'.pc = "launch" /\ disp'.now = disp.now
        /\ disp'.todo = disp.todo /\ disp'.job = disp.job /\ disp.pc = "claim"
    BY <1>3, PersistNext DEF Persist
  <2>2. OnceAll /\ state' = disp.next
    BY <1>3, <1>a DEF Persist, Undamaged
  <2>3. disp # Asleep /\ disp' # Asleep /\ Newest' = Newest
    BY <2>1 DEF Newest, Asleep
  <2>4. Keeps(state)'
    BY <1>3, <2>1, <2>2, <2>3 DEF Persist, OnceAll, Keeps
  <2>5. QED
    BY <1>3, <2>1, <2>2, <2>3, <2>4 DEF Persist, OnceAll
<1>4. CASE Launch
  <2>1. /\ disp \in Serving /\ disp' \in Looping /\ disp.pc = "launch"
        /\ disp'.now = disp.now /\ disp'.todo = disp.todo
    BY <1>4, LaunchNext DEF Launch
  <2>2. /\ disp.job \in Jobs /\ disp.now \in Minutes /\ disp'.pc = "loop"
        /\ disp # Asleep /\ disp' # Asleep
    BY <2>1 DEF Serving, Looping, Asleep
  <2>3. OnceAll /\ Newest = disp.now /\ Newest' = Newest
    BY <1>4, <1>a, <2>1, <2>2 DEF Launch, Undamaged, Newest
  <2>4. tried[disp.job][disp.now] = 0 /\ state[disp.job] = disp.now
    BY <2>1, <2>3 DEF OnceAll
  <2>5. \A j \in Jobs, m \in Minutes :
          \/ tried'[j][m] = tried[j][m]
          \/ j = disp.job /\ m = disp.now /\ tried'[j][m] = 1
    <3>1. CASE tried' = tried
      BY <3>1
    <3>2. CASE \A j \in Jobs, m \in Minutes :
                 tried'[j][m] = IF j = disp.job /\ m = disp.now THEN tried[j][m] + 1
                                ELSE tried[j][m]
      BY <2>4, <3>2
    <3>3. QED
      BY <1>4, <3>1, <3>2, LaunchNext
  <2>6. \A j \in Jobs, m \in Minutes : tried'[j][m] <= 1 /\ (tried'[j][m] >= 1 => m <= Newest)
    <3>1. Newest <= Newest /\ 1 <= 1
      BY <2>2, <2>3 DEF Minutes
    <3>2. QED
      BY <2>3, <2>5, <3>1 DEF OnceAll
  <2>7. Keeps(state)'
    BY <1>4, <2>2, <2>3, <2>4, <2>5 DEF Launch, OnceAll, Keeps
  <2>8. QED
    BY <1>4, <2>1, <2>2, <2>3, <2>6, <2>7 DEF Launch, OnceAll
<1>5. ASSUME Return \/ Die \/ Tick PROVE OnceAll'
  <2>1. OnceAll /\ Newest' \in Minutes
    BY <1>5, <1>a, Shape DEF Return, Die, Tick, Undamaged, Newest, TypeInv, Looping, Serving
  <2>2. Newest <= Newest'
    <3>1. CASE Return \/ Die
      BY <2>1, <3>1, <1>b, Shape DEF Return, Die, Newest, OnceAll, TypeInv, Minutes, Looping
    <3>2. CASE Tick
      BY <3>2, <1>b DEF Tick, Newest, TypeInv, Minutes
    <3>3. QED
      BY <1>5, <3>1, <3>2
  <2>3. tried' = tried /\ state' = state
    BY <1>5 DEF Return, Die, Tick
  <2>4. \A j \in Jobs, m \in Minutes :
          tried'[j][m] <= 1 /\ (tried'[j][m] >= 1 => m <= Newest')
    BY <2>1, <2>2, <2>3, OnceLater DEF OnceAll
  <2>5. Keeps(state)'
    BY <2>1, <2>2, <2>3, OnceLater DEF Keeps, OnceAll
  <2>6. CASE Return \/ Die
    <3>1. disp' = Asleep /\ disp'.pc = "asleep"
      BY <2>6 DEF Return, Die, Asleep
    <3>2. QED
      BY <2>4, <2>5, <3>1 DEF OnceAll
  <2>7. CASE Tick
    <3>1. disp' = disp /\ (disp # Asleep => disp.now <= clock')
      BY <2>1, <2>7, Shape DEF Tick, OnceAll, TypeInv, Minutes, Looping, Serving
    <3>2. disp # Asleep => Newest' = Newest
      BY <3>1 DEF Newest
    <3>3. disp.pc = "claim" => Keeps(disp.next)'
      BY <2>1, <2>3, <3>1, <3>2, Shape DEF OnceAll, Keeps, Asleep
    <3>4. QED
      BY <2>1, <2>3, <2>4, <2>5, <3>1, <3>3 DEF OnceAll
  <2>8. QED
    BY <1>5, <2>6, <2>7
<1>6. CASE Corrupt
  BY <1>6 DEF Corrupt, Undamaged
<1>7. CASE UNCHANGED vars
  <2>1. OnceAll
    BY <1>7, <1>a DEF vars, Undamaged
  <2>2. QED
    BY <1>7, <2>1 DEF vars, OnceAll, Keeps, Newest
<1>8. QED
  BY <1>1, <1>2, <1>3, <1>4, <1>5, <1>6, <1>7 DEF Next

LEMMA OnceInit == Init => OnceInv
  BY DispatchAssumption DEF Init, OnceInv, Keeps, Newest, Asleep, Minutes

\* "In one minute a job is claimed only once": where the state file has room
\* for the jobs of one minute (MAX_STATE_ENTRIES, cron_dispatch.py:32), as it is
\* bounded by entries and not by age, no job is launched twice for a minute,
\* although the file forgets, dispatchers die and launches fail.
THEOREM LaunchedOncePerMinute == RoomForAMinute => (Spec => []OncePerMinute)
<1> SUFFICES ASSUME RoomForAMinute PROVE Spec => []OncePerMinute
  OBVIOUS
<1>1. TypeInv /\ OnceInv /\ [Next]_vars => TypeInv' /\ OnceInv'
  BY TypeStep, OnceStep
<1>2. OnceInv => OncePerMinute
  BY DEF OnceInv, OncePerMinute
<1>3. QED
  BY <1>1, <1>2, TypeInit, OnceInit, PTL DEF Spec
-----------------------------------------------------------------------------
(* The lease of the run                                                    *)
(*                                                                         *)
(* It excludes runs until one of them dies: as long as the TTL is no       *)
(* shorter than the time a live run keeps the lease, the directory's age   *)
(* never passes the TTL, so nobody ever gets to the rename.  LeaseInv ties *)
(* the age of the directory to the one run that is inside.  After a death  *)
(* two survivors may both find the lease stale, and the second takes away  *)
(* what the first has made; a single survivor has nobody to fear.          *)

\* The steps between which the directory names its run.
Named == {"working", "leaving", "removing"}

LeaseInv ==
  /\ \A p \in Runs : pc[p] \notin {"rename", "dead"}
  /\ \A p, q \in Runs : pc[p] \in Inside /\ pc[q] \in Inside => p = q
  /\ dir # NoDir => \E p \in Runs : pc[p] \in Inside
  /\ \A p \in Runs : pc[p] \in Inside =>
       /\ dir # NoDir /\ dir.age <= held[p]
       /\ dir.holder = IF pc[p] \in Named THEN p ELSE Nobody
-----------------------------------------------------------------------------
LEMMA AgainType ==
  ASSUME LeaseTypeOK, NEW p \in Runs, Again(p)
  PROVE  pc' \in [Runs -> Steps] /\ tries' \in [Runs -> 0..2]
         /\ \E s \in {"mkdir", "out"} : pc' = [pc EXCEPT ![p] = s]
  BY DEF LeaseTypeOK, Again, Goto, Steps

\* The directory, the runs' steps and their clocks keep their types.
THEOREM LeaseTypeCorrect == LeaseSpec => []LeaseTypeOK
<1>1. LeaseInit => LeaseTypeOK
  BY LeaseAssumption DEF LeaseInit, LeaseTypeOK, Steps
<1>2. LeaseTypeOK /\ [LeaseNext]_leaseVars => LeaseTypeOK'
  <2> SUFFICES ASSUME LeaseTypeOK, [LeaseNext]_leaseVars PROVE LeaseTypeOK'
    OBVIOUS
  <2> USE LeaseAssumption DEF LeaseTypeOK, Steps, Inside, Dirs, NoDir, Goto
  <2>1. ASSUME NEW p \in Runs, Ask(p) PROVE LeaseTypeOK'
    BY <2>1 DEF Ask
  <2>2. ASSUME NEW p \in Runs, MakeDir(p) PROVE LeaseTypeOK'
    BY <2>2 DEF MakeDir
  <2>3. ASSUME NEW p \in Runs, StatDir(p) PROVE LeaseTypeOK'
    BY <2>3, AgainType DEF StatDir
  <2>4. ASSUME NEW p \in Runs, TakeAway(p) PROVE LeaseTypeOK'
    BY <2>4, AgainType DEF TakeAway
  <2>5. ASSUME NEW p \in Runs, WriteHolder(p) PROVE LeaseTypeOK'
    BY <2>5 DEF WriteHolder
  <2>6. ASSUME NEW p \in Runs, Finish(p) \/ ReadHolder(p) \/ Empty(p) \/ RemoveDir(p) \/ Killed(p)
        PROVE  LeaseTypeOK'
    BY <2>6 DEF Finish, ReadHolder, Empty, RemoveDir, Killed
  <2>7. CASE TimePasses
    BY <2>7 DEF TimePasses
  <2>8. CASE UNCHANGED leaseVars
    BY <2>8 DEF leaseVars
  <2>9. QED
    BY <2>1, <2>2, <2>3, <2>4, <2>5, <2>6, <2>7, <2>8 DEF LeaseNext, Act
<1>3. QED
  BY <1>1, <1>2, PTL DEF LeaseSpec

\* Where MaxDead is 0 nobody dies.
LEMMA NobodyDies ==
  ASSUME MaxDead = 0, NEW p \in Runs
  PROVE  ~Killed(p)
<1>1. IsFiniteSet(Dead)
  BY LeaseAssumption, FS_Subset DEF Dead
<1>2. Cardinality(Dead) \in Nat
  BY <1>1, FS_CardinalityType
<1>3. QED
  BY <1>2 DEF Killed

\* LeaseInv is inductive where nobody dies and no run outlives the TTL.
LEMMA LeaseStep ==
  ASSUME MaxHold <= Ttl, LeaseTypeOK, LeaseInv, [LeaseNext]_leaseVars,
         \A p \in Runs : ~Killed(p)
  PROVE  LeaseInv'
<1> USE LeaseAssumption DEF LeaseTypeOK, LeaseInv, Inside, Named, Dirs, NoDir, Goto
<1>1. ASSUME NEW p \in Runs, Ask(p) PROVE LeaseInv'
  BY <1>1 DEF Ask
<1>2. ASSUME NEW p \in Runs, MakeDir(p) PROVE LeaseInv'
  <2>1. CASE dir = NoDir
    BY <1>2, <2>1 DEF MakeDir
  <2>2. CASE dir # NoDir
    BY <1>2, <2>2 DEF MakeDir
  <2>3. QED
    BY <2>1, <2>2
\* The one run inside made the directory no longer ago than MaxHold.
<1>3. ASSUME NEW p \in Runs, StatDir(p) PROVE LeaseInv'
  <2>1. dir # NoDir => dir.age <= Ttl
    OBVIOUS
  <2>2. CASE dir = NoDir
    <3>1. \E s \in {"mkdir", "out"} : pc' = [pc EXCEPT ![p] = s]
      BY <1>3, <2>2, AgainType DEF StatDir
    <3>2. QED
      BY <1>3, <3>1 DEF StatDir
  <2>3. CASE dir # NoDir
    BY <1>3, <2>1, <2>3 DEF StatDir, Stale
  <2>4. QED
    BY <2>2, <2>3
<1>4. ASSUME NEW p \in Runs, TakeAway(p) PROVE LeaseInv'
  BY <1>4 DEF TakeAway
<1>5. ASSUME NEW p \in Runs, WriteHolder(p) PROVE LeaseInv'
  <2>1. dir # NoDir /\ dir.holder = Nobody /\ dir.age <= held[p]
    BY <1>5 DEF WriteHolder
  <2>2. dir' = [holder |-> p, age |-> 0] /\ pc' = [pc EXCEPT ![p] = "working"] /\ held' = held
    BY <1>5, <2>1 DEF WriteHolder
  <2>3. QED
    BY <1>5, <2>1, <2>2 DEF WriteHolder
<1>6. ASSUME NEW p \in Runs, Finish(p) \/ ReadHolder(p) PROVE LeaseInv'
  BY <1>6 DEF Finish, ReadHolder
<1>7. ASSUME NEW p \in Runs, Empty(p) PROVE LeaseInv'
  BY <1>7 DEF Empty
<1>8. ASSUME NEW p \in Runs, RemoveDir(p) PROVE LeaseInv'
  BY <1>8 DEF RemoveDir
<1>9. ASSUME NEW p \in Runs, Killed(p) PROVE LeaseInv'
  BY <1>9
<1>10. CASE TimePasses
  <2>1. CASE dir = NoDir
    BY <1>10, <2>1 DEF TimePasses
  <2>2. CASE dir # NoDir
    <3>1. PICK q \in Runs : pc[q] \in Inside
      BY <2>2
    <3>2. dir.age <= Ttl /\ dir.age <= held[q]
      BY <3>1
    <3>3. dir' = [holder |-> dir.holder, age |-> dir.age + 1]
      BY <1>10, <2>2, <3>2 DEF TimePasses
    <3>4. QED
      BY <1>10, <2>2, <3>1, <3>2, <3>3 DEF TimePasses
  <2>3. QED
    BY <2>1, <2>2
<1>11. CASE UNCHANGED leaseVars
  BY <1>11 DEF leaseVars
<1>12. QED
  BY <1>1, <1>2, <1>3, <1>4, <1>5, <1>6, <1>7, <1>8, <1>9, <1>10, <1>11 DEF LeaseNext, Act

\* As long as nobody dies and no live run outlives the TTL, two runs of a job
\* never work at the same time.
THEOREM LiveRunsExclude ==
  ASSUME MaxDead = 0, MaxHold <= Ttl
  PROVE  LeaseSpec => []MutualExclusion
<1>1. LeaseInit => LeaseInv
  BY DEF LeaseInit, LeaseInv, Inside, NoDir
<1>2. LeaseTypeOK /\ LeaseInv /\ [LeaseNext]_leaseVars => LeaseInv'
  BY LeaseStep, NobodyDies
<1>3. LeaseInv => MutualExclusion
  BY DEF LeaseInv, MutualExclusion, Inside
<1>4. QED
  BY <1>1, <1>2, <1>3, LeaseTypeCorrect, PTL DEF LeaseSpec

\* And none of them loses its lease while it works.
THEOREM LiveRunsKeepTheirLease ==
  ASSUME MaxDead = 0, MaxHold <= Ttl
  PROVE  LeaseSpec => []LeaseIsMine
<1>1. LeaseInit => LeaseInv
  BY DEF LeaseInit, LeaseInv, Inside, NoDir
<1>2. LeaseTypeOK /\ LeaseInv /\ [LeaseNext]_leaseVars => LeaseInv'
  BY LeaseStep, NobodyDies
<1>3. LeaseInv => LeaseIsMine
  BY DEF LeaseInv, LeaseIsMine, Inside, Named
<1>4. QED
  BY <1>1, <1>2, <1>3, LeaseTypeCorrect, PTL DEF LeaseSpec

\* Up to the first death as LeaseInv says; afterwards one of two runs is left,
\* and what it works under is its own.
SurvivorInv ==
  /\ (\A p \in Runs : pc[p] # "dead") => LeaseInv
  /\ LeaseIsMine

LEMMA SurvivorStep ==
  ASSUME MaxHold <= Ttl, NEW a, NEW b, Runs = {a, b},
         LeaseTypeOK, SurvivorInv, [LeaseNext]_leaseVars
  PROVE  SurvivorInv'
<1>1. \A p \in Runs : pc[p] = "dead" => pc'[p] = "dead"
  <2>1. ASSUME NEW p \in Runs, NEW q \in Runs, Ask(q) \/ Act(q) \/ Killed(q), pc[p] = "dead"
        PROVE  pc'[p] = "dead"
    BY <2>1 DEF Ask, Act, MakeDir, StatDir, TakeAway, WriteHolder, Finish, ReadHolder, Empty,
                RemoveDir, Killed, Again, Goto, LeaseTypeOK
  <2>2. QED
    BY <2>1 DEF LeaseNext, TimePasses, leaseVars
<1>2. CASE \A p \in Runs : pc'[p] # "dead"
  <2>1. LeaseInv
    BY <1>1, <1>2 DEF SurvivorInv
  <2>2. \A p \in Runs : ~Killed(p)
    BY <1>2 DEF Killed, Goto, LeaseTypeOK
  <2>3. LeaseInv'
    BY <2>1, <2>2, LeaseStep
  <2>4. LeaseIsMine'
    BY <2>3 DEF LeaseInv, LeaseIsMine, Inside, Named
  <2>5. QED
    BY <2>3, <2>4 DEF SurvivorInv
<1>3. CASE \E p \in Runs : pc'[p] = "dead"
  <2>1. PICK z \in Runs : pc'[z] = "dead"
    BY <1>3
  <2>2. ASSUME NEW p \in Runs, pc'[p] = "working" PROVE dir'.holder = p
    <3>1. p # z /\ \A q \in Runs : q = p \/ q = z
      BY <2>1, <2>2
    <3>2. pc[p] = "working" => dir.holder = p
      BY DEF SurvivorInv, LeaseIsMine
    <3>3. ASSUME NEW q \in Runs, Ask(q) \/ Killed(q) PROVE dir'.holder = p
      BY <2>2, <3>2, <3>3 DEF Ask, Killed, Goto, LeaseTypeOK
    <3>4. ~Act(z)
      BY <2>1 DEF Act, MakeDir, StatDir, TakeAway, WriteHolder, Finish, ReadHolder, Empty,
                  RemoveDir, Again, Goto, LeaseTypeOK
    <3>5. ASSUME Act(p) PROVE dir'.holder = p
      BY <2>2, <3>5 DEF Act, MakeDir, StatDir, TakeAway, WriteHolder, Finish, ReadHolder, Empty,
                  RemoveDir, Again, Goto, LeaseTypeOK
    <3>6. CASE TimePasses
      <4>1. dir.holder = p
        BY <2>2, <3>2, <3>6 DEF TimePasses
      <4>2. dir \in Dirs /\ dir # NoDir
        BY <4>1, LeaseAssumption DEF NoDir, LeaseTypeOK
      <4>3. QED
        BY <3>6, <4>1, <4>2 DEF TimePasses, Dirs
    <3>7. CASE UNCHANGED leaseVars
      BY <2>2, <3>2, <3>7 DEF leaseVars
    <3>8. QED
      BY <3>1, <3>3, <3>4, <3>5, <3>6, <3>7 DEF LeaseNext
  <2>3. QED
    BY <1>3, <2>2 DEF SurvivorInv, LeaseIsMine
<1>4. QED
  BY <1>2, <1>3

\* Two runs of a job never work at the same time, whichever of them dies and
\* wherever: the survivor takes the lease over from the dead, and nobody takes
\* it from the survivor.  (With a third run this is false: lease_takeover.)
THEOREM TwoRunsExclude ==
  ASSUME MaxHold <= Ttl, NEW a, NEW b, Runs = {a, b}
  PROVE  LeaseSpec => []MutualExclusion /\ []LeaseIsMine
<1>1. LeaseInit => SurvivorInv
  BY DEF LeaseInit, LeaseInv, SurvivorInv, LeaseIsMine, Inside, NoDir
<1>2. LeaseTypeOK /\ SurvivorInv /\ [LeaseNext]_leaseVars => SurvivorInv'
  BY SurvivorStep
<1>3. SurvivorInv => MutualExclusion /\ LeaseIsMine
  BY DEF SurvivorInv, MutualExclusion, LeaseIsMine
<1>4. QED
  BY <1>1, <1>2, <1>3, LeaseTypeCorrect, PTL DEF LeaseSpec
=============================================================================
