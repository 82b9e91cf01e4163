------------------------ MODULE MonitorRegistry_proofs ------------------------
(***************************************************************************)
(* Proofs about the monitor registry, for any number of monitors, of       *)
(* processes and of events, where nobody outlives a process that dies in   *)
(* its mutation, loads during a mutation, or acts during a sweep.          *)
(*                                                                         *)
(* RegInv says how far the registry file and the checkpoint lag behind the *)
(* ledger at each step of a mutation; everything else follows from it and  *)
(* from what one more event does to a replay.                              *)
(***************************************************************************)
EXTENDS MonitorRegistry, WellFoundedInduction, TLAPS

\* The surroundings the proofs are about; the others break the registry.
Gentle ==
  \A e \in Envs : /\ "load" \notin e /\ "race" \notin e
                  /\ "death" \in e => "warm" \notin e /\ "sweep" \notin e

Records == Entries \cup {NoEntry}

Sweeps == [at : {"sweeping"}, todo : SUBSET Monitors, status : {"inactive", "closed"}]

Commits == [at : {"appended", "projected"}, m : Monitors, entry : Entries,
            cause : Causes, next : {Idle} \cup Sweeps]

Loads == [at : {"loading"}, from : Nat, upto : Nat]

RegTypeInv ==
  /\ env \in Envs
  /\ log \in Seq([id : Monitors, entry : Entries])
  /\ registry \in [Monitors -> Records]
  /\ checkpoint \in 0..Len(log)
  /\ verified \in [Procs -> BOOLEAN]
  /\ turn \in [Procs -> {Idle} \cup Sweeps \cup Commits \cup Loads]
-----------------------------------------------------------------------------
(* Replaying *)

LEMMA IntervalMax ==
  ASSUME NEW u \in Nat, NEW S \in SUBSET (0..u), S # {}
  PROVE  \E n \in S : \A m \in S : m <= n
<1> DEFINE R == {ss \in Nat \X Nat : ss[1] < ss[2]}
           T == {k \in 0..u : u - k \in S}
<1>1. IsWellFoundedOn(R, Nat)
  BY NatLessThanWellFounded DEF OpToRel
<1>2. T \subseteq Nat /\ T # {}
  <2>1. PICK s \in S : TRUE
    OBVIOUS
  <2>2. u - s \in 0..u /\ u - (u - s) = s
    BY <2>1
  <2>3. QED
    BY <2>1, <2>2
<1>3. PICK t \in T : \A y \in T : ~(<<y, t>> \in R)
  <2> HIDE DEF R, T
  <2>1. QED
    BY <1>1, <1>2, WFMin
<1>4. \A y \in T : t <= y
  <2>1. ASSUME NEW y \in T PROVE t <= y
    <3>1. y \in Nat /\ t \in Nat
      BY <1>2
    <3>2. ~(y < t)
      <4>1. y < t => <<y, t>> \in R
        BY <3>1
      <4>2. QED
        BY <1>3, <4>1
    <3>3. QED
      BY <3>1, <3>2
  <2>2. QED
    BY <2>1
<1>5. u - t \in S /\ \A m \in S : m <= u - t
  <2>1. ASSUME NEW m \in S PROVE m <= u - t
    <3>1. u - m \in T
      <4>1. m \in 0..u /\ u - m \in 0..u /\ u - (u - m) = m
        OBVIOUS
      <4>2. QED
        BY <4>1
    <3>2. t <= u - m
      BY <3>1, <1>4
    <3>3. QED
      BY <3>2
  <2>2. QED
    BY <2>1
<1>6. QED
  BY <1>5

LEMMA LastSaidIsLast ==
  ASSUME NEW m, NEW from \in Nat, NEW upto \in Nat, Said(m, from, upto) # {}
  PROVE  /\ LastSaid(m, from, upto) \in Said(m, from, upto)
         /\ \A j \in Said(m, from, upto) : j <= LastSaid(m, from, upto)
<1>1. Said(m, from, upto) \in SUBSET (0..upto)
  BY DEF Said
<1>2. \E i \in Said(m, from, upto) : \A j \in Said(m, from, upto) : j <= i
  BY <1>1, IntervalMax
<1>3. QED
  BY <1>2 DEF LastSaid

\* It is the only place with that property.
LEMMA LastSaidIs ==
  ASSUME NEW m, NEW from \in Nat, NEW upto \in Nat,
         NEW i \in Said(m, from, upto), \A j \in Said(m, from, upto) : j <= i
  PROVE  LastSaid(m, from, upto) = i
<1>1. LastSaid(m, from, upto) \in Said(m, from, upto) /\ i <= LastSaid(m, from, upto)
  BY LastSaidIsLast
<1>2. Said(m, from, upto) \subseteq Int
  BY DEF Said
<1>3. QED
  BY <1>1, <1>2

LEMMA ReplayedType ==
  ASSUME RegTypeInv, NEW r \in [Monitors -> Records],
         NEW from \in Nat, NEW upto \in 0..Len(log)
  PROVE  Replayed(r, from, upto) \in [Monitors -> Records]
<1> SUFFICES ASSUME NEW m \in Monitors, Said(m, from, upto) # {}
             PROVE  log[LastSaid(m, from, upto)].entry \in Entries
  BY DEF Replayed, Records
<1>0. log \in Seq([id : Monitors, entry : Entries]) /\ upto \in Nat
  BY DEF RegTypeInv
<1>1. LastSaid(m, from, upto) \in Said(m, from, upto)
  BY <1>0, LastSaidIsLast
<1>2. LastSaid(m, from, upto) \in 1..Len(log)
  BY <1>0, <1>1 DEF Said
<1>3. log[LastSaid(m, from, upto)] \in [id : Monitors, entry : Entries]
  <2>1. \A S, s, i : s \in Seq(S) /\ i \in 1..Len(s) => s[i] \in S
    OBVIOUS
  <2>2. QED
    BY <1>0, <1>2, <2>1
<1>4. QED
  BY <1>3

LEMMA TruthType ==
  ASSUME RegTypeInv
  PROVE  Truth \in [Monitors -> Records]
<1>1. Empty \in [Monitors -> Records]
  BY DEF Empty, Records
<1>2. QED
  BY <1>1, ReplayedType DEF Truth, RegTypeInv

\* Nothing to replay.
LEMMA ReplayNone ==
  ASSUME RegTypeInv, NEW r \in [Monitors -> Records]
  PROVE  Replayed(r, Len(log), Len(log)) = r
<1>1. \A m \in Monitors : Said(m, Len(log), Len(log)) = {}
  BY DEF Said, RegTypeInv
<1>2. QED
  BY <1>1 DEF Replayed

\* One event to replay.
LEMMA ReplayOne ==
  ASSUME RegTypeInv, NEW r \in [Monitors -> Records], Len(log) > 0
  PROVE  Replayed(r, Len(log) - 1, Len(log))
           = [r EXCEPT ![log[Len(log)].id] = log[Len(log)].entry]
<1>0. PICK n \in Nat : n = Len(log)
  BY DEF RegTypeInv
<1>1. n - 1 \in Nat
  BY <1>0
<1>2. \A m : Said(m, n - 1, n) = IF log[n].id = m THEN {n} ELSE {}
  BY <1>1 DEF Said
<1>3. LastSaid(log[n].id, n - 1, n) = n
  <2>1. n \in Said(log[n].id, n - 1, n) /\ \A j \in Said(log[n].id, n - 1, n) : j <= n
    BY <1>2
  <2>2. QED
    BY <1>1, <2>1, LastSaidIs
<1>4. QED
  BY <1>0, <1>2, <1>3 DEF Replayed

\* What one more event does to what the ledger says.
LEMMA TruthOfAppend ==
  ASSUME RegTypeInv, NEW m \in Monitors, NEW e \in Entries,
         log' = Append(log, [id |-> m, entry |-> e])
  PROVE  Truth' = [Truth EXCEPT ![m] = e]
<1>0. PICK n \in Nat : n = Len(log)
  BY DEF RegTypeInv
<1>1. /\ Len(log') = n + 1 /\ log'[n + 1] = [id |-> m, entry |-> e]
      /\ \A i \in 1..n : log'[i] = log[i]
  BY <1>0 DEF RegTypeInv
<1>2. ASSUME NEW x \in Monitors
      PROVE  Truth'[x] = IF x = m THEN e ELSE Truth[x]
  <2>1. CASE x = m
    <3>1. n + 1 \in Said(m, 0, n + 1)' /\ \A j \in Said(m, 0, n + 1)' : j <= n + 1
      BY <1>1 DEF Said
    <3>2. LastSaid(m, 0, n + 1)' = n + 1
      <4> DEFINE S == Said(m, 0, n + 1)'
      <4>1. LastSaid(m, 0, n + 1)' = CHOOSE i \in S : \A j \in S : j <= i
        BY DEF LastSaid
      <4>2. \A i \in S : (\A j \in S : j <= i) => i = n + 1
        BY <1>1, <3>1 DEF Said
      <4>3. QED
        BY <3>1, <4>1, <4>2
    <3>3. QED
      BY <1>0, <1>1, <2>1, <3>1, <3>2 DEF Truth, Replayed, Empty
  <2>2. CASE x # m
    <3>1. Said(x, 0, n + 1)' = Said(x, 0, n)
      BY <1>1, <2>2 DEF Said
    <3>2. LastSaid(x, 0, n + 1)' = LastSaid(x, 0, n)
      BY <3>1 DEF LastSaid
    <3>3. Said(x, 0, n) # {} => log'[LastSaid(x, 0, n)] = log[LastSaid(x, 0, n)]
      <4> SUFFICES ASSUME Said(x, 0, n) # {}
                   PROVE  log'[LastSaid(x, 0, n)] = log[LastSaid(x, 0, n)]
        OBVIOUS
      <4>1. LastSaid(x, 0, n) \in Said(x, 0, n)
        BY <1>1, LastSaidIsLast
      <4>2. QED
        BY <1>1, <4>1 DEF Said
    <3>4. QED
      BY <1>0, <1>1, <2>2, <3>1, <3>2, <3>3 DEF Truth, Replayed, Empty
  <2>3. QED
    BY <2>1, <2>2
<1>3. Truth' \in [Monitors -> {Truth'[x] : x \in Monitors}]
  BY DEF Truth, Replayed
<1>4. QED
  BY <1>2, <1>3, TruthType
-----------------------------------------------------------------------------
(* The invariant *)

\* The registry file shows the whole ledger and the checkpoint says so.
Current == registry = Truth /\ checkpoint = Len(log)

\* A mutation under way is one event ahead of the checkpoint, and until it is
\* projected also of the registry file.
OneAhead(p) ==
  /\ Len(log) > 0 /\ checkpoint = Len(log) - 1
  /\ log[Len(log)] = [id |-> turn[p].m, entry |-> turn[p].entry]
  /\ Truth = IF turn[p].at = "appended" THEN [registry EXCEPT ![turn[p].m] = turn[p].entry]
             ELSE registry
  /\ Truth[turn[p].m] = turn[p].entry

\* The locks: one mutation at a time, and here no load beside it.
Locks ==
  /\ \A p, q \in Committing : p = q
  /\ \A p, q \in Loading : p = q
  /\ Committing = {} \/ Loading = {}

\* Where processes die, none knows the registry beyond its mutation.
Forgetful ==
  "death" \in env =>
    /\ Sweeping = {}
    /\ \A p \in Committing : turn[p].next = Idle
    /\ \A p \in Procs : verified[p] => p \in Committing

RegInv ==
  /\ RegTypeInv /\ Locks /\ Forgetful
  /\ RegistryRecoverable
  /\ Committing = {} => \A p \in Procs : verified[p] => Current
  /\ \A p \in Committing : OneAhead(p)
  /\ \A p \in Loading : turn[p].from = checkpoint /\ turn[p].upto = Len(log)

LEMMA TurnShape ==
  ASSUME RegTypeInv, NEW p \in Procs
  PROVE  /\ turn[p].at = "idle" <=> turn[p] = Idle
         /\ p \in Sweeping <=> turn[p] \in Sweeps
         /\ p \in Committing <=> turn[p] \in Commits
         /\ p \in Loading <=> turn[p] \in Loads
         /\ turn[p].at \in {"idle", "sweeping", "appended", "projected", "loading"}
<1>1. turn[p] \in {Idle} \cup Sweeps \cup Commits \cup Loads
  BY DEF RegTypeInv
<1>2. /\ Idle.at = "idle" /\ \A x \in Sweeps : x.at = "sweeping"
      /\ \A x \in Commits : x.at \in {"appended", "projected"}
      /\ \A x \in Loads : x.at = "loading"
  BY DEF Idle, Sweeps, Commits, Loads
<1>3. QED
  BY <1>1, <1>2 DEF Sweeping, Committing, Loading

\* While nobody is in a mutation, what a process recovers is the truth.
LEMMA RecoveredIsTruth ==
  ASSUME RegInv, NEW p \in Procs, Committing = {}
  PROVE  Recovered(p) = Truth /\ RecoveredCheckpoint(p) = Len(log)
  BY DEF RegInv, Recovered, RecoveredCheckpoint, RegistryRecoverable, Current, RegTypeInv

\* A registry that shows the truth at the end of the log can be recovered.
LEMMA CurrentIsRecoverable ==
  ASSUME RegTypeInv, Current
  PROVE  RegistryRecoverable
  BY ReplayNone, TruthType DEF Current, RegistryRecoverable

\* So can one that is one event behind.
LEMMA OneAheadIsRecoverable ==
  ASSUME RegTypeInv, NEW p \in Procs, OneAhead(p)
  PROVE  RegistryRecoverable
<1>1. registry \in [Monitors -> Records] /\ Truth \in [Monitors -> Records]
  BY TruthType DEF RegTypeInv
<1>2. Replayed(registry, checkpoint, Len(log)) = [registry EXCEPT ![turn[p].m] = turn[p].entry]
  <2>1. /\ Len(log) > 0 /\ checkpoint = Len(log) - 1
        /\ log[Len(log)].id = turn[p].m /\ log[Len(log)].entry = turn[p].entry
    BY DEF OneAhead
  <2>2. QED
    BY <1>1, <2>1, ReplayOne
<1>3. [registry EXCEPT ![turn[p].m] = turn[p].entry] = Truth
  BY <1>1 DEF OneAhead
<1>4. QED
  BY <1>2, <1>3 DEF RegistryRecoverable

\* Replays do not depend on anything but the log.
LEMMA SameTruth ==
  ASSUME log' = log
  PROVE  Truth' = Truth
  BY DEF Truth, Replayed, Said, LastSaid, Empty

LEMMA SameRegistry ==
  ASSUME log' = log, registry' = registry, checkpoint' = checkpoint, RegistryRecoverable
  PROVE  RegistryRecoverable'
<1> DEFINE said(m) == Said(m, checkpoint, Len(log))
           lastSaid(m) == LastSaid(m, checkpoint, Len(log))
<1>1. \A m : said(m)' = said(m)
  BY DEF Said
<1>2. \A m : lastSaid(m)' = lastSaid(m)
  BY <1>1 DEF LastSaid
<1>3. Replayed(registry, checkpoint, Len(log))' = Replayed(registry, checkpoint, Len(log))
  BY <1>1, <1>2 DEF Replayed
<1>4. QED
  BY <1>3, SameTruth DEF RegistryRecoverable

LEMMA EntryTypes ==
  ASSUME NEW old \in Records
  PROVE  /\ \A s \in Sources : Activated(old, s) \in Entries
         /\ \A manual \in BOOLEAN, s \in {"inactive", "closed", "cancelled"} :
              Cancelled(old, manual, s) \in Entries
<1>1. old \in [status : {"active", "inactive", "closed", "cancelled", "none"},
               source : Sources \cup {"none"}, tomb : BOOLEAN, linked : BOOLEAN]
  <2>1. CASE old \in Entries
    BY <2>1 DEF Entries
  <2>2. CASE old = NoEntry
    BY <2>2 DEF NoEntry
  <2>3. QED
    BY <2>1, <2>2 DEF Records
<1>2. QED
  BY <1>1 DEF Activated, Cancelled, Entries
-----------------------------------------------------------------------------
LEMMA AppendKeeps ==
  ASSUME Gentle, RegInv, NEW p \in Procs, NEW m \in Monitors, NEW entry \in Entries,
         NEW cause \in Causes, Free(p), AppendEvent(p, m, entry, cause)
  PROVE  RegInv' /\ Truth' = [Truth EXCEPT ![m] = entry]
<1> DEFINE rest == Rest(turn[p], m)
           mine == [at |-> "appended", m |-> m, entry |-> entry, cause |-> cause, next |-> rest]
<1>1. /\ RegTypeInv /\ Committing = {} /\ Loading = {}
      /\ Recovered(p) = Truth /\ RecoveredCheckpoint(p) = Len(log)
      /\ Truth \in [Monitors -> Records]
  BY RecoveredIsTruth, TruthType DEF RegInv, Free, Gentle, RegTypeInv
<1>2. /\ registry' = Truth /\ checkpoint' = Len(log) /\ env' = env
      /\ log' = Append(log, [id |-> m, entry |-> entry])
      /\ verified' = [verified EXCEPT ![p] = TRUE]
      /\ turn' = [turn EXCEPT ![p] = mine]
  BY <1>1 DEF AppendEvent
<1>3. Truth' = [Truth EXCEPT ![m] = entry]
  BY <1>1, <1>2, TruthOfAppend
<1>4. rest \in {Idle} \cup Sweeps
  BY <1>1, TurnShape DEF Free, Sweeping, Sweeps, Rest
<1>5. mine \in Commits
  BY <1>4 DEF Commits
<1>6. /\ Len(log) \in Nat /\ Len(log') = Len(log) + 1
      /\ log'[Len(log')] = [id |-> m, entry |-> entry]
      /\ log' \in Seq([id : Monitors, entry : Entries])
  BY <1>1, <1>2 DEF RegTypeInv
<1>7. RegTypeInv'
  BY <1>1, <1>2, <1>5, <1>6 DEF RegTypeInv
<1>8. turn'[p] = mine /\ \A q \in Procs : q # p => turn'[q] = turn[q]
  BY <1>1, <1>2 DEF RegTypeInv
<1>9. Committing' = {p} /\ Loading' = {} /\ Sweeping' \subseteq Sweeping
  BY <1>1, <1>8 DEF Committing, Loading, Sweeping
<1>10. OneAhead(p)'
  <2>1. turn'[p].m = m /\ turn'[p].entry = entry /\ turn'[p].at = "appended"
    BY <1>8
  <2>2. Len(log') > 0 /\ checkpoint' = Len(log') - 1
    BY <1>2, <1>6
  <2>3. Truth' = [registry' EXCEPT ![m] = entry] /\ Truth'[m] = entry
    BY <1>1, <1>2, <1>3
  <2>4. QED
    BY <1>6, <2>1, <2>2, <2>3 DEF OneAhead
<1>11. RegistryRecoverable'
  <2>1. registry' \in [Monitors -> Records] /\ RegTypeInv'
    BY <1>1, <1>2, <1>7
  <2>2. QED
    BY <1>7, <1>10, OneAheadIsRecoverable, PTL
<1>12. Forgetful'
  <2> SUFFICES ASSUME "death" \in env
               PROVE  rest = Idle /\ Sweeping' = {} /\ \A q \in Procs : verified'[q] => q = p
    BY <1>2, <1>8, <1>9 DEF Forgetful
  <2>1. Sweeping = {} /\ \A q \in Procs : ~verified[q]
    BY <1>1 DEF RegInv, Forgetful
  <2>2. turn[p].at = "idle"
    BY <2>1 DEF Free, Sweeping
  <2>3. QED
    BY <1>1, <1>2, <1>9, <2>1, <2>2 DEF RegTypeInv, Rest
<1>13. QED
  BY <1>3, <1>7, <1>9, <1>10, <1>11, <1>12 DEF RegInv, Locks

\* A process that only recovers, between the mutations of others.
LEMMA RecoveryKeeps ==
  ASSUME RegInv, NEW p \in Procs, Committing = {}, Loading = {},
         NEW known \in BOOLEAN, "death" \in env => ~known,
         registry' = Recovered(p), checkpoint' = RecoveredCheckpoint(p),
         verified' = [verified EXCEPT ![p] = known],
         env' = env, log' = log, turn' \in [Procs -> {Idle} \cup Sweeps \cup Commits \cup Loads],
         Committing' = {}, Loading' = {}, "death" \in env => Sweeping' = {}
  PROVE  RegInv'
<1>1. RegTypeInv /\ Truth \in [Monitors -> Records] /\ Truth' = Truth
  BY TruthType, SameTruth DEF RegInv
<1>2. registry' = Truth /\ checkpoint' = Len(log)
  BY RecoveredIsTruth
<1>3. RegTypeInv'
  BY <1>1, <1>2 DEF RegTypeInv
<1>4. Current'
  BY <1>1, <1>2 DEF Current
<1>5. RegistryRecoverable'
  BY <1>3, <1>4, CurrentIsRecoverable, PTL
<1>6. Forgetful'
  <2>1. "death" \in env => \A q \in Procs : ~verified'[q]
    BY <1>1 DEF RegInv, Forgetful, RegTypeInv
  <2>2. QED
    BY <2>1 DEF Forgetful
<1>7. QED
  BY <1>3, <1>4, <1>5, <1>6 DEF RegInv, Locks

LEMMA RefusedKeeps ==
  ASSUME Gentle, RegInv, NEW p \in Procs, Refused(p)
  PROVE  RegInv'
<1>1. Committing = {} /\ Loading = {} /\ RegTypeInv
  BY DEF RegInv, Free, Gentle, RegTypeInv, Refused
<1>2. turn' = turn /\ Committing' = {} /\ Loading' = {} /\ Sweeping' = Sweeping
  BY <1>1 DEF Refused, Committing, Loading, Sweeping
<1>3. "death" \in env => Sweeping' = {} /\ ~("warm" \in env)
  BY <1>1, <1>2 DEF RegInv, Forgetful, Gentle, RegTypeInv
<1>4. ("warm" \in env /\ Consistent(p)) \in BOOLEAN
  BY DEF Consistent, Matches
<1>5. QED
  BY <1>1, <1>2, <1>3, <1>4, RecoveryKeeps DEF Refused, RegTypeInv

LEMMA SweepReadKeeps ==
  ASSUME Gentle, RegInv, NEW p \in Procs, SweepRead(p)
  PROVE  RegInv'
<1>1. Committing = {} /\ Loading = {} /\ RegTypeInv /\ "death" \notin env
  BY DEF RegInv, Free, Gentle, RegTypeInv, SweepRead
<1>2. PICK status \in {"inactive", "closed"} :
        \E todo \in SUBSET Sweepable(Recovered(p), status) :
          turn' = [turn EXCEPT ![p] = [at |-> "sweeping", todo |-> todo, status |-> status]]
  BY DEF SweepRead
<1>a. PICK todo \in SUBSET Sweepable(Recovered(p), status) :
        turn' = [turn EXCEPT ![p] = [at |-> "sweeping", todo |-> todo, status |-> status]]
  BY <1>2
<1>3. [at |-> "sweeping", todo |-> todo, status |-> status] \in Sweeps
  BY DEF Sweeps, Sweepable
<1>4. turn' \in [Procs -> {Idle} \cup Sweeps \cup Commits \cup Loads]
  BY <1>1, <1>a, <1>3 DEF RegTypeInv
<1>5. Committing' = {} /\ Loading' = {}
  BY <1>1, <1>a DEF Committing, Loading, RegTypeInv
<1>6. QED
  BY <1>1, <1>4, <1>5, RecoveryKeeps DEF SweepRead, RegTypeInv

LEMMA ProjectKeeps ==
  ASSUME RegInv, NEW p \in Procs, Project(p)
  PROVE  RegInv'
<1>1. RegTypeInv /\ OneAhead(p) /\ Committing = {p} /\ Loading = {} /\ turn[p] \in Commits
  <2>1. p \in Committing
    BY DEF Project, Committing
  <2>2. QED
    BY <2>1, TurnShape DEF RegInv, Locks
<1>2. turn'[p] \in Commits /\ turn'[p].at = "projected" /\ turn'[p].m = turn[p].m
      /\ turn'[p].entry = turn[p].entry /\ turn'[p].next = turn[p].next
      /\ \A q \in Procs : q # p => turn'[q] = turn[q]
  BY <1>1 DEF Project, RegTypeInv, Commits
<1>3. turn[p].m \in Monitors /\ turn[p].entry \in Records
  BY <1>1 DEF Commits, Records
<1>4. registry' = [registry EXCEPT ![turn[p].m] = turn[p].entry]
      /\ registry' \in [Monitors -> Records]
  BY <1>1, <1>3 DEF Project, RegTypeInv
<1>5. RegTypeInv'
  BY <1>1, <1>2, <1>4 DEF Project, RegTypeInv
<1>6. Truth' = Truth
  BY SameTruth DEF Project
<1>7. OneAhead(p)'
  BY <1>1, <1>2, <1>4, <1>6 DEF OneAhead, Project
<1>8. RegistryRecoverable'
  BY <1>5, <1>7, OneAheadIsRecoverable, PTL
<1>9. Committing' = Committing /\ Loading' = Loading /\ Sweeping' = Sweeping
  BY <1>1, <1>2 DEF Committing, Loading, Sweeping, Project
<1>10. Forgetful'
  BY <1>1, <1>2, <1>9 DEF RegInv, Forgetful, Project
<1>11. QED
  BY <1>1, <1>5, <1>7, <1>8, <1>9, <1>10 DEF RegInv, Locks

\* A committing process stops: the others know nothing, or the truth.
LEMMA AdvanceKeeps ==
  ASSUME Gentle, RegInv, NEW p \in Procs, Advance(p)
  PROVE  RegInv'
<1>1. RegTypeInv /\ OneAhead(p) /\ Committing = {p} /\ Loading = {} /\ turn[p] \in Commits
  <2>1. p \in Committing
    BY DEF Advance, Committing
  <2>2. QED
    BY <2>1, TurnShape DEF RegInv, Locks
<1>2. turn[p].next \in {Idle} \cup Sweeps
  BY <1>1 DEF Commits
<1>3. turn'[p] = turn[p].next /\ \A q \in Procs : q # p => turn'[q] = turn[q]
  BY <1>1 DEF Advance, RegTypeInv
<1>4. turn'[p].at \in {"idle", "sweeping"} /\ (turn[p].next = Idle => turn'[p].at = "idle")
  BY <1>2, <1>3 DEF Idle, Sweeps
<1>5. Committing' = {} /\ Loading' = {}
      /\ (turn[p].next = Idle => Sweeping' = Sweeping)
  BY <1>1, <1>3, <1>4 DEF Committing, Loading, Sweeping, Advance
<1>6. Current'
  BY <1>1, SameTruth DEF Advance, Current, OneAhead
<1>7. RegTypeInv'
  BY <1>1, <1>2 DEF Advance, RegTypeInv
<1>8. RegistryRecoverable'
  BY <1>6, <1>7, CurrentIsRecoverable, PTL
<1>9. Forgetful'
  <2> SUFFICES ASSUME "death" \in env
               PROVE  Sweeping' = {} /\ \A q \in Procs : ~verified'[q]
    BY <1>5 DEF Forgetful, Advance
  <2>1. "warm" \notin env /\ turn[p].next = Idle /\ Sweeping = {}
        /\ \A q \in Procs : verified[q] => q = p
    BY <1>1 DEF RegInv, Forgetful, Gentle, RegTypeInv
  <2>2. QED
    BY <1>1, <1>5, <2>1 DEF Advance, RegTypeInv
<1>10. QED
  BY <1>5, <1>6, <1>7, <1>8, <1>9 DEF RegInv, Locks

LEMMA LoadReadKeeps ==
  ASSUME Gentle, RegInv, NEW p \in Procs, LoadRead(p)
  PROVE  RegInv'
<1>1. RegTypeInv /\ Committing = {} /\ Loading = {} /\ Truth' = Truth
  BY SameTruth DEF RegInv, Gentle, RegTypeInv, LoadRead
<1>2. turn' = [turn EXCEPT ![p] = [at |-> "loading", from |-> checkpoint, upto |-> Len(log)]]
      /\ [at |-> "loading", from |-> checkpoint, upto |-> Len(log)] \in Loads
  BY <1>1 DEF LoadRead, Loads, RegTypeInv
<1>3. RegTypeInv'
  BY <1>1, <1>2 DEF LoadRead, RegTypeInv
<1>4. /\ turn'[p] = [at |-> "loading", from |-> checkpoint, upto |-> Len(log)]
      /\ \A q \in Procs : q # p => turn'[q] = turn[q]
  BY <1>1, <1>2 DEF RegTypeInv
<1>5. Committing' = {} /\ Loading' = {p} /\ Sweeping' \subseteq Sweeping
  BY <1>1, <1>4 DEF Committing, Loading, Sweeping
<1>6. RegistryRecoverable' /\ (\A q \in Procs : verified'[q] => Current')
  BY <1>1, SameRegistry DEF LoadRead, RegInv, Current
<1>7. Forgetful'
  BY <1>1, <1>5 DEF RegInv, Forgetful, LoadRead
<1>8. QED
  BY <1>3, <1>4, <1>5, <1>6, <1>7 DEF RegInv, Locks, LoadRead

LEMMA LoadApplyKeeps ==
  ASSUME Gentle, RegInv, NEW p \in Procs, LoadApply(p)
  PROVE  RegInv'
<1>1. /\ RegTypeInv /\ Loading = {p} /\ Committing = {}
      /\ turn[p].from = checkpoint /\ turn[p].upto = Len(log)
  BY DEF RegInv, Locks, LoadApply, Loading
<1>2. registry' = Truth /\ checkpoint' = Len(log)
  BY <1>1 DEF LoadApply, RegInv, RegistryRecoverable, RegTypeInv
<1>3. RegTypeInv'
  <2>1. ("warm" \in env /\ Matches(Replayed(registry, turn[p].from, turn[p].upto), turn[p].upto))
          \in BOOLEAN
    BY DEF Matches
  <2>2. verified' \in [Procs -> BOOLEAN]
    BY <1>1, <2>1 DEF LoadApply, RegTypeInv
  <2>3. turn' \in [Procs -> {Idle} \cup Sweeps \cup Commits \cup Loads]
    BY <1>1 DEF LoadApply, RegTypeInv
  <2>4. QED
    BY <1>1, <1>2, <2>2, <2>3, TruthType DEF LoadApply, RegTypeInv
<1>4. turn'[p] = Idle /\ \A q \in Procs : q # p => turn'[q] = turn[q]
  BY <1>1 DEF LoadApply, RegTypeInv
<1>5. Committing' = {} /\ Loading' = {} /\ Sweeping' \subseteq Sweeping
  BY <1>1, <1>4 DEF Committing, Loading, Sweeping, Idle
<1>6. Current'
  BY <1>2, SameTruth DEF LoadApply, Current
<1>7. RegistryRecoverable'
  BY <1>3, <1>6, CurrentIsRecoverable, PTL
<1>8. Forgetful'
  <2>1. "death" \in env => /\ "warm" \notin env /\ Sweeping = {}
                           /\ \A q \in Procs : ~verified[q]
    BY <1>1 DEF RegInv, Forgetful, Gentle, RegTypeInv
  <2>2. "death" \in env => \A q \in Procs : ~verified'[q]
    BY <1>1, <2>1 DEF LoadApply, RegTypeInv
  <2>3. QED
    BY <1>5, <2>1, <2>2 DEF Forgetful, LoadApply
<1>9. QED
  BY <1>3, <1>5, <1>6, <1>7, <1>8 DEF RegInv, Locks

LEMMA DieKeeps ==
  ASSUME Gentle, RegInv, NEW p \in Procs, Die(p)
  PROVE  RegInv'
<1>1. RegTypeInv /\ "death" \in env /\ Sweeping = {} /\ Truth' = Truth
  BY SameTruth DEF RegInv, Forgetful, Die
<1>2. turn' = [turn EXCEPT ![p] = Idle] /\ verified' = [verified EXCEPT ![p] = FALSE]
  BY DEF Die
<1>3. RegTypeInv'
  BY <1>1, <1>2 DEF Die, RegTypeInv
<1>4. turn'[p] = Idle /\ \A q \in Procs : q # p => turn'[q] = turn[q]
  BY <1>1, <1>2 DEF RegTypeInv
<1>5. /\ Committing' = Committing \ {p} /\ Loading' = Loading \ {p} /\ Sweeping' = {}
  BY <1>1, <1>4 DEF Committing, Loading, Sweeping, Idle
<1>6. RegistryRecoverable'
  BY SameRegistry DEF Die, RegInv
<1>7. \A q \in Committing' : OneAhead(q)'
  BY <1>1, <1>4, <1>5 DEF RegInv, OneAhead, Die, Committing
<1>8. Forgetful'
  BY <1>1, <1>2, <1>4, <1>5 DEF RegInv, Forgetful, Die, RegTypeInv, Committing
<1>9. Committing' = {} => \A q \in Procs : ~verified'[q]
  BY <1>1, <1>8 DEF Forgetful, Die
<1>10. \A q \in Loading' : turn'[q].from = checkpoint' /\ turn'[q].upto = Len(log')
  BY <1>4, <1>5 DEF RegInv, Die, Loading
<1>11. QED
  BY <1>3, <1>5, <1>6, <1>7, <1>8, <1>9, <1>10 DEF RegInv, Locks
-----------------------------------------------------------------------------
(* Mutations, and the theorems *)

\* The steps that append an event, and what they append.
Appends(p, m, entry, cause) == Free(p) /\ AppendEvent(p, m, entry, cause)

LEMMA ActivateAppends ==
  ASSUME Gentle, RegInv, NEW p \in Procs, NEW m \in Monitors, NEW source \in Sources,
         NEW force \in BOOLEAN, Activate(p, m, source, force)
  PROVE  \E entry \in Entries, cause \in Causes :
           /\ Appends(p, m, entry, cause) /\ ~entry.tomb
           /\ ~Truth[m].tomb \/ cause = "force"
<1>1. Committing = {} /\ Recovered(p) = Truth /\ Truth[m] \in Records
  BY RecoveredIsTruth, TruthType DEF Activate, Free, RegInv
<1>2. Activated(Truth[m], source) \in Entries /\ ~Activated(Truth[m], source).tomb
  BY <1>1, EntryTypes DEF Activated
<1>3. QED
  BY <1>1, <1>2 DEF Activate, Appends, Yields, Causes

LEMMA CancelManuallyAppends ==
  ASSUME Gentle, RegInv, NEW p \in Procs, NEW m \in Monitors, CancelManually(p, m)
  PROVE  \E entry \in Entries : /\ Appends(p, m, entry, "cancel")
                                /\ entry.tomb /\ entry.status = "cancelled"
                                /\ Sweeping = {} /\ turn[p].at = "idle"
<1>1. Committing = {} /\ Recovered(p) = Truth /\ Truth[m] \in Records
  BY RecoveredIsTruth, TruthType DEF CancelManually, Free, RegInv
<1>2. /\ Cancelled(Truth[m], TRUE, "cancelled") \in Entries
      /\ Cancelled(Truth[m], TRUE, "cancelled").tomb
      /\ Cancelled(Truth[m], TRUE, "cancelled").status = "cancelled"
  <2>1. Cancelled(Truth[m], TRUE, "cancelled") \in Entries
    BY <1>1, EntryTypes
  <2>2. \A e \in Records : [e EXCEPT !.status = "cancelled", !.tomb = TRUE].tomb
                           /\ [e EXCEPT !.status = "cancelled", !.tomb = TRUE].status = "cancelled"
    BY DEF Records, Entries, NoEntry
  <2>3. QED
    BY <1>1, <2>1, <2>2 DEF Cancelled
<1>3. QED
  BY <1>1, <1>2 DEF CancelManually, Appends, RegInv, RegTypeInv, Gentle

LEMMA SweepCancelAppends ==
  ASSUME Gentle, RegInv, NEW p \in Procs, NEW m \in Monitors, SweepCancel(p, m)
  PROVE  \E entry \in Entries : /\ Appends(p, m, entry, "sweep") /\ ~entry.tomb
                                /\ p \in Sweeping /\ m \in turn[p].todo
<1>1. Committing = {} /\ Recovered(p) = Truth /\ Truth[m] \in Records /\ p \in Sweeping
  BY RecoveredIsTruth, TruthType DEF SweepCancel, Free, RegInv, Sweeping
<1>2. turn[p].status \in {"inactive", "closed"}
  BY <1>1, TurnShape DEF Sweeps, RegInv
<1>3. Cancelled(Truth[m], FALSE, turn[p].status) \in Entries
  BY <1>1, <1>2, EntryTypes
<1>4. ~Cancelled(Truth[m], FALSE, turn[p].status).tomb
  <2>1. \A e \in Records : \A s : ~[e EXCEPT !.status = s, !.tomb = FALSE].tomb
    BY DEF Records, Entries, NoEntry
  <2>2. QED
    BY <1>1, <2>1 DEF Cancelled
<1>5. QED
  BY <1>1, <1>3, <1>4 DEF SweepCancel, Appends

LEMMA ClosePositionAppends ==
  ASSUME Gentle, RegInv, NEW p \in Procs, NEW m \in Monitors, ClosePosition(p, m)
  PROVE  \E entry \in Entries : Appends(p, m, entry, "sale") /\ ~entry.tomb
<1>1. Committing = {} /\ Recovered(p) = Truth /\ Truth[m] \in Records
  BY RecoveredIsTruth, TruthType DEF ClosePosition, Free, RegInv
<1>2. Cancelled(Truth[m], FALSE, "closed") \in Entries
  BY <1>1, EntryTypes
<1>3. ~Cancelled(Truth[m], FALSE, "closed").tomb
  <2>1. \A e \in Records : \A s : ~[e EXCEPT !.status = s, !.tomb = FALSE].tomb
    BY DEF Records, Entries, NoEntry
  <2>2. QED
    BY <1>1, <2>1 DEF Cancelled
<1>4. QED
  BY <1>1, <1>2, <1>3 DEF ClosePosition, Appends

LEMMA RegStep ==
  ASSUME Gentle, RegInv, [Next]_vars
  PROVE  RegInv'
<1>1. ASSUME NEW p \in Procs, NEW m \in Monitors, NEW source \in Sources, NEW force \in BOOLEAN,
             Activate(p, m, source, force)
      PROVE  RegInv'
  BY <1>1, ActivateAppends, AppendKeeps DEF Appends
<1>2. ASSUME NEW p \in Procs, NEW m \in Monitors, CancelManually(p, m)
      PROVE  RegInv'
  BY <1>2, CancelManuallyAppends, AppendKeeps DEF Appends, Causes
<1>3. ASSUME NEW p \in Procs, NEW m \in Monitors, SweepCancel(p, m)
      PROVE  RegInv'
  BY <1>3, SweepCancelAppends, AppendKeeps DEF Appends, Causes
<1>8. ASSUME NEW p \in Procs, NEW m \in Monitors, ClosePosition(p, m)
      PROVE  RegInv'
  BY <1>8, ClosePositionAppends, AppendKeeps DEF Appends, Causes
<1>4. ASSUME NEW p \in Procs,
             Refused(p) \/ Project(p) \/ Advance(p) \/ SweepRead(p)
               \/ LoadRead(p) \/ LoadApply(p) \/ Die(p)
      PROVE  RegInv'
  BY <1>4, RefusedKeeps, ProjectKeeps, AdvanceKeeps, SweepReadKeeps,
     LoadReadKeeps, LoadApplyKeeps, DieKeeps
<1>5. CASE UNCHANGED vars
  <2>1. RegistryRecoverable' /\ Truth' = Truth
    BY <1>5, SameRegistry, SameTruth DEF vars, RegInv
  <2>2. QED
    BY <1>5, <2>1 DEF vars, RegInv, RegTypeInv, Locks, Forgetful, Current, OneAhead,
                      Committing, Loading, Sweeping
<1>6. QED
  BY <1>1, <1>2, <1>3, <1>4, <1>5, <1>8 DEF Next

LEMMA RegInit ==
  ASSUME Gentle, Init
  PROVE  RegInv
<1>1. RegTypeInv
  BY DEF Init, RegTypeInv, Records
<1>2. Committing = {} /\ Loading = {} /\ Sweeping = {}
  BY DEF Init, Committing, Loading, Sweeping, Idle
<1>3. Truth = registry /\ Len(log) = 0
  BY DEF Init, Truth, Replayed, Said, Empty
<1>4. RegistryRecoverable
  BY <1>1, <1>3, CurrentIsRecoverable DEF Current, Init
<1>5. QED
  BY <1>1, <1>2, <1>4 DEF Init, RegInv, Locks, Forgetful

\* Where nobody outlives a dead process, loads during a mutation or acts during
\* a sweep: the registry file lags behind the ledger by no more than the
\* checkpoint says, at every step of a mutation (_commit_projection).
THEOREM RegistryIsRecoverable == Gentle => (Spec => []RegistryRecoverable)
<1> SUFFICES ASSUME Gentle PROVE Spec => []RegistryRecoverable
  OBVIOUS
<1>1. Init => RegInv
  BY RegInit
<1>2. RegInv /\ [Next]_vars => RegInv'
  BY RegStep
<1>3. RegInv => RegistryRecoverable
  BY DEF RegInv
<1>4. QED
  BY <1>1, <1>2, <1>3, PTL DEF Spec

\* A tombstone is on a cancelled monitor, and on no list to sweep.
TombInv ==
  /\ \A m \in Monitors : Truth[m].tomb => Truth[m].status = "cancelled"
  /\ \A p \in Sweeping : \A m \in turn[p].todo : ~Truth[m].tomb
  /\ \A p \in Committing : turn[p].next # Idle => \A m \in turn[p].next.todo : ~Truth[m].tomb

\* What an append does to the lists and the tombstones.
LEMMA TombAppend ==
  ASSUME Gentle, RegInv, TombInv, NEW p \in Procs, NEW m \in Monitors, NEW entry \in Entries,
         NEW cause \in Causes, Appends(p, m, entry, cause),
         \/ ~entry.tomb
         \/ entry.status = "cancelled" /\ Sweeping = {} /\ turn[p].at = "idle"
  PROVE  TombInv'
<1>1. RegTypeInv /\ Truth' = [Truth EXCEPT ![m] = entry] /\ Truth \in [Monitors -> Records]
  BY AppendKeeps, TruthType DEF Appends, RegInv
<1>2. \A x \in Monitors : Truth'[x] = IF x = m THEN entry ELSE Truth[x]
  BY <1>1
<1>3. /\ turn'[p].at = "appended" /\ turn'[p].next = Rest(turn[p], m)
      /\ \A q \in Procs : q # p => turn'[q] = turn[q]
  BY <1>1 DEF Appends, AppendEvent, RegTypeInv
<1>4. Sweeping' \subseteq Sweeping /\ Committing' = {p} /\ \A q \in Sweeping' : turn'[q] = turn[q]
  BY <1>3 DEF Sweeping, Committing, Appends, Free
<1>5. \A q \in Sweeping : turn[q].todo \subseteq Monitors
  BY <1>1, TurnShape DEF Sweeping, Sweeps
<1>6. turn'[p].next # Idle => /\ p \in Sweeping /\ turn'[p].next.todo \subseteq turn[p].todo
  <2>1. CASE p \in Sweeping
    <3>1. turn[p] \in Sweeps
      BY <1>1, <2>1, TurnShape
    <3>2. QED
      BY <1>3, <2>1, <3>1 DEF Rest, Sweeps
  <2>2. CASE p \notin Sweeping
    <3>1. turn[p].at = "idle"
      BY <2>2 DEF Appends, Free, Sweeping
    <3>2. QED
      BY <1>3, <3>1 DEF Rest
  <2>3. QED
    BY <2>1, <2>2
<1>7. (\A x \in Monitors : Truth[x].tomb => Truth[x].status = "cancelled")'
  BY <1>2 DEF TombInv
<1>8. \A q \in Sweeping' : \A x \in turn'[q].todo : ~Truth'[x].tomb
  BY <1>2, <1>4, <1>5 DEF TombInv
<1>9. turn'[p].next # Idle => \A x \in turn'[p].next.todo : ~Truth'[x].tomb
  BY <1>2, <1>5, <1>6 DEF TombInv
<1>10. QED
  BY <1>4, <1>7, <1>8, <1>9 DEF TombInv

LEMMA TombStep ==
  ASSUME Gentle, RegInv, TombInv, [Next]_vars
  PROVE  TombInv'
<1> USE DEF RegInv
<1>1. ASSUME NEW p \in Procs, NEW m \in Monitors, NEW source \in Sources, NEW force \in BOOLEAN,
             Activate(p, m, source, force)
      PROVE  TombInv'
  BY <1>1, ActivateAppends, TombAppend
<1>2. ASSUME NEW p \in Procs, NEW m \in Monitors, CancelManually(p, m)
      PROVE  TombInv'
  BY <1>2, CancelManuallyAppends, TombAppend DEF Causes
<1>3. ASSUME NEW p \in Procs, NEW m \in Monitors, SweepCancel(p, m)
      PROVE  TombInv'
  BY <1>3, SweepCancelAppends, TombAppend DEF Causes
<1>9. ASSUME NEW p \in Procs, NEW m \in Monitors, ClosePosition(p, m)
      PROVE  TombInv'
  BY <1>9, ClosePositionAppends, TombAppend DEF Causes
<1>4. ASSUME NEW p \in Procs, Refused(p) \/ LoadRead(p) \/ LoadApply(p) \/ Die(p) \/ Project(p)
      PROVE  TombInv'
  <2>1. Truth' = Truth
    BY <1>4, SameTruth DEF Refused, LoadRead, LoadApply, Die, Project
  <2>2. /\ \A q \in Procs : q # p => turn'[q] = turn[q]
        /\ \/ turn'[p] = turn[p]
           \/ turn'[p].at \in {"idle", "loading"}
           \/ p \in Committing /\ turn'[p].at = "projected" /\ turn'[p].next = turn[p].next
    <3>1. CASE Project(p)
      <4>1. turn[p] \in Commits
        BY <3>1, TurnShape DEF Project, Committing
      <4>2. QED
        BY <3>1, <4>1 DEF Project, Committing, RegTypeInv, Commits
    <3>2. CASE Refused(p)
      BY <3>2 DEF Refused
    <3>3. CASE LoadRead(p)
      BY <3>3 DEF LoadRead, RegTypeInv
    <3>4. CASE LoadApply(p) \/ Die(p)
      BY <3>4 DEF LoadApply, Die, RegTypeInv, Idle
    <3>5. QED
      BY <1>4, <3>1, <3>2, <3>3, <3>4
  <2>3. /\ \A q \in Sweeping' : q \in Sweeping /\ turn'[q] = turn[q]
        /\ \A q \in Committing' : q \in Committing /\ turn'[q].next = turn[q].next
    BY <2>2 DEF Sweeping, Committing
  <2>4. QED
    BY <2>1, <2>3 DEF TombInv
<1>5. ASSUME NEW p \in Procs, Advance(p) PROVE TombInv'
  <2>1. Truth' = Truth /\ p \in Committing /\ turn[p] \in Commits
    BY <1>5, SameTruth, TurnShape DEF Advance, Committing
  <2>2. turn'[p] = turn[p].next /\ \A q \in Procs : q # p => turn'[q] = turn[q]
    BY <1>5, <2>1 DEF Advance, RegTypeInv
  <2>3. turn'[p].at \in {"idle", "sweeping"} /\ (turn'[p].at = "sweeping" => turn[p].next # Idle)
    BY <2>1, <2>2 DEF Commits, Sweeps, Idle
  <2>4. QED
    BY <2>1, <2>2, <2>3 DEF TombInv, Sweeping, Committing
<1>6. ASSUME NEW p \in Procs, SweepRead(p) PROVE TombInv'
  <2>1. Truth' = Truth /\ Recovered(p) = Truth /\ Truth \in [Monitors -> Records]
    BY <1>6, SameTruth, RecoveredIsTruth, TruthType DEF SweepRead, Free
  <2>2. PICK status \in {"inactive", "closed"} :
          \E todo \in SUBSET Sweepable(Truth, status) :
            turn' = [turn EXCEPT ![p] = [at |-> "sweeping", todo |-> todo, status |-> status]]
    BY <1>6, <2>1 DEF SweepRead
  <2>3. PICK todo \in SUBSET Sweepable(Truth, status) :
          turn' = [turn EXCEPT ![p] = [at |-> "sweeping", todo |-> todo, status |-> status]]
    BY <2>2
  <2>4. \A m \in todo : m \in Monitors /\ ~Truth[m].tomb
    BY DEF Sweepable, TombInv
  <2>5. /\ turn'[p].at = "sweeping" /\ turn'[p].todo = todo
        /\ \A q \in Procs : q # p => turn'[q] = turn[q]
    BY <2>3 DEF RegTypeInv
  <2>6. QED
    BY <2>1, <2>4, <2>5 DEF TombInv, Sweeping, Committing
<1>7. CASE UNCHANGED vars
  BY <1>7, SameTruth DEF vars, TombInv, Sweeping, Committing
<1>8. QED
  BY <1>1, <1>2, <1>3, <1>4, <1>5, <1>6, <1>7, <1>9 DEF Next

\* In the same surroundings, what the operator cancelled by hand is taken away
\* only by a restoration with force or by the sale of the stock: not by an
\* activation without force, not by a sweep, not by a replay after a death
\* (activate, cancel, _recover_projection_locked).
THEOREM TombstonesOutliveAutomation == Gentle => (Spec => AutomationKeepsTombstones)
<1> SUFFICES ASSUME Gentle PROVE Spec => AutomationKeepsTombstones
  OBVIOUS
<1> DEFINE Taken(m, p) == /\ turn'[p].at = "appended" /\ turn'[p].m = m
                          /\ turn'[p].cause \in {"force", "sale"}
<1>1. Init => RegInv /\ TombInv
  <2> SUFFICES ASSUME Init PROVE TombInv
    BY RegInit
  <2>1. Committing = {} /\ Sweeping = {}
    BY DEF Init, Committing, Sweeping, Idle
  <2>2. Truth = Empty
    BY DEF Init, Truth, Replayed, Said, Empty
  <2>3. QED
    BY <2>1, <2>2 DEF TombInv, Empty, NoEntry
<1>2. RegInv /\ TombInv /\ [Next]_vars => RegInv' /\ TombInv'
  BY RegStep, TombStep
<1>3. ASSUME RegInv, TombInv, Next PROVE TombstoneLostOnlyBy({"force", "sale"})
  <2> SUFFICES ASSUME NEW m \in Monitors, Truth[m].tomb, ~Truth'[m].tomb
               PROVE  \E p \in Procs : Taken(m, p)
    BY DEF TombstoneLostOnlyBy
  <2>1. ASSUME NEW p \in Procs, NEW x \in Monitors, NEW entry \in Entries, NEW cause \in Causes,
               Appends(p, x, entry, cause)
        PROVE  /\ x = m /\ ~entry.tomb
               /\ turn'[p].at = "appended" /\ turn'[p].m = x /\ turn'[p].cause = cause
    <3>1. Truth' = [Truth EXCEPT ![x] = entry] /\ Truth \in [Monitors -> Records]
      BY <1>3, <2>1, AppendKeeps, TruthType DEF Appends, RegInv
    <3>2. QED
      BY <1>3, <2>1, <3>1 DEF Appends, AppendEvent, RegInv, RegTypeInv
  <2>2. ASSUME NEW p \in Procs, NEW x \in Monitors, NEW source \in Sources, NEW force \in BOOLEAN,
               Activate(p, x, source, force)
        PROVE  Taken(m, p)
    BY <1>3, <2>1, <2>2, ActivateAppends
  <2>3. ASSUME NEW p \in Procs, NEW x \in Monitors, ClosePosition(p, x)
        PROVE  Taken(m, p)
    BY <1>3, <2>1, <2>3, ClosePositionAppends DEF Causes
  <2>4. ASSUME NEW p \in Procs, NEW x \in Monitors, CancelManually(p, x) \/ SweepCancel(p, x)
        PROVE  FALSE
    <3>1. CASE CancelManually(p, x)
      BY <1>3, <2>1, <3>1, CancelManuallyAppends DEF Causes
    <3>2. CASE SweepCancel(p, x)
      <4>1. x = m /\ p \in Sweeping /\ x \in turn[p].todo
        BY <1>3, <2>1, <3>2, SweepCancelAppends DEF Causes
      <4>2. QED
        BY <1>3, <4>1 DEF TombInv
    <3>3. QED
      BY <2>4, <3>1, <3>2
  <2>5. ASSUME NEW p \in Procs,
               Refused(p) \/ Project(p) \/ Advance(p) \/ SweepRead(p)
                 \/ LoadRead(p) \/ LoadApply(p) \/ Die(p)
        PROVE  FALSE
    BY <2>5, SameTruth DEF Refused, Project, Advance, SweepRead, LoadRead, LoadApply, Die
  <2>6. QED
    BY <1>3, <2>2, <2>3, <2>4, <2>5 DEF Next
<1>4. RegInv /\ TombInv /\ [Next]_vars => [TombstoneLostOnlyBy({"force", "sale"})]_vars
  BY <1>3
<1>5. QED
  BY <1>1, <1>2, <1>4, PTL DEF Spec, AutomationKeepsTombstones
=============================================================================
