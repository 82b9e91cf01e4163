----------------------------- MODULE CronDispatch -----------------------------
(***************************************************************************)
(* The cron dispatcher (scripts/cron_dispatch.py).  launchd wakes it about *)
(* once a minute and never twice at a time; it claims every job due in the *)
(* minute it woke in, in a state file it rewrites for each claim, and      *)
(* launches the job in a process of its own.                               *)
(*                                                                         *)
(* Minutes are numbered from 1; 0 marks a job without an entry.  faults   *)
(* remembers what has gone wrong so far:                                   *)
(*   "die"    the dispatcher is killed between two of its steps            *)
(*   "launch" a job cannot be started (bad argv or cwd, Popen fails)       *)
(*   "io"     the state file cannot be written                             *)
(*   "corrupt" the state file is damaged from outside                      *)
(***************************************************************************)
EXTENDS Integers, FiniteSets

CONSTANTS Jobs,         \* the enabled jobs of the manifest
          DueAt,        \* DueAt[m]: those whose schedule matches minute m
          LastMinute,   \* bound on the clock
          MaxEntries,   \* MAX_STATE_ENTRIES
          MaxTries      \* bound on the launches of a job for one minute

ASSUME DispatchAssumption ==
  /\ LastMinute \in Nat \ {0} /\ MaxEntries \in Nat \ {0} /\ MaxTries \in Nat
  /\ IsFiniteSet(Jobs)
  /\ DueAt \in [1..LastMinute -> SUBSET Jobs]

VARIABLES clock,    \* the current minute
          state,    \* dispatch_state.json: the minute each job was last claimed for
          disp,     \* the dispatcher process
          tried,    \* tried[j][m]: how often job j was launched for minute m
          done,     \* minutes some dispatcher served to the end
          faults    \* what has gone wrong

vars == <<clock, state, disp, tried, done, faults>>

Minutes == 1..LastMinute

Asleep == [pc |-> "asleep"]

Awake(pc, now, todo, job, next) ==
  [pc |-> pc, now |-> now, todo |-> todo, job |-> job, next |-> next]

Entries(s) == {j \in Jobs : s[j] > 0}

Init ==
  /\ clock = 1
  /\ state = [j \in Jobs |-> 0]
  /\ disp = Asleep
  /\ tried = [j \in Jobs |-> [m \in Minutes |-> 0]]
  /\ done = {}
  /\ faults = {}

\* main(): what is due is settled once, by the minute of the wake-up.
Wake ==
  /\ disp = Asleep /\ DueAt[clock] # {}
  /\ \A j \in Jobs : tried[j][clock] < MaxTries
  /\ disp' = [pc |-> "loop", now |-> clock, todo |-> DueAt[clock]]
  /\ UNCHANGED <<clock, state, tried, done, faults>>

\* Mutant: the oldest entries are kept.
PrunedNewest(s) ==
  IF Cardinality(Entries(s)) <= MaxEntries THEN {s}
  ELSE {[j \in Jobs |-> IF j \in keep THEN s[j] ELSE 0] :
          keep \in {K \in SUBSET Entries(s) :
                      /\ Cardinality(K) = MaxEntries
                      /\ \A j \in K, k \in Entries(s) \ K : s[j] <= s[k]}}

\* The newest MaxEntries entries are kept; the file's order decides a tie.
Pruned(s) ==
  IF Cardinality(Entries(s)) <= MaxEntries THEN {s}
  ELSE {[j \in Jobs |-> IF j \in keep THEN s[j] ELSE 0] :
          keep \in {K \in SUBSET Entries(s) :
                      /\ Cardinality(K) = MaxEntries
                      /\ \A j \in K, k \in Entries(s) \ K : s[j] >= s[k]}}

\* Mutants: any recent claim counts; the claim is for the next minute.
ClaimedLately(j) == state[j] >= disp.now - 1
ClaimedForNext(j) == [state EXCEPT ![j] = disp.now + 1]

AlreadyClaimed(j) == state[j] = disp.now

ClaimedFor(j) == [state EXCEPT ![j] = disp.now]

\* claim() reads the file: a job already claimed for this minute is passed
\* over, otherwise the file to write is made up.
Look(j) ==
  /\ disp.pc = "loop" /\ j \in disp.todo
  /\ IF AlreadyClaimed(j)
     THEN disp' = [disp EXCEPT !.todo = @ \ {j}]
     ELSE \E next \in Pruned(ClaimedFor(j)) :
            disp' = Awake("claim", disp.now, disp.todo \ {j}, j, next)
  /\ UNCHANGED <<clock, state, tried, done, faults>>

\* os.replace, or a failure that is logged and otherwise ignored.
Persist ==
  /\ disp.pc = "claim"
  /\ \/ state' = disp.next /\ UNCHANGED faults
     \/ UNCHANGED state /\ faults' = faults \cup {"io"}
  /\ disp' = [disp EXCEPT !.pc = "launch"]
  /\ UNCHANGED <<clock, tried, done>>

\* launch() starts the job, or logs why it could not; the loop goes on.
Launch ==
  /\ disp.pc = "launch"
  /\ \/ tried' = [tried EXCEPT ![disp.job][disp.now] = @ + 1] /\ UNCHANGED faults
     \/ UNCHANGED tried /\ faults' = faults \cup {"launch"}
  /\ disp' = [pc |-> "loop", now |-> disp.now, todo |-> disp.todo]
  /\ UNCHANGED <<clock, state, done>>

Return ==
  /\ disp.pc = "loop" /\ disp.todo = {}
  /\ disp' = Asleep
  /\ done' = done \cup {disp.now}
  /\ UNCHANGED <<clock, state, tried, faults>>

Die ==
  /\ disp # Asleep
  /\ disp' = Asleep
  /\ faults' = faults \cup {"die"}
  /\ UNCHANGED <<clock, state, tried, done>>

Corrupt ==
  /\ state' = [j \in Jobs |-> 0]
  /\ faults' = faults \cup {"corrupt"}
  /\ UNCHANGED <<clock, disp, tried, done>>

\* The minute passes, whether or not anyone woke in it or is still at work.
Tick ==
  /\ clock < LastMinute
  /\ clock' = clock + 1
  /\ UNCHANGED <<state, disp, tried, done, faults>>

Next ==
  \/ Wake \/ (\E j \in Jobs : Look(j)) \/ Persist \/ Launch \/ Return
  \/ Die \/ Corrupt \/ Tick

Spec == Init /\ [][Next]_vars
-----------------------------------------------------------------------------
(* Properties *)

\* Types of the state file, of the dispatcher and of the counts.
DispatchTypeOK ==
  /\ clock \in Minutes /\ done \subseteq Minutes
  /\ faults \subseteq {"die", "launch", "io", "corrupt"}
  /\ state \in [Jobs -> 0..LastMinute]
  /\ tried \in [Jobs -> [Minutes -> Nat]]
  /\ disp.pc \in {"asleep", "loop", "claim", "launch"}
  /\ disp # Asleep => disp.now \in Minutes /\ disp.todo \subseteq Jobs

\* "In one minute a job is claimed only once" (module docstring), although
\* the file forgets entries, dispatchers die, launches fail and a minute may be
\* woken in more than once: as long as the file itself is neither damaged nor
\* unwritable, a job is launched at most once for a minute.
OncePerMinute ==
  faults \cap {"io", "corrupt"} = {} => \A j \in Jobs, m \in Minutes : tried[j][m] <= 1

\* "Better run a job once more than let one bad file stop the schedule" (claim's
\* docstring): whatever happens to the state file, a dispatcher that served a
\* minute to the end left no due job out, unless one died or could not launch.
ServedMinuteIsComplete ==
  faults \cap {"die", "launch"} = {} =>
    \A m \in done : \A j \in DueAt[m] : tried[j][m] >= 1
=============================================================================
