---------------------------- MODULE MonitorRegistry ----------------------------
(***************************************************************************)
(* The monitor registry (skills/common/monitor_registry.py): which stocks, *)
(* sectors and themes are watched.  Every mutation first appends a monitor *)
(* event to the canonical ledger (an EventLog, see SignalLedger), then     *)
(* writes the registry file, then advances the projection's checkpoint     *)
(* (event_projection.py).  A process that finds the ledger ahead replays   *)
(* it; one that has verified the registry once never looks again.          *)
(*                                                                         *)
(* Mutations hold the event-transaction lock, and the registry file's lock *)
(* from before the append until the registry is written.  load_registry    *)
(* holds neither while it recovers, and a sweep works on a list it loaded. *)
(***************************************************************************)
EXTENDS Integers, Sequences, FiniteSets

CONSTANTS Monitors,   \* monitor ids
          Procs,      \* processes that use the registry
          Envs,       \* the surroundings to check, sets of:
                      \*   "warm"  a process lives on after its first mutation
                      \*   "death" a process dies, or a write fails, on the way
                      \*   "sweep" lists are swept
                      \*   "race"  the operator cancels or restores during a sweep
                      \*   "load"  registries are loaded during a mutation
          MaxLog,     \* bound: events
          MaxDeaths   \* bound: deaths

Sources == {"auto", "manual", "portfolio"}

\* What may have appended an event.
Causes == {"activation", "force", "cancel", "sale", "sweep"}

\* The fields that decide; tomb is manual_cancelled, linked position_linked.
Entries == [status : {"active", "inactive", "closed", "cancelled"},
            source : Sources \cup {"none"}, tomb : BOOLEAN, linked : BOOLEAN]

NoEntry == [status |-> "none", source |-> "none", tomb |-> FALSE, linked |-> FALSE]

VARIABLES env,        \* one of Envs
          log,        \* the ledger's monitor events: [id, entry]
          registry,   \* monitor_registry.json
          checkpoint, \* sequence of the last event known to be projected
          verified,   \* _VERIFIED_DATASET of each process
          turn,       \* what each process is doing
          deaths

vars == <<env, log, registry, checkpoint, verified, turn, deaths>>

Idle == [at |-> "idle"]

\* The transaction lock is held by a process between append and checkpoint.
Committing == {p \in Procs : turn[p].at \in {"appended", "projected"}}

Sweeping == {p \in Procs : turn[p].at = "sweeping"}

Loading == {p \in Procs : turn[p].at = "loading"}

Init ==
  /\ env \in Envs
  /\ log = <<>>
  /\ registry = [m \in Monitors |-> NoEntry]
  /\ checkpoint = 0
  /\ verified = [p \in Procs |-> FALSE]
  /\ turn = [p \in Procs |-> Idle]
  /\ deaths = 0
-----------------------------------------------------------------------------
(* Projection and recovery *)

\* The events about m among those from + 1 .. upto, and the last of them.
Said(m, from, upto) == {i \in from + 1..upto : log[i].id = m}

LastSaid(m, from, upto) ==
  CHOOSE i \in Said(m, from, upto) : \A j \in Said(m, from, upto) : j <= i

\* replay_events, fold_monitor_records: events carry whole entries, so the
\* last one about a monitor wins.
Replayed(records, from, upto) ==
  [m \in Monitors |-> IF Said(m, from, upto) = {} THEN records[m]
                      ELSE log[LastSaid(m, from, upto)].entry]

Empty == [m \in Monitors |-> NoEntry]

\* What the whole ledger says.
Truth == Replayed(Empty, 0, Len(log))

\* _recover_and_reconcile_registry by a process that has not verified yet.
Recovered(p) ==
  IF verified[p] THEN registry ELSE Replayed(registry, checkpoint, Len(log))

\* _registry_projection_matches_ledger: the essential keys of every monitor
\* that the first upto events know.
Matches(records, upto) ==
  \A m \in Monitors : Said(m, 0, upto) # {} =>
    LET expected == log[LastSaid(m, 0, upto)].entry
    IN records[m].status = expected.status /\ records[m].source = expected.source

Consistent(p) == verified[p] \/ Matches(Recovered(p), Len(log))

RecoveredCheckpoint(p) == IF verified[p] THEN checkpoint ELSE Len(log)
-----------------------------------------------------------------------------
(* Mutations *)

\* _activate_locked: the new entry; a tombstone yields only to force.
Activated(old, source) ==
  [status |-> "active", source |-> source, tomb |-> FALSE,
   linked |-> old.linked \/ source = "portfolio"]

\* _cancel_locked
Cancelled(old, manual, status) ==
  [old EXCEPT !.status = status, !.tomb = manual]

Free(p) ==
  /\ Committing = {} /\ turn[p].at \in {"idle", "sweeping"}
  /\ "load" \in env \/ Loading = {}

\* What is left of a sweep's list after m.
Rest(t, m) ==
  IF t.at = "idle" \/ t.todo = {m} THEN Idle ELSE [t EXCEPT !.todo = @ \ {m}]

\* Recover, then append the event inside the registry's mutation.
AppendEvent(p, m, entry, cause) ==
  /\ Len(log) < MaxLog
  /\ log' = Append(log, [id |-> m, entry |-> entry])
  /\ registry' = Recovered(p)
  /\ checkpoint' = RecoveredCheckpoint(p)
  /\ verified' = [verified EXCEPT ![p] = TRUE]
  /\ turn' = [turn EXCEPT ![p] =
       [at |-> "appended", m |-> m, entry |-> entry, cause |-> cause,
        next |-> Rest(turn[p], m)]]
  /\ UNCHANGED <<env, deaths>>

\* Mutant: an automatic source may take a tombstone away.
YieldsAlways(old, force) == TRUE

Yields(old, force) == ~old.tomb \/ force

Activate(p, m, source, force) ==
  /\ Free(p) /\ turn[p].at = "idle" /\ Consistent(p)
  /\ force => source # "auto" /\ ("race" \in env \/ Sweeping = {})
  /\ Yields(Recovered(p)[m], force)
  /\ AppendEvent(p, m, Activated(Recovered(p)[m], source),
                 IF force THEN "force" ELSE "activation")

\* cancel by the operator: the tombstone.
CancelManually(p, m) ==
  /\ Free(p) /\ turn[p].at = "idle" /\ Consistent(p)
  /\ "race" \in env \/ Sweeping = {}
  /\ AppendEvent(p, m, Cancelled(Recovered(p)[m], TRUE, "cancelled"), "cancel")

\* cancel(manual=False) by close_position: the stock was sold.  Nobody looks at
\* the entry, not even whether there is one.
ClosePosition(p, m) ==
  /\ Free(p) /\ turn[p].at = "idle" /\ Consistent(p)
  /\ AppendEvent(p, m, Cancelled(Recovered(p)[m], FALSE, "closed"), "sale")

\* RuntimeError, or a tombstone: nothing is appended, the replay stays.
Refused(p) ==
  /\ Free(p) /\ turn[p].at = "idle"
  /\ \/ ~Consistent(p)
     \/ ~verified[p] /\ \E m \in Monitors : ~Yields(Recovered(p)[m], FALSE)
  /\ registry' = Recovered(p)
  /\ checkpoint' = RecoveredCheckpoint(p)
  /\ verified' = [verified EXCEPT ![p] = "warm" \in env /\ Consistent(p)]
  /\ UNCHANGED <<env, log, turn, deaths>>

\* _commit_projection: the registry file is written, its lock released.
Project(p) ==
  /\ turn[p].at = "appended"
  /\ registry' = [registry EXCEPT ![turn[p].m] = turn[p].entry]
  /\ turn' = [turn EXCEPT ![p].at = "projected"]
  /\ UNCHANGED <<env, log, checkpoint, verified, deaths>>

\* Mutant: the checkpoint moves before the registry is written.
AdvanceTooFar(p) ==
  /\ turn[p].at \in {"appended", "projected"}
  /\ checkpoint' = Len(log)
  /\ turn' = [turn EXCEPT ![p] = Idle]
  /\ verified' = [verified EXCEPT ![p] = "warm" \in env]
  /\ UNCHANGED <<env, log, registry, deaths>>

\* advance_checkpoint; a sweep goes on with its list.
Advance(p) ==
  /\ turn[p].at = "projected"
  /\ checkpoint' = Len(log)
  /\ turn' = [turn EXCEPT ![p] = @.next]
  /\ verified' = [verified EXCEPT ![p] = "warm" \in env \/ turn[p].next # Idle]
  /\ UNCHANGED <<env, log, registry, deaths>>
-----------------------------------------------------------------------------
(* Sweeps: gc_expired, reconcile_automatic, deactivate_automatic and       *)
(* sync_positions load the registry and then cancel entry by entry.        *)

Protected(e) == e.tomb \/ e.source \in {"manual", "portfolio"} \/ e.linked

\* gc_expired and reconcile_automatic: expired or no longer observed.
\* sync_positions: linked to a position that is gone.
Sweepable(records, status) ==
  {m \in Monitors :
     /\ records[m].status = "active"
     /\ IF status = "closed" THEN records[m].linked ELSE ~Protected(records[m])}

SweepRead(p) ==
  /\ "sweep" \in env
  /\ Free(p) /\ turn[p].at = "idle" /\ Consistent(p) /\ Loading = {}
  /\ \E status \in {"inactive", "closed"} :
       \E todo \in SUBSET Sweepable(Recovered(p), status) :
         /\ todo # {}
         /\ turn' = [turn EXCEPT ![p] =
              [at |-> "sweeping", todo |-> todo, status |-> status]]
  /\ registry' = Recovered(p)
  /\ checkpoint' = RecoveredCheckpoint(p)
  /\ verified' = [verified EXCEPT ![p] = TRUE]
  /\ UNCHANGED <<env, log, deaths>>

\* cancel(manual=False), whatever the entry has become since.
SweepCancel(p, m) ==
  /\ Free(p) /\ turn[p].at = "sweeping" /\ m \in turn[p].todo
  /\ AppendEvent(p, m, Cancelled(Recovered(p)[m], FALSE, turn[p].status), "sweep")
-----------------------------------------------------------------------------
(* load_registry without the transaction lock *)

LoadRead(p) ==
  /\ turn[p].at = "idle" /\ ~verified[p]
  /\ "load" \in env \/ (Committing = {} /\ Loading = {})
  /\ log # <<>>
  /\ turn' = [turn EXCEPT ![p] = [at |-> "loading", from |-> checkpoint, upto |-> Len(log)]]
  /\ UNCHANGED <<env, log, registry, checkpoint, verified, deaths>>

\* The replay waits for the registry's lock, not for the transaction.
LoadApply(p) ==
  LET records == Replayed(registry, turn[p].from, turn[p].upto)
  IN /\ turn[p].at = "loading"
     /\ \A q \in Procs : turn[q].at # "appended"
     /\ registry' = records
     /\ checkpoint' = IF turn[p].from < turn[p].upto /\ checkpoint < turn[p].upto
                      THEN turn[p].upto ELSE checkpoint
     /\ verified' = [verified EXCEPT ![p] = "warm" \in env /\ Matches(records, turn[p].upto)]
     /\ turn' = [turn EXCEPT ![p] = Idle]
     /\ UNCHANGED <<env, log, deaths>>
-----------------------------------------------------------------------------
\* A process dies, or an exception ends the commit and its verification.
Die(p) ==
  /\ "death" \in env /\ deaths < MaxDeaths
  /\ turn[p].at # "idle"
  /\ deaths' = deaths + 1
  /\ turn' = [turn EXCEPT ![p] = Idle]
  /\ verified' = [verified EXCEPT ![p] = FALSE]
  /\ UNCHANGED <<env, log, registry, checkpoint>>

Next ==
  \E p \in Procs :
    \/ \E m \in Monitors :
         \/ \E source \in Sources, force \in BOOLEAN : Activate(p, m, source, force)
         \/ CancelManually(p, m)
         \/ ClosePosition(p, m)
         \/ SweepCancel(p, m)
    \/ Refused(p)
    \/ Project(p)
    \/ Advance(p)
    \/ SweepRead(p)
    \/ LoadRead(p)
    \/ LoadApply(p)
    \/ Die(p)

Spec == Init /\ [][Next]_vars
-----------------------------------------------------------------------------
(* Properties *)

\* The registry and the events after its checkpoint together say what the
\* whole ledger says: after any death, the next process that replays gets
\* exactly the registry the events describe, and passes its own check.
RegistryRecoverable == Replayed(registry, checkpoint, Len(log)) = Truth

\* What takes m's tombstone away, if this step does, is one of the causes.
TombstoneLostOnlyBy(causes) ==
  \A m \in Monitors :
    Truth[m].tomb /\ ~Truth'[m].tomb =>
      \E p \in Procs : turn'[p].at = "appended" /\ turn'[p].m = m /\ turn'[p].cause \in causes

\* Nothing automatic takes away what the operator has cancelled by hand: no
\* activation without force, no sweep with the list it read earlier, no replay
\* after a death that came before the registry showed the cancellation.
AutomationKeepsTombstones == [][TombstoneLostOnlyBy({"force", "sale"})]_vars

\* "A manual monitor cancellation remains a tombstone until explicitly restored."
TombstoneStays == [][TombstoneLostOnlyBy({"force"})]_vars
=============================================================================
