----------------------------- MODULE SignalLedger -----------------------------
(***************************************************************************)
(* The canonical signal ledger (skills/common/signal_ledger.py), its       *)
(* mirror in the backup root and its archive (signal_ledger_archive.py).   *)
(*                                                                         *)
(* An append is one critical section under the ledger's file lock: restore *)
(* a missing ledger from its mirror, index what is there (from the         *)
(* process's cache if the file's fingerprint still matches), append what   *)
(* is new with the next sequence numbers, then mirror it.  A process can   *)
(* die in it; that the mirror cannot be written, or that the ledger cannot *)
(* be restored from it, is swallowed, and in the latter case the append    *)
(* starts a new ledger.                                                    *)
(***************************************************************************)
EXTENDS Integers, Sequences, FiniteSets, Places

CONSTANTS Procs,      \* processes that write the ledger, each with its cache
          Events,     \* what may be offered: records with id and fact
          Subject,    \* by id: the monitor an event restates, or the id itself
          TailIds,    \* the ids of tail_close.* events
          Batches,    \* sequences of events offered to append_events
          Faults,     \* which of "death", "torn", "mirror", "loss", "restore" happen
          MaxFaults,  \* bound: how many of them
          MaxSeq      \* bound: sequence numbers

Ids == {e.id : e \in Events}

\* What is offered is a sequence of events; a monitor's name is no event's id.
ASSUME LedgerAssumption ==
  /\ Batches \subseteq Seq(Events) /\ MaxSeq \in Nat
  /\ \A id \in Ids : Subject[id] # id => Subject[id] \notin Ids

\* What is read from a missing file, and from an empty one.
NoFile == <<>>

VARIABLES ledger,    \* signal_ledger.jsonl: a sequence of [id, fact, seq]
          ledgerFile, \* "there", "missing", or missing and "stuck": no restore works
          mirror,    \* its mirror under the backup root
          archived,  \* the entries in the archive files
          torn,      \* the files that end in half a line
          unmirrored, \* ids whose append did not reach the mirror
          restarted, \* history: a new ledger was started beside a mirror
          cache,     \* _APPEND_CACHE of each process, by file
          faults     \* how many faults have happened

vars == <<ledger, ledgerFile, mirror, archived, torn, unmirrored, restarted,
          cache, faults>>

Entries == [id : Ids, fact : {e.fact : e \in Events}, seq : 1..MaxSeq]

EntryIds(file) == {file[i].id : i \in DOMAIN file}

\* The lines of file, in their order, whose ids are not in ids.
Lacking(file, ids) == Picked(file, {i \in DOMAIN file : file[i].id \notin ids})

LastSeq(file) == LET S == {file[i].seq : i \in DOMAIN file}
                 IN IF S = {} THEN 0 ELSE CHOOSE m \in S : \A n \in S : n <= m

\* An index; fresh says that the file's fingerprint is still the remembered one.
IndexOf(file) == [ids |-> EntryIds(file), last |-> LastSeq(file), fresh |-> TRUE]

NoIndex == [ids |-> {}, last |-> 0, fresh |-> FALSE]

NoCache == [ledger |-> NoIndex, mirror |-> NoIndex]

Init ==
  /\ ledger = NoFile /\ ledgerFile = "missing"
  /\ mirror = NoFile /\ archived = {}
  /\ torn = {} /\ unmirrored = {} /\ restarted = FALSE
  /\ cache = [p \in Procs |-> NoCache]
  /\ faults = 0

\* A fault of the surroundings, if this instance has it and any is left.
Fault(kind) ==
  /\ kind \in Faults
  /\ faults < MaxFaults
  /\ faults' = faults + 1
-----------------------------------------------------------------------------
(* What one process finds under the lock *)

\* _restore_ledger_unlocked; it raises when the mirror is damaged, and does
\* nothing when it is stuck.
Restoring == ledgerFile = "missing" /\ mirror # NoFile

Readable == "ledger" \notin torn /\ (Restoring => "mirror" \notin torn)

\* What is read: nothing if a restore was needed and failed.
Found == IF Restoring THEN mirror ELSE ledger

\* What is read as soon as restores work.
Standing == IF ledgerFile = "there" THEN ledger ELSE mirror

\* A step that only reads: at most the restore remains of it.
Restore ==
  /\ ledger' = Found
  /\ ledgerFile' = IF Restoring THEN "there" ELSE ledgerFile
  /\ UNCHANGED restarted

\* Opened to append, the file is there, whether or not it was restored.
Write(lines) ==
  /\ ledger' = Found \o lines
  /\ ledgerFile' = "there"
  /\ restarted' = (restarted \/ Found # Standing)

\* The cached index while the fingerprint matches, else one built anew.
AppendIndex(p) ==
  IF cache[p].ledger.fresh /\ ~Restoring THEN cache[p].ledger ELSE IndexOf(Found)

Offered(batch) == {batch[i] : i \in DOMAIN batch}

\* A known tail-close event offered with another fact.
Conflict(p, batch) ==
  \E e \in Offered(batch), i \in DOMAIN Found :
    /\ e.id \in TailIds \cap AppendIndex(p).ids
    /\ Found[i].id = e.id /\ Found[i].fact # e.fact

\* The first of each unknown id, numbered from the index's last.
Appendable(p, batch) ==
  LET index == AppendIndex(p)
      first == Ascending({i \in DOMAIN batch :
                 /\ batch[i].id \notin index.ids
                 /\ \A j \in 1..i - 1 : batch[j].id # batch[i].id})
  IN [k \in DOMAIN first |-> [id   |-> batch[first[k]].id,
                              fact |-> batch[first[k]].fact,
                              seq  |-> index.last + k]]

\* Mutant: the fingerprint does not change within a second.
OutdatedByTime(c, p, file) == c

\* Others no longer recognise a file that p has written.
Outdated(c, p, file) ==
  [q \in Procs |-> IF q = p THEN c[q] ELSE [c[q] EXCEPT ![file] = NoIndex]]

\* Nobody recognises a file that was replaced.
Replaced(c, file) == [q \in Procs |-> [c[q] EXCEPT ![file] = NoIndex]]

\* os.replace of the restored file, if there was one.
AfterRestore == IF Restoring THEN Replaced(cache, "ledger") ELSE cache

\* The caches once p has written new to the ledger and remembered it.
Committed(p, new) ==
  LET index == AppendIndex(p)
  IN [Outdated(AfterRestore, p, "ledger") EXCEPT ![p].ledger =
        [index EXCEPT !.ids = @ \cup EntryIds(new), !.last = new[Len(new)].seq]]
-----------------------------------------------------------------------------
(* The mirror *)

\* Mutant: a full pass is never made.
MissingOfBatch(p, new) == Lacking(new, EntryIds(mirror))

\* Mutant: the full pass compares what was read before the append.
MissingOfRead(p, new) ==
  IF cache[p].mirror.fresh
  THEN Lacking(new, cache[p].mirror.ids)
  ELSE Lacking(Found, EntryIds(mirror))

\* Only the batch while the mirror's fingerprint matches, else everything.
Missing(p, new) ==
  IF cache[p].mirror.fresh
  THEN Lacking(new, cache[p].mirror.ids)
  ELSE Lacking(Found \o new, EntryIds(mirror))

MirrorIndex(p, missing) ==
  LET index == IF cache[p].mirror.fresh THEN cache[p].mirror ELSE IndexOf(mirror)
  IN [index EXCEPT !.ids = @ \cup EntryIds(missing)]

\* _sync_ledger_backup_unlocked, from the caches c.
Sync(c, p, new) ==
  LET missing == Missing(p, new)
  IN /\ mirror' = mirror \o missing
     /\ cache' = [(IF missing = <<>> THEN c ELSE Outdated(c, p, "mirror"))
                    EXCEPT ![p].mirror = MirrorIndex(p, missing)]

\* A full pass over a damaged mirror raises.
Syncable(p) == "mirror" \in torn => cache[p].mirror.fresh

\* The mirror could not be written: a cache that was recognised stays.
Unsynced(c, p) ==
  IF cache[p].mirror.fresh THEN c ELSE [c EXCEPT ![p].mirror = NoIndex]
-----------------------------------------------------------------------------
(* append_events *)

IsMonitor(e) == Subject[e.id] # e.id

\* A monitor event's id holds a uuid and is not offered again, but for that of
\* a migration, which is offered where no monitor event is found.
Offers == {batch \in Batches : \A e \in Offered(batch), old \in archived :
             IsMonitor(e) /\ e.id = old.id =>
               \A i \in DOMAIN Found : ~IsMonitor(Found[i])}

Fits(new) == \A i \in DOMAIN new : new[i].seq <= MaxSeq

\* Every event is known: only the index is remembered.
AppendNothing(p, batch) ==
  /\ Readable /\ ~Conflict(p, batch)
  /\ Appendable(p, batch) = <<>>
  /\ Restore
  /\ cache' = [AfterRestore EXCEPT ![p].ledger = AppendIndex(p)]
  /\ UNCHANGED <<mirror, archived, torn, unmirrored, faults>>

\* ValueError before anything is written; an index read for it is dropped.
AppendConflict(p, batch) ==
  /\ Readable /\ Conflict(p, batch)
  /\ Restore
  /\ cache' = AfterRestore
  /\ UNCHANGED <<mirror, archived, torn, unmirrored, faults>>

AppendNew(p, batch) ==
  LET new == Appendable(p, batch)
  IN /\ Readable /\ ~Conflict(p, batch) /\ Syncable(p)
     /\ new # <<>> /\ Fits(new)
     /\ Write(new)
     /\ Sync(Committed(p, new), p, new)
     /\ UNCHANGED <<archived, torn, unmirrored, faults>>

\* OSError or TimeoutError at the mirror, swallowed; or a damaged mirror,
\* which raises after the ledger was written.
AppendUnmirrored(p, batch) ==
  LET new == Appendable(p, batch)
  IN /\ Readable /\ ~Conflict(p, batch)
     /\ new # <<>> /\ Fits(new)
     /\ \/ Fault("mirror")
        \/ ~Syncable(p) /\ UNCHANGED faults
     /\ Write(new)
     /\ cache' = Unsynced(Committed(p, new), p)
     /\ unmirrored' = unmirrored \cup EntryIds(new)
     /\ UNCHANGED <<mirror, archived, torn>>

\* The process dies while it writes the ledger, or before the mirror: the
\* file holds the first lines of the batch, perhaps half a line more.
AppendDies(p, batch) ==
  LET new == Appendable(p, batch)
  IN /\ Readable /\ ~Conflict(p, batch)
     /\ new # <<>> /\ Fits(new)
     /\ Fault("death")
     /\ \E n \in 0..Len(new) :
          /\ Write(SubSeq(new, 1, n))
          /\ unmirrored' = unmirrored \cup EntryIds(SubSeq(new, 1, n))
          /\ \/ UNCHANGED torn
             \/ "torn" \in Faults /\ n < Len(new) /\ torn' = torn \cup {"ledger"}
     /\ cache' = [Replaced(AfterRestore, "ledger") EXCEPT ![p] = NoCache]
     /\ UNCHANGED <<mirror, archived>>

\* The process dies while it writes the mirror.
SyncDies(p, batch) ==
  LET new == Appendable(p, batch)
      missing == Missing(p, new)
  IN /\ Readable /\ ~Conflict(p, batch) /\ Syncable(p)
     /\ new # <<>> /\ Fits(new)
     /\ Fault("death")
     /\ Write(new)
     /\ \E n \in 0..Len(missing) - 1 :
          /\ mirror' = mirror \o SubSeq(missing, 1, n)
          /\ unmirrored' = unmirrored \cup EntryIds(SubSeq(missing, n + 1, Len(missing)))
     /\ torn' \in {torn} \cup (IF "torn" \in Faults THEN {torn \cup {"mirror"}} ELSE {})
     /\ cache' = [q \in Procs |-> NoCache]
     /\ UNCHANGED archived
-----------------------------------------------------------------------------
(* Reading, the operator's sync, and archiving *)

\* read_events: only its restore changes anything; it finds nothing if that
\* fails.
Read ==
  /\ Readable /\ Restoring
  /\ Restore
  /\ cache' = AfterRestore
  /\ UNCHANGED <<mirror, archived, torn, unmirrored, faults>>

\* sync_backup (state_doctor --recover): a full pass if there is a ledger.
SyncBackup(p) ==
  LET missing == Lacking(Found, EntryIds(mirror))
      index == IndexOf(mirror)
  IN /\ Readable /\ "mirror" \notin torn
     /\ ledgerFile = "there" \/ Restoring
     /\ Restore
     /\ mirror' = mirror \o missing
     /\ cache' = [(IF missing = <<>> THEN AfterRestore
                   ELSE Outdated(AfterRestore, p, "mirror"))
                    EXCEPT ![p].mirror = [index EXCEPT !.ids = @ \cup EntryIds(missing)]]
     /\ UNCHANGED <<archived, torn, unmirrored, faults>>

\* Mutant: superseded by any later event of the subject, however new it is.
ArchivableLast(cutoff) ==
  {i \in DOMAIN ledger : IsMonitor(ledger[i]) /\ ledger[i].seq <= cutoff}

\* Older than the cutoff, and a later line restates its subject.
Archivable(cutoff) ==
  {i \in DOMAIN ledger :
     /\ IsMonitor(ledger[i]) /\ ledger[i].seq <= cutoff
     /\ \E j \in i + 1..Len(ledger) : Subject[ledger[j].id] = Subject[ledger[i].id]}

Retained(cutoff) == Picked(ledger, DOMAIN ledger \ Archivable(cutoff))

\* _verify: growing sequence numbers, and the next one stays the same.
Verified(cutoff) ==
  LET kept == Retained(cutoff)
  IN /\ \A i, j \in DOMAIN kept : i < j => kept[i].seq < kept[j].seq
     /\ LastSeq(kept) = LastSeq(ledger)

ArchivePlan(cutoff) ==
  "ledger" \notin torn /\ Archivable(cutoff) # {} /\ Verified(cutoff)

Archived(cutoff) == archived \cup {ledger[i] : i \in Archivable(cutoff)}

\* The mirror keeps what the ledger keeps, and what the ledger never had.
Archive(p, cutoff) ==
  /\ ArchivePlan(cutoff) /\ "mirror" \notin torn
  /\ archived' = Archived(cutoff)
  /\ ledger' = Retained(cutoff)
  /\ mirror' = Lacking(mirror, EntryIds(ledger) \ EntryIds(Retained(cutoff)))
  /\ cache' = [Replaced(Replaced(cache, "ledger"), "mirror") EXCEPT ![p] = NoCache]
  /\ UNCHANGED <<ledgerFile, torn, unmirrored, restarted, faults>>

\* It dies between its files, or raises at a damaged mirror.
ArchiveDies(p, cutoff) ==
  /\ ArchivePlan(cutoff)
  /\ Fault("death")
  /\ archived' = Archived(cutoff)
  /\ \/ UNCHANGED ledger /\ cache' = [cache EXCEPT ![p] = NoCache]
     \/ /\ ledger' = Retained(cutoff)
        /\ cache' = [Replaced(cache, "ledger") EXCEPT ![p] = NoCache]
  /\ UNCHANGED <<ledgerFile, mirror, torn, unmirrored, restarted>>
-----------------------------------------------------------------------------
\* A process ends and another starts in its place.
Exit(p) ==
  /\ cache[p] # NoCache
  /\ cache' = [cache EXCEPT ![p] = NoCache]
  /\ UNCHANGED <<ledger, ledgerFile, mirror, archived, torn, unmirrored, restarted,
                 faults>>

\* The ledger file is lost.
LedgerLost ==
  /\ ledgerFile = "there"
  /\ Fault("loss")
  /\ ledger' = NoFile /\ ledgerFile' = "missing"
  /\ torn' = torn \ {"ledger"}
  /\ cache' = Replaced(cache, "ledger")
  /\ UNCHANGED <<mirror, archived, unmirrored, restarted>>

\* For a while a restore ends in an OSError or a TimeoutError, swallowed: the
\* mirror is locked or unreadable, or the ledger's directory is not writable.
RestoreFails ==
  /\ Restoring
  /\ Fault("restore")
  /\ ledgerFile' = "stuck"
  /\ UNCHANGED <<ledger, mirror, archived, torn, unmirrored, restarted, cache>>

RestoreWorks ==
  /\ ledgerFile = "stuck"
  /\ ledgerFile' = "missing"
  /\ UNCHANGED <<ledger, mirror, archived, torn, unmirrored, restarted, cache, faults>>

Next ==
  \/ \E p \in Procs :
       \/ \E batch \in Offers :
            \/ AppendNothing(p, batch)    \/ AppendConflict(p, batch)
            \/ AppendNew(p, batch)           \/ AppendUnmirrored(p, batch)
            \/ AppendDies(p, batch)       \/ SyncDies(p, batch)
       \/ \E cutoff \in 1..MaxSeq : Archive(p, cutoff) \/ ArchiveDies(p, cutoff)
       \/ SyncBackup(p)
       \/ Exit(p)
  \/ Read
  \/ LedgerLost
  \/ RestoreFails
  \/ RestoreWorks

Spec == Init /\ [][Next]_vars
-----------------------------------------------------------------------------
(* Properties *)

\* The files are an event log: an event is recorded once, under a number of
\* its own that grows, whatever process with whatever cache appends it; only
\* what was never mirrored is lost with the file; archiving changes neither
\* the next number nor what a replay would find.  From the first append that
\* could not restore the ledger on, the log has restarted: its events may come
\* back under other numbers, but none is in it twice.
Log == INSTANCE EventLog WITH
         log <- Standing,
         kept <- EntryIds(mirror) \cap EntryIds(Standing),
         retired <- archived

ImplementsEventLog == Log!LogSpec

\* An index that is still recognised says what the file holds: no other
\* process, restore or archive run slips between a cache and its file.
CacheIsCoherent ==
  \A p \in Procs :
    /\ cache[p].ledger.fresh => cache[p].ledger = IndexOf(ledger)
    /\ cache[p].mirror.fresh => cache[p].mirror.ids = EntryIds(mirror)

\* An event is missing from the mirror only if the append that recorded it
\* was cut short or could not write the mirror.
GapsAreExplained == EntryIds(Standing) \ EntryIds(mirror) \subseteq unmirrored

\* A process recognises the mirror (and from then on adds only its own
\* batches) only once the mirror holds the whole ledger: a scheduled job's
\* first append makes up for what earlier ones had left out.
MirrorKnownIsComplete ==
  [][\A p \in Procs : ~cache[p].mirror.fresh /\ cache'[p].mirror.fresh
       => EntryIds(Standing') \subseteq EntryIds(mirror')]_vars

\* Every append that mirrors finds a drifted mirror and makes it complete
\* ("False when the mirror drifted and needs a full pass").
EveryAppendRepairsMirror ==
  [][\A p \in Procs, batch \in Batches :
       AppendNew(p, batch) => EntryIds(ledger') \subseteq EntryIds(mirror')]_vars

\* What the mirror holds is found again, under the number it had ("idempotent
\* append-only mirror in the same independent backup root").
MirrorIsFoundAgain ==
  [][\A i \in DOMAIN mirror :
       ledgerFile # "there" /\ ledgerFile' = "there"
         => \E k \in DOMAIN ledger' : ledger'[k] = mirror[i]]_vars
=============================================================================
