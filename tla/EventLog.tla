------------------------------- MODULE EventLog -------------------------------
(***************************************************************************)
(* What the canonical event ledger promises to those who write and replay  *)
(* it, without its files, caches and processes: events are recorded once,  *)
(* at the end and under growing sequence numbers, and stay; what has been  *)
(* mirrored also survives the loss of the ledger file; archiving takes     *)
(* away only what a later event restates.  It also says what is left of    *)
(* that once a lost file could not be restored and the log has restarted.  *)
(* SignalLedger implements it.                                             *)
(***************************************************************************)
EXTENDS Integers, Sequences, FiniteSets, SequencesExt, Places

CONSTANT Subject   \* the subject an event restates, by event id

VARIABLES log,     \* the events a reader gets, in order: records with id and seq
          kept,    \* the ids whose events a loss cannot take
          retired, \* events archived so far
          restarted \* whether the log ever restarted

logVars == <<log, kept, retired, restarted>>

IdsOf(events) == {e.id : e \in events}

\* An id is recorded once, at the end and above every number before it.
Record ==
  /\ IsPrefix(log, log')
  /\ \A j \in Len(log) + 1..Len(log'), i \in 1..Len(log') :
       i < j => log'[i].id # log'[j].id /\ log'[i].seq < log'[j].seq
  /\ kept \subseteq kept' /\ kept' \subseteq IdsOf(ToSet(log'))
  /\ UNCHANGED <<retired, restarted>>

\* The file is lost: exactly what was not kept is gone.  An archived event
\* may come back with the copy.  In a log that has restarted, the ids that
\* were kept come back, each once, with what they were first recorded with.
Lose ==
  LET left == {e \in ToSet(log) : e.id \in kept}
  IN /\ ~restarted => /\ left \subseteq ToSet(log')
                      /\ ToSet(log') \subseteq left \cup retired
     /\ kept \subseteq IdsOf(ToSet(log'))
     /\ Len(log') = Cardinality(IdsOf(ToSet(log')))
     /\ kept' = IdsOf(ToSet(log'))
     /\ UNCHANGED <<retired, restarted>>

\* The lost file could not be restored and the next append began a new one:
\* what it records is numbered from 1, each id once.
Restart ==
  /\ restarted'
  /\ \A j \in 1..Len(log') : log'[j].seq = j
  /\ \A i, j \in 1..Len(log') : i < j => log'[i].id # log'[j].id
  /\ kept' \subseteq IdsOf(ToSet(log'))
  /\ UNCHANGED retired

\* The log without the events at the places gone, each restated further on.
Without(gone) == Picked(log, DOMAIN log \ gone)

\* Archiving: what goes is restated later, the newest number stays.  (Two
\* events of a log that has restarted may share it.)
Retire ==
  LET gone == {i \in DOMAIN log : log[i] \notin ToSet(log')}
  IN /\ log' = Without(gone)
     /\ \A i \in gone : \E j \in DOMAIN log \ gone :
          i < j /\ Subject[log[j].id] = Subject[log[i].id]
     /\ \A i \in gone : \E j \in DOMAIN log \ gone :
          \/ log[i].seq < log[j].seq
          \/ restarted /\ log[i].seq = log[j].seq
     /\ kept' = kept \cap IdsOf(ToSet(log'))
     /\ {log[i] : i \in gone} \subseteq retired'
     /\ retired \subseteq retired' /\ retired' \subseteq retired \cup ToSet(log)
     /\ UNCHANGED restarted

LogInit == log = <<>> /\ kept = {} /\ retired = {} /\ ~restarted

LogNext == Record \/ Lose \/ Retire \/ Restart

LogSpec == LogInit /\ [][LogNext]_logVars
=============================================================================
