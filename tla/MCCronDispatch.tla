---------------------------- MODULE MCCronDispatch ----------------------------
(* Small instances of the cron dispatcher for TLC. *)
EXTENDS CronDispatch, TLC

\* Four jobs, at most two due in a minute: the state file, bounded by two
\* entries, is full after the first minute and has to forget in the others.
Schedule == (1 :> {"a", "b"}) @@ (2 :> {"b", "c"}) @@ (3 :> {"d"})
=============================================================================
