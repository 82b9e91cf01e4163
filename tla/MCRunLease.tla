------------------------------ MODULE MCRunLease ------------------------------
(* Small instances of the run lease for TLC. *)
EXTENDS RunLease
=============================================================================
