-------------------------------- MODULE Places --------------------------------
(***************************************************************************)
(* Parts of a sequence, named by their places.  SelectSeq would do, but it *)
(* is recursive, and nothing could be proved about what it selects.        *)
(***************************************************************************)
EXTENDS Integers, Sequences, FiniteSets

\* The places I in ascending order.
Ascending(I) ==
  [k \in 1..Cardinality(I) |->
     CHOOSE i \in I : Cardinality({j \in I : j <= i}) = k]

\* The elements of s at the places I, in their order.
Picked(s, I) == [k \in 1..Cardinality(I) |-> s[Ascending(I)[k]]]
=============================================================================
