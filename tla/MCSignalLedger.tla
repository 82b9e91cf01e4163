---------------------------- MODULE MCSignalLedger ----------------------------
(***************************************************************************)
(* Instances of the signal ledger.  m1, m2 and m3 are events of one        *)
(* monitor, t is a tail-close event that may be offered with two facts.    *)
(***************************************************************************)
EXTENDS SignalLedger, TLC

Ev(id, fact) == [id |-> id, fact |-> fact]

MCEvents == {Ev("m1", "f"), Ev("m2", "f"), Ev("m3", "f"), Ev("t", "f"), Ev("t", "g")}

MCSubject == [m1 |-> "monitor", m2 |-> "monitor", m3 |-> "monitor", t |-> "t"]

MCTailIds == {"t"}

MCBatches == {<<Ev("m1", "f"), Ev("t", "f")>>, <<Ev("m2", "f"), Ev("m2", "f")>>,
              <<Ev("t", "g"), Ev("m3", "f")>>}

\* Three appends that no tail-close event can come between.
MCSingles == {<<Ev("m1", "f")>>, <<Ev("m2", "f")>>, <<Ev("m3", "f")>>}

Processes == Permutations(Procs)
=============================================================================
