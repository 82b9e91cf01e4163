---------------------------- MODULE MCResearchBus ----------------------------
(* Small instances of the research bus for TLC. *)
EXTENDS ResearchBus, TLC

\* Three tasks on one subject: two of the same day, which its budget cannot
\* both pay for, of different urgency, and one of the next day.
OneSubject == [t \in {"t1", "t2", "t3"} |-> "s1"]
TwoDays    == ("t1" :> 1) @@ ("t2" :> 1) @@ ("t3" :> 2)
Priorities == ("t1" :> 70) @@ ("t2" :> 85) @@ ("t3" :> 70)
Costs      == ("t1" :> 2) @@ ("t2" :> 4) @@ ("t3" :> 3)
=============================================================================
