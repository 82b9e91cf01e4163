----------------------------- MODULE MCAgentDag -----------------------------
(* The morning's shape: auction-snapshot, which auction-finalize can do      *)
(* without, then auction-finalize, which open-confirmation needs.            *)
EXTENDS AgentDag, DagOrder

MCJobs == {"snapshot", "finalize", "confirm"}

MCRequires ==
  [j \in MCJobs |-> CASE j = "snapshot" -> <<>>
                      [] j = "finalize" -> <<"snapshot">>
                      [] j = "confirm"  -> <<"finalize">>]

MCOrder ==
  [snapshot |-> <<"snapshot">>,
   finalize |-> <<"snapshot", "finalize">>,
   confirm  |-> <<"snapshot", "finalize", "confirm">>]

\* (Written out because TLC would compute it anew for every use.)
ASSUME OrderIsComputed ==
  \A t \in MCJobs : MCOrder[t] = ExecutionOrder(MCRequires, t)

OnlyOk == [j \in MCJobs |-> [k \in MCJobs |-> {"ok"}]]

MCAccepts == [OnlyOk EXCEPT !["finalize"]["snapshot"] = {"ok", "timeout", "failed"}]
NoFailed == [OnlyOk EXCEPT !["finalize"]["snapshot"] = {"ok", "timeout"}]

ASSUME MorningIsPlain == Accepts = MCAccepts => ToleranceIsPlain

MCStatuses == TerminalFailures \cup {"missing", "ok", "reused", "none"}

Done == [status |-> "ok", rc |-> 0]
TimedOut == [status |-> "timeout", rc |-> 124]

\* A producer may say "failed" in its payload and still leave with exit code 0.
SaysFailed == [status |-> "failed", rc |-> 0]

MCOutcomes ==
  [j \in MCJobs |-> CASE j = "snapshot" -> {Done, TimedOut}
                      [] j = "finalize" -> {Done, SaysFailed}
                      [] j = "confirm"  -> {Done, TimedOut}]

\* 09:34 fires auction-finalize, 09:35 open-confirmation.
MCFired == [d \in {"first", "second"} |->
             IF d = "first" THEN {"confirm"} ELSE {"finalize"}]
=============================================================================
