------------------------------- MODULE DagOrder -------------------------------
(* The order in which a DAG walks its jobs (scripts/run_agent_dag.py). *)
EXTENDS Sequences, SequencesExt

\* execution_order: its visit puts the upstreams a job requires before it.
ExecutionOrder(requires, target) ==
  LET visit[ordered \in Seq(DOMAIN requires), j \in DOMAIN requires] ==
        IF j \in ToSet(ordered) THEN ordered
        ELSE Append(FoldLeft(LAMBDA o, k : visit[o, k], ordered, requires[j]), j)
  IN  visit[<<>>, target]
=============================================================================
