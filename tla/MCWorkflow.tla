----------------------------- MODULE MCWorkflow -----------------------------
(***************************************************************************)
(* Instances of PrWorkflow and TaskScheduler for TLC.  A behaviour runs    *)
(* either the workflow of a pull request or, with other workers, any graph *)
(* that three of the tasks can form, the fourth depending on nothing; such *)
(* workers may time out or raise, and leave results as the workflow's do   *)
(* for a clean diff.                                                       *)
(***************************************************************************)
EXTENDS PrWorkflow

VARIABLE runs  \* "workflow" or "graph"

Graphs3 == {g \in [Task -> SUBSET ((Task \ {"run_tests"}) \cup {Missing})] : g["run_tests"] = {}}

GraphInit ==
  /\ \E graph \in Graphs3 : InitWith(graph)
  /\ diff = "clean" /\ environment = "staging" /\ results = <<>> /\ report = "none"

GraphRun(t) ==
  \/ PrStart(t) \/ PrSucceed(t)
  \/ (TimeOut(t) \/ Raise(t)) /\ UNCHANGED <<results, report, given>>

GraphNext == PrLoop \/ \E t \in Task : GraphRun(t)

MCInit == (runs = "workflow" /\ PrInit) \/ (runs = "graph" /\ GraphInit)
MCNext == ((runs = "workflow" /\ PrNext) \/ (runs = "graph" /\ GraphNext)) /\ UNCHANGED runs

MCFairness ==
  /\ WF_prVars((PrLoop \/ (runs = "workflow" /\ Report)) /\ UNCHANGED runs)
  /\ \A t \in Task :
       WF_prVars((IF runs = "workflow" THEN PrRun(t) ELSE GraphRun(t)) /\ UNCHANGED runs)

MCSpec == MCInit /\ [][MCNext]_<<prVars, runs>> /\ MCFairness

\* Every evaluation of a pull request ends in a report.
EvaluationReports == runs = "workflow" => Reports

=============================================================================
