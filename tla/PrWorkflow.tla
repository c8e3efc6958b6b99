----------------------------- MODULE PrWorkflow -----------------------------
(***************************************************************************)
(* MultiAgentOrchestrator.execute_workflow of                              *)
(* backend/app/services/orchestration/orchestrator.py: the evaluation of a *)
(* pull request, four workers run by the TaskScheduler, the evidence they  *)
(* leave, and the report that OrchestrationPolicyEngine and                *)
(* EvidenceAggregator make of it.                                          *)
(***************************************************************************)
EXTENDS TaskScheduler, Sequences

VARIABLES
  diff,          \* what the diff of the pull request contains
  environment,   \* where it is to be released
  results,       \* worker_results, in the order in which they are appended
  report         \* overall_status of the report, "none" before there is one

prVars == <<vars, diff, environment, results, report>>
given  == <<diff, environment>>

Reviews == {"code_review", "security_review", "run_tests"}
ASSUME WorkflowTasks == Task = Reviews \cup {"risk_assessment"}

\* "secret": words the security worker escalates on; "dangerous": eval( or
\* exec(, which it escalates on too and which the code review flags.
Diff == {"clean", "secret", "dangerous"}

\* MUTANT: the risk assessment does not wait for the code review.
WorkflowGraphRushed ==
  [t \in Task |-> IF t = "risk_assessment" THEN Reviews \ {"code_review"} ELSE {}]

\* create_pr_workflow_graph
WorkflowGraph == [t \in Task |-> IF t = "risk_assessment" THEN Reviews ELSE {}]

PrInit ==
  /\ InitWith(WorkflowGraph)
  /\ diff \in Diff /\ environment \in {"staging", "production"}
  /\ results = <<>>
  /\ report = "none"

-----------------------------------------------------------------------------
(* The workers *)

Reported(severity) == {i \in DOMAIN results : severity \in results[i].findings}

\* The security worker calls its model only for a diff that looks suspect.
Escalates(t) == t = "security_review" /\ diff # "clean"

Findings(t) ==
  IF t = "code_review" /\ diff = "dangerous" THEN {"CRITICAL"}
  ELSE IF Escalates(t) THEN {"HIGH"} ELSE {}

\* The risk assessor's score is high just if the results it is given hold a
\* critical finding.  The test worker's result is a constant.
WorkerResult(t) ==
  [task |-> t, findings |-> Findings(t),
   highRisk |-> t = "risk_assessment" /\ Reported("CRITICAL") # {}]

\* The workers that call a model.  execute_completion answers with a fallback
\* when the call fails, and may reach the deadline with it.
CallsModel(t) == t = "code_review" \/ Escalates(t)

\* A null content: the security worker cuts it, the code review tests it first.
MayRaise(t) == Escalates(t)

\* MUTANT: the result is appended before the worker's last await.
AppendEarly(t) ==
  /\ Start(t)
  /\ results' = Append(results, WorkerResult(t))
  /\ UNCHANGED <<report, given>>

PrStart(t) == Start(t) /\ UNCHANGED <<results, report, given>>

\* _dispatch_worker appends and returns with no await between.
PrSucceed(t) ==
  /\ Succeed(t)
  /\ results' = Append(results, WorkerResult(t))
  /\ UNCHANGED <<report, given>>

PrTimeOut(t) == CallsModel(t) /\ TimeOut(t) /\ UNCHANGED <<results, report, given>>
PrRaise(t)   == MayRaise(t) /\ Raise(t) /\ UNCHANGED <<results, report, given>>

-----------------------------------------------------------------------------
(* The report *)

\* MUTANT: only the risk score asks for an approval.
NeedsApprovalByRisk == \E i \in DOMAIN results : results[i].highRisk

\* evaluate_release_policy.  No result of the test worker counts as passed,
\* and the one it gives always is.
Violated ==
  \/ Reported("CRITICAL") # {}
  \/ environment = "production" /\ Cardinality(Reported("HIGH")) >= 3

NeedsApproval ==
  environment = "production" \/ \E i \in DOMAIN results : results[i].highRisk

\* MUTANT: the report takes over the policy engine's decision.
OverallStatusDecision ==
  IF Violated THEN "BLOCK" ELSE IF NeedsApproval THEN "REQUIRE_APPROVAL" ELSE "ALLOW"

\* aggregate
OverallStatus ==
  IF Violated \/ Reported("CRITICAL") # {} THEN "BLOCKED"
  ELSE IF NeedsApproval THEN "REQUIRES_APPROVAL" ELSE "APPROVED"

\* MUTANT: the report waits for the risk assessment.
ReportOnRisk ==
  /\ phase = "returned" /\ report = "none"
  /\ status["risk_assessment"] = "SUCCEEDED"
  /\ report' = OverallStatus
  /\ UNCHANGED <<vars, results, given>>

Report ==
  /\ phase = "returned" /\ report = "none"
  /\ report' = OverallStatus
  /\ UNCHANGED <<vars, results, given>>

PrRun(t) == PrStart(t) \/ PrSucceed(t) \/ PrTimeOut(t) \/ PrRaise(t)
PrLoop   == (Validate \/ Loop) /\ UNCHANGED <<results, report, given>>

PrNext == PrLoop \/ Report \/ \E t \in Task : PrRun(t)

PrFairness == WF_prVars(PrLoop \/ Report) /\ \A t \in Task : WF_prVars(PrRun(t))

PrSpec == PrInit /\ [][PrNext]_prVars /\ PrFairness
-----------------------------------------------------------------------------
(* Properties *)

PrTypeOK ==
  /\ TypeOK
  /\ diff \in Diff
  /\ environment \in {"staging", "production"}
  /\ results \in Seq([task : Task, findings : SUBSET {"CRITICAL", "HIGH"}, highRisk : BOOLEAN])
  /\ report \in {"none", "BLOCKED", "REQUIRES_APPROVAL", "APPROVED"}

ResultsOf(t) == {i \in DOMAIN results : results[i].task = t}

(* The evidence is the graph's: one result for each task that succeeded,
   whatever was retried or cancelled, and none for any other. *)
EvidenceMatchesGraph ==
  \A t \in Task :
    Cardinality(ResultsOf(t)) = IF status[t] = "SUCCEEDED" THEN 1 ELSE 0

(* The risk assessor ran on complete evidence: if it scores the release low,
   nothing critical is in the diff, not even in a review still under way. *)
RiskSeesTheDiff ==
  \A i \in ResultsOf("risk_assessment") : results[i].highRisk <=> diff = "dangerous"

(* A critical finding once reported blocks the release, also when the risk
   assessment never ran because another review failed; and nothing is
   released to production without a sign-off. *)
ReleaseIsGuarded ==
  /\ status["code_review"] = "SUCCEEDED" /\ diff = "dangerous"
       => report \in {"none", "BLOCKED"}
  /\ environment = "production" => report # "APPROVED"

(* Every evaluation ends in a report. *)
Reports == <>(report # "none")
=============================================================================
