------------------------- MODULE PrWorkflow_proofs -------------------------
(* Proofs about PrWorkflow, for every number of retries and of permits.  The *)
(* workflow is a run of TaskScheduler, so that what is proved of that module *)
(* holds of it; the rest is about what the workers leave behind.             *)
EXTENDS PrWorkflow, TaskScheduler_proofs, FiniteSetTheorems

-----------------------------------------------------------------------------
(* The workflow is a run of the scheduler *)

LEMMA GraphIsGraph == WorkflowGraph \in [Task -> SUBSET (Task \cup {Missing})]
BY WorkflowTasks DEF WorkflowGraph

\* execute_workflow does nothing to the graph but what TaskScheduler does.
THEOREM ImplementsScheduler == PrSpec => Spec
<1>1. PrInit => Init
  BY GraphIsGraph DEF PrInit, Init
<1>2. ASSUME [PrNext]_prVars PROVE [Next]_vars
  <2>1. CASE PrLoop
    BY <2>1 DEF PrLoop, Next
  <2>2. CASE Report
    BY <2>2 DEF Report
  <2>3. ASSUME NEW t \in Task, PrRun(t) PROVE Next
    BY <2>3 DEF PrRun, PrStart, PrSucceed, PrTimeOut, PrRaise, Run, Next
  <2>4. CASE UNCHANGED prVars
    BY <2>4 DEF prVars
  <2> QED BY <1>2, <2>1, <2>2, <2>3, <2>4 DEF PrNext
<1> QED BY <1>1, <1>2, PTL DEF PrSpec, Spec

-----------------------------------------------------------------------------
(* The inductive invariant, on top of the scheduler's *)

Result == [task : Task, findings : SUBSET {"CRITICAL", "HIGH"}, highRisk : BOOLEAN]

GivenInv == diff \in Diff /\ environment \in {"staging", "production"} /\ deps = WorkflowGraph

\* Every result is what its worker makes of the diff, whenever it ran.
ResultInv ==
  /\ results \in Seq(Result)
  /\ \A i \in DOMAIN results :
       /\ results[i].findings = Findings(results[i].task)
       /\ results[i].highRisk <=> (results[i].task = "risk_assessment" /\ diff = "dangerous")

\* One result of each task that succeeded, and none of the others.
EvidenceInv ==
  \A t \in Task :
    /\ status[t] = "SUCCEEDED" => \E i \in DOMAIN results : ResultsOf(t) = {i}
    /\ status[t] # "SUCCEEDED" => ResultsOf(t) = {}

\* The report is about evidence that does not change any more.
ReportInv ==
  /\ report \in {"none", "BLOCKED", "REQUIRES_APPROVAL", "APPROVED"}
  /\ report # "none" => phase = "returned" /\ report = OverallStatus

PrInv == GivenInv /\ ResultInv /\ EvidenceInv /\ ReportInv

-----------------------------------------------------------------------------
LEMMA InitPrInv == PrInit => PrInv
<1> SUFFICES ASSUME PrInit PROVE PrInv
  OBVIOUS
<1>1. GivenInv
  BY DEF PrInit, InitWith, GivenInv
<1>2. results = <<>> /\ report = "none" /\ \A t \in Task : status[t] = "PENDING"
  BY DEF PrInit, InitWith
<1>3. ResultInv
  BY <1>2 DEF ResultInv
<1>4. EvidenceInv
  BY <1>2 DEF EvidenceInv, ResultsOf
<1>5. ReportInv
  BY <1>2 DEF ReportInv
<1> QED BY <1>1, <1>3, <1>4, <1>5 DEF PrInv

\* The critical findings are those of the code review, once it has succeeded.
LEMMA CriticalIffDangerous ==
  ASSUME PrInv, status["code_review"] = "SUCCEEDED"
  PROVE  Reported("CRITICAL") # {} <=> diff = "dangerous"
<1>1. "code_review" \in Task
  BY WorkflowTasks DEF Reviews
<1>2. PICK i \in DOMAIN results : ResultsOf("code_review") = {i}
  BY <1>1 DEF PrInv, EvidenceInv
<1>3. results[i].findings = Findings("code_review")
  BY <1>2 DEF PrInv, ResultInv, ResultsOf
<1>4. ASSUME diff = "dangerous" PROVE i \in Reported("CRITICAL")
  BY <1>3, <1>4 DEF Findings, Reported
<1>5. ASSUME NEW j \in Reported("CRITICAL") PROVE diff = "dangerous"
  <2>1. "CRITICAL" \in Findings(results[j].task)
    BY DEF PrInv, ResultInv, Reported
  <2> QED BY <2>1 DEF Findings
<1> QED BY <1>4, <1>5

-----------------------------------------------------------------------------
(* Steps that leave the results alone *)

\* Nothing runs once the loop has returned, so a report is not overtaken.
LEMMA NothingAfterReturn ==
  ASSUME IInv, phase = "returned"
  PROVE  ~PrLoop /\ \A t \in Task : ~PrRun(t)
<1>1. batch = {} /\ \A t \in Task : status[t] # "RUNNING"
  BY DEF IInv, PhaseInv, Active
<1>2. ~PrLoop
  BY DEF PrLoop, Validate, Loop, Link, Sorted, Pop, Collect, GiveUp, Leave, Gathered
<1>3. ASSUME NEW t \in Task PROVE ~PrRun(t)
  BY <1>1 DEF PrRun, PrStart, PrSucceed, PrTimeOut, PrRaise, Start, Succeed, TimeOut, Raise, Through
<1> QED BY <1>2, <1>3

LEMMA QuietStep ==
  ASSUME PrInv, UNCHANGED <<results, report, diff, environment, deps>>,
         \A t \in Task : status'[t] = "SUCCEEDED" <=> status[t] = "SUCCEEDED",
         report = "none" \/ phase' = phase
  PROVE  PrInv'
<1> USE DEF PrInv
<1>1. GivenInv'
  BY DEF GivenInv
<1>2. ResultInv'
  BY DEF ResultInv, Findings, Escalates
<1>3. EvidenceInv'
  BY DEF EvidenceInv, ResultsOf
<1>4. ReportInv'
  BY DEF ReportInv, OverallStatus, Violated, NeedsApproval, Reported
<1> QED BY <1>1, <1>2, <1>3, <1>4

\* The loop, the start of a worker, and its failure.
LEMMA LoopStep == IInv /\ PrInv /\ PrLoop => PrInv'
<1> SUFFICES ASSUME IInv, PrInv, PrLoop PROVE PrInv'
  OBVIOUS
<1>1. report = "none"
  BY NothingAfterReturn DEF PrInv, ReportInv
<1>2. UNCHANGED <<results, report, diff, environment, deps>>
  BY DEF PrLoop, given, Validate, Loop, Link, Sorted, Pop, Collect, GiveUp, Leave, Gathered
<1>3. \A t \in Task : status'[t] = "SUCCEEDED" <=> status[t] = "SUCCEEDED"
  BY DEF PrLoop, Validate, Loop, Link, Sorted, Pop, Collect, GiveUp, Leave, Gathered, running, Ready, With
<1> QED BY <1>1, <1>2, <1>3, QuietStep

LEMMA WorkerStep ==
  ASSUME NEW t \in Task, IInv, PrInv, PrStart(t) \/ PrTimeOut(t) \/ PrRaise(t)
  PROVE  PrInv'
<1>1. report = "none"
  BY NothingAfterReturn DEF PrInv, ReportInv, PrRun
<1>2. UNCHANGED <<results, report, diff, environment, deps>>
  BY DEF PrStart, PrTimeOut, PrRaise, Start, TimeOut, Raise, Through, given
<1>3. \A u \in Task : status'[u] = "SUCCEEDED" <=> status[u] = "SUCCEEDED"
  <2>1. status \in [Task -> Status]
    BY DEF IInv, TypeOK
  <2>2. CASE PrStart(t)
    BY <2>1, <2>2 DEF PrStart, Start
  <2>3. CASE PrTimeOut(t) \/ PrRaise(t)
    <3>1. /\ status[t] = "RUNNING"
          /\ \E s \in {"PENDING", "FAILED"} : status' = [status EXCEPT ![t] = s]
      BY <2>3 DEF PrTimeOut, PrRaise, TimeOut, Raise, Through
    <3> QED BY <2>1, <3>1
  <2> QED BY <2>2, <2>3
<1> QED BY <1>1, <1>2, <1>3, QuietStep

-----------------------------------------------------------------------------
(* A worker succeeds: its result is what it should be, and joins the others *)

\* The risk assessor runs on what the code review found.
LEMMA ResultRight ==
  ASSUME NEW t \in Task, IInv, PrInv, status[t] = "RUNNING"
  PROVE  /\ WorkerResult(t) \in Result
         /\ WorkerResult(t).task = t
         /\ WorkerResult(t).findings = Findings(t)
         /\ WorkerResult(t).highRisk <=> (t = "risk_assessment" /\ diff = "dangerous")
<1>1. WorkerResult(t) \in Result
  BY DEF WorkerResult, Result, Findings
<1>2. WorkerResult(t).task = t /\ WorkerResult(t).findings = Findings(t)
  BY DEF WorkerResult
<1>3. ASSUME t = "risk_assessment" PROVE Reported("CRITICAL") # {} <=> diff = "dangerous"
  <2>1. deps[t] = Reviews
    BY <1>3 DEF PrInv, GivenInv, WorkflowGraph
  <2>2. status["code_review"] = "SUCCEEDED"
    BY <2>1 DEF IInv, OrderInv, Active, Reviews
  <2> QED BY <2>2, CriticalIffDangerous
<1>4. WorkerResult(t).highRisk <=> (t = "risk_assessment" /\ Reported("CRITICAL") # {})
  BY DEF WorkerResult
<1> QED BY <1>1, <1>2, <1>3, <1>4

LEMMA SucceedStep ==
  ASSUME NEW t \in Task, IInv, PrInv, PrSucceed(t)
  PROVE  PrInv'
<1> DEFINE n == Len(results) + 1
<1>1. /\ status[t] = "RUNNING" /\ status' = [status EXCEPT ![t] = "SUCCEEDED"]
      /\ results' = Append(results, WorkerResult(t))
      /\ UNCHANGED <<report, diff, environment, deps, phase>>
  BY DEF PrSucceed, Succeed, Through, given
<1>2. report = "none"
  BY NothingAfterReturn DEF PrInv, ReportInv, PrRun
<1>3. /\ WorkerResult(t) \in Result /\ WorkerResult(t).task = t
      /\ WorkerResult(t).findings = Findings(t)
      /\ WorkerResult(t).highRisk <=> (t = "risk_assessment" /\ diff = "dangerous")
  BY <1>1, ResultRight
<1>4. /\ results \in Seq(Result) /\ results' \in Seq(Result)
      /\ n \in Nat /\ n \notin DOMAIN results
      /\ DOMAIN results' = DOMAIN results \cup {n}
      /\ results'[n] = WorkerResult(t)
      /\ \A i \in DOMAIN results : results'[i] = results[i]
  BY <1>1, <1>3 DEF PrInv, ResultInv
<1>5. GivenInv'
  BY <1>1 DEF PrInv, GivenInv
<1>6. ResultInv'
  <2> SUFFICES ASSUME NEW i \in DOMAIN results'
               PROVE  /\ results'[i].findings = Findings(results'[i].task)
                      /\ results'[i].highRisk <=> (results'[i].task = "risk_assessment" /\ diff = "dangerous")
    BY <1>1, <1>4 DEF ResultInv, Findings, Escalates
  <2>2. CASE i = n
    BY <1>3, <1>4, <2>2
  <2>3. CASE i \in DOMAIN results
    BY <1>4, <2>3 DEF PrInv, ResultInv
  <2> QED BY <1>4, <2>2, <2>3
<1>7. EvidenceInv'
  <2> SUFFICES ASSUME NEW u \in Task
               PROVE  /\ status'[u] = "SUCCEEDED" => \E i \in DOMAIN results' : ResultsOf(u)' = {i}
                      /\ status'[u] # "SUCCEEDED" => ResultsOf(u)' = {}
    BY DEF EvidenceInv
  <2>1. status \in [Task -> Status]
    BY DEF IInv, TypeOK
  <2>2. CASE u = t
    <3>1. ResultsOf(u) = {}
      BY <1>1, <2>2 DEF PrInv, EvidenceInv
    <3>2. ResultsOf(u)' = {n}
      BY <1>3, <1>4, <2>2, <3>1 DEF ResultsOf
    <3> QED BY <1>1, <1>4, <2>1, <2>2, <3>2
  <2>3. CASE u # t
    <3>1. ResultsOf(u)' = ResultsOf(u)
      BY <1>3, <1>4, <2>3 DEF ResultsOf
    <3>2. status'[u] = status[u]
      BY <1>1, <2>1, <2>3
    <3> QED BY <1>4, <3>1, <3>2 DEF PrInv, EvidenceInv
  <2> QED BY <2>2, <2>3
<1>8. ReportInv'
  BY <1>1, <1>2 DEF ReportInv
<1> QED BY <1>5, <1>6, <1>7, <1>8 DEF PrInv

-----------------------------------------------------------------------------
LEMMA ReportStep == PrInv /\ Report => PrInv'
<1> SUFFICES ASSUME PrInv, Report PROVE PrInv'
  OBVIOUS
<1>1. UNCHANGED <<vars, results, diff, environment>>
  BY DEF Report, given
<1>2. GivenInv' /\ ResultInv' /\ EvidenceInv'
  BY <1>1 DEF PrInv, GivenInv, ResultInv, EvidenceInv, Findings, Escalates, ResultsOf, vars
<1>3. OverallStatus' = OverallStatus
  BY <1>1 DEF OverallStatus, Violated, NeedsApproval, Reported
<1>4. ReportInv'
  BY <1>1, <1>3 DEF Report, ReportInv, OverallStatus, vars
<1> QED BY <1>2, <1>4 DEF PrInv

LEMMA PrStutter == PrInv /\ UNCHANGED prVars => PrInv'
<1> SUFFICES ASSUME PrInv, UNCHANGED prVars PROVE PrInv'
  OBVIOUS
<1> QED BY QuietStep DEF prVars, vars, given

THEOREM PrInvariance == PrSpec => [](IInv /\ PrInv)
<1>1. PrSpec => []IInv
  BY ImplementsScheduler, Invariance, PTL
<1>2. IInv /\ PrInv /\ [PrNext]_prVars => PrInv'
  <2> SUFFICES ASSUME IInv, PrInv, [PrNext]_prVars PROVE PrInv'
    OBVIOUS
  <2>1. ASSUME NEW t \in Task, PrRun(t) PROVE PrInv'
    BY <2>1, WorkerStep, SucceedStep DEF PrRun
  <2> QED BY <2>1, LoopStep, ReportStep, PrStutter DEF PrNext
<1> QED BY <1>1, <1>2, InitPrInv, PTL DEF PrSpec

-----------------------------------------------------------------------------
(* What follows *)

\* Every variable of the workflow keeps its type.
THEOREM PrTypeCorrect == PrSpec => []PrTypeOK
<1>1. IInv /\ PrInv => PrTypeOK
  BY DEF IInv, PrInv, PrTypeOK, GivenInv, ResultInv, ReportInv, Result
<1> QED BY <1>1, PrInvariance, PTL

\* worker_results holds one result of each task of the graph that succeeded,
\* however often it was retried, and none of any other.
THEOREM EvidenceComplete == PrSpec => []EvidenceMatchesGraph
<1>1. PrInv => EvidenceMatchesGraph
  <2> SUFFICES ASSUME PrInv, NEW t \in Task
               PROVE  Cardinality(ResultsOf(t)) = IF status[t] = "SUCCEEDED" THEN 1 ELSE 0
    BY DEF EvidenceMatchesGraph
  <2>1. CASE status[t] = "SUCCEEDED"
    <3>1. \E i : ResultsOf(t) = {i}
      BY <2>1 DEF PrInv, EvidenceInv
    <3> QED BY <2>1, <3>1, FS_Singleton
  <2>2. CASE status[t] # "SUCCEEDED"
    <3>1. ResultsOf(t) = {}
      BY <2>2 DEF PrInv, EvidenceInv
    <3> QED BY <2>2, <3>1, FS_EmptySet
  <2> QED BY <2>1, <2>2
<1> QED BY <1>1, PrInvariance, PTL

\* The risk assessor scores the diff, whatever order the reviews came in.
THEOREM RiskInformed == PrSpec => []RiskSeesTheDiff
<1>1. PrInv => RiskSeesTheDiff
  BY DEF PrInv, ResultInv, RiskSeesTheDiff, ResultsOf
<1> QED BY <1>1, PrInvariance, PTL

\* A critical finding blocks the release also where the risk assessment never
\* ran, and production takes a sign-off.
THEOREM ReleaseGuarded == PrSpec => []ReleaseIsGuarded
<1>1. PrInv => ReleaseIsGuarded
  <2> SUFFICES ASSUME PrInv PROVE ReleaseIsGuarded
    OBVIOUS
  <2>1. report = "none" \/ report = OverallStatus
    BY DEF PrInv, ReportInv
  <2>2. ASSUME status["code_review"] = "SUCCEEDED", diff = "dangerous"
        PROVE  OverallStatus = "BLOCKED"
    BY <2>2, CriticalIffDangerous DEF OverallStatus
  <2>3. ASSUME environment = "production" PROVE OverallStatus # "APPROVED"
    BY <2>3 DEF OverallStatus, NeedsApproval
  <2> QED BY <2>1, <2>2, <2>3 DEF ReleaseIsGuarded
<1> QED BY <1>1, PrInvariance, PTL

-----------------------------------------------------------------------------
(* What the scheduler's contract and measure say of a workflow *)

\* execute_workflow keeps the promises of GraphExecution about its four tasks.
THEOREM PrImplementsExecution == PrSpec => ExecutionSpec
BY ImplementsScheduler, ImplementsExecution, PTL

LEMMA WorkflowExecutable == deps = WorkflowGraph => Executable
<1> SUFFICES ASSUME deps = WorkflowGraph PROVE Executable
  OBVIOUS
<1>1. Reviews \subseteq Task /\ \A t \in Task : t \notin Reviews => t = "risk_assessment"
  BY WorkflowTasks
<1>2. "risk_assessment" \notin Reviews
  BY DEF Reviews
<1>3. \A t \in Task : deps[t] = IF t = "risk_assessment" THEN Reviews ELSE {}
  BY DEF WorkflowGraph
<1>4. ASSUME NEW S \in SUBSET Task, S # {} PROVE \E t \in S : deps[t] \cap S = {}
  <2>1. CASE S \cap Reviews = {}
    <3>1. "risk_assessment" \in S
      BY <1>1, <1>4, <2>1
    <3> QED BY <1>3, <2>1, <3>1
  <2>2. CASE S \cap Reviews # {}
    <3>1. PICK t \in S : t \in Reviews
      BY <2>2
    <3> QED BY <1>2, <1>3, <3>1
  <2> QED BY <2>1, <2>2
<1>5. \A t \in Task : deps[t] \subseteq Task
  BY <1>1, <1>3
<1> QED BY <1>4, <1>5 DEF Executable, Execution!Executable, Execution!Acyclic

(* The evaluation is never refused, and while it has no report something can
   go on: the scheduler's loop, a task of the batch, or the report itself. *)
EvaluationGoesOn ==
  report = "none" =>
    \/ phase \in {"linking", "sorting", "looping", "returned"}
    \/ phase = "gathering" /\ batch = {}
    \/ \E t \in batch :
         \/ status[t] = "RUNNING"
         \/ status[t] = "READY" /\ Cardinality(With("RUNNING")) < MaxConcurrency

\* execute_workflow is never refused its own graph nor left without a permit.
THEOREM EvaluationNeverStuck == PrSpec => []EvaluationGoesOn
<1>1. IInv /\ PrInv /\ NoStall => EvaluationGoesOn
  <2> SUFFICES ASSUME IInv, PrInv, NoStall PROVE EvaluationGoesOn
    OBVIOUS
  <2>1. phase # "rejected"
    BY WorkflowExecutable DEF IInv, SortInv, PrInv, GivenInv
  <2> QED BY <2>1 DEF IInv, TypeOK, Phase, NoStall, EvaluationGoesOn
<1> QED BY <1>1, PrInvariance, ImplementsScheduler, PermitsSuffice, PTL

\* What is outstanding for the scheduler, and then the report.
Unreported == IF report = "none" THEN 1 ELSE 0

(* Each step of an evaluation leaves less to do, its report the last of it. *)
EvaluationRunsOut == [][Outstanding' + Unreported' < Outstanding + Unreported]_prVars

\* execute_workflow takes finitely many steps: an evaluation that is never
\* stuck, and whose steps run out, ends in its report.
THEOREM EvaluationIsFinite == PrSpec => EvaluationRunsOut
<1>1. /\ IInv /\ MeasureInv /\ IInv' /\ MeasureInv' /\ [PrNext]_prVars
      => [Outstanding' + Unreported' < Outstanding + Unreported]_prVars
  <2> SUFFICES ASSUME IInv, MeasureInv, IInv', MeasureInv', PrNext
               PROVE  Outstanding' + Unreported' < Outstanding + Unreported
    OBVIOUS
  <2>1. Outstanding \in Nat /\ Outstanding' \in Nat
    BY DEF MeasureInv, Outstanding
  <2>2. CASE Report
    <3>1. Outstanding' = Outstanding
      BY <2>2 DEF Report, vars, Outstanding, Work, Fuel, PhaseRank
    <3>2. report = "none" /\ report' # "none"
      BY <2>2 DEF Report, OverallStatus
    <3> QED BY <2>1, <3>1, <3>2 DEF Unreported
  <2>3. CASE PrLoop \/ \E t \in Task : PrRun(t)
    <3>1. report' = report
      BY <2>3 DEF PrLoop, PrRun, PrStart, PrSucceed, PrTimeOut, PrRaise
    <3>2. Validate \/ Loop \/ \E t \in Task : Run(t)
      BY <2>3 DEF PrLoop, PrRun, PrStart, PrSucceed, PrTimeOut, PrRaise, Run
    <3>3. Outstanding' < Outstanding
      BY <3>2, ValidateRunsOut, LoopRunsOut, RunRunsOut DEF IInv
    <3>4. Unreported \in 0 .. 1 /\ Unreported' = Unreported
      BY <3>1 DEF Unreported
    <3>5. \A m, n \in Nat, r \in 0 .. 1 : m < n => m + r < n + r
      OBVIOUS
    <3> QED BY <2>1, <3>3, <3>4, <3>5
  <2> QED BY <2>2, <2>3 DEF PrNext
<1> QED BY <1>1, PrInvariance, Measured, PTL DEF PrSpec, EvaluationRunsOut
=============================================================================
