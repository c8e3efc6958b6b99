------------------------ MODULE TaskScheduler_proofs ------------------------
(* Proofs about TaskScheduler, for every set of tasks, every graph over it,  *)
(* every number of retries and of permits.                                   *)
EXTENDS TaskScheduler, FiniteSetTheorems, TLAPS

-----------------------------------------------------------------------------
(* The inductive invariant, in named parts *)

Active == {"READY", "RUNNING"}
Waiting == {"PENDING", "READY"}

\* What each phase says of the batch and of the validation.
PhaseInv ==
  /\ phase \in {"linking", "sorting", "rejected"} =>
       \A t \in Task : status[t] = "PENDING" /\ attempts[t] = 0
  /\ phase = "linking" => unvisited = Task
  /\ phase \in {"looping", "gathering", "returned"} => unvisited = {}
  /\ phase \notin {"linking", "rejected"} => \A t \in Task : deps[t] \subseteq Task
  /\ phase # "gathering" => batch = {}
  /\ batch = {t \in Task : status[t] \in Active}

\* A retry is left to every task that waits.
AttemptsInv ==
  \A t \in Task :
    /\ status[t] \in Waiting => attempts[t] <= MaxRetries
    /\ status[t] \in {"RUNNING", "SUCCEEDED"} => attempts[t] > 0

\* Kahn's algorithm: what has been visited depends on nothing unvisited, and
\* is well-founded.
WellFounded(T) == \A S \in SUBSET T : S # {} => \E t \in S : deps[t] \cap S = {}
SortInv ==
  /\ \A t \in Task \ unvisited : deps[t] \cap unvisited = {}
  /\ WellFounded(Task \ unvisited)
  /\ phase = "rejected" => ~Executable

\* Tasks are collected, and tried, on dependencies that have succeeded.
OrderInv ==
  \A t \in Task :
    status[t] \in Active \/ attempts[t] > 0 => \A d \in deps[t] : status[d] = "SUCCEEDED"

\* Before the loop is left, tasks fail on their own account only.
FailInv ==
  /\ phase # "returned" => \A t \in Task : status[t] = "FAILED" => attempts[t] > 0
  /\ phase = "returned" =>
       /\ Complete
       /\ \A t \in Task : attempts[t] = 0 <=> \E d \in deps[t] : status[d] = "FAILED"

IInv == TypeOK /\ PhaseInv /\ AttemptsInv /\ SortInv /\ OrderInv /\ FailInv

-----------------------------------------------------------------------------
(* Initially *)

LEMMA InitIInv == Init => IInv
<1> SUFFICES ASSUME NEW graph \in [Task -> SUBSET (Task \cup {Missing})], InitWith(graph)
             PROVE  IInv
  BY DEF Init
<1> USE RetriesNat DEF InitWith
<1>1. TypeOK
  BY DEF TypeOK, Phase, Status
<1>2. PhaseInv /\ AttemptsInv /\ OrderInv /\ FailInv
  BY DEF PhaseInv, AttemptsInv, OrderInv, FailInv, Active, Waiting
<1>3. SortInv
  BY DEF SortInv, WellFounded
<1> QED BY <1>1, <1>2, <1>3 DEF IInv

-----------------------------------------------------------------------------
(* Validation.  The tasks are as they were: only SortInv and PhaseInv move. *)

LEMMA LinkStep == IInv /\ Link => IInv'
<1> SUFFICES ASSUME IInv, Link PROVE IInv'
  OBVIOUS
<1> USE DEF IInv, Link, running
<1>1. TypeOK'
  BY DEF TypeOK, Phase
<1>2. PhaseInv'
  <2>1. ~(\E t \in Task : Missing \in deps[t]) => \A t \in Task : deps[t] \subseteq Task
    BY DEF TypeOK
  <2> QED BY <2>1 DEF PhaseInv
<1>3. AttemptsInv' /\ OrderInv'
  BY DEF AttemptsInv, OrderInv
<1>4. SortInv'
  <2>1. ASSUME NEW t \in Task, Missing \in deps[t] PROVE ~Executable'
    BY <2>1, MissingIsNoTask DEF Executable, Execution!Executable
  <2> QED BY <2>1 DEF SortInv, WellFounded
<1>5. FailInv'
  BY DEF FailInv, PhaseInv
<1> QED BY <1>1, <1>2, <1>3, <1>4, <1>5

\* Visiting a task with no in-edge keeps what is visited well-founded: the
\* task depends on nothing unvisited, itself included, and nothing visited
\* depends on it.
LEMMA VisitWellFounded ==
  ASSUME NEW V, NEW t, NEW U,
         \A x \in V : t \notin deps[x],
         WellFounded(V), t \notin deps[t]
  PROVE  WellFounded(V \cup {t})
<1> SUFFICES ASSUME NEW S \in SUBSET (V \cup {t}), S # {}
             PROVE  \E x \in S : deps[x] \cap S = {}
  BY DEF WellFounded
<1>1. CASE S \ {t} = {}
  BY <1>1
<1>2. CASE S \ {t} # {}
  <2>1. PICK x \in S \ {t} : deps[x] \cap (S \ {t}) = {}
    BY <1>2 DEF WellFounded
  <2> QED BY <2>1
<1> QED BY <1>1, <1>2

LEMMA PopStep == ASSUME NEW t \in Task PROVE IInv /\ Pop(t) => IInv'
<1> SUFFICES ASSUME IInv, Pop(t) PROVE IInv'
  OBVIOUS
<1> USE DEF IInv, Pop, running
<1>1. TypeOK'
  BY DEF TypeOK
<1>2. PhaseInv' /\ AttemptsInv' /\ OrderInv' /\ FailInv'
  BY DEF PhaseInv, AttemptsInv, OrderInv, FailInv, Complete
<1>3. SortInv'
  <2>1. Task \ unvisited' = (Task \ unvisited) \cup {t}
    BY DEF TypeOK
  <2>2. \A x \in Task \ unvisited' : deps[x] \cap unvisited' = {}
    BY <2>1 DEF SortInv, NoInEdge
  <2>3. WellFounded((Task \ unvisited) \cup {t})
    <3>1. t \in unvisited /\ t \notin deps[t]
      BY DEF NoInEdge
    <3>2. \A x \in Task \ unvisited : t \notin deps[x]
      BY <3>1 DEF SortInv
    <3> QED BY <3>1, <3>2, VisitWellFounded DEF SortInv
  <2>4. WellFounded(Task \ unvisited)'
    BY <2>1, <2>3 DEF WellFounded
  <2> QED BY <2>2, <2>4 DEF SortInv
<1> QED BY <1>1, <1>2, <1>3

LEMMA SortedStep == IInv /\ Sorted => IInv'
<1> SUFFICES ASSUME IInv, Sorted PROVE IInv'
  OBVIOUS
<1> USE DEF IInv, Sorted, running
<1>1. TypeOK'
  BY DEF TypeOK, Phase
<1>2. PhaseInv' /\ AttemptsInv' /\ OrderInv' /\ FailInv'
  BY DEF PhaseInv, AttemptsInv, OrderInv, FailInv
<1>3. SortInv'
  <2>1. ASSUME unvisited # {} PROVE ~Executable'
    <3>1. unvisited \in SUBSET Task /\ \A x \in unvisited : deps'[x] \cap unvisited # {}
      BY DEF TypeOK, NoInEdge
    <3> QED BY <2>1, <3>1 DEF Executable, Execution!Executable, Execution!Acyclic
  <2> QED BY <2>1 DEF SortInv, WellFounded
<1> QED BY <1>1, <1>2, <1>3

-----------------------------------------------------------------------------
(* The loop *)

\* Running the graph does not touch the validation.
LEMMA SortKept ==
  ASSUME SortInv, UNCHANGED <<deps, unvisited>>, phase' # "rejected"
  PROVE  SortInv'
BY DEF SortInv, WellFounded

LEMMA CollectStep == IInv /\ Collect => IInv'
<1> SUFFICES ASSUME IInv, Collect PROVE IInv'
  OBVIOUS
<1> USE DEF IInv, Collect, Ready, With
<1>1. TypeOK'
  BY DEF TypeOK, Phase, Status
<1>2. PhaseInv'
  BY DEF PhaseInv, Active, TypeOK
<1>3. AttemptsInv'
  BY DEF AttemptsInv, Waiting, TypeOK
<1>4. SortInv'
  BY SortKept
<1>5. OrderInv'
  <2>1. \A d \in Task : status[d] = "SUCCEEDED" => status'[d] = "SUCCEEDED"
    BY DEF TypeOK
  <2>2. \A t \in Task : deps[t] \subseteq Task
    BY DEF PhaseInv
  <2>3. \A t \in Task : status'[t] \in Active =>
          t \in Ready \/ status[t] \in Active
    BY DEF TypeOK
  <2> QED BY <2>1, <2>2, <2>3 DEF OrderInv
<1>6. FailInv'
  BY DEF FailInv, TypeOK
<1> QED BY <1>1, <1>2, <1>3, <1>4, <1>5, <1>6

LEMMA GiveUpStep == IInv /\ GiveUp => IInv'
<1> SUFFICES ASSUME IInv, GiveUp PROVE IInv'
  OBVIOUS
<1> USE DEF IInv, GiveUp
<1>1. \A t \in Task : status[t] \in {"PENDING", "SUCCEEDED", "FAILED"}
  BY DEF TypeOK, Status, PhaseInv, Active
<1>2. /\ \A t \in Task : deps[t] \subseteq Task
      /\ \A t \in Task : status'[t] = IF status[t] = "PENDING" THEN "FAILED" ELSE status[t]
  BY <1>1 DEF PhaseInv
<1>3. ASSUME NEW t \in Task, status[t] = "PENDING"
      PROVE  attempts[t] = 0 /\ \E d \in deps[t] : status[d] # "SUCCEEDED"
  <2>1. \E d \in deps[t] : status[d] # "SUCCEEDED"
    BY <1>3 DEF Ready, With
  <2> QED BY <2>1 DEF OrderInv, TypeOK
<1>4. ASSUME NEW t \in Task, status[t] # "PENDING"
      PROVE  attempts[t] > 0 /\ \A d \in deps[t] : status[d] = "SUCCEEDED"
  BY <1>1, <1>4 DEF AttemptsInv, FailInv, OrderInv
<1>5. TypeOK'
  BY <1>1 DEF TypeOK, Phase, Status
<1>6. PhaseInv'
  BY <1>1, <1>2 DEF PhaseInv, Active
<1>7. AttemptsInv'
  BY <1>1, <1>2 DEF AttemptsInv, Waiting
<1>8. SortInv'
  BY SortKept
<1>9. OrderInv'
  BY <1>1, <1>2, <1>3, <1>4 DEF OrderInv, Active, TypeOK
<1>10. FailInv'
  <2>1. Complete'
    BY <1>1, <1>2 DEF Complete, Final
  <2>2. ASSUME NEW t \in Task
        PROVE  attempts[t] = 0 <=> \E d \in deps[t] : status'[d] = "FAILED"
    <3>1. CASE status[t] = "PENDING"
      BY <1>1, <1>2, <1>3, <3>1
    <3>2. CASE status[t] # "PENDING"
      BY <1>2, <1>4, <3>2
    <3> QED BY <3>1, <3>2
  <2> QED BY <2>1, <2>2 DEF FailInv
<1> QED BY <1>5, <1>6, <1>7, <1>8, <1>9, <1>10

LEMMA LeaveStep == IInv /\ Leave => IInv'
<1> SUFFICES ASSUME IInv, Leave PROVE IInv'
  OBVIOUS
<1> USE DEF IInv, Leave, running
<1>1. TypeOK' /\ PhaseInv' /\ AttemptsInv' /\ OrderInv'
  BY DEF TypeOK, Phase, PhaseInv, AttemptsInv, OrderInv
<1>2. SortInv'
  BY SortKept
<1>3. FailInv'
  <2>1. \A t \in Task : attempts[t] > 0
    BY DEF Complete, Final, AttemptsInv, FailInv
  <2> QED BY <2>1 DEF FailInv, Complete, OrderInv
<1> QED BY <1>1, <1>2, <1>3

LEMMA GatheredStep == IInv /\ Gathered => IInv'
<1> SUFFICES ASSUME IInv, Gathered PROVE IInv'
  OBVIOUS
<1> USE DEF IInv, Gathered, running
<1>1. TypeOK' /\ PhaseInv' /\ AttemptsInv' /\ OrderInv' /\ FailInv'
  BY DEF TypeOK, Phase, PhaseInv, AttemptsInv, OrderInv, FailInv
<1> QED BY <1>1, SortKept

-----------------------------------------------------------------------------
(* The tasks of a batch *)

LEMMA StartStep == ASSUME NEW t \in Task PROVE IInv /\ Start(t) => IInv'
<1> SUFFICES ASSUME IInv, Start(t) PROVE IInv'
  OBVIOUS
<1> USE RetriesNat DEF IInv, Start
<1>1. phase = "gathering"
  BY DEF PhaseInv
<1>2. attempts[t] \in 0 .. MaxRetries /\ attempts'[t] = attempts[t] + 1
  BY DEF AttemptsInv, Waiting, TypeOK
<1>3. TypeOK'
  BY <1>2 DEF TypeOK, Status
<1>4. PhaseInv'
  BY <1>1 DEF PhaseInv, Active, TypeOK
<1>5. AttemptsInv'
  BY <1>2 DEF AttemptsInv, Waiting, TypeOK
<1>6. SortInv'
  BY <1>1, SortKept
<1>7. OrderInv'
  <2>1. \A d \in Task : status[d] = "SUCCEEDED" => status'[d] = "SUCCEEDED"
    BY DEF TypeOK
  <2>2. \A x \in Task : x # t => status'[x] = status[x] /\ attempts'[x] = attempts[x]
    BY DEF TypeOK
  <2>3. \A x \in Task : deps[x] \subseteq Task
    BY <1>1 DEF PhaseInv
  <2> QED BY <2>1, <2>2, <2>3 DEF OrderInv, Active
<1>8. FailInv'
  BY <1>1, <1>2 DEF FailInv, TypeOK
<1> QED BY <1>3, <1>4, <1>5, <1>6, <1>7, <1>8

LEMMA ThroughStep ==
  ASSUME NEW t \in Task, NEW s \in {"SUCCEEDED", "FAILED", "PENDING"},
         s = "PENDING" => attempts[t] <= MaxRetries
  PROVE  IInv /\ Through(t, s) => IInv'
<1> SUFFICES ASSUME IInv, Through(t, s) PROVE IInv'
  OBVIOUS
<1> USE DEF IInv, Through
<1>1. phase = "gathering" /\ attempts[t] > 0
  BY DEF PhaseInv, AttemptsInv, Active
<1>2. \A x \in Task : status'[x] = IF x = t THEN s ELSE status[x]
  BY DEF TypeOK
<1>3. TypeOK'
  BY DEF TypeOK, Status
<1>4. PhaseInv'
  BY <1>1, <1>2 DEF PhaseInv, Active
<1>5. AttemptsInv'
  BY <1>1, <1>2 DEF AttemptsInv, Waiting
<1>6. SortInv'
  BY <1>1, SortKept
<1>7. OrderInv'
  <2>1. \A d \in Task : status[d] = "SUCCEEDED" => status'[d] = "SUCCEEDED"
    BY <1>2
  <2>2. \A x \in Task : deps[x] \subseteq Task
    BY <1>1 DEF PhaseInv
  <2> QED BY <1>1, <1>2, <2>1, <2>2 DEF OrderInv, Active
<1>8. FailInv'
  BY <1>1, <1>2 DEF FailInv
<1> QED BY <1>3, <1>4, <1>5, <1>6, <1>7, <1>8

LEMMA RunStep == ASSUME NEW t \in Task PROVE IInv /\ Run(t) => IInv'
<1>1. IInv /\ Start(t) => IInv'
  BY StartStep
<1>2. IInv /\ Succeed(t) => IInv'
  BY ThroughStep DEF Succeed
<1>3. IInv /\ TimeOut(t) => IInv'
  BY ThroughStep DEF TimeOut
<1>4. IInv /\ Raise(t) => IInv'
  <2>1. CASE attempts[t] <= MaxRetries
    BY <2>1, ThroughStep DEF Raise
  <2>2. CASE ~(attempts[t] <= MaxRetries)
    BY <2>2, ThroughStep DEF Raise
  <2> QED BY <2>1, <2>2
<1> QED BY <1>1, <1>2, <1>3, <1>4 DEF Run

-----------------------------------------------------------------------------
(* The theorems *)

LEMMA StutterStep == IInv /\ UNCHANGED vars => IInv'
BY DEF IInv, vars, TypeOK, PhaseInv, AttemptsInv, SortInv, WellFounded, OrderInv,
       FailInv, Complete, Executable, Execution!Executable, Execution!Acyclic

\* IInv is an invariant of the scheduler: each action preserves it.
THEOREM Invariance == Spec => []IInv
<1>1. IInv /\ [Next]_vars => IInv'
  <2> SUFFICES ASSUME IInv, [Next]_vars PROVE IInv'
    OBVIOUS
  <2>1. CASE Validate
    BY <2>1, LinkStep, SortedStep, PopStep DEF Validate
  <2>2. CASE Loop
    BY <2>2, CollectStep, GiveUpStep, LeaveStep, GatheredStep DEF Loop
  <2>3. ASSUME NEW t \in Task, Run(t) PROVE IInv'
    BY <2>3, RunStep
  <2>4. CASE UNCHANGED vars
    BY <2>4, StutterStep
  <2> QED BY <2>1, <2>2, <2>3, <2>4 DEF Next
<1> QED BY InitIInv, <1>1, PTL DEF Spec

\* Every variable keeps its type; no task is tried more than MaxRetries + 1
\* times.
THEOREM TypeCorrect == Spec => []TypeOK
<1>1. IInv => TypeOK
  BY DEF IInv
<1> QED BY <1>1, Invariance, PTL

\* TaskGraph.validate_dag accepts the executable graphs, and no others.
THEOREM ValidationSound == Spec => []ValidationCorrect
<1>1. IInv => ValidationCorrect
  <2> SUFFICES ASSUME IInv PROVE ValidationCorrect
    OBVIOUS
  <2>1. ASSUME phase \in {"looping", "gathering", "returned"} PROVE Executable
    <3>1. (\A t \in Task : deps[t] \subseteq Task) /\ unvisited = {}
      BY <2>1 DEF IInv, PhaseInv
    <3> QED BY <3>1 DEF IInv, SortInv, WellFounded, Executable, Execution!Executable,
                      Execution!Acyclic
  <2> QED BY <2>1 DEF IInv, SortInv, ValidationCorrect
<1> QED BY <1>1, Invariance, PTL

\* TaskScheduler.execute_graph starts a worker only on succeeded dependencies.
THEOREM DependenciesRespected == Spec => []DependenciesFirst
<1>1. IInv => DependenciesFirst
  BY DEF IInv, OrderInv, DependenciesFirst
<1> QED BY <1>1, Invariance, PTL

\* When TaskScheduler.execute_graph returns, what failed, failed for a reason.
\* That some task failed on its own account needs the graph to be acyclic: among
\* the failed tasks one depends on none of them.
THEOREM FailuresAccounted == Spec => []FailuresExplained
<1>1. IInv => FailuresExplained
  <2> SUFFICES ASSUME IInv, phase = "returned" PROVE FailuresExplained
    BY DEF FailuresExplained
  <2>1. /\ Complete
        /\ \A t \in Task : attempts[t] = 0 <=> \E d \in deps[t] : status[d] = "FAILED"
    BY DEF IInv, FailInv
  <2>2. ASSUME With("FAILED") # {} PROVE \E t \in With("FAILED") : attempts[t] > 0
    <3>1. unvisited = {} /\ \A t \in Task : deps[t] \subseteq Task
      BY DEF IInv, PhaseInv
    <3>2. PICK t \in With("FAILED") : deps[t] \cap With("FAILED") = {}
      BY <2>2, <3>1 DEF IInv, SortInv, WellFounded, With
    <3>3. t \in Task /\ attempts[t] # 0
      BY <2>1, <3>1, <3>2 DEF With
    <3> QED BY <3>2, <3>3 DEF IInv, TypeOK
  <2> QED BY <2>1, <2>2 DEF FailuresExplained
<1> QED BY <1>1, Invariance, PTL

-----------------------------------------------------------------------------
(* The scheduler implements GraphExecution *)

outs == [t \in Task |-> Outcome(t)]

LEMMA OutcomeIs ==
  ASSUME NEW t \in Task, TypeOK
  PROVE  /\ outs[t] \in {"waiting", "begun", "succeeded", "failed"}
         /\ outs[t] = "succeeded" <=> status[t] = "SUCCEEDED"
         /\ outs[t] = "failed" <=> status[t] = "FAILED"
         /\ outs[t] = "waiting" <=> status[t] \notin Final /\ attempts[t] = 0
         /\ outs[t] = "begun" <=> status[t] \notin Final /\ attempts[t] > 0
BY DEF outs, Outcome, TypeOK, Status, Final

LEMMA VerdictIs ==
  ASSUME TypeOK
  PROVE  /\ Verdict = "submitted" <=> phase \in {"linking", "sorting"}
         /\ Verdict = "refused" <=> phase = "rejected"
         /\ Verdict = "accepted" <=> phase \in {"looping", "gathering"}
         /\ Verdict = "done" <=> phase = "returned"
         /\ Verdict \in {"submitted", "refused", "accepted", "done"}
BY DEF Verdict, TypeOK, Phase

LEMMA ExecutionInit == Init => Execution!Init
<1> SUFFICES ASSUME NEW graph \in [Task -> SUBSET (Task \cup {Missing})], InitWith(graph)
             PROVE  Execution!Init
  BY DEF Init
<1>1. Verdict = "submitted"
  BY DEF InitWith, Verdict
<1>2. \A t \in Task : Outcome(t) = "waiting"
  BY DEF InitWith, Outcome, Final
<1> QED BY <1>1, <1>2 DEF InitWith, Execution!Init

\* What validation, the collection of a batch and its end leave as it is.
LEMMA OutcomesKept ==
  ASSUME \A t \in Task : /\ attempts'[t] = attempts[t]
                         /\ \/ status'[t] = status[t]
                            \/ status'[t] \notin Final /\ status[t] \notin Final
  PROVE  outs' = outs
<1>1. ASSUME NEW t \in Task PROVE Outcome(t)' = Outcome(t)
  <2>1. CASE status'[t] = status[t]
    BY <2>1 DEF Outcome
  <2>2. CASE status'[t] \notin Final /\ status[t] \notin Final
    BY <2>2 DEF Outcome, Final
  <2> QED BY <2>1, <2>2
<1> QED BY <1>1 DEF outs

LEMMA ValidationRefines ==
  ASSUME IInv, IInv', Validate
  PROVE  Execution!Refuse \/ Execution!Accept \/ UNCHANGED <<deps, Verdict, outs>>
<1> USE DEF IInv
<1>1. outs' = outs /\ deps' = deps
  BY OutcomesKept DEF Validate, Link, Pop, Sorted, running
<1>2. Verdict = "submitted"
  BY DEF Validate, Link, Pop, Sorted, Verdict
<1>3. CASE phase' \in {"linking", "sorting"}
  BY <1>1, <1>2, <1>3 DEF Verdict
<1>4. CASE phase' = "rejected"
  <2>1. ~Executable /\ Verdict' = "refused"
    BY <1>1, <1>4 DEF SortInv, Verdict, Executable, Execution!Executable, Execution!Acyclic
  <2> QED BY <1>1, <1>2, <2>1 DEF Execution!Refuse, Execution!Decide, Executable, outs
<1>5. CASE phase' = "looping"
  <2>1. Executable'
    BY <1>5 DEF PhaseInv, SortInv, WellFounded, Executable, Execution!Executable,
                Execution!Acyclic
  <2>2. Executable /\ Verdict' = "accepted"
    BY <1>1, <1>5, <2>1 DEF Verdict, Executable, Execution!Executable, Execution!Acyclic
  <2> QED BY <1>1, <1>2, <2>2 DEF Execution!Accept, Execution!Decide, Executable, outs
<1> QED BY <1>3, <1>4, <1>5 DEF Validate, Link, Pop, Sorted

LEMMA LoopRefines ==
  ASSUME IInv, IInv', Loop
  PROVE  Execution!Abandon \/ Execution!Close \/ UNCHANGED <<deps, Verdict, outs>>
<1> USE DEF IInv
<1>1. CASE Collect \/ Gathered
  <2>1. outs' = outs
    BY <1>1, OutcomesKept DEF Collect, Gathered, Ready, With, running, Final, TypeOK
  <2> QED BY <1>1, <2>1 DEF Collect, Gathered, Verdict
<1>2. CASE Leave
  <2>1. outs' = outs /\ Verdict = "accepted" /\ Verdict' = "done"
    BY <1>2 DEF Leave, running, Verdict, outs, Outcome
  <2>2. \A t \in Task : outs[t] \in {"succeeded", "failed"}
    BY <1>2, OutcomeIs DEF Leave, Complete, Final
  <2> QED BY <1>2, <2>1, <2>2 DEF Leave, Execution!Close, outs
<1>3. CASE GiveUp
  <2>1. Verdict = "accepted" /\ Verdict' = "done" /\ deps' = deps /\ attempts' = attempts
    BY <1>3 DEF GiveUp, Verdict
  <2>2. \A t \in Task : status[t] \in {"PENDING", "SUCCEEDED", "FAILED"}
    BY <1>3 DEF GiveUp, TypeOK, Status, PhaseInv, Active
  <2>3. \A t \in Task : deps[t] \subseteq Task
    BY <1>3 DEF GiveUp, PhaseInv
  <2>4. ASSUME NEW t \in Task, status[t] = "PENDING"
        PROVE  attempts[t] = 0 /\ \E d \in deps[t] : status[d] # "SUCCEEDED"
    <3>1. \E d \in deps[t] : status[d] # "SUCCEEDED"
      BY <1>3, <2>4 DEF GiveUp, Ready, With
    <3> QED BY <3>1 DEF OrderInv, TypeOK
  <2>5. \A t \in Task : outs[t] # "begun"
    BY <2>2, <2>4, OutcomeIs DEF Final
  <2>6. \A t \in Task : outs[t] = "waiting" => \E d \in deps[t] : outs[d] # "succeeded"
    BY <2>2, <2>3, <2>4, OutcomeIs DEF Final
  <2>7. \E t \in Task : outs[t] = "waiting"
    BY <1>3, <2>2, <2>4, OutcomeIs DEF GiveUp, Complete, Final
  <2>8. ASSUME NEW t \in Task
        PROVE  Outcome(t)' = IF outs[t] = "waiting" THEN "failed" ELSE outs[t]
    <3>1. status'[t] = IF status[t] = "PENDING" THEN "FAILED" ELSE status[t]
      BY <1>3, <2>2 DEF GiveUp
    <3> QED BY <2>2, <2>4, <3>1, OutcomeIs DEF Outcome, outs, Final
  <2>9. outs' = [t \in Task |-> IF outs[t] = "waiting" THEN "failed" ELSE outs[t]]
    BY <2>8 DEF outs
  <2> QED BY <2>1, <2>5, <2>6, <2>7, <2>9 DEF Execution!Abandon, outs
<1> QED BY <1>1, <1>2, <1>3 DEF Loop

LEMMA RunRefines ==
  ASSUME IInv, NEW t \in Task, Run(t)
  PROVE  Execution!Begin(t) \/ Execution!End(t) \/ UNCHANGED <<deps, Verdict, outs>>
<1> USE DEF IInv
<1>1. phase = "gathering" /\ phase' = phase /\ deps' = deps /\ Verdict' = Verdict
  BY DEF Run, Start, Succeed, TimeOut, Raise, Through, PhaseInv, Active, Verdict
<1>2. Verdict = "accepted"
  BY <1>1 DEF Verdict
<1>3. CASE Start(t)
  <2>1. /\ status' = [status EXCEPT ![t] = "RUNNING"]
        /\ attempts' = [attempts EXCEPT ![t] = attempts[t] + 1]
        /\ status[t] = "READY" /\ attempts[t] \in Nat
    BY <1>3 DEF Start, TypeOK
  <2>2. outs' = [outs EXCEPT ![t] = "begun"]
    <3>1. Outcome(t)' = "begun"
      BY <2>1 DEF Outcome, Final, TypeOK
    <3>2. \A x \in Task : x # t => Outcome(x)' = Outcome(x)
      BY <2>1 DEF Outcome, TypeOK
    <3> QED BY <3>1, <3>2 DEF outs
  <2>3. CASE attempts[t] > 0
    <3>1. outs' = outs
      BY <2>1, <2>2, <2>3, OutcomeIs DEF Final, outs
    <3> QED BY <1>1, <3>1
  <2>4. CASE attempts[t] = 0
    <3>1. outs[t] = "waiting"
      BY <2>1, <2>4, OutcomeIs DEF Final
    <3>2. \A d \in deps[t] : d \in Task /\ outs[d] = "succeeded"
      BY <1>1, <2>1, OutcomeIs DEF OrderInv, Active, PhaseInv
    <3> QED BY <1>1, <1>2, <2>2, <3>1, <3>2 DEF Execution!Begin, outs
  <2> QED BY <2>1, <2>3, <2>4
<1>4. ASSUME NEW s \in {"SUCCEEDED", "FAILED", "PENDING"}, Through(t, s)
      PROVE  Execution!End(t) \/ UNCHANGED <<deps, Verdict, outs>>
  <2>1. /\ status' = [status EXCEPT ![t] = s] /\ attempts' = attempts
        /\ status[t] = "RUNNING" /\ attempts[t] > 0
    BY <1>4 DEF Through, AttemptsInv
  <2>2. outs[t] = "begun"
    BY <2>1, OutcomeIs DEF Final
  <2>3. CASE s = "PENDING"
    <3>1. outs' = outs
      BY <2>1, <2>3, OutcomesKept DEF Final, TypeOK
    <3> QED BY <1>1, <3>1
  <2>4. CASE s \in Final
    <3>1. \E o \in {"succeeded", "failed"} : outs' = [outs EXCEPT ![t] = o]
      <4>1. Outcome(t)' \in {"succeeded", "failed"}
        BY <2>1, <2>4 DEF Outcome, Final, TypeOK
      <4>2. \A x \in Task : x # t => Outcome(x)' = Outcome(x)
        BY <2>1 DEF Outcome, TypeOK
      <4> QED BY <4>1, <4>2 DEF outs
    <3> QED BY <1>1, <1>2, <2>2, <3>1 DEF Execution!End, outs
  <2> QED BY <2>3, <2>4 DEF Final
<1> QED BY <1>3, <1>4 DEF Run, Succeed, TimeOut, Raise

\* TaskScheduler.execute_graph keeps the promises of GraphExecution, whatever is
\* retried, cancelled at a deadline, or waits for a permit.
THEOREM ImplementsExecution == Spec => ExecutionSpec
<1>1. IInv /\ IInv' /\ [Next]_vars => [Execution!Next]_(Execution!vars)
  <2> SUFFICES ASSUME IInv, IInv', [Next]_vars PROVE [Execution!Next]_(Execution!vars)
    OBVIOUS
  <2>1. CASE Validate
    BY <2>1, ValidationRefines DEF Execution!Next, Execution!vars, outs
  <2>2. CASE Loop
    BY <2>2, LoopRefines DEF Execution!Next, Execution!vars, outs
  <2>3. ASSUME NEW t \in Task, Run(t) PROVE [Execution!Next]_(Execution!vars)
    BY <2>3, RunRefines DEF Execution!Next, Execution!vars, outs
  <2>4. CASE UNCHANGED vars
    BY <2>4 DEF vars, Execution!vars, Verdict, Outcome
  <2> QED BY <2>1, <2>2, <2>3, <2>4 DEF Next
<1> QED BY ExecutionInit, Invariance, <1>1, PTL DEF Spec, ExecutionSpec, Execution!Spec

-----------------------------------------------------------------------------
(* The scheduler does not go on for ever and does not get stuck.  Liveness     *)
(* itself needs fairness and is checked, not proved; this is what it rests on. *)

\* The steps that a task may still take: its visit, and what its retries allow.
Fuel(t) ==
  (IF t \in unvisited THEN 1 ELSE 0) +
  (CASE status[t] = "PENDING" -> 3 * (MaxRetries - attempts[t]) + 3
     [] status[t] = "READY"   -> 3 * (MaxRetries - attempts[t]) + 2
     [] status[t] = "RUNNING" -> 3 * (MaxRetries - attempts[t]) + 4
     [] status[t] \in Final   -> 0)

Work == {w \in Task \X (1 .. 3 * MaxRetries + 4) : w[2] <= Fuel(w[1])}

PhaseRank ==
  CASE phase = "linking"   -> 4
    [] phase = "sorting"   -> 3
    [] phase = "gathering" -> 2
    [] phase = "looping"   -> 1
    [] phase \in {"returned", "rejected"} -> 0

Outstanding == 5 * Cardinality(Work) + PhaseRank

(* Whatever step is taken, less is outstanding after it: every execution of a
   graph is finite, however its workers fail. *)
StepsRunOut == [][Outstanding' < Outstanding]_vars

(* While a batch is gathered one of its tasks runs or can enter the semaphore:
   no permit is held by a task that is through. *)
NoStall ==
  phase = "gathering" /\ batch # {} =>
    \E t \in batch :
      \/ status[t] = "RUNNING"
      \/ status[t] = "READY" /\ Cardinality(With("RUNNING")) < MaxConcurrency

LEMMA FuelNat ==
  ASSUME IInv, NEW t \in Task
  PROVE  Fuel(t) \in 0 .. 3 * MaxRetries + 4
<1>1. /\ attempts[t] \in 0 .. MaxRetries + 1
      /\ status[t] \in {"PENDING", "READY"} => attempts[t] <= MaxRetries
      /\ status[t] = "RUNNING" => attempts[t] > 0 /\ t \notin unvisited
      /\ status[t] = "READY" => t \notin unvisited
  BY DEF IInv, TypeOK, AttemptsInv, Waiting, PhaseInv, Active, Phase
<1>2. status[t] \in Status
  BY DEF IInv, TypeOK
<1> DEFINE visit == IF t \in unvisited THEN 1 ELSE 0
<1>3. visit \in 0 .. 1
  OBVIOUS
<1>4. CASE status[t] = "PENDING"
  <2>1. Fuel(t) = visit + (3 * (MaxRetries - attempts[t]) + 3)
    BY <1>4 DEF Fuel, Final
  <2> HIDE DEF visit
  <2> QED BY <1>1, <1>3, <1>4, <2>1, RetriesNat
<1>5. CASE status[t] = "READY"
  <2>1. Fuel(t) = 3 * (MaxRetries - attempts[t]) + 2
    BY <1>1, <1>5, RetriesNat DEF Fuel, Final
  <2> QED BY <1>1, <1>5, <2>1, RetriesNat
<1>6. CASE status[t] = "RUNNING"
  <2>1. Fuel(t) = 3 * (MaxRetries - attempts[t]) + 4
    BY <1>1, <1>6, RetriesNat DEF Fuel, Final
  <2> QED BY <1>1, <1>6, <2>1, RetriesNat
<1>7. CASE status[t] \in Final
  <2>1. Fuel(t) = visit + 0
    BY <1>7 DEF Fuel, Final
  <2> HIDE DEF visit
  <2> QED BY <1>3, <2>1, RetriesNat
<1> QED BY <1>2, <1>4, <1>5, <1>6, <1>7 DEF Status, Final

LEMMA WorkFinite == IsFiniteSet(Work) /\ Cardinality(Work) \in Nat
<1>1. IsFiniteSet(1 .. 3 * MaxRetries + 4)
  BY RetriesNat, FS_Interval
<1>2. IsFiniteSet(Task \X (1 .. 3 * MaxRetries + 4))
  BY <1>1, TasksFinite, FS_Product
<1> QED BY <1>2, FS_Subset, FS_CardinalityType DEF Work

\* What a measure has to be: a natural number.
MeasureInv ==
  /\ \A t \in Task : Fuel(t) \in 0 .. 3 * MaxRetries + 4
  /\ Cardinality(Work) \in Nat
  /\ PhaseRank \in 0 .. 4

LEMMA Measured == IInv => MeasureInv
<1>1. IInv => PhaseRank \in 0 .. 4
  BY DEF IInv, TypeOK, Phase, PhaseRank
<1> QED BY <1>1, FuelNat, WorkFinite DEF MeasureInv

\* Less fuel in one task and no more in the others is less work.
LEMMA LessWork ==
  ASSUME MeasureInv, MeasureInv', \A u \in Task : Fuel(u)' <= Fuel(u),
         NEW t \in Task, Fuel(t)' < Fuel(t)
  PROVE  Outstanding' < Outstanding
<1>1. \A u \in Task : Fuel(u) \in 0 .. 3 * MaxRetries + 4 /\ Fuel(u)' \in 0 .. 3 * MaxRetries + 4
  BY DEF MeasureInv
<1>2. Work' \subseteq Work
  BY <1>1, RetriesNat DEF Work
<1>3. <<t, Fuel(t)>> \in Work /\ <<t, Fuel(t)>> \notin Work'
  BY <1>1, RetriesNat DEF Work
<1>4. Cardinality(Work') <= Cardinality(Work) /\ Cardinality(Work') # Cardinality(Work)
  BY <1>2, <1>3, WorkFinite, FS_Subset
<1> QED BY <1>4 DEF MeasureInv, Outstanding

\* No less fuel, and a phase nearer to the end.
LEMMA LowerRank ==
  ASSUME MeasureInv, MeasureInv', \A u \in Task : Fuel(u)' = Fuel(u), PhaseRank' < PhaseRank
  PROVE  Outstanding' < Outstanding
<1>1. Cardinality(Work)' = Cardinality(Work)
  BY DEF Work
<1> QED BY <1>1 DEF MeasureInv, Outstanding

LEMMA ValidateRunsOut ==
  ASSUME IInv, MeasureInv, MeasureInv', Validate
  PROVE  Outstanding' < Outstanding
<1>1. CASE Link \/ Sorted
  <2>1. \A u \in Task : Fuel(u)' = Fuel(u)
    BY <1>1 DEF Link, Sorted, running, Fuel
  <2>2. PhaseRank' < PhaseRank
    BY <1>1 DEF Link, Sorted, PhaseRank
  <2> QED BY <2>1, <2>2, LowerRank
<1>2. ASSUME NEW t \in Task, Pop(t) PROVE Outstanding' < Outstanding
  <2> DEFINE rest(u) == CASE status[u] = "PENDING" -> 3 * (MaxRetries - attempts[u]) + 3
                          [] status[u] = "READY"   -> 3 * (MaxRetries - attempts[u]) + 2
                          [] status[u] = "RUNNING" -> 3 * (MaxRetries - attempts[u]) + 4
                          [] status[u] \in Final   -> 0
  <2>1. \A u \in Task : /\ Fuel(u)  = (IF u \in unvisited THEN 1 ELSE 0) + rest(u)
                        /\ Fuel(u)' = (IF u \in unvisited' THEN 1 ELSE 0) + rest(u)
    BY <1>2 DEF Pop, running, Fuel
  <2>2. unvisited' = unvisited \ {t} /\ t \in unvisited
    BY <1>2 DEF Pop
  <2>3. \A u \in Task : rest(u) \in Int
    BY RetriesNat DEF IInv, TypeOK, Status, Final
  <2> HIDE DEF rest
  <2>4. \A u \in Task : Fuel(u)' <= Fuel(u)
    BY <2>1, <2>2, <2>3
  <2>5. Fuel(t)' < Fuel(t)
    BY <2>1, <2>2, <2>3
  <2> QED BY <2>4, <2>5, LessWork
<1> QED BY <1>1, <1>2 DEF Validate

\* In the loop the tasks are visited; fuel is what their retries allow.
LoopFuel(t) ==
  CASE status[t] = "PENDING" -> 3 * (MaxRetries - attempts[t]) + 3
    [] status[t] = "READY"   -> 3 * (MaxRetries - attempts[t]) + 2
    [] status[t] = "RUNNING" -> 3 * (MaxRetries - attempts[t]) + 4
    [] status[t] \in Final   -> 0

LEMMA FuelOfLoop ==
  ASSUME TypeOK, unvisited = {}, NEW t \in Task
  PROVE  Fuel(t) = LoopFuel(t)
BY RetriesNat DEF Fuel, LoopFuel, TypeOK, Status, Final

\* One task moves on, the others stay.
LEMMA TaskRunsOut ==
  ASSUME IInv, MeasureInv, MeasureInv', TypeOK', phase = "gathering", unvisited' = unvisited,
         NEW t \in Task, NEW s \in Status, NEW a \in Nat,
         status' = [status EXCEPT ![t] = s], attempts' = [attempts EXCEPT ![t] = a],
         LoopFuel(t)' < LoopFuel(t)
  PROVE  Outstanding' < Outstanding
<1>1. unvisited = {} /\ unvisited' = {}
  BY DEF IInv, PhaseInv
<1>2. \A u \in Task : u # t => Fuel(u)' = Fuel(u)
  BY DEF Fuel, IInv, TypeOK
<1>3. Fuel(t) = LoopFuel(t)
  BY <1>1, FuelOfLoop DEF IInv
<1>4. Fuel(t)' = LoopFuel(t)'
  BY <1>1, RetriesNat DEF Fuel, LoopFuel, TypeOK, Status, Final
<1>5. \A u \in Task : Fuel(u)' <= Fuel(u)
  BY <1>2, <1>3, <1>4 DEF MeasureInv
<1> QED BY <1>3, <1>4, <1>5, LessWork

LEMMA RunRunsOut ==
  ASSUME IInv, TypeOK', MeasureInv, MeasureInv', NEW t \in Task, Run(t)
  PROVE  Outstanding' < Outstanding
<1> USE RetriesNat DEF IInv
<1>1. phase = "gathering" /\ unvisited' = unvisited /\ attempts[t] \in Nat
  BY DEF Run, Start, Succeed, TimeOut, Raise, Through, PhaseInv, Active, TypeOK
<1>2. CASE Start(t)
  <2>1. LoopFuel(t)' < LoopFuel(t)
    BY <1>2 DEF Start, TypeOK, LoopFuel, Final
  <2>2. /\ status' = [status EXCEPT ![t] = "RUNNING"] /\ "RUNNING" \in Status
        /\ attempts' = [attempts EXCEPT ![t] = attempts[t] + 1] /\ attempts[t] + 1 \in Nat
    BY <1>1, <1>2 DEF Start, Status
  <2> QED BY <1>1, <2>1, <2>2, TaskRunsOut
<1>3. ASSUME NEW s \in {"SUCCEEDED", "FAILED", "PENDING"}, Through(t, s)
      PROVE  Outstanding' < Outstanding
  <2>1. attempts' = [attempts EXCEPT ![t] = attempts[t]]
    BY <1>3 DEF Through, TypeOK
  <2>2. attempts[t] <= MaxRetries + 1
    BY DEF TypeOK
  <2>3. LoopFuel(t)' < LoopFuel(t)
    BY <1>1, <1>3, <2>2 DEF Through, TypeOK, LoopFuel, Final
  <2>4. status' = [status EXCEPT ![t] = s] /\ s \in Status
    BY <1>3 DEF Through, Status
  <2> QED BY <1>1, <2>1, <2>3, <2>4, TaskRunsOut
<1> QED BY <1>2, <1>3 DEF Run, Succeed, TimeOut, Raise

LEMMA LoopRunsOut ==
  ASSUME IInv, TypeOK', MeasureInv, MeasureInv', Loop
  PROVE  Outstanding' < Outstanding
<1> USE RetriesNat DEF IInv
<1>1. CASE Leave \/ Gathered
  <2>1. \A u \in Task : Fuel(u)' = Fuel(u)
    BY <1>1 DEF Leave, Gathered, running, Fuel
  <2>2. PhaseRank' < PhaseRank
    BY <1>1 DEF Leave, Gathered, PhaseRank
  <2> QED BY <2>1, <2>2, LowerRank
<1>2. CASE Collect
  <2>1. /\ unvisited = {} /\ unvisited' = {} /\ attempts' = attempts /\ Ready # {}
        /\ \A u \in Task : status'[u] = IF u \in Ready THEN "READY" ELSE status[u]
    BY <1>2 DEF Collect, PhaseInv
  <2>2. \A u \in Task : Fuel(u)' = IF u \in Ready THEN Fuel(u) - 1 ELSE Fuel(u)
    <3>1. ASSUME NEW u \in Ready PROVE u \in Task /\ Fuel(u)' = Fuel(u) - 1
      <4>1. u \in Task /\ status[u] = "PENDING" /\ attempts[u] \in Nat
        BY DEF Ready, With, TypeOK
      <4>2. Fuel(u) = 3 * (MaxRetries - attempts[u]) + 3
        BY <2>1, <4>1 DEF Fuel, Final
      <4>3. Fuel(u)' = 3 * (MaxRetries - attempts[u]) + 2
        BY <2>1, <4>1 DEF Fuel, Final
      <4> QED BY <4>1, <4>2, <4>3
    <3>2. \A u \in Task : u \notin Ready => Fuel(u)' = Fuel(u)
      BY <2>1 DEF Fuel
    <3> QED BY <3>1, <3>2
  <2>3. \A u \in Task : Fuel(u)' <= Fuel(u)
    BY <2>2 DEF MeasureInv
  <2>4. PICK t \in Task : t \in Ready
    BY <2>1 DEF Ready, With
  <2>5. Fuel(t)' < Fuel(t)
    BY <2>2, <2>4 DEF MeasureInv
  <2> QED BY <2>3, <2>5, LessWork
<1>3. CASE GiveUp
  <2>1. /\ unvisited' = unvisited /\ attempts' = attempts
        /\ \A u \in Task : status'[u] = IF status[u] \in Waiting THEN "FAILED" ELSE status[u]
    BY <1>3 DEF GiveUp, Waiting
  <2>2. \A u \in Task : status[u] \in Waiting => Fuel(u)' <= 1 /\ Fuel(u) >= 2
    BY <2>1 DEF Fuel, Waiting, Final, TypeOK, AttemptsInv
  <2>3. \A u \in Task : status[u] \notin Waiting => Fuel(u)' = Fuel(u)
    BY <2>1 DEF Fuel
  <2>4. \A u \in Task : Fuel(u)' <= Fuel(u)
    BY <2>2, <2>3 DEF MeasureInv
  <2>5. PICK t \in Task : status[t] \in Waiting
    BY <1>3 DEF GiveUp, Complete, PhaseInv, Active, Final, Waiting, TypeOK, Status
  <2>6. Fuel(t)' < Fuel(t)
    BY <2>2, <2>5 DEF MeasureInv
  <2> QED BY <2>4, <2>6, LessWork
<1> QED BY <1>1, <1>2, <1>3 DEF Loop

\* TaskScheduler.execute_graph takes finitely many steps: with every one the
\* natural number Outstanding falls.
THEOREM ExecutionIsFinite == Spec => [](Outstanding \in Nat) /\ StepsRunOut
<1>1. MeasureInv => Outstanding \in Nat
  BY DEF MeasureInv, Outstanding
<1>2. IInv /\ IInv' /\ MeasureInv /\ MeasureInv' /\ [Next]_vars => [Outstanding' < Outstanding]_vars
  BY ValidateRunsOut, LoopRunsOut, RunRunsOut DEF Next, IInv
<1> QED BY <1>1, <1>2, Invariance, Measured, PTL DEF Spec, StepsRunOut

\* The semaphore of TaskScheduler.execute_graph cannot be exhausted by tasks
\* that do not run: with some permit, a batch always has a task that can go on.
THEOREM PermitsSuffice == Spec => []NoStall
<1>1. IInv => NoStall
  <2> SUFFICES ASSUME IInv, batch # {}, \A t \in batch : status[t] # "RUNNING"
               PROVE  \E t \in batch :
                        status[t] = "READY" /\ Cardinality(With("RUNNING")) < MaxConcurrency
    BY DEF NoStall
  <2>1. With("RUNNING") = {} /\ \E t \in batch : status[t] = "READY"
    BY DEF IInv, PhaseInv, Active, With
  <2> QED BY <2>1, SomePermit, FS_EmptySet
<1> QED BY <1>1, Invariance, PTL
=============================================================================
