--------------------------- MODULE TaskScheduler ---------------------------
(***************************************************************************)
(* TaskGraph and TaskScheduler.execute_graph of                            *)
(* backend/app/services/orchestration: a graph of tasks is validated with  *)
(* Kahn's algorithm, then run in batches.  A batch is every task whose     *)
(* dependencies have succeeded; its tasks run concurrently under a         *)
(* semaphore, and the next batch is collected when the last of them is     *)
(* through.  A task that raises goes back to PENDING until its retries are *)
(* used up; one that overruns its deadline fails at once.                  *)
(***************************************************************************)
EXTENDS Naturals, FiniteSets

CONSTANTS
  Task,            \* task_ids of the graph
  Missing,         \* a task_id no task of the graph has
  MaxRetries,      \* TaskNode.max_retries
  MaxConcurrency   \* permits of the semaphore

ASSUME MissingIsNoTask == Missing \notin Task
ASSUME TasksFinite == IsFiniteSet(Task)
ASSUME RetriesNat == MaxRetries \in Nat
ASSUME SomePermit == MaxConcurrency \in Nat \ {0}

VARIABLES
  deps,       \* TaskNode.depends_on
  phase,      \* where execute_graph stands
  unvisited,  \* tasks Kahn's algorithm has not popped from its queue
  status,     \* TaskNode.status
  attempts,   \* TaskNode.attempt_count
  batch       \* tasks of the gathered batch that are not through

vars == <<deps, phase, unvisited, status, attempts, batch>>

Phase  == {"linking", "sorting", "looping", "gathering", "returned", "rejected"}
Status == {"PENDING", "READY", "RUNNING", "SUCCEEDED", "FAILED"}
Final  == {"SUCCEEDED", "FAILED"}

With(s) == {t \in Task : status[t] = s}

InitWith(graph) ==
  /\ deps      = graph
  /\ phase     = "linking"
  /\ unvisited = Task
  /\ status    = [t \in Task |-> "PENDING"]
  /\ attempts  = [t \in Task |-> 0]
  /\ batch     = {}

\* A graph is any graph: add_task checks nothing but that ids differ.
Init == \E graph \in [Task -> SUBSET (Task \cup {Missing})] : InitWith(graph)

-----------------------------------------------------------------------------
(* validate_dag *)

running == <<status, attempts, batch>>

\* The adjacency lists are built, or a dependency names no task.
Link ==
  /\ phase = "linking"
  /\ phase' = IF \E t \in Task : Missing \in deps[t] THEN "rejected" ELSE "sorting"
  /\ UNCHANGED <<deps, unvisited>> /\ UNCHANGED running

\* MUTANT: a task is queued when one of its in-edges is removed.
NoInEdgeSome(t) == deps[t] = {} \/ deps[t] \ unvisited # {}

\* What in_degree[t] = 0 says: each edge into t was removed with its source.
NoInEdge(t) == deps[t] \cap unvisited = {}

\* A task is popped from the queue; the order among those in it is free.
Pop(t) ==
  /\ phase = "sorting"
  /\ t \in unvisited /\ NoInEdge(t)
  /\ unvisited' = unvisited \ {t}
  /\ UNCHANGED <<deps, phase>> /\ UNCHANGED running

\* The queue is empty: every task was visited, or there is a cycle.
Sorted ==
  /\ phase = "sorting"
  /\ \A t \in unvisited : ~NoInEdge(t)
  /\ phase' = IF unvisited = {} THEN "looping" ELSE "rejected"
  /\ UNCHANGED <<deps, unvisited>> /\ UNCHANGED running

-----------------------------------------------------------------------------
(* execute_graph *)

\* MUTANT: a dependency that is through is enough.
ReadyWhenFinal == {t \in With("PENDING") : \A d \in deps[t] : status[d] \in Final}

\* get_ready_tasks
Ready == {t \in With("PENDING") : \A d \in deps[t] : status[d] = "SUCCEEDED"}

Complete == \A t \in Task : status[t] \in Final

Collect ==
  /\ phase = "looping" /\ ~Complete
  /\ Ready # {}
  /\ status' = [t \in Task |-> IF t \in Ready THEN "READY" ELSE status[t]]
  /\ batch'  = Ready
  /\ phase'  = "gathering"
  /\ UNCHANGED <<deps, unvisited, attempts>>

\* MUTANT: the loop is left as it stands.
LeaveStuck ==
  /\ phase = "looping" /\ ~Complete
  /\ Ready = {}
  /\ phase' = "returned"
  /\ UNCHANGED <<deps, unvisited, status, attempts, batch>>

\* No task is ready.  gather has returned, so none is RUNNING either (the
\* branch that sleeps is never taken): what is left can never run.
GiveUp ==
  /\ phase = "looping" /\ ~Complete
  /\ Ready = {}
  /\ status' = [t \in Task |-> IF status[t] \in {"PENDING", "READY"} THEN "FAILED"
                               ELSE status[t]]
  /\ phase'  = "returned"
  /\ UNCHANGED <<deps, unvisited, attempts, batch>>

Leave ==
  /\ phase = "looping" /\ Complete
  /\ phase' = "returned"
  /\ UNCHANGED <<deps, unvisited>> /\ UNCHANGED running

\* MUTANT: a permit taken is not given back.
StartKeepingPermit(t) ==
  /\ t \in batch /\ status[t] = "READY"
  /\ Cardinality({u \in Task : attempts[u] > 0}) < MaxConcurrency
  /\ status'   = [status EXCEPT ![t] = "RUNNING"]
  /\ attempts' = [attempts EXCEPT ![t] = @ + 1]
  /\ UNCHANGED <<deps, phase, unvisited, batch>>

\* A gathered task enters the semaphore; one that is RUNNING holds a permit.
Start(t) ==
  /\ t \in batch /\ status[t] = "READY"
  /\ Cardinality(With("RUNNING")) < MaxConcurrency
  /\ status'   = [status EXCEPT ![t] = "RUNNING"]
  /\ attempts' = [attempts EXCEPT ![t] = @ + 1]
  /\ UNCHANGED <<deps, phase, unvisited, batch>>

\* A running task leaves the semaphore, and the batch, in this status.
Through(t, s) ==
  /\ status[t] = "RUNNING"
  /\ status' = [status EXCEPT ![t] = s]
  /\ batch'  = batch \ {t}
  /\ UNCHANGED <<deps, phase, unvisited, attempts>>

Succeed(t) == Through(t, "SUCCEEDED")

\* asyncio.wait_for cancels the worker at the task's deadline.
TimeOut(t) == Through(t, "FAILED")

\* MUTANT: one retry too many.
RaiseOffByOne(t) == Through(t, IF attempts[t] <= MaxRetries + 1 THEN "PENDING" ELSE "FAILED")

Raise(t) == Through(t, IF attempts[t] <= MaxRetries THEN "PENDING" ELSE "FAILED")

\* MUTANT: gather returns when one of its tasks has failed.
GatheredOnFailure ==
  /\ phase = "gathering" /\ (batch = {} \/ With("FAILED") # {})
  /\ phase' = "looping"
  /\ UNCHANGED <<deps, unvisited>> /\ UNCHANGED running

\* gather returns when all its tasks are through.
Gathered ==
  /\ phase = "gathering" /\ batch = {}
  /\ phase' = "looping"
  /\ UNCHANGED <<deps, unvisited>> /\ UNCHANGED running

Validate == Link \/ Sorted \/ \E t \in Task : Pop(t)
Loop     == Collect \/ GiveUp \/ Leave \/ Gathered
Run(t)   == Start(t) \/ Succeed(t) \/ TimeOut(t) \/ Raise(t)

Next == Validate \/ Loop \/ \E t \in Task : Run(t)

\* The event loop goes on with whatever can go on, and a deadline ends every
\* worker that awaits.
Fairness == WF_vars(Validate \/ Loop) /\ \A t \in Task : WF_vars(Run(t))

Spec     == Init /\ [][Next]_vars
FairSpec == Spec /\ Fairness
-----------------------------------------------------------------------------
(* Properties *)

TypeOK ==
  /\ deps      \in [Task -> SUBSET (Task \cup {Missing})]
  /\ phase     \in Phase
  /\ unvisited \subseteq Task
  /\ status    \in [Task -> Status]
  /\ attempts  \in [Task -> 0 .. MaxRetries + 1]
  /\ batch     \subseteq Task

(* What the caller of execute_graph can see: its verdict on the graph, and how
   each task stands.  A task that raised goes on being begun. *)
Verdict ==
  CASE phase \in {"linking", "sorting"}     -> "submitted"
    [] phase = "rejected"                   -> "refused"
    [] phase \in {"looping", "gathering"}   -> "accepted"
    [] phase = "returned"                   -> "done"

Outcome(t) ==
  CASE status[t] = "SUCCEEDED"                        -> "succeeded"
    [] status[t] = "FAILED"                           -> "failed"
    [] status[t] \notin Final /\ attempts[t] > 0      -> "begun"
    [] status[t] \notin Final /\ attempts[t] = 0      -> "waiting"

Execution == INSTANCE GraphExecution
               WITH verdict <- Verdict, outcome <- [t \in Task |-> Outcome(t)]

(* The scheduler, with its queue, batches, permits, retries and deadlines, does
   what execute_graph promises: no task that was begun is abandoned, and none
   is abandoned while another may still make it ready. *)
ExecutionSpec == Execution!Spec

Executable == Execution!Executable

(* validate_dag accepts exactly the graphs that can be executed. *)
ValidationCorrect ==
  /\ phase = "rejected" => ~Executable
  /\ phase \in {"looping", "gathering", "returned"} => Executable

(* A worker is started only for a task whose dependencies have all succeeded,
   and they stay so whatever becomes of the task and of its batch. *)
DependenciesFirst ==
  \A t \in Task : attempts[t] > 0 => \A d \in deps[t] : status[d] = "SUCCEEDED"

(* When execute_graph returns every task is through, and failure is neither
   invented nor forgotten: a task was given up untried just if a dependency
   failed, and if anything failed, some task failed on its own account. *)
FailuresExplained ==
  phase = "returned" =>
    /\ Complete
    /\ \A t \in Task :
         attempts[t] = 0 <=> \E d \in deps[t] : status[d] = "FAILED"
    /\ With("FAILED") # {} => \E t \in With("FAILED") : attempts[t] > 0

(* execute_graph ends, by returning or by refusing the graph: no task is
   retried for ever and no batch waits for a permit nobody gives back. *)
Terminates == <>(phase \in {"returned", "rejected"})
=============================================================================
