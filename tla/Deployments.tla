---------------------------- MODULE Deployments ----------------------------
(***************************************************************************)
(* The deployment service of the control plane: trigger_deployment and     *)
(* rollback of backend/app/services/deployment_service.py, as concurrent   *)
(* HTTP requests that share one database.                                  *)
(*                                                                         *)
(* A request is handled by a worker process.  Its handler is a coroutine   *)
(* over a synchronous database session: it keeps the worker's event loop   *)
(* (loop[w] = r) until it awaits a provider call that really suspends, and *)
(* a row lock it has to wait for stalls the whole loop.  Every             *)
(* EventBus.emit commits the session, so the steps below are the           *)
(* stretches between two points at which other requests can see, or        *)
(* change, the database.  What is flushed but not committed is visible     *)
(* only as the row lock it holds.                                          *)
(***************************************************************************)
EXTENDS Naturals, FiniteSets

CONSTANTS
  Deploys,     \* requests that trigger a deployment; each names the row it creates
  Rollbacks,   \* requests that roll a deployment back
  Gates,       \* risk gates
  Worker,      \* server processes, one event loop each
  ScopeOf,     \* the project and environment of each deployment
  MaxCrashes,  \* bound on worker crashes
  None         \* no request, gate, deployment or worker

Request == Deploys \cup Rollbacks

Committed  == {"BUILDING", "SUCCESS", "FAILED", "ROLLING_BACK", "ROLLED_BACK"}
GateStatus == {"PASSED", "REQUIRES_APPROVAL", "APPROVED", "REJECTED", "BLOCKED", "BYPASSED"}
Halting    == {"REQUIRES_APPROVAL", "BLOCKED", "REJECTED"}

ASSUME RequestsDistinct == Deploys \cap Rollbacks = {}
ASSUME NoneIsNothing ==
  None \notin Request \cup Gates \cup Worker \cup Committed \cup GateStatus
ASSUME ScopesGiven == DOMAIN ScopeOf = Deploys
ASSUME CrashBound == MaxCrashes \in Nat

VARIABLES
  state,    \* committed deployments.state, "ABSENT" before the row is committed
  rowLock,  \* the request whose open transaction has updated the row
  gate,     \* committed deployment_gates.gate_status; "LOST": never committed
  events,   \* the platform_events ledger; a request's trace_id is the request
  calls,    \* requests whose provider adapter has been called
  pc,       \* where each request's handler stands
  home,     \* the worker that took the request
  loop,     \* the coroutine each worker's event loop is executing
  gateId,   \* the gate_id a deploy request carries
  seen,     \* the gate status a deploy request read
  born,     \* deployments.created_at: when the creating transaction began
  clock,
  subject,  \* the deployment a rollback request is about
  view,     \* the subject's state as loaded in the request's session
  target,   \* the deployment whose version the rollback restores
  crashes

rollbackVars == <<subject, view, target>>
deployVars   == <<gateId, seen, born, clock>>
vars == <<state, rowLock, gate, events, calls, pc, home, loop,
          gateId, seen, born, clock, subject, view, target, crashes>>

-----------------------------------------------------------------------------
(* Vocabulary *)

EventType  == {"DEPLOYMENT_STARTED", "DEPLOYMENT_COMPLETED", "DEPLOYMENT_FAILED",
               "ROLLBACK_STARTED", "ROLLBACK_COMPLETED"}

Answered   == {"done", "error", "crashed"}
DeployPc   == {"halt", "create", "claim"}
RollbackPc == {"target", "mark", "revert", "finish"}
Pc         == {"new", "provider", "reply"} \cup DeployPc \cup RollbackPc \cup Answered

Emitted(type, r) == [type |-> type, trace |-> r] \in events
Emit(type, r)    == events' = events \cup {[type |-> type, trace |-> r]}

Running(r)   == loop[home[r]] = r
Resumable(r) == loop[home[r]] \in {r, None}

Goto(r, label) == pc' = [pc EXCEPT ![r] = label]
Keep           == UNCHANGED <<home, loop>>

\* A worker with an idle loop picks the request up.
Accept(r, w) ==
  /\ pc[r] = "new" /\ loop[w] = None
  /\ home' = [home EXCEPT ![r] = w]
  /\ loop' = [loop EXCEPT ![w] = r]

\* A suspended coroutine is scheduled again.
Resume(r) ==
  /\ Resumable(r)
  /\ loop' = [loop EXCEPT ![home[r]] = r]
  /\ UNCHANGED home

\* The handler gives the loop back: it has returned, raised, or awaits.
Yield(r) ==
  /\ loop' = [loop EXCEPT ![home[r]] = None]
  /\ UNCHANGED home

Init ==
  /\ state   = [d \in Deploys |-> "ABSENT"]
  /\ rowLock = [d \in Deploys |-> None]
  /\ gate    \in [Gates -> {"LOST", "PASSED", "REQUIRES_APPROVAL", "BLOCKED"}]
  /\ events  = {}
  /\ calls   = {}
  /\ pc      = [r \in Request |-> "new"]
  /\ home    = [r \in Request |-> None]
  /\ loop    = [w \in Worker |-> None]
  /\ gateId  = [d \in Deploys |-> None]
  /\ seen    = [d \in Deploys |-> None]
  /\ born    = [d \in Deploys |-> 0]
  /\ clock   = 0
  /\ subject = [r \in Rollbacks |-> None]
  /\ view    = [r \in Rollbacks |-> None]
  /\ target  = [r \in Rollbacks |-> None]
  /\ crashes = 0

-----------------------------------------------------------------------------
(* RiskService, as this service meets it: decisions on evaluated gates.  The
   service only flushes, so a gate or a decision is committed when the owner
   of its session commits; the gate endpoints do not, and hand out the ids of
   gates that never become rows ("LOST"). *)

\* approve_gate returns early on APPROVED and PASSED; rejecting and bypassing
\* look at no earlier status.
DecideGate(g) ==
  /\ gate[g] # "LOST"
  /\ \/ gate[g] \notin {"APPROVED", "PASSED"} /\ gate' = [gate EXCEPT ![g] = "APPROVED"]
     \/ gate' = [gate EXCEPT ![g] = "REJECTED"]
     \/ gate' = [gate EXCEPT ![g] = "BYPASSED"]
  /\ UNCHANGED <<state, rowLock, events, calls, pc, home, loop, crashes>>
  /\ UNCHANGED deployVars /\ UNCHANGED rollbackVars

-----------------------------------------------------------------------------
(* trigger_deployment *)

\* MUTANT: a rejected gate is not among the blocking ones.
ReadGateRejectedPasses(r, w, g) ==
  /\ Accept(r, w)
  /\ gateId' = [gateId EXCEPT ![r] = g]
  /\ seen'   = [seen EXCEPT ![r] = IF g = None THEN None ELSE gate[g]]
  /\ born'   = [born EXCEPT ![r] = clock]
  /\ clock'  = clock + 1
  /\ Goto(r, IF seen'[r] \in Halting \ {"REJECTED"} THEN "halt" ELSE "create")
  /\ UNCHANGED <<state, rowLock, gate, events, calls, crashes>>
  /\ UNCHANGED rollbackVars

\* The request arrives, its transaction begins, and the gate it names is read.
ReadGate(r, w, g) ==
  /\ Accept(r, w)
  /\ gateId' = [gateId EXCEPT ![r] = g]
  /\ seen'   = [seen EXCEPT ![r] = IF g = None THEN None ELSE gate[g]]
  /\ born'   = [born EXCEPT ![r] = clock]
  /\ clock'  = clock + 1
  /\ Goto(r, IF seen'[r] \in Halting THEN "halt" ELSE "create")
  /\ UNCHANGED <<state, rowLock, gate, events, calls, crashes>>
  /\ UNCHANGED rollbackVars

\* A blocking gate: the row is created in FAILED and committed, no event.
HaltAtGate(r) ==
  /\ pc[r] = "halt" /\ Running(r)
  /\ state' = [state EXCEPT ![r] = "FAILED"]
  /\ Goto(r, "reply") /\ Keep
  /\ UNCHANGED <<rowLock, gate, events, calls, crashes>>
  /\ UNCHANGED deployVars /\ UNCHANGED rollbackVars

\* MUTANT: the event is emitted before the row leaves PENDING.
StartAnnouncedEarly(r) ==
  /\ pc[r] = "create" /\ Running(r)
  /\ gateId[r] # None => gate[gateId[r]] # "LOST"
  /\ state' = [state EXCEPT ![r] = "PENDING"]
  /\ Emit("DEPLOYMENT_STARTED", r)
  /\ Goto(r, "claim") /\ Keep
  /\ UNCHANGED <<rowLock, gate, calls, crashes>>
  /\ UNCHANGED deployVars /\ UNCHANGED rollbackVars

\* PENDING and BUILDING are flushed in the transaction that emitting
\* DEPLOYMENT_STARTED commits.
StartDeployment(r) ==
  /\ pc[r] = "create" /\ Running(r)
  /\ gateId[r] # None => gate[gateId[r]] # "LOST"
  /\ state' = [state EXCEPT ![r] = "BUILDING"]
  /\ Emit("DEPLOYMENT_STARTED", r)
  /\ Goto(r, "claim") /\ Keep
  /\ UNCHANGED <<rowLock, gate, calls, crashes>>
  /\ UNCHANGED deployVars /\ UNCHANGED rollbackVars

\* A gate_id that names no committed gate breaks the row's foreign key.
UnknownGate(r) ==
  /\ pc[r] = "create" /\ Running(r)
  /\ gateId[r] # None /\ gate[gateId[r]] = "LOST"
  /\ Goto(r, "error") /\ Yield(r)
  /\ UNCHANGED <<state, rowLock, gate, events, calls, crashes>>
  /\ UNCHANGED deployVars /\ UNCHANGED rollbackVars

\* MUTANT: DEPLOYING is committed before the adapter is awaited.
DispatchUnlocked(r) ==
  /\ pc[r] = "claim" /\ Running(r)
  /\ rowLock[r] = None
  /\ calls' = calls \cup {r}
  /\ Goto(r, "provider")
  /\ Keep \/ Yield(r)
  /\ UNCHANGED <<state, rowLock, gate, events, crashes>>
  /\ UNCHANGED deployVars /\ UNCHANGED rollbackVars

\* TESTING, APPROVED and DEPLOYING are flushed in one open transaction, which
\* holds the row; then the adapter is awaited.  Whether that suspends the
\* handler depends on the adapter: only a live HTTP call does.
DispatchDeploy(r) ==
  /\ pc[r] = "claim" /\ Running(r)
  /\ rowLock[r] = None
  /\ rowLock' = [rowLock EXCEPT ![r] = r]
  /\ calls' = calls \cup {r}
  /\ Goto(r, "provider")
  /\ Keep \/ Yield(r)
  /\ UNCHANGED <<state, gate, events, crashes>>
  /\ UNCHANGED deployVars /\ UNCHANGED rollbackVars

\* Building the DeploymentRequest raises (its environment_variables must map
\* to strings, the payload's configuration need not): that is before the try,
\* so closing the session drops TESTING..DEPLOYING and nothing else happens.
RefuseRequest(r) ==
  /\ pc[r] = "claim" /\ Running(r)
  /\ rowLock[r] = None
  /\ Goto(r, "error") /\ Yield(r)
  /\ UNCHANGED <<state, rowLock, gate, events, calls, crashes>>
  /\ UNCHANGED deployVars /\ UNCHANGED rollbackVars

\* MUTANT: the last transaction is left open.
FinishUncommitted(r, outcome, type) ==
  /\ pc[r] = "provider" /\ r \in Deploys
  /\ Resume(r)
  /\ state' = [state EXCEPT ![r] = outcome]
  /\ Emit(type, r)
  /\ Goto(r, "reply")
  /\ UNCHANGED <<rowLock, gate, calls, crashes>>
  /\ UNCHANGED deployVars /\ UNCHANGED rollbackVars

\* The adapter answered: HEALTH_CHECK and SUCCESS (or, from the except
\* clause, FAILED) are committed with their event, which frees the row.
FinishDeploy(r, outcome, type) ==
  /\ pc[r] = "provider" /\ r \in Deploys
  /\ Resume(r)
  /\ state'   = [state EXCEPT ![r] = outcome]
  /\ rowLock' = [rowLock EXCEPT ![r] = None]
  /\ Emit(type, r)
  /\ Goto(r, "reply")
  /\ UNCHANGED <<gate, calls, crashes>>
  /\ UNCHANGED deployVars /\ UNCHANGED rollbackVars

\* MUTANT: the except clause answers without marking the row.
FailUnmarked(r) ==
  /\ pc[r] = "provider" /\ r \in Deploys
  /\ Resume(r)
  /\ rowLock' = [rowLock EXCEPT ![r] = None]
  /\ Goto(r, "reply")
  /\ UNCHANGED <<state, gate, events, calls, crashes>>
  /\ UNCHANGED deployVars /\ UNCHANGED rollbackVars

DeploySucceeds(r) == FinishDeploy(r, "SUCCESS", "DEPLOYMENT_COMPLETED")
DeployFails(r)    == FinishDeploy(r, "FAILED", "DEPLOYMENT_FAILED")

-----------------------------------------------------------------------------
(* rollback *)

\* The current deployment is loaded; an unknown id is answered 404.
LoadCurrent(r, w, d) ==
  /\ Accept(r, w)
  /\ state[d] # "ABSENT"
  /\ subject' = [subject EXCEPT ![r] = d]
  /\ view'    = [view EXCEPT ![r] = state[d]]
  /\ Goto(r, "target")
  /\ UNCHANGED <<state, rowLock, gate, events, calls, target, crashes>>
  /\ UNCHANGED deployVars

Successful(scope) == {d \in Deploys : state[d] = "SUCCESS" /\ ScopeOf[d] = scope}

\* get_last_successful: the newest by created_at; nothing orders a tie.
LastSuccessful(scope) ==
  {d \in Successful(scope) : \A e \in Successful(scope) : born[e] <= born[d]}

\* The caller's own choice of target is looked up and not otherwise checked.
ExplicitTarget(r, t) ==
  /\ pc[r] = "target" /\ Running(r)
  /\ target' = [target EXCEPT ![r] = IF state[t] = "ABSENT" THEN None ELSE t]
  /\ Goto(r, "mark") /\ Keep
  /\ UNCHANGED <<state, rowLock, gate, events, calls, subject, view, crashes>>
  /\ UNCHANGED deployVars

DefaultTarget(r) ==
  /\ pc[r] = "target" /\ Running(r)
  /\ LET found == LastSuccessful(ScopeOf[subject[r]])
     IN  \E t \in IF found = {} THEN {None} ELSE found :
           target' = [target EXCEPT ![r] = t]
  /\ Goto(r, "mark") /\ Keep
  /\ UNCHANGED <<state, rowLock, gate, events, calls, subject, view, crashes>>
  /\ UNCHANGED deployVars

\* Assigning the state a session has already loaded is no change: the UPDATE,
\* if there is one, leaves the column alone.
Overwrite(r, new) ==
  state' = IF view[r] = new THEN state ELSE [state EXCEPT ![subject[r]] = new]

\* An UPDATE waits for the row; assigning nothing new issues none.
MarkRollingBack(r) ==
  /\ pc[r] = "mark" /\ Running(r)
  /\ view[r] # "ROLLING_BACK" => rowLock[subject[r]] = None
  /\ Overwrite(r, "ROLLING_BACK")
  /\ Emit("ROLLBACK_STARTED", r)
  /\ Goto(r, "revert") /\ Keep
  /\ UNCHANGED <<rowLock, gate, calls, crashes>>
  /\ UNCHANGED deployVars /\ UNCHANGED rollbackVars

\* Reading current_dep.provider reloads the row the commit expired; then the
\* adapter's rollback is awaited.
CallRollback(r) ==
  /\ pc[r] = "revert" /\ Running(r)
  /\ view'  = [view EXCEPT ![r] = state[subject[r]]]
  /\ calls' = calls \cup {r}
  /\ Goto(r, "provider")
  /\ Keep \/ Yield(r)
  /\ UNCHANGED <<state, rowLock, gate, events, subject, target, crashes>>
  /\ UNCHANGED deployVars

RollbackAnswered(r) ==
  /\ pc[r] = "provider" /\ r \in Rollbacks
  /\ Resume(r)
  /\ Goto(r, "finish")
  /\ UNCHANGED <<state, rowLock, gate, events, calls, crashes>>
  /\ UNCHANGED deployVars /\ UNCHANGED rollbackVars

\* MUTANT: the failed rollback is marked FAILED, and not announced.
RaisesMarkedFailed(r) ==
  /\ pc[r] = "provider" /\ r \in Rollbacks
  /\ Resumable(r)
  /\ rowLock[subject[r]] = None
  /\ state' = [state EXCEPT ![subject[r]] = "FAILED"]
  /\ Goto(r, "error") /\ Yield(r)
  /\ UNCHANGED <<rowLock, gate, events, calls, crashes>>
  /\ UNCHANGED deployVars /\ UNCHANGED rollbackVars

\* rollback has no try around the adapter: the exception reaches the
\* endpoint, which answers 400, and the row keeps ROLLING_BACK.
RollbackRaises(r) ==
  /\ pc[r] = "provider" /\ r \in Rollbacks
  /\ Resumable(r)
  /\ Goto(r, "error") /\ Yield(r)
  /\ UNCHANGED <<state, rowLock, gate, events, calls, crashes>>
  /\ UNCHANGED deployVars /\ UNCHANGED rollbackVars

\* ROLLED_BACK also stamps completed_at, so there always is an UPDATE.
MarkRolledBack(r) ==
  /\ pc[r] = "finish" /\ Running(r)
  /\ rowLock[subject[r]] = None
  /\ Overwrite(r, "ROLLED_BACK")
  /\ Emit("ROLLBACK_COMPLETED", r)
  /\ Goto(r, "reply") /\ Keep
  /\ UNCHANGED <<rowLock, gate, calls, crashes>>
  /\ UNCHANGED deployVars /\ UNCHANGED rollbackVars

-----------------------------------------------------------------------------
(* Both *)

Return(r) ==
  /\ pc[r] = "reply" /\ Running(r)
  /\ Goto(r, "done") /\ Yield(r)
  /\ UNCHANGED <<state, rowLock, gate, events, calls, crashes>>
  /\ UNCHANGED deployVars /\ UNCHANGED rollbackVars

\* The process dies and is restarted: its open transactions are rolled back,
\* its requests are never answered, and nothing resumes their work.
Crash(w) ==
  /\ crashes < MaxCrashes
  /\ LET lost == {r \in Request : home[r] = w /\ pc[r] \notin Answered}
     IN  /\ lost # {}
         /\ pc' = [r \in Request |-> IF r \in lost THEN "crashed" ELSE pc[r]]
         /\ rowLock' = [d \in Deploys |-> IF rowLock[d] \in lost THEN None ELSE rowLock[d]]
  /\ loop' = [loop EXCEPT ![w] = None]
  /\ crashes' = crashes + 1
  /\ UNCHANGED <<state, gate, events, calls, home>>
  /\ UNCHANGED deployVars /\ UNCHANGED rollbackVars

DeployStep(r) ==
  \/ HaltAtGate(r) \/ StartDeployment(r) \/ UnknownGate(r)
  \/ DispatchDeploy(r) \/ RefuseRequest(r) \/ DeploySucceeds(r) \/ DeployFails(r)

RollbackStep(r) ==
  \/ \E t \in Deploys : ExplicitTarget(r, t)
  \/ DefaultTarget(r) \/ MarkRollingBack(r) \/ CallRollback(r)
  \/ RollbackAnswered(r) \/ RollbackRaises(r) \/ MarkRolledBack(r)

Arrival ==
  \E w \in Worker :
    \/ \E r \in Deploys, g \in Gates \cup {None} : ReadGate(r, w, g)
    \/ \E r \in Rollbacks, d \in Deploys : LoadCurrent(r, w, d)

Next ==
  \/ \E g \in Gates : DecideGate(g)
  \/ Arrival
  \/ \E r \in Deploys : DeployStep(r)
  \/ \E r \in Rollbacks : RollbackStep(r)
  \/ \E r \in Request : Return(r)
  \/ \E w \in Worker : Crash(w)

\* A handler that can go on does, and a provider call ends one way or the
\* other (the adapters bound it with a timeout).  Requests need not arrive,
\* gates need not be decided, workers need not crash.
Fairness ==
  /\ \A r \in Deploys : WF_vars(DeployStep(r) \/ Return(r))
  /\ \A r \in Rollbacks : WF_vars(RollbackStep(r) \/ Return(r))

Spec == Init /\ [][Next]_vars
FairSpec == Spec /\ Fairness
-----------------------------------------------------------------------------
(* Properties *)

TypeOK ==
  /\ state   \in [Deploys -> Committed \cup {"ABSENT"}]
  /\ rowLock \in [Deploys -> Deploys \cup {None}]
  /\ gate    \in [Gates -> GateStatus \cup {"LOST"}]
  /\ events  \subseteq [type : EventType, trace : Request]
  /\ calls   \subseteq Request
  /\ pc      \in [Request -> Pc]
  /\ home    \in [Request -> Worker \cup {None}]
  /\ loop    \in [Worker -> Request \cup {None}]
  /\ gateId  \in [Deploys -> Gates \cup {None}]
  /\ seen    \in [Deploys -> GateStatus \cup {"LOST", None}]
  /\ born    \in [Deploys -> Nat]
  /\ clock   \in Nat
  /\ subject \in [Rollbacks -> Deploys \cup {None}]
  /\ view    \in [Rollbacks -> Committed \cup {None}]
  /\ target  \in [Rollbacks -> Deploys \cup {None}]
  /\ crashes \in 0..MaxCrashes

\* Some rollback of d has emitted an event of this type.
RolledBy(type, d) == \E q \in Rollbacks : subject[q] = d /\ Emitted(type, q)

Explained(d) ==
  /\ state[d] = "BUILDING" => Emitted("DEPLOYMENT_STARTED", d)
  /\ state[d] = "SUCCESS" => Emitted("DEPLOYMENT_COMPLETED", d)
  /\ state[d] = "FAILED" /\ Emitted("DEPLOYMENT_STARTED", d)
       => Emitted("DEPLOYMENT_FAILED", d)
  /\ state[d] = "ROLLING_BACK" => RolledBy("ROLLBACK_STARTED", d)
  /\ state[d] = "ROLLED_BACK" => RolledBy("ROLLBACK_COMPLETED", d)
  /\ Emitted("DEPLOYMENT_COMPLETED", d)
       => state[d] \in {"SUCCESS", "ROLLING_BACK", "ROLLED_BACK"}
  /\ Emitted("DEPLOYMENT_FAILED", d)
       => state[d] \in {"FAILED", "ROLLING_BACK", "ROLLED_BACK"}
  /\ ~(Emitted("DEPLOYMENT_COMPLETED", d) /\ Emitted("DEPLOYMENT_FAILED", d))

(* The row and the ledger tell the same story in every committed state: each
   state a deployment is seen in has the event that announces it, and a
   deployment is announced completed or failed, never both, and stays so
   unless it was rolled back. *)
LedgerExplainsState == \A d \in Deploys : Explained(d)

\* q has announced a rollback of d that it has neither finished nor answered well.
Rolling(q, d) ==
  /\ subject[q] = d /\ Emitted("ROLLBACK_STARTED", q)
  /\ pc[q] \in {"revert", "provider", "finish", "error", "crashed"}

(* Nobody's work in progress: a row in BUILDING or ROLLING_BACK belongs to a
   request that is still at work on it, or to one that raised or was lost in
   a crash after it announced that work. *)
TransientIsOwned ==
  \A d \in Deploys :
    /\ state[d] = "BUILDING" => pc[d] \in {"claim", "provider", "error", "crashed"}
    /\ state[d] = "ROLLING_BACK" => \E q \in Rollbacks : Rolling(q, d)

(* A deployment halted at its gate is inert: the provider is not called for
   it, it announces nothing, and it is never seen building or successful, so
   that it can never become the version a rollback restores by default. *)
HaltedIsInert ==
  \A d \in Deploys : seen[d] \in Halting =>
    /\ d \notin calls
    /\ state[d] \notin {"BUILDING", "SUCCESS"}
    /\ \A type \in EventType : ~Emitted(type, d)

\* Every request about d was taken by the worker that deploys it.
SameLoop(d) == \A q \in Rollbacks : subject[q] = d => home[q] = home[d]

(* Once a rollback of a deployment has been committed, the late answer of its
   provider does not bring the deployment back, when one event loop serves
   both: the row lock and the absence of an await between the commit of
   BUILDING and the lock are what protects it. *)
NoResurrection ==
  [][\A d \in Deploys :
       SameLoop(d) /\ state[d] \in {"ROLLING_BACK", "ROLLED_BACK"}
         => state'[d] \in {"ROLLING_BACK", "ROLLED_BACK"}]_vars

AtWork(r) == pc[r] \notin {"new"} \cup Answered

\* A rollback waits for the row of a deployment that awaits its provider.
WaitsForRow(r) ==
  /\ r \in Rollbacks
  /\ pc[r] \in {"mark", "finish"}
  /\ pc[r] = "mark" => view[r] # "ROLLING_BACK"
  /\ pc[subject[r]] = "provider" /\ rowLock[subject[r]] = subject[r]

\* w's loop waits for the row of a deployment whose handler is suspended on
\* w's own loop, or on a loop that waits in its turn and never gets through.
Stalled(w) ==
  \E W \in SUBSET Worker :
    /\ w \in W
    /\ \A v \in W : WaitsForRow(loop[v]) /\ home[subject[loop[v]]] \in W

(* Requests end.  Whichever provider calls suspend their handlers, and however
   rollbacks wait for each other's and the deployment's row lock on several
   workers, again and again every request taken so far has been answered or
   was lost in a crash, but for those of a stalled worker: waiting for a row
   in a circle of loops is the only way never to answer. *)
AnsweredUnlessStalled ==
  []<>(\A r \in Request : AtWork(r) => Stalled(home[r]))

(* On one event loop the rows go through the life cycle the service promises,
   whatever is lost or raised on the way. *)
Outcome(d) ==
  IF Emitted("DEPLOYMENT_COMPLETED", d) THEN "completed"
  ELSE IF Emitted("DEPLOYMENT_FAILED", d) THEN "failed" ELSE "open"

Lifecycle == INSTANCE DeploymentLifecycle
               WITH outcome <- [d \in Deploys |-> Outcome(d)]
LifecycleSpec == Lifecycle!Spec

(* Contract: a deployment in progress ends.  Its state machine leads BUILDING
   and ROLLING_BACK to FAILED when the work fails. *)
EveryDeploymentSettles ==
  \A d \in Deploys : state[d] \in {"BUILDING", "ROLLING_BACK"}
    ~> state[d] \in {"SUCCESS", "FAILED", "ROLLED_BACK"}

(* Contract: a rollback that names no target restores a prior deployment. *)
DefaultTargetIsPrior ==
  [][\A r \in Rollbacks : DefaultTarget(r) => target'[r] # subject[r]]_vars
=============================================================================
