------------------------ MODULE Deployments_proofs ------------------------
(***************************************************************************)
(* Machine-checked proofs about module Deployments, for any sets of        *)
(* deployments, rollbacks, gates and workers and any number of crashes.    *)
(*                                                                         *)
(* The invariants the runs check are not inductive: each speaks of rows    *)
(* and events, and what keeps them true is where the handlers stand and    *)
(* which loop and row lock they hold.  IInv adds that.                     *)
(***************************************************************************)
EXTENDS Deployments, TLAPS

\* Requests have a worker once they arrive, and rollbacks a row to roll back.
ArrivedInv ==
  /\ \A r \in Request : pc[r] = "new" <=> home[r] = None
  /\ \A q \in Rollbacks :
       IF pc[q] = "new" THEN subject[q] = None
       ELSE subject[q] \in Deploys /\ state[subject[q]] # "ABSENT"

\* A handler that is not waiting for its provider has its worker's loop.
Live == Pc \ ({"new", "provider"} \cup Answered)

LoopsInv ==
  /\ \A d \in Deploys : pc[d] \in Pc \ RollbackPc
  /\ \A q \in Rollbacks : pc[q] \in Pc \ DeployPc
  /\ \A r \in Request : pc[r] \in Live => Running(r)

\* The row is locked by its own deployment, while that waits for the provider.
LocksInv ==
  \A d \in Deploys : rowLock[d] = IF pc[d] = "provider" THEN d ELSE None

\* A deployment has no row and no events before it starts, no outcome before
\* its provider answers, and once halted only ever was at its gate.
DeployInv(d) ==
  /\ pc[d] \in {"new", "halt", "create"} => state[d] = "ABSENT" /\ d \notin calls
  /\ state[d] = "ABSENT" => \A type \in EventType : ~Emitted(type, d)
  /\ pc[d] \in {"claim", "provider"} =>
       /\ state[d] \in {"BUILDING", "ROLLING_BACK", "ROLLED_BACK"}
       /\ Emitted("DEPLOYMENT_STARTED", d)
  /\ state[d] = "BUILDING" => pc[d] \in {"claim", "provider", "error", "crashed"}
  /\ state[d] = "BUILDING" \/ pc[d] \in {"claim", "provider"} =>
       ~Emitted("DEPLOYMENT_COMPLETED", d) /\ ~Emitted("DEPLOYMENT_FAILED", d)
  /\ seen[d] \in Halting => pc[d] \in {"halt", "reply", "done", "crashed"}

DeploysInv == \A d \in Deploys : DeployInv(d)

\* A rollback has announced itself before it calls the provider.
RollbacksInv ==
  \A q \in Rollbacks :
    pc[q] \in {"revert", "provider", "finish"} => Emitted("ROLLBACK_STARTED", q)

\* A row in ROLLING_BACK has a rollback that will write over it, or that
\* raised or crashed.
Owns(q, d) ==
  /\ subject[q] = d /\ Emitted("ROLLBACK_STARTED", q)
  /\ \/ pc[q] \in {"revert", "error", "crashed"}
     \/ pc[q] \in {"provider", "finish"} /\ view[q] = "ROLLING_BACK"

OwnedInv ==
  \A d \in Deploys : state[d] = "ROLLING_BACK" => \E q \in Rollbacks : Owns(q, d)

IInv ==
  /\ TypeOK /\ ArrivedInv /\ LoopsInv /\ LocksInv /\ DeploysInv /\ RollbacksInv
  /\ LedgerExplainsState /\ OwnedInv /\ HaltedIsInert

\* On one loop nobody comes between two steps of a handler that does not
\* await, and the row lock spans the await of the deployment.
SoloInv ==
  \A d \in Deploys : SameLoop(d) =>
    /\ pc[d] \in {"claim", "provider"} => state[d] = "BUILDING"
    /\ \A q \in Rollbacks : subject[q] = d =>
         /\ pc[q] \in {"target", "mark"} => view[q] = state[d]
         /\ pc[q] \in {"revert", "provider", "finish"}
              => /\ state[d] \in {"ROLLING_BACK", "ROLLED_BACK"}
                 /\ pc[d] # "provider"

-----------------------------------------------------------------------------
(* Types *)

LEMMA TypeInit == Init => TypeOK /\ ArrivedInv
BY NoneIsNothing, CrashBound DEF Init, TypeOK, ArrivedInv, Committed,
                                 GateStatus, Pc, Request

LEMMA EmitType ==
  ASSUME NEW type \in EventType, NEW r \in Request, Emit(type, r), TypeOK
  PROVE  events' \subseteq [type : EventType, trace : Request]
BY DEF Emit, TypeOK

LEMMA OverwriteType ==
  ASSUME NEW new \in Committed, NEW r \in Rollbacks, Overwrite(r, new), TypeOK
  PROVE  state' \in [Deploys -> Committed \cup {"ABSENT"}]
BY DEF Overwrite, TypeOK

LEMMA TypeStep == TypeOK /\ ArrivedInv /\ [Next]_vars => TypeOK'
<1> SUFFICES ASSUME TypeOK, ArrivedInv, [Next]_vars PROVE TypeOK'
    OBVIOUS
<1> USE DEF TypeOK, Request, Goto, Keep, Yield, Resume, Accept,
            deployVars, rollbackVars
<1>1. CASE \E g \in Gates : DecideGate(g)
      BY <1>1 DEF DecideGate, GateStatus
<1>2. CASE \E w \in Worker, r \in Deploys, g \in Gates \cup {None} : ReadGate(r, w, g)
      BY <1>2 DEF ReadGate, Pc, DeployPc
<1>3. CASE \E w \in Worker, r \in Rollbacks, d \in Deploys : LoadCurrent(r, w, d)
      BY <1>3 DEF LoadCurrent, Pc, RollbackPc
<1>4. CASE \E r \in Deploys : DeployStep(r)
  <2> PICK r \in Deploys : DeployStep(r)
      BY <1>4
  <2>1. CASE HaltAtGate(r)
        BY <2>1 DEF HaltAtGate, Committed, Pc
  <2>2. CASE StartDeployment(r)
        BY <2>2, EmitType DEF StartDeployment, Committed, EventType, Pc,
                              DeployPc
  <2>3. CASE UnknownGate(r)
        BY <2>3 DEF UnknownGate, Pc, Answered
  <2>4. CASE DispatchDeploy(r)
        BY <2>4 DEF DispatchDeploy, Pc
  <2>5. CASE RefuseRequest(r)
        BY <2>5 DEF RefuseRequest, Pc, Answered
  <2>6. CASE DeploySucceeds(r)
        BY <2>6, EmitType DEF DeploySucceeds, FinishDeploy, Committed,
                              EventType, Pc
  <2>7. CASE DeployFails(r)
        BY <2>7, EmitType DEF DeployFails, FinishDeploy, Committed, EventType,
                              Pc
  <2> QED
      BY <2>1, <2>2, <2>3, <2>4, <2>5, <2>6, <2>7 DEF DeployStep
<1>5. CASE \E r \in Rollbacks : RollbackStep(r)
  <2> PICK r \in Rollbacks : RollbackStep(r)
      BY <1>5
  <2>1. CASE \E t \in Deploys : ExplicitTarget(r, t)
        BY <2>1 DEF ExplicitTarget, Pc, RollbackPc
  <2>2. CASE DefaultTarget(r)
        BY <2>2 DEF DefaultTarget, LastSuccessful, Successful, Pc, RollbackPc
  <2>3. CASE MarkRollingBack(r)
        BY <2>3, EmitType, OverwriteType DEF MarkRollingBack, Committed,
                                             EventType, Pc, RollbackPc
  <2>4. CASE CallRollback(r)
        BY <2>4 DEF CallRollback, ArrivedInv, Pc
  <2>5. CASE RollbackAnswered(r)
        BY <2>5 DEF RollbackAnswered, Pc, RollbackPc
  <2>6. CASE RollbackRaises(r)
        BY <2>6 DEF RollbackRaises, Pc, Answered
  <2>7. CASE MarkRolledBack(r)
        BY <2>7, EmitType, OverwriteType DEF MarkRolledBack, Committed,
                                             EventType, Pc
  <2> QED
      BY <2>1, <2>2, <2>3, <2>4, <2>5, <2>6, <2>7 DEF RollbackStep
<1>6. CASE \E r \in Request : Return(r)
  <2> PICK r \in Request : Return(r)
      BY <1>6
  <2>1. pc' \in [Request -> Pc]
        BY DEF Return, Pc, Answered
  <2>2. loop' \in [Worker -> Request \cup {None}]
        BY DEF Return
  <2> QED
      BY <2>1, <2>2 DEF Return
<1>7. CASE \E w \in Worker : Crash(w)
      BY <1>7, CrashBound DEF Crash, Pc, Answered
<1>8. CASE UNCHANGED vars
      BY <1>8 DEF vars
<1> QED
    BY <1>1, <1>2, <1>3, <1>4, <1>5, <1>6, <1>7, <1>8 DEF Next, Arrival

LEMMA ArrivedStep == TypeOK /\ ArrivedInv /\ [Next]_vars => ArrivedInv'
<1> SUFFICES ASSUME TypeOK, ArrivedInv, [Next]_vars PROVE ArrivedInv'
    OBVIOUS
<1> USE NoneIsNothing DEF TypeOK, ArrivedInv, Request, Goto, Accept, Keep,
                          Yield, Resume,
            deployVars, rollbackVars
<1>1. CASE \E g \in Gates : DecideGate(g)
      BY <1>1 DEF DecideGate
<1>2. CASE \E w \in Worker, r \in Deploys, g \in Gates \cup {None} : ReadGate(r, w, g)
      BY <1>2, RequestsDistinct DEF ReadGate
<1>3. CASE \E w \in Worker, r \in Rollbacks, d \in Deploys : LoadCurrent(r, w, d)
      BY <1>3 DEF LoadCurrent
<1>4. CASE \E r \in Deploys : DeployStep(r)
      BY <1>4, RequestsDistinct
      DEF DeployStep, HaltAtGate, StartDeployment, UnknownGate, DispatchDeploy,
          RefuseRequest, DeploySucceeds, DeployFails, FinishDeploy
<1>5. CASE \E r \in Rollbacks : RollbackStep(r)
      BY <1>5
      DEF RollbackStep, ExplicitTarget, DefaultTarget, MarkRollingBack,
          CallRollback,
          RollbackAnswered, RollbackRaises, MarkRolledBack, Overwrite
<1>6. CASE \E r \in Request : Return(r)
      BY <1>6 DEF Return
<1>7. CASE \E w \in Worker : Crash(w)
      BY <1>7 DEF Crash, Answered
<1>8. CASE UNCHANGED vars
      BY <1>8 DEF vars
<1> QED
    BY <1>1, <1>2, <1>3, <1>4, <1>5, <1>6, <1>7, <1>8 DEF Next, Arrival

(* Every variable keeps its type in every reachable state. *)
THEOREM TypeCorrect == Spec => []TypeOK
BY TypeInit, TypeStep, ArrivedStep, PTL DEF Spec
-----------------------------------------------------------------------------
LEMMA LoopsStep == TypeOK /\ ArrivedInv /\ LoopsInv /\ [Next]_vars => LoopsInv'
<1> SUFFICES ASSUME TypeOK, ArrivedInv, LoopsInv, [Next]_vars PROVE LoopsInv'
    OBVIOUS
<1> USE RequestsDistinct, NoneIsNothing
    DEF ArrivedInv, LoopsInv, Live, Running, Resumable, Pc, DeployPc,
        RollbackPc, Answered, TypeOK, Request, Goto, Keep, Yield, Resume, deployVars, rollbackVars
<1>1. CASE \E g \in Gates : DecideGate(g)
      BY <1>1 DEF DecideGate
<1>2. CASE \E w \in Worker, r \in Deploys, g \in Gates \cup {None} : ReadGate(r, w, g)
      BY <1>2 DEF ReadGate, Accept
<1>3. CASE \E w \in Worker, r \in Rollbacks, d \in Deploys : LoadCurrent(r, w, d)
      BY <1>3 DEF LoadCurrent, Accept
<1>4. CASE \E r \in Deploys : DeployStep(r)
      BY <1>4
      DEF DeployStep, HaltAtGate, StartDeployment, UnknownGate, DispatchDeploy,
          RefuseRequest, DeploySucceeds, DeployFails, FinishDeploy
<1>5. CASE \E r \in Rollbacks : RollbackStep(r)
      BY <1>5
      DEF RollbackStep, ExplicitTarget, DefaultTarget, MarkRollingBack,
          CallRollback,
          RollbackAnswered, RollbackRaises, MarkRolledBack
<1>6. CASE \E r \in Request : Return(r)
      BY <1>6 DEF Return
<1>7. CASE \E w \in Worker : Crash(w)
      BY <1>7 DEF Crash, Answered
<1>8. CASE UNCHANGED vars
      BY <1>8 DEF vars
<1> QED
    BY <1>1, <1>2, <1>3, <1>4, <1>5, <1>6, <1>7, <1>8 DEF Next, Arrival

LEMMA LocksStep == TypeOK /\ LoopsInv /\ LocksInv /\ [Next]_vars => LocksInv'
<1> SUFFICES ASSUME TypeOK, LoopsInv, LocksInv, [Next]_vars PROVE LocksInv'
    OBVIOUS
<1> USE RequestsDistinct, NoneIsNothing
    DEF LoopsInv, LocksInv, Pc, DeployPc, RollbackPc, Answered, TypeOK,
        Request, Goto, Keep, Yield, Resume, deployVars, rollbackVars
<1>1. CASE \E g \in Gates : DecideGate(g)
      BY <1>1 DEF DecideGate
<1>2. CASE \E w \in Worker, r \in Deploys, g \in Gates \cup {None} : ReadGate(r, w, g)
      BY <1>2 DEF ReadGate, Accept
<1>3. CASE \E w \in Worker, r \in Rollbacks, d \in Deploys : LoadCurrent(r, w, d)
      BY <1>3 DEF LoadCurrent, Accept
<1>4. CASE \E r \in Deploys : DeployStep(r)
      BY <1>4
      DEF DeployStep, HaltAtGate, StartDeployment, UnknownGate, DispatchDeploy,
          RefuseRequest, DeploySucceeds, DeployFails, FinishDeploy
<1>5. CASE \E r \in Rollbacks : RollbackStep(r)
      BY <1>5
      DEF RollbackStep, ExplicitTarget, DefaultTarget, MarkRollingBack,
          CallRollback,
          RollbackAnswered, RollbackRaises, MarkRolledBack
<1>6. CASE \E r \in Request : Return(r)
      BY <1>6 DEF Return
<1>7. CASE \E w \in Worker : Crash(w)
      BY <1>7 DEF Crash, Answered
<1>8. CASE UNCHANGED vars
      BY <1>8 DEF vars
<1> QED
    BY <1>1, <1>2, <1>3, <1>4, <1>5, <1>6, <1>7, <1>8 DEF Next, Arrival

LEMMA RollbacksStep ==
  TypeOK /\ LoopsInv /\ RollbacksInv /\ [Next]_vars
    => RollbacksInv'
<1> SUFFICES ASSUME TypeOK, LoopsInv, RollbacksInv, [Next]_vars PROVE RollbacksInv'
    OBVIOUS
<1> USE RequestsDistinct, NoneIsNothing
    DEF LoopsInv, RollbacksInv, Pc, DeployPc, RollbackPc, Answered, Emit,
        Emitted, TypeOK, Request, Goto, Keep, Yield, Resume, deployVars,
        rollbackVars
<1>1. CASE \E g \in Gates : DecideGate(g)
      BY <1>1 DEF DecideGate
<1>2. CASE \E w \in Worker, r \in Deploys, g \in Gates \cup {None} : ReadGate(r, w, g)
      BY <1>2 DEF ReadGate, Accept
<1>3. CASE \E w \in Worker, r \in Rollbacks, d \in Deploys : LoadCurrent(r, w, d)
      BY <1>3 DEF LoadCurrent, Accept
<1>4. CASE \E r \in Deploys : DeployStep(r)
      BY <1>4
      DEF DeployStep, HaltAtGate, StartDeployment, UnknownGate, DispatchDeploy,
          RefuseRequest, DeploySucceeds, DeployFails, FinishDeploy
<1>5. CASE \E r \in Rollbacks : RollbackStep(r)
      BY <1>5
      DEF RollbackStep, ExplicitTarget, DefaultTarget, MarkRollingBack,
          CallRollback,
          RollbackAnswered, RollbackRaises, MarkRolledBack
<1>6. CASE \E r \in Request : Return(r)
      BY <1>6 DEF Return
<1>7. CASE \E w \in Worker : Crash(w)
      BY <1>7 DEF Crash, Answered
<1>8. CASE UNCHANGED vars
      BY <1>8 DEF vars
<1> QED
    BY <1>1, <1>2, <1>3, <1>4, <1>5, <1>6, <1>7, <1>8 DEF Next, Arrival

-----------------------------------------------------------------------------
(* The ledger and the rows *)

\* Nothing is taken out of the ledger, and a rollback keeps its subject.
LEMMA Monotone ==
  ASSUME TypeOK, ArrivedInv, [Next]_vars
  PROVE  /\ events \subseteq events'
         /\ \A q \in Rollbacks : subject[q] # None => subject'[q] = subject[q]
<1> USE DEF TypeOK, ArrivedInv, deployVars, rollbackVars
<1>1. CASE \E g \in Gates : DecideGate(g)
      BY <1>1 DEF DecideGate
<1>2. CASE \E w \in Worker, r \in Deploys, g \in Gates \cup {None} : ReadGate(r, w, g)
      BY <1>2 DEF ReadGate
<1>3. CASE \E w \in Worker, r \in Rollbacks, d \in Deploys : LoadCurrent(r, w, d)
      BY <1>3 DEF LoadCurrent, Accept
<1>4. CASE \E r \in Deploys : DeployStep(r)
      BY <1>4
      DEF DeployStep, HaltAtGate, StartDeployment, UnknownGate, DispatchDeploy,
          RefuseRequest, DeploySucceeds, DeployFails, FinishDeploy, Emit
<1>5. CASE \E r \in Rollbacks : RollbackStep(r)
      BY <1>5
      DEF RollbackStep, ExplicitTarget, DefaultTarget, MarkRollingBack,
          CallRollback,
          RollbackAnswered, RollbackRaises, MarkRolledBack, Emit
<1>6. CASE \E r \in Request : Return(r)
      BY <1>6 DEF Return
<1>7. CASE \E w \in Worker : Crash(w)
      BY <1>7 DEF Crash
<1>8. CASE UNCHANGED vars
      BY <1>8 DEF vars
<1> QED
    BY <1>1, <1>2, <1>3, <1>4, <1>5, <1>6, <1>7, <1>8 DEF Next, Arrival

\* What a step that is not d's own handler's can do to d.
LEMMA OtherStep ==
  ASSUME TypeOK, ArrivedInv, LoopsInv, [Next]_vars,
         NEW d \in Deploys, ~DeployStep(d)
  PROVE  /\ \A type : [type |-> type, trace |-> d] \in events'
                        <=> [type |-> type, trace |-> d] \in events
         /\ d \in calls' <=> d \in calls
         /\ \/ state'[d] = state[d]
            \/ state[d] # "ABSENT" /\ state'[d] \in {"ROLLING_BACK", "ROLLED_BACK"}
         /\ \/ pc'[d] = pc[d] /\ seen'[d] = seen[d]
            \/ /\ pc[d] = "new" /\ pc'[d] \in {"halt", "create"}
               /\ seen'[d] \in Halting => pc'[d] = "halt"
            \/ pc[d] = "reply" /\ pc'[d] = "done" /\ seen'[d] = seen[d]
            \/ /\ pc[d] \notin {"new"} \cup Answered /\ pc'[d] = "crashed"
               /\ seen'[d] = seen[d]
<1> USE RequestsDistinct, NoneIsNothing
    DEF TypeOK, ArrivedInv, Request, Goto, deployVars, rollbackVars
<1>1. CASE \E g \in Gates : DecideGate(g)
      BY <1>1 DEF DecideGate
<1>2. CASE \E w \in Worker, r \in Deploys, g \in Gates \cup {None} : ReadGate(r, w, g)
      BY <1>2 DEF ReadGate, Accept
<1>3. CASE \E w \in Worker, r \in Rollbacks, e \in Deploys : LoadCurrent(r, w, e)
      BY <1>3 DEF LoadCurrent
<1>4. CASE \E r \in Deploys : DeployStep(r)
      BY <1>4
      DEF DeployStep, HaltAtGate, StartDeployment, UnknownGate, DispatchDeploy,
          RefuseRequest, DeploySucceeds, DeployFails, FinishDeploy, Emit
<1>5. CASE \E r \in Rollbacks : RollbackStep(r)
  <2> PICK r \in Rollbacks : RollbackStep(r)
      BY <1>5
  <2>1. CASE MarkRollingBack(r)
        BY <2>1 DEF MarkRollingBack, Overwrite, Emit
  <2>2. CASE MarkRolledBack(r)
        BY <2>2 DEF MarkRolledBack, Overwrite, Emit
  <2>3. CASE ~MarkRollingBack(r) /\ ~MarkRolledBack(r)
        BY <2>3
        DEF RollbackStep, ExplicitTarget, DefaultTarget, CallRollback,
            RollbackAnswered, RollbackRaises
  <2> QED
      BY <2>1, <2>2, <2>3
<1>6. CASE \E r \in Request : Return(r)
  <2> PICK r \in Request : Return(r)
      BY <1>6
  <2> QED
      BY DEF Return
<1>7. CASE \E w \in Worker : Crash(w)
      BY <1>7 DEF Crash
<1>8. CASE UNCHANGED vars
      BY <1>8 DEF vars
<1> QED
    BY <1>1, <1>2, <1>3, <1>4, <1>5, <1>6, <1>7, <1>8 DEF Next, Arrival

LEMMA DeploysStep ==
  TypeOK /\ ArrivedInv /\ LoopsInv /\ DeploysInv /\ [Next]_vars => DeploysInv'
<1> SUFFICES ASSUME TypeOK, ArrivedInv, LoopsInv, DeploysInv, [Next]_vars,
                    NEW d \in Deploys
             PROVE  DeployInv(d)'
    BY DEF DeploysInv
<1>1. DeployInv(d)
      BY DEF DeploysInv
<1>2. CASE ~DeployStep(d)
      BY <1>1, <1>2, OtherStep DEF DeployInv, Emitted, Answered
<1>3. CASE DeployStep(d)
  <2> USE <1>1, NoneIsNothing DEF TypeOK, DeployInv, Request, Goto, Emitted,
                                  deployVars, rollbackVars
  <2>1. CASE HaltAtGate(d)
        BY <2>1 DEF HaltAtGate
  <2>2. CASE StartDeployment(d)
        BY <2>2 DEF StartDeployment, Emit
  <2>3. CASE UnknownGate(d)
        BY <2>3 DEF UnknownGate
  <2>4. CASE DispatchDeploy(d)
        BY <2>4 DEF DispatchDeploy
  <2>5. CASE RefuseRequest(d)
        BY <2>5 DEF RefuseRequest
  <2>6. CASE DeploySucceeds(d)
        BY <2>6 DEF DeploySucceeds, FinishDeploy
  <2>7. CASE DeployFails(d)
        BY <2>7 DEF DeployFails, FinishDeploy
  <2> QED
      BY <1>3, <2>1, <2>2, <2>3, <2>4, <2>5, <2>6, <2>7 DEF DeployStep
<1> QED
    BY <1>2, <1>3

\* A rollback of d that has been announced stays so.
LEMMA RolledByStays ==
  ASSUME TypeOK, ArrivedInv, [Next]_vars,
         NEW type, NEW d \in Deploys, RolledBy(type, d)
  PROVE  RolledBy(type, d)'
<1> PICK q \in Rollbacks : subject[q] = d /\ Emitted(type, q)
    BY DEF RolledBy
<1> QED
    BY Monotone, NoneIsNothing DEF RolledBy, Emitted, Request

\* Only MarkRollingBack brings a row to ROLLING_BACK, and announces it.
LEMMA EntersRollingBack ==
  ASSUME TypeOK, ArrivedInv, [Next]_vars, NEW d \in Deploys,
         state[d] # "ROLLING_BACK", state'[d] = "ROLLING_BACK"
  PROVE  \E q \in Rollbacks : MarkRollingBack(q) /\ subject[q] = d
<1> USE DEF TypeOK, deployVars, rollbackVars
<1>1. ~\E g \in Gates : DecideGate(g)
      BY DEF DecideGate
<1>2. ~Arrival
      BY DEF Arrival, ReadGate, LoadCurrent
<1>3. ~\E r \in Deploys : DeployStep(r)
      BY DEF DeployStep, HaltAtGate, StartDeployment, UnknownGate,
             DispatchDeploy,
             RefuseRequest, DeploySucceeds, DeployFails, FinishDeploy
<1>4. ~\E r \in Request : Return(r)
      BY DEF Return
<1>5. ~\E w \in Worker : Crash(w)
      BY DEF Crash
<1>6. PICK r \in Rollbacks : RollbackStep(r)
      BY <1>1, <1>2, <1>3, <1>4, <1>5 DEF Next, vars
<1>7. MarkRollingBack(r)
      BY <1>6
      DEF RollbackStep, ExplicitTarget, DefaultTarget, CallRollback,
          RollbackAnswered,
          RollbackRaises, MarkRolledBack, Overwrite
<1> QED
    BY <1>7 DEF MarkRollingBack, Overwrite

\* Only MarkRolledBack brings a row to ROLLED_BACK, and announces it.
LEMMA EntersRolledBack ==
  ASSUME TypeOK, ArrivedInv, [Next]_vars, NEW d \in Deploys,
         state[d] # "ROLLED_BACK", state'[d] = "ROLLED_BACK"
  PROVE  \E q \in Rollbacks : MarkRolledBack(q) /\ subject[q] = d
<1> USE DEF TypeOK, deployVars, rollbackVars
<1>1. ~\E g \in Gates : DecideGate(g)
      BY DEF DecideGate
<1>2. ~Arrival
      BY DEF Arrival, ReadGate, LoadCurrent
<1>3. ~\E r \in Deploys : DeployStep(r)
      BY DEF DeployStep, HaltAtGate, StartDeployment, UnknownGate,
             DispatchDeploy,
             RefuseRequest, DeploySucceeds, DeployFails, FinishDeploy
<1>4. ~\E r \in Request : Return(r)
      BY DEF Return
<1>5. ~\E w \in Worker : Crash(w)
      BY DEF Crash
<1>6. PICK r \in Rollbacks : RollbackStep(r)
      BY <1>1, <1>2, <1>3, <1>4, <1>5 DEF Next, vars
<1>7. MarkRolledBack(r)
      BY <1>6
      DEF RollbackStep, ExplicitTarget, DefaultTarget, CallRollback,
          RollbackAnswered,
          RollbackRaises, MarkRollingBack, Overwrite
<1> QED
    BY <1>7 DEF MarkRolledBack, Overwrite

LEMMA LedgerStep ==
  TypeOK /\ ArrivedInv /\ LoopsInv /\ DeploysInv /\ LedgerExplainsState /\ [Next]_vars
    => LedgerExplainsState'
<1> SUFFICES ASSUME TypeOK, ArrivedInv, LoopsInv, DeploysInv, LedgerExplainsState,
                    [Next]_vars, NEW d \in Deploys
             PROVE  Explained(d)'
    BY DEF LedgerExplainsState
<1>1. DeployInv(d) /\ Explained(d)
      BY DEF DeploysInv, LedgerExplainsState
<1>2. state'[d] = "ROLLING_BACK" => RolledBy("ROLLBACK_STARTED", d)'
  <2>1. CASE state[d] = "ROLLING_BACK"
        BY <1>1, <2>1, RolledByStays DEF Explained
  <2>2. CASE state[d] # "ROLLING_BACK" /\ state'[d] = "ROLLING_BACK"
        BY <2>2, EntersRollingBack
        DEF MarkRollingBack, RolledBy, Emit, Emitted, rollbackVars
  <2> QED
      BY <2>1, <2>2
<1>3. state'[d] = "ROLLED_BACK" => RolledBy("ROLLBACK_COMPLETED", d)'
  <2>1. CASE state[d] = "ROLLED_BACK"
        BY <1>1, <2>1, RolledByStays DEF Explained
  <2>2. CASE state[d] # "ROLLED_BACK" /\ state'[d] = "ROLLED_BACK"
        BY <2>2, EntersRolledBack
        DEF MarkRolledBack, RolledBy, Emit, Emitted, rollbackVars
  <2> QED
      BY <2>1, <2>2
<1>4. CASE ~DeployStep(d)
      BY <1>1, <1>2, <1>3, <1>4, OtherStep DEF DeployInv, Explained, Emitted,
                                               EventType
<1>5. CASE DeployStep(d)
  <2> USE <1>1, <1>2, <1>3
      DEF TypeOK, DeployInv, Explained, Emitted, EventType, deployVars,
          rollbackVars
  <2>1. CASE HaltAtGate(d)
        BY <2>1 DEF HaltAtGate
  <2>2. CASE StartDeployment(d)
        BY <2>2 DEF StartDeployment, Emit
  <2>3. CASE UnknownGate(d) \/ DispatchDeploy(d) \/ RefuseRequest(d)
        BY <2>3 DEF UnknownGate, DispatchDeploy, RefuseRequest
  <2>4. CASE DeploySucceeds(d)
        BY <2>4 DEF DeploySucceeds, FinishDeploy, Emit
  <2>5. CASE DeployFails(d)
        BY <2>5 DEF DeployFails, FinishDeploy, Emit
  <2> QED
      BY <1>5, <2>1, <2>2, <2>3, <2>4, <2>5 DEF DeployStep
<1> QED
    BY <1>4, <1>5

LEMMA InertStep ==
  TypeOK /\ ArrivedInv /\ LoopsInv /\ DeploysInv /\ HaltedIsInert /\ [Next]_vars
    => HaltedIsInert'
<1> SUFFICES ASSUME TypeOK, ArrivedInv, LoopsInv, DeploysInv, HaltedIsInert,
                    [Next]_vars, NEW d \in Deploys, seen'[d] \in Halting
             PROVE  /\ d \notin calls'
                    /\ state'[d] \notin {"BUILDING", "SUCCESS"}
                    /\ \A type \in EventType : ~Emitted(type, d)'
    BY DEF HaltedIsInert
<1>1. DeployInv(d)
      BY DEF DeploysInv
<1>2. CASE ~DeployStep(d)
      BY <1>1, <1>2, OtherStep DEF DeployInv, HaltedIsInert, Emitted
<1>3. CASE DeployStep(d)
  <2>1. HaltAtGate(d)
        BY <1>1, <1>3
        DEF DeployInv, DeployStep, StartDeployment, UnknownGate, DispatchDeploy,
            RefuseRequest, DeploySucceeds, DeployFails, FinishDeploy, deployVars
  <2> QED
      BY <1>1, <2>1 DEF HaltAtGate, DeployInv, TypeOK, Emitted, deployVars
<1> QED
    BY <1>2, <1>3

\* What a step that is not q's own handler's can do to a rollback q that has
\* marked its row.
LEMMA OtherRollbackStep ==
  ASSUME TypeOK, ArrivedInv, LoopsInv, [Next]_vars, NEW q \in Rollbacks, ~RollbackStep(q),
         pc[q] \in {"revert", "provider", "finish", "error", "crashed"}
  PROVE  view'[q] = view[q] /\ pc'[q] \in {pc[q], "crashed"}
<1> USE RequestsDistinct
    DEF TypeOK, ArrivedInv, Request, Goto, deployVars, rollbackVars
<1>1. CASE \E g \in Gates : DecideGate(g)
      BY <1>1 DEF DecideGate
<1>2. CASE \E w \in Worker, r \in Deploys, g \in Gates \cup {None} : ReadGate(r, w, g)
      BY <1>2 DEF ReadGate
<1>3. CASE \E w \in Worker, r \in Rollbacks, e \in Deploys : LoadCurrent(r, w, e)
      BY <1>3 DEF LoadCurrent, Accept
<1>4. CASE \E r \in Deploys : DeployStep(r)
      BY <1>4
      DEF DeployStep, HaltAtGate, StartDeployment, UnknownGate, DispatchDeploy,
          RefuseRequest, DeploySucceeds, DeployFails, FinishDeploy
<1>5. CASE \E r \in Rollbacks : RollbackStep(r)
      BY <1>5
      DEF RollbackStep, ExplicitTarget, DefaultTarget, MarkRollingBack,
          CallRollback,
          RollbackAnswered, RollbackRaises, MarkRolledBack
<1>6. CASE \E r \in Request : Return(r)
      BY <1>6 DEF Return
<1>7. CASE \E w \in Worker : Crash(w)
      BY <1>7 DEF Crash
<1>8. CASE UNCHANGED vars
      BY <1>8 DEF vars
<1> QED
    BY <1>1, <1>2, <1>3, <1>4, <1>5, <1>6, <1>7, <1>8 DEF Next, Arrival

LEMMA OwnedStep ==
  TypeOK /\ ArrivedInv /\ LoopsInv /\ OwnedInv /\ [Next]_vars => OwnedInv'
<1> SUFFICES ASSUME TypeOK, ArrivedInv, LoopsInv, OwnedInv, [Next]_vars,
                    NEW d \in Deploys, state'[d] = "ROLLING_BACK"
             PROVE  \E q \in Rollbacks : Owns(q, d)'
    BY DEF OwnedInv
<1>1. CASE state[d] # "ROLLING_BACK"
      BY <1>1, EntersRollingBack
      DEF MarkRollingBack, Owns, Emit, Emitted, Goto, TypeOK, Request,
          rollbackVars
<1>2. CASE state[d] = "ROLLING_BACK"
  <2> PICK q \in Rollbacks : Owns(q, d)
      BY <1>2 DEF OwnedInv
  <2>1. subject'[q] = d /\ Emitted("ROLLBACK_STARTED", q)'
        BY Monotone, NoneIsNothing DEF Owns, Emitted, Request
  <2>2. CASE ~RollbackStep(q)
        BY <2>1, <2>2, OtherRollbackStep DEF Owns
  <2>3. CASE RollbackStep(q)
    <3> USE <1>2, <2>1 DEF Owns, Goto, TypeOK, Request, rollbackVars
    <3>1. CASE CallRollback(q)
          BY <3>1 DEF CallRollback
    <3>2. CASE RollbackAnswered(q)
          BY <3>2 DEF RollbackAnswered
    <3>3. CASE RollbackRaises(q)
          BY <3>3 DEF RollbackRaises
    <3>4. ~MarkRolledBack(q)
          BY DEF MarkRolledBack, Overwrite
    <3>5. ~MarkRollingBack(q) /\ ~DefaultTarget(q) /\ ~\E t \in Deploys : ExplicitTarget(q, t)
          BY DEF MarkRollingBack, DefaultTarget, ExplicitTarget
    <3> QED
        BY <2>3, <3>1, <3>2, <3>3, <3>4, <3>5 DEF RollbackStep
  <2> QED
      BY <2>2, <2>3
<1> QED
    BY <1>1, <1>2

-----------------------------------------------------------------------------
(* The invariant *)

LEMMA IInvInit == Init => IInv
<1> SUFFICES ASSUME Init PROVE IInv
    OBVIOUS
<1>1. TypeOK /\ ArrivedInv
      BY TypeInit
<1>2. LoopsInv /\ LocksInv /\ RollbacksInv
      BY DEF Init, LoopsInv, LocksInv, RollbacksInv, Live, Pc, DeployPc,
             RollbackPc,
             Answered, Request
<1>3. DeploysInv /\ HaltedIsInert
      BY NoneIsNothing DEF Init, DeploysInv, DeployInv, HaltedIsInert,
                           Emitted, Request,
                           Halting, GateStatus
<1>4. LedgerExplainsState /\ OwnedInv
      BY DEF Init, LedgerExplainsState, Explained, RolledBy, Emitted, OwnedInv
<1> QED
    BY <1>1, <1>2, <1>3, <1>4 DEF IInv

LEMMA IInvStep == IInv /\ [Next]_vars => IInv'
BY TypeStep, ArrivedStep, LoopsStep, LocksStep, DeploysStep, RollbacksStep,
   LedgerStep, OwnedStep, InertStep DEF IInv

LEMMA IInvAlways == Spec => []IInv
BY IInvInit, IInvStep, PTL DEF Spec

(* The row and the ledger tell the same story in every reachable state. *)
THEOREM LedgerCorrect == Spec => []LedgerExplainsState
<1>1. IInv => LedgerExplainsState
      BY DEF IInv
<1> QED
    BY <1>1, IInvAlways, PTL

(* A row in BUILDING or ROLLING_BACK is somebody's work in progress, or was
   that of a request that raised or crashed. *)
THEOREM TransientOwned == Spec => []TransientIsOwned
<1>1. IInv => TransientIsOwned
      BY DEF IInv, DeploysInv, DeployInv, OwnedInv, Owns, TransientIsOwned,
             Rolling
<1> QED
    BY <1>1, IInvAlways, PTL

(* A deployment halted at its gate never reaches a provider, never announces
   anything and never becomes a rollback's default target. *)
THEOREM HaltedInert == Spec => []HaltedIsInert
<1>1. IInv => HaltedIsInert
      BY DEF IInv
<1> QED
    BY <1>1, IInvAlways, PTL

-----------------------------------------------------------------------------
(* One event loop *)

\* Who shares d's loop now has always shared it.
LEMMA SameLoopBefore ==
  ASSUME IInv, [Next]_vars, NEW d \in Deploys, SameLoop(d)'
  PROVE  SameLoop(d)
<1> SUFFICES ASSUME NEW q \in Rollbacks, subject[q] = d PROVE home[q] = home[d]
    BY DEF SameLoop
<1> USE RequestsDistinct, NoneIsNothing DEF IInv, TypeOK, ArrivedInv, Request
<1>1. home[q] # None /\ home[d] # None
      BY DEF DeploysInv, DeployInv
<1>2. \A r \in Request : home[r] # None => home'[r] = home[r]
  <2>1. CASE Arrival
        BY <2>1 DEF Arrival, ReadGate, LoadCurrent, Accept
  <2>2. CASE ~Arrival
        BY <2>2
        DEF Next, vars, DecideGate, Return, Crash, Keep, Yield, Resume,
            DeployStep,
            HaltAtGate, StartDeployment, UnknownGate, DispatchDeploy, RefuseRequest,
            DeploySucceeds, DeployFails, FinishDeploy, RollbackStep, ExplicitTarget,
            DefaultTarget, MarkRollingBack, CallRollback, RollbackAnswered,
            RollbackRaises, MarkRolledBack
  <2> QED
      BY <2>1, <2>2
<1>3. subject'[q] = d
      BY Monotone
<1> QED
    BY <1>1, <1>2, <1>3 DEF SameLoop

\* While a rollback of d runs up to its await, nobody else on the loop moves.
LEMMA LoopIsTaken ==
  ASSUME IInv, NEW d \in Deploys, SameLoop(d),
         NEW q \in Rollbacks, subject[q] = d, pc[q] \in Live
  PROVE  /\ ~Resumable(d) /\ ~Running(d)
         /\ \A p \in Rollbacks : subject[p] = d /\ Running(p) => p = q
BY RequestsDistinct, NoneIsNothing
   DEF IInv, TypeOK, LoopsInv, SameLoop, Running, Resumable, Request

\* A rollback writes over no deployment that shares its loop and is not done.
LEMMA RollbackMissesWork ==
  ASSUME IInv, SoloInv, NEW d \in Deploys, SameLoop(d), pc[d] \in {"claim", "provider"},
         NEW q \in Rollbacks, subject[q] = d, MarkRollingBack(q) \/ MarkRolledBack(q)
  PROVE  state'[d] = state[d]
<1>1. CASE pc[d] = "claim"
      BY <1>1, LoopIsTaken
      DEF MarkRollingBack, MarkRolledBack, IInv, LoopsInv, Live, Pc, DeployPc,
          RollbackPc,
          Answered, Request
<1>2. CASE pc[d] = "provider"
      BY <1>2, NoneIsNothing
      DEF MarkRollingBack, MarkRolledBack, Overwrite, IInv, LocksInv, Request
<1> QED
    BY <1>1, <1>2

(* The only steps that write over d's row. *)
LEMMA Writers ==
  ASSUME IInv, [Next]_vars, NEW d \in Deploys, state'[d] # state[d]
  PROVE  \/ HaltAtGate(d) \/ StartDeployment(d) \/ DeploySucceeds(d) \/ DeployFails(d)
         \/ \E q \in Rollbacks :
              subject[q] = d /\ (MarkRollingBack(q) \/ MarkRolledBack(q))
<1> USE DEF IInv, TypeOK, deployVars, rollbackVars
<1>1. ~\E g \in Gates : DecideGate(g)
      BY DEF DecideGate
<1>2. ~Arrival
      BY DEF Arrival, ReadGate, LoadCurrent
<1>3. ~(\E r \in Request : Return(r)) /\ ~(\E w \in Worker : Crash(w)) /\ ~UNCHANGED vars
      BY DEF Return, Crash, vars
<1>4. CASE \E r \in Deploys : DeployStep(r)
      BY <1>4 DEF DeployStep, HaltAtGate, StartDeployment, UnknownGate,
                  DispatchDeploy,
                  RefuseRequest, DeploySucceeds, DeployFails, FinishDeploy
<1>5. CASE \E r \in Rollbacks : RollbackStep(r)
      BY <1>5 DEF RollbackStep, ExplicitTarget, DefaultTarget, MarkRollingBack,
                  CallRollback, RollbackAnswered, RollbackRaises, MarkRolledBack, Overwrite
<1> QED
    BY <1>1, <1>2, <1>3, <1>4, <1>5 DEF Next

LEMMA SoloInit == Init => SoloInv
BY NoneIsNothing DEF Init, SoloInv, Request

(* On one loop, a rolled back row is not written over but by a rollback. *)
LEMMA RolledBackStays ==
  ASSUME IInv, SoloInv, [Next]_vars, NEW d \in Deploys, SameLoop(d),
         state[d] \in {"ROLLING_BACK", "ROLLED_BACK"}
  PROVE  state'[d] \in {"ROLLING_BACK", "ROLLED_BACK"}
<1>1. DeployInv(d)
      BY DEF IInv, DeploysInv
<1>2. ~HaltAtGate(d) /\ ~StartDeployment(d)
      BY <1>1 DEF HaltAtGate, StartDeployment, DeployInv
<1>3. ~DeploySucceeds(d) /\ ~DeployFails(d)
      BY DEF DeploySucceeds, DeployFails, FinishDeploy, SoloInv
<1> QED
    BY <1>2, <1>3, Writers DEF MarkRollingBack, MarkRolledBack, Overwrite,
                               IInv, TypeOK

\* Where a rollback that has not marked its row yet comes from.
LEMMA EarlyRollback ==
  ASSUME TypeOK, ArrivedInv, LoopsInv, [Next]_vars, NEW q \in Rollbacks,
         pc'[q] \in {"target", "mark"},
         ~\E w \in Worker, e \in Deploys : LoadCurrent(q, w, e)
  PROVE  /\ pc[q] \in {"target", "mark"}
         /\ view'[q] = view[q] /\ subject'[q] = subject[q]
         /\ ~MarkRollingBack(q) /\ ~MarkRolledBack(q)
<1> USE RequestsDistinct
    DEF TypeOK, ArrivedInv, Request, Goto, deployVars, rollbackVars,
        MarkRollingBack,
        MarkRolledBack
<1>1. CASE \E g \in Gates : DecideGate(g)
      BY <1>1 DEF DecideGate
<1>2. CASE \E w \in Worker, r \in Deploys, g \in Gates \cup {None} : ReadGate(r, w, g)
      BY <1>2 DEF ReadGate
<1>3. CASE \E w \in Worker, r \in Rollbacks, e \in Deploys : LoadCurrent(r, w, e)
  <2> PICK w \in Worker, r \in Rollbacks, e \in Deploys : LoadCurrent(r, w, e)
      BY <1>3
  <2>1. r # q
        OBVIOUS
  <2>2. pc'[q] = pc[q]
        BY <2>1 DEF LoadCurrent
  <2> QED
      BY <2>1, <2>2 DEF LoadCurrent
<1>4. CASE \E r \in Deploys : DeployStep(r)
      BY <1>4
      DEF DeployStep, HaltAtGate, StartDeployment, UnknownGate, DispatchDeploy,
          RefuseRequest, DeploySucceeds, DeployFails, FinishDeploy
<1>5. CASE \E r \in Rollbacks : RollbackStep(r)
      BY <1>5
      DEF RollbackStep, ExplicitTarget, DefaultTarget, CallRollback,
          RollbackAnswered,
          RollbackRaises
<1>6. CASE \E r \in Request : Return(r)
      BY <1>6 DEF Return
<1>7. CASE \E w \in Worker : Crash(w)
      BY <1>7 DEF Crash
<1>8. CASE UNCHANGED vars
      BY <1>8 DEF vars
<1> QED
    BY <1>1, <1>2, <1>3, <1>4, <1>5, <1>6, <1>7, <1>8 DEF Next, Arrival

\* Where a rollback that has marked its row and goes on comes from.
LEMMA LateRollback ==
  ASSUME TypeOK, ArrivedInv, LoopsInv, [Next]_vars, NEW q \in Rollbacks,
         pc'[q] \in {"revert", "provider", "finish"}, ~MarkRollingBack(q)
  PROVE  pc[q] \in {"revert", "provider", "finish"} /\ subject'[q] = subject[q]
<1> USE RequestsDistinct
    DEF TypeOK, ArrivedInv, Request, Goto, deployVars, rollbackVars
<1>1. CASE \E g \in Gates : DecideGate(g)
      BY <1>1 DEF DecideGate
<1>2. CASE \E w \in Worker, r \in Deploys, g \in Gates \cup {None} : ReadGate(r, w, g)
      BY <1>2 DEF ReadGate
<1>3. CASE \E w \in Worker, r \in Rollbacks, e \in Deploys : LoadCurrent(r, w, e)
  <2> PICK w \in Worker, r \in Rollbacks, e \in Deploys : LoadCurrent(r, w, e)
      BY <1>3
  <2>1. r # q
        BY DEF LoadCurrent
  <2> QED
      BY <2>1 DEF LoadCurrent
<1>4. CASE \E r \in Deploys : DeployStep(r)
      BY <1>4
      DEF DeployStep, HaltAtGate, StartDeployment, UnknownGate, DispatchDeploy,
          RefuseRequest, DeploySucceeds, DeployFails, FinishDeploy
<1>5. CASE \E r \in Rollbacks : RollbackStep(r)
      BY <1>5
      DEF RollbackStep, ExplicitTarget, DefaultTarget, CallRollback,
          RollbackAnswered,
          RollbackRaises, MarkRollingBack, MarkRolledBack
<1>6. CASE \E r \in Request : Return(r)
      BY <1>6 DEF Return
<1>7. CASE \E w \in Worker : Crash(w)
      BY <1>7 DEF Crash
<1>8. CASE UNCHANGED vars
      BY <1>8 DEF vars
<1> QED
    BY <1>1, <1>2, <1>3, <1>4, <1>5, <1>6, <1>7, <1>8 DEF Next, Arrival

LEMMA SoloStep == IInv /\ SoloInv /\ [Next]_vars => SoloInv'
<1> SUFFICES ASSUME IInv, SoloInv, [Next]_vars, NEW d \in Deploys, SameLoop(d)'
             PROVE  /\ pc'[d] \in {"claim", "provider"} => state'[d] = "BUILDING"
                    /\ \A q \in Rollbacks : subject'[q] = d =>
                         /\ pc'[q] \in {"target", "mark"} => view'[q] = state'[d]
                         /\ pc'[q] \in {"revert", "provider", "finish"}
                              => /\ state'[d] \in {"ROLLING_BACK", "ROLLED_BACK"}
                                 /\ pc'[d] # "provider"
    BY DEF SoloInv
<1>1. SameLoop(d)
      BY SameLoopBefore
<1>2. DeployInv(d) /\ TypeOK /\ ArrivedInv /\ LoopsInv /\ LocksInv
      BY DEF IInv, DeploysInv
<1>3. pc'[d] \in {"claim", "provider"} => state'[d] = "BUILDING"
  <2> SUFFICES ASSUME pc'[d] \in {"claim", "provider"} PROVE state'[d] = "BUILDING"
      OBVIOUS
  <2>1. CASE StartDeployment(d)
        BY <1>2, <2>1 DEF StartDeployment, TypeOK
  <2>2. CASE ~StartDeployment(d)
    <3>1. pc[d] \in {"claim", "provider"} /\ ~HaltAtGate(d) /\ ~DeploySucceeds(d)
             /\ ~DeployFails(d)
      <4>1. CASE DeployStep(d)
            BY <1>2, <2>2, <4>1
            DEF DeployStep, HaltAtGate, UnknownGate, DispatchDeploy,
                RefuseRequest,
                DeploySucceeds, DeployFails, FinishDeploy, Goto, TypeOK, Request
      <4>2. CASE ~DeployStep(d)
            BY <1>2, <4>2, OtherStep DEF DeployStep
      <4> QED
          BY <4>1, <4>2
    <3>2. state[d] = "BUILDING"
          BY <1>1, <3>1 DEF SoloInv
    <3> QED
        BY <1>1, <2>2, <3>1, <3>2, Writers, RollbackMissesWork
  <2> QED
      BY <2>1, <2>2
<1>4. ASSUME NEW q \in Rollbacks, subject'[q] = d, pc'[q] \in {"target", "mark"}
      PROVE  view'[q] = state'[d]
  <2>1. CASE \E w \in Worker, e \in Deploys : LoadCurrent(q, w, e)
        BY <1>2, <1>4, <2>1 DEF LoadCurrent, TypeOK
  <2>2. CASE ~\E w \in Worker, e \in Deploys : LoadCurrent(q, w, e)
    <3>1. pc[q] \in {"target", "mark"} /\ view'[q] = view[q] /\ subject[q] = d
             /\ ~MarkRollingBack(q) /\ ~MarkRolledBack(q)
          BY <1>2, <1>4, <2>2, EarlyRollback
    <3>2. view[q] = state[d]
          BY <1>1, <3>1 DEF SoloInv
    <3>3. pc[q] \in Live
          BY <3>1 DEF Live, Pc, RollbackPc, Answered
    <3>4. ~HaltAtGate(d) /\ ~StartDeployment(d) /\ ~DeploySucceeds(d) /\ ~DeployFails(d)
          BY <1>1, <3>1, <3>3, LoopIsTaken
          DEF HaltAtGate, StartDeployment, DeploySucceeds, DeployFails,
              FinishDeploy, Resume
    <3>5. \A p \in Rollbacks : subject[p] = d => ~MarkRollingBack(p) /\ ~MarkRolledBack(p)
          BY <1>1, <3>1, <3>3, LoopIsTaken DEF MarkRollingBack, MarkRolledBack
    <3> QED
        BY <3>1, <3>2, <3>4, <3>5, Writers
  <2> QED
      BY <2>1, <2>2
<1>5. ASSUME NEW q \in Rollbacks, subject'[q] = d,
             pc'[q] \in {"revert", "provider", "finish"}
      PROVE  state'[d] \in {"ROLLING_BACK", "ROLLED_BACK"} /\ pc'[d] # "provider"
  <2>1. CASE MarkRollingBack(q)
    <3>1. pc[q] = "mark" /\ subject[q] = d /\ pc'[d] = pc[d]
          BY <1>2, <1>5, <2>1, RequestsDistinct
          DEF MarkRollingBack, Goto, TypeOK, Request, rollbackVars
    <3>2. view[q] = state[d]
          BY <1>1, <3>1 DEF SoloInv
    <3>3. state'[d] = "ROLLING_BACK"
          BY <1>2, <2>1, <3>1, <3>2 DEF MarkRollingBack, Overwrite, TypeOK
    <3>4. pc[d] # "provider"
          BY <1>1, <1>2, <2>1, <3>1, <3>2, NoneIsNothing
          DEF SoloInv, MarkRollingBack, LocksInv, Request
    <3> QED
        BY <3>1, <3>3, <3>4
  <2>2. CASE ~MarkRollingBack(q)
    <3>1. pc[q] \in {"revert", "provider", "finish"} /\ subject[q] = d
          BY <1>2, <1>5, <2>2, LateRollback
    <3>2. state[d] \in {"ROLLING_BACK", "ROLLED_BACK"} /\ pc[d] # "provider"
          BY <1>1, <3>1 DEF SoloInv
    <3>3. state'[d] \in {"ROLLING_BACK", "ROLLED_BACK"}
          BY <1>1, <3>2, RolledBackStays
    <3>4. pc'[d] # "provider"
      <4>1. CASE DeployStep(d)
            BY <1>1, <1>2, <3>2, <4>1
            DEF DeployStep, HaltAtGate, StartDeployment, UnknownGate,
                DispatchDeploy,
                RefuseRequest, DeploySucceeds, DeployFails, FinishDeploy, Goto, TypeOK,
                Request, SoloInv
      <4>2. CASE ~DeployStep(d)
            BY <1>2, <3>2, <4>2, OtherStep
      <4> QED
          BY <4>1, <4>2
    <3> QED
        BY <3>3, <3>4
  <2> QED
      BY <2>1, <2>2
<1> QED
    BY <1>3, <1>4, <1>5

(* Once a rollback of a deployment has been committed, the late answer of its
   provider does not bring it back, when one event loop serves both. *)
THEOREM RollbackWins == Spec => NoResurrection
<1>1. Spec => []SoloInv
      BY SoloInit, SoloStep, IInvAlways, PTL DEF Spec
<1>2. IInv /\ SoloInv /\ [Next]_vars
        => [\A d \in Deploys :
              SameLoop(d) /\ state[d] \in {"ROLLING_BACK", "ROLLED_BACK"}
                => state'[d] \in {"ROLLING_BACK", "ROLLED_BACK"}]_vars
      BY RolledBackStays
<1> QED
    BY <1>1, <1>2, IInvAlways, PTL DEF Spec, NoResurrection

-----------------------------------------------------------------------------
(* Refinement *)

LEMMA LifecycleInit == Init => Lifecycle!Init
BY DEF Init, Lifecycle!Init, Outcome, Emitted

\* A step that announces no outcome leaves all outcomes as they are.
LEMMA OutcomesStay ==
  ASSUME \A d \in Deploys, type \in {"DEPLOYMENT_COMPLETED", "DEPLOYMENT_FAILED"} :
           Emitted(type, d)' <=> Emitted(type, d)
  PROVE  [d \in Deploys |-> Outcome(d)]' = [d \in Deploys |-> Outcome(d)]
BY DEF Outcome

\* The steps that change what can be seen from outside.
LEMMA StepKinds ==
  ASSUME [Next]_vars
  PROVE  \/ UNCHANGED <<state, events>>
         \/ \E d \in Deploys :
              HaltAtGate(d) \/ StartDeployment(d) \/ DeploySucceeds(d) \/ DeployFails(d)
         \/ \E q \in Rollbacks : MarkRollingBack(q) \/ MarkRolledBack(q)
BY DEF Next, vars, Arrival, DecideGate, ReadGate, LoadCurrent, Return, Crash,
       DeployStep,
       UnknownGate, DispatchDeploy, RefuseRequest, RollbackStep, ExplicitTarget,
       DefaultTarget, CallRollback, RollbackAnswered, RollbackRaises

LEMMA LifecycleStep ==
  ASSUME IInv, SoloInv, [Next]_vars, \A d \in Deploys : SameLoop(d)
  PROVE  [Lifecycle!Next]_(Lifecycle!vars)
<1> DEFINE out == [d \in Deploys |-> Outcome(d)]
<1> USE DEF IInv, Lifecycle!Next, Lifecycle!Step, Lifecycle!vars, Lifecycle!Move
<1>1. CASE UNCHANGED <<state, events>>
      BY <1>1 DEF Outcome, Emitted
<1>2. ASSUME NEW d \in Deploys,
             HaltAtGate(d) \/ StartDeployment(d) \/ DeploySucceeds(d) \/ DeployFails(d)
      PROVE  Lifecycle!Step(d)
  <2>1. DeployInv(d)
        BY DEF DeploysInv
  <2>2. CASE HaltAtGate(d)
    <3>1. out' = out
          BY <2>2, OutcomesStay DEF HaltAtGate, Emitted
    <3> QED
        BY <2>1, <2>2, <3>1 DEF HaltAtGate, DeployInv, Lifecycle!Halt
  <2>3. CASE StartDeployment(d)
    <3>1. out' = out
          BY <2>3, OutcomesStay DEF StartDeployment, Emit, Emitted
    <3> QED
        BY <2>1, <2>3, <3>1 DEF StartDeployment, DeployInv, Lifecycle!Start
  <2>4. ASSUME DeploySucceeds(d) \/ DeployFails(d)
        PROVE  state[d] = "BUILDING" /\ out[d] = "open"
        BY <2>1, <2>4 DEF DeploySucceeds, DeployFails, FinishDeploy, SoloInv,
                          DeployInv, Outcome
  <2>5. CASE DeploySucceeds(d)
    <3>1. out' = [out EXCEPT ![d] = "completed"]
          BY <2>5 DEF DeploySucceeds, FinishDeploy, Emit, Emitted, Outcome
    <3> QED
        BY <2>4, <2>5, <3>1 DEF DeploySucceeds, FinishDeploy, Lifecycle!Succeed
  <2>6. CASE DeployFails(d)
    <3>1. out' = [out EXCEPT ![d] = "failed"]
          BY <2>1, <2>4, <2>6 DEF DeployFails, FinishDeploy, Emit, Emitted,
                                  Outcome, DeployInv
    <3> QED
        BY <2>4, <2>6, <3>1 DEF DeployFails, FinishDeploy, Lifecycle!Fail
  <2> QED
      BY <1>2, <2>2, <2>3, <2>5, <2>6
<1>3. ASSUME NEW q \in Rollbacks, MarkRollingBack(q) \/ MarkRolledBack(q)
      PROVE  \/ \E d \in Deploys : Lifecycle!Step(d)
             \/ UNCHANGED <<state, out>>
  <2> DEFINE d == subject[q]
  <2>1. d \in Deploys /\ state[d] # "ABSENT" /\ state \in [Deploys -> Committed \cup {"ABSENT"}]
        BY <1>3 DEF ArrivedInv, TypeOK, MarkRollingBack, MarkRolledBack
  <2>2. out' = out
        BY <1>3, OutcomesStay DEF MarkRollingBack, MarkRolledBack, Emit, Emitted
  <2>3. CASE state' = state
        BY <2>2, <2>3
  <2>4. CASE MarkRollingBack(q) /\ state' # state
    <3>1. state' = [state EXCEPT ![d] = "ROLLING_BACK"] /\ state[d] # "ROLLING_BACK"
          BY <2>1, <2>4 DEF MarkRollingBack, Overwrite
    <3> QED
        BY <2>1, <2>2, <3>1 DEF Lifecycle!BeginRollback, Committed
  <2>5. CASE MarkRolledBack(q) /\ state' # state
    <3>1. state' = [state EXCEPT ![d] = "ROLLED_BACK"] /\ state[d] # "ROLLED_BACK"
          BY <2>1, <2>5 DEF MarkRolledBack, Overwrite
    <3>2. state[d] \in {"ROLLING_BACK", "ROLLED_BACK"}
          BY <2>1, <2>5 DEF MarkRolledBack, SoloInv
    <3> QED
        BY <2>1, <2>2, <3>1, <3>2 DEF Lifecycle!EndRollback
  <2> QED
      BY <1>3, <2>3, <2>4, <2>5
<1> QED
    BY <1>1, <1>2, <1>3, StepKinds

(* With one worker process the handlers, their sessions, their row locks and
   whatever raises or crashes implement the life cycle a client may rely on. *)
THEOREM OneLoopImplementsLifecycle ==
  ASSUME \A v, w \in Worker : v = w
  PROVE  Spec => LifecycleSpec
<1>1. IInv => \A d \in Deploys : SameLoop(d)
  <2> SUFFICES ASSUME IInv, NEW d \in Deploys, NEW q \in Rollbacks, subject[q] = d
               PROVE  home[q] = home[d]
      BY DEF SameLoop
  <2>1. home[q] # None /\ home[d] # None
        BY NoneIsNothing DEF IInv, ArrivedInv, DeploysInv, DeployInv, Request
  <2> QED
      BY <2>1 DEF IInv, TypeOK, Request
<1>2. IInv /\ SoloInv /\ [Next]_vars => [Lifecycle!Next]_(Lifecycle!vars)
      BY <1>1, LifecycleStep
<1> QED
    BY <1>2, LifecycleInit, SoloInit, SoloStep, IInvAlways, PTL
    DEF Spec, LifecycleSpec, Lifecycle!Spec

-----------------------------------------------------------------------------
(* Waiting.  AnsweredUnlessStalled is a liveness property and is checked by
   TLC; what makes it true for any number of requests and workers is that a
   request comes to its end in few steps, and that outside the stalled workers
   there is always one that can take its next step. *)

\* No provider call suspends its handler.
NothingSuspended == \A r \in Request : pc[r] = "provider" => Running(r)

\* The next step of r can be taken: it has the loop, or can have it, and no
\* row lock is in its way.
CanGo(r) ==
  CASE pc[r] = "provider" -> Resumable(r)
    [] pc[r] = "claim"    -> Running(r) /\ rowLock[r] = None
    [] pc[r] = "mark"     -> Running(r) /\ (view[r] # "ROLLING_BACK" => rowLock[subject[r]] = None)
    [] pc[r] = "finish"   -> Running(r) /\ rowLock[subject[r]] = None
    [] OTHER              -> Running(r)

\* Its provider has answered, and another handler has the loop.
WaitsForLoop(r) ==
  /\ pc[r] = "provider"
  /\ \E q \in Request \ {r} : home[q] = home[r] /\ Running(q) /\ AtWork(q)

\* r is at work, and not behind a circle of waiting loops.
Moving(r) == AtWork(r) /\ ~Stalled(home[r])

\* There is nothing else to wait for; where no provider call suspends its
\* handler, nobody waits but for one row, and for one who can go on; and where
\* calls do suspend, one of those outside the stalled workers can go on.
WaitsEnd ==
  /\ \A r \in Request : AtWork(r) =>
       /\ CanGo(r) \/ WaitsForRow(r) \/ WaitsForLoop(r)
       /\ NothingSuspended => CanGo(r) \/ (WaitsForRow(r) /\ CanGo(subject[r]))
  /\ (\E r \in Request : Moving(r)) => \E q \in Request : Moving(q) /\ CanGo(q)

\* A loop is held by a request that is at work there.
HeldInv == \A w \in Worker : loop[w] # None => home[loop[w]] = w /\ AtWork(loop[w])

LEMMA HeldStep == IInv /\ HeldInv /\ [Next]_vars => HeldInv'
<1> SUFFICES ASSUME IInv, HeldInv, [Next]_vars PROVE HeldInv'
    OBVIOUS
<1> USE RequestsDistinct, NoneIsNothing
    DEF IInv, HeldInv, AtWork, LoopsInv, ArrivedInv, Running, Resumable, Answered, TypeOK,
        Request, Goto, Keep, Yield, Resume, deployVars, rollbackVars
<1>1. CASE \E g \in Gates : DecideGate(g)
      BY <1>1 DEF DecideGate
<1>2. CASE \E w \in Worker, r \in Deploys, g \in Gates \cup {None} : ReadGate(r, w, g)
      BY <1>2 DEF ReadGate, Accept
<1>3. CASE \E w \in Worker, r \in Rollbacks, d \in Deploys : LoadCurrent(r, w, d)
      BY <1>3 DEF LoadCurrent, Accept
<1>4. CASE \E r \in Deploys : DeployStep(r)
      BY <1>4
      DEF DeployStep, HaltAtGate, StartDeployment, UnknownGate, DispatchDeploy,
          RefuseRequest, DeploySucceeds, DeployFails, FinishDeploy
<1>5. CASE \E r \in Rollbacks : RollbackStep(r)
      BY <1>5
      DEF RollbackStep, ExplicitTarget, DefaultTarget, MarkRollingBack,
          CallRollback,
          RollbackAnswered, RollbackRaises, MarkRolledBack
<1>6. CASE \E r \in Request : Return(r)
      BY <1>6 DEF Return
<1>7. CASE \E w \in Worker : Crash(w)
      BY <1>7 DEF Crash
<1>8. CASE UNCHANGED vars
      BY <1>8 DEF vars
<1> QED
    BY <1>1, <1>2, <1>3, <1>4, <1>5, <1>6, <1>7, <1>8 DEF Next, Arrival

\* Whom a request waits for is not stalled, unless it is stalled itself.
LEMMA WaitsForMoving ==
  ASSUME IInv, NEW r \in Request, WaitsForRow(r), ~Stalled(home[r])
  PROVE  ~Stalled(home[subject[r]])
<1>1. pc[r] \in {"mark", "finish"}
      BY DEF WaitsForRow
<1>2. home[r] \in Worker /\ loop[home[r]] = r
      BY <1>1 DEF IInv, TypeOK, ArrivedInv, LoopsInv, Live, AtWork, Running, Answered
<1>3. SUFFICES ASSUME Stalled(home[subject[r]]) PROVE FALSE
      OBVIOUS
<1>4. PICK W \in SUBSET Worker :
        /\ home[subject[r]] \in W
        /\ \A v \in W : WaitsForRow(loop[v]) /\ home[subject[loop[v]]] \in W
      BY <1>3 DEF Stalled
<1>5. \A v \in W \cup {home[r]} :
        WaitsForRow(loop[v]) /\ home[subject[loop[v]]] \in W \cup {home[r]}
      BY <1>2, <1>4
<1> QED
    BY <1>2, <1>5 DEF Stalled

\* A request that cannot go on leaves its loop to one that waits for a row.
LEMMA BehindAWait ==
  ASSUME IInv, HeldInv, NEW r \in Request, AtWork(r),
         \A q \in Request : Moving(q) => ~CanGo(q) /\ (WaitsForRow(q) \/ WaitsForLoop(q)),
         ~Stalled(home[r])
  PROVE  LET q == loop[home[r]]
         IN  q \in Request /\ AtWork(q) /\ home[q] = home[r] /\ WaitsForRow(q)
<1>1. home[r] \in Worker
      BY DEF IInv, TypeOK, ArrivedInv, AtWork
<1>2. ~CanGo(r) /\ (WaitsForRow(r) \/ WaitsForLoop(r))
      BY DEF Moving
<1>3. PICK q \in Request : loop[home[r]] = q
  <2>1. CASE WaitsForRow(r)
        BY <2>1 DEF WaitsForRow, IInv, LoopsInv, Live, AtWork, Running
  <2>2. CASE WaitsForLoop(r)
        BY <2>2 DEF WaitsForLoop, Running
  <2> QED
      BY <1>2, <2>1, <2>2
<1>4. home[q] = home[r] /\ AtWork(q) /\ Running(q)
      BY <1>1, <1>3, NoneIsNothing DEF HeldInv, Running
<1>5. ~CanGo(q) /\ (WaitsForRow(q) \/ WaitsForLoop(q))
      BY <1>4 DEF Moving
<1>6. ~WaitsForLoop(q)
      BY <1>4, <1>5 DEF WaitsForLoop, CanGo, Resumable, Running
<1> QED
    BY <1>3, <1>4, <1>5, <1>6

\* The workers that are not stalled cannot all wait for each other: they would
\* be a circle.
LEMMA SomebodyMoves ==
  ASSUME IInv, HeldInv,
         \A q \in Request : AtWork(q) => CanGo(q) \/ WaitsForRow(q) \/ WaitsForLoop(q),
         NEW r \in Request, Moving(r)
  PROVE  \E q \in Request : Moving(q) /\ CanGo(q)
<1>1. SUFFICES ASSUME \A q \in Request : Moving(q) => ~CanGo(q)
               PROVE  FALSE
      OBVIOUS
<1>2. \A q \in Request : Moving(q) => ~CanGo(q) /\ (WaitsForRow(q) \/ WaitsForLoop(q))
      BY <1>1 DEF Moving
<1> DEFINE W == {v \in Worker : ~Stalled(v) /\ \E q \in Request : AtWork(q) /\ home[q] = v}
<1>3. home[r] \in W
      BY DEF Moving, IInv, TypeOK, ArrivedInv, AtWork
<1>4. ASSUME NEW v \in W
      PROVE  WaitsForRow(loop[v]) /\ home[subject[loop[v]]] \in W
  <2>1. PICK p \in Request : AtWork(p) /\ home[p] = v
        OBVIOUS
  <2>2. loop[v] \in Request /\ home[loop[v]] = v /\ WaitsForRow(loop[v])
        BY <1>2, <2>1, BehindAWait
  <2> DEFINE d == subject[loop[v]]
  <2>3. d \in Deploys /\ AtWork(d)
    <3>1. pc[d] = "provider" /\ pc[loop[v]] # "new" /\ loop[v] \in Rollbacks
          BY <2>2 DEF WaitsForRow
    <3> QED
        BY <3>1 DEF IInv, ArrivedInv, AtWork, Answered
  <2>4. ~Stalled(home[d])
        BY <2>2, WaitsForMoving
  <2>5. home[d] \in Worker
        BY <2>3 DEF IInv, TypeOK, ArrivedInv, AtWork, Request
  <2> QED
      BY <2>2, <2>3, <2>4, <2>5 DEF Request
<1>5. Stalled(home[r])
  <2> HIDE DEF W
  <2>1. W \in SUBSET Worker
        BY DEF W
  <2> QED
      BY <1>3, <1>4, <2>1 DEF Stalled
<1> QED
    BY <1>5 DEF Moving

\* Every request that is at work can go on, or waits for a rollback's row,
\* whose deployment waits for its provider, or for its own loop.  As long as
\* no provider call suspends its handler, no request waits but for one that
\* can go on.  Whatever calls suspend, if a request is at work on a worker that
\* is not stalled, then one such request can go on: nothing but a circle of
\* loops can stop the service, however many workers there are.
THEOREM WaitingEnds == Spec => []WaitsEnd
<1>1. Init => HeldInv
      BY DEF Init, HeldInv
<1>2. IInv /\ HeldInv => \A r \in Request : AtWork(r) =>
        /\ CanGo(r) \/ WaitsForRow(r) \/ WaitsForLoop(r)
        /\ NothingSuspended => CanGo(r) \/ (WaitsForRow(r) /\ CanGo(subject[r]))
  <2> SUFFICES ASSUME IInv, HeldInv, NEW r \in Request, AtWork(r)
               PROVE  /\ CanGo(r) \/ WaitsForRow(r) \/ WaitsForLoop(r)
                      /\ NothingSuspended => CanGo(r) \/ (WaitsForRow(r) /\ CanGo(subject[r]))
      OBVIOUS
  <2>1. pc[r] \in Pc /\ home[r] \in Worker
        BY DEF IInv, TypeOK, ArrivedInv, AtWork
  <2>2. pc[r] # "provider" => Running(r)
        BY <2>1 DEF IInv, LoopsInv, Live, AtWork
  <2>3. CASE pc[r] = "provider"
    <3>1. CASE Resumable(r)
          BY <2>3, <3>1 DEF CanGo
    <3>2. CASE ~Resumable(r)
      <4>1. loop[home[r]] \in Request \ {r}
            BY <2>1, <3>2 DEF IInv, TypeOK, Resumable
      <4>2. WaitsForLoop(r)
            BY <2>1, <2>3, <4>1, NoneIsNothing DEF HeldInv, WaitsForLoop, Running
      <4>3. ~NothingSuspended
            BY <2>3, <4>1 DEF NothingSuspended, Running
      <4> QED
          BY <4>2, <4>3
    <3> QED
        BY <3>1, <3>2
  <2>4. CASE pc[r] = "claim"
    <3>1. r \in Deploys
          BY <2>4 DEF IInv, LoopsInv, DeployPc, Request
    <3> QED
        BY <2>2, <2>4, <3>1 DEF CanGo, IInv, LocksInv
  <2>5. CASE pc[r] \in {"mark", "finish"}
    <3>1. r \in Rollbacks /\ subject[r] \in Deploys
          BY <2>5 DEF IInv, LoopsInv, RollbackPc, ArrivedInv, Request
    <3>2. CASE rowLock[subject[r]] = None
          BY <2>2, <2>5, <3>2 DEF CanGo
    <3>3. CASE pc[r] = "mark" /\ view[r] = "ROLLING_BACK"
          BY <2>2, <3>3 DEF CanGo
    <3>4. CASE rowLock[subject[r]] # None /\ ~(pc[r] = "mark" /\ view[r] = "ROLLING_BACK")
      <4>1. rowLock[subject[r]] = subject[r] /\ pc[subject[r]] = "provider"
            BY <3>1, <3>4 DEF IInv, LocksInv
      <4>2. WaitsForRow(r)
            BY <2>5, <3>1, <3>4, <4>1 DEF WaitsForRow
      <4>3. NothingSuspended => CanGo(subject[r])
            BY <3>1, <4>1 DEF NothingSuspended, CanGo, Running, Resumable, Request
      <4> QED
          BY <4>2, <4>3
    <3> QED
        BY <3>2, <3>3, <3>4
  <2>6. CASE pc[r] \notin {"provider", "claim", "mark", "finish"}
        BY <2>2, <2>6 DEF CanGo
  <2> QED
      BY <2>3, <2>4, <2>5, <2>6
<1>3. IInv /\ HeldInv => WaitsEnd
      BY <1>2, SomebodyMoves DEF WaitsEnd
<1> QED
    BY <1>1, <1>3, HeldStep, IInvAlways, PTL DEF Spec

\* How far a handler is from its end.
Left(label) ==
  CASE label = "new"                           -> 7
    [] label \in {"halt", "create", "target"}  -> 6
    [] label \in {"claim", "mark"}             -> 5
    [] label = "revert"                        -> 4
    [] label = "provider"                      -> 3
    [] label = "finish"                        -> 2
    [] label = "reply"                         -> 1
    [] OTHER                                   -> 0

\* No step sets a request back, and every step but a decision on a gate takes
\* some request further.
HandlersAdvance ==
  [][/\ \A r \in Request : pc'[r] = pc[r] \/ Left(pc'[r]) < Left(pc[r])
     /\ (\E g \in Gates : DecideGate(g)) \/ \E r \in Request : Left(pc'[r]) < Left(pc[r])]_vars

\* A request is over after at most seven steps of its own, whatever the
\* others do: it never goes back, neither for an answer of its provider nor for
\* a crash.
THEOREM RequestsAreShort == Spec => HandlersAdvance
<1> DEFINE Advance == /\ \A r \in Request : pc'[r] = pc[r] \/ Left(pc'[r]) < Left(pc[r])
                      /\ (\E g \in Gates : DecideGate(g)) \/ \E r \in Request : Left(pc'[r]) < Left(pc[r])
<1>1. ASSUME IInv, Next PROVE Advance
  <2> USE <1>1 DEF IInv, TypeOK
  <2>1. CASE \E g \in Gates : DecideGate(g)
        BY <2>1 DEF DecideGate
  <2>2. ASSUME NEW r \in Request, NEW to, Goto(r, to), Left(to) < Left(pc[r])
        PROVE  Advance
        BY <2>2 DEF Goto
  <2>0. /\ Left("new") = 7 /\ Left("halt") = 6 /\ Left("create") = 6 /\ Left("target") = 6
        /\ Left("claim") = 5 /\ Left("mark") = 5 /\ Left("revert") = 4 /\ Left("provider") = 3
        /\ Left("finish") = 2 /\ Left("reply") = 1
        /\ Left("done") = 0 /\ Left("error") = 0 /\ Left("crashed") = 0
        BY DEF Left
  <2>3. CASE Arrival
    <3>1. PICK r \in Request : pc[r] = "new" /\ \E to \in {"halt", "create", "target"} : Goto(r, to)
          BY <2>3 DEF Arrival, ReadGate, LoadCurrent, Accept, Request
    <3> QED
        BY <2>0, <2>2, <3>1 DEF Request
  <2>4. CASE \E r \in Deploys : DeployStep(r)
    <3> PICK r \in Deploys : DeployStep(r)
        BY <2>4
    <3>1. \/ pc[r] = "halt" /\ Goto(r, "reply")
          \/ pc[r] = "create" /\ \E to \in {"claim", "error"} : Goto(r, to)
          \/ pc[r] = "claim" /\ \E to \in {"provider", "error"} : Goto(r, to)
          \/ pc[r] = "provider" /\ Goto(r, "reply")
          BY DEF DeployStep, HaltAtGate, StartDeployment, UnknownGate, DispatchDeploy,
                 RefuseRequest, DeploySucceeds, DeployFails, FinishDeploy
    <3> QED
        BY <2>0, <2>2, <3>1 DEF Request
  <2>5. CASE \E r \in Rollbacks : RollbackStep(r)
    <3> PICK r \in Rollbacks : RollbackStep(r)
        BY <2>5
    <3>1. \/ pc[r] = "target" /\ Goto(r, "mark")
          \/ pc[r] = "mark" /\ Goto(r, "revert")
          \/ pc[r] = "revert" /\ Goto(r, "provider")
          \/ pc[r] = "provider" /\ \E to \in {"finish", "error"} : Goto(r, to)
          \/ pc[r] = "finish" /\ Goto(r, "reply")
          BY DEF RollbackStep, ExplicitTarget, DefaultTarget, MarkRollingBack, CallRollback,
                 RollbackAnswered, RollbackRaises, MarkRolledBack
    <3> QED
        BY <2>0, <2>2, <3>1 DEF Request
  <2>6. CASE \E r \in Request : Return(r)
    <3>1. PICK r \in Request : pc[r] = "reply" /\ Goto(r, "done")
          BY <2>6 DEF Return
    <3> QED
        BY <2>0, <2>2, <3>1 DEF Request
  <2>7. CASE \E w \in Worker : Crash(w)
    <3>1. PICK w \in Worker : Crash(w)
          BY <2>7
    <3> DEFINE lost == {r \in Request : home[r] = w /\ pc[r] \notin Answered}
    <3>2. lost # {} /\ pc' = [r \in Request |-> IF r \in lost THEN "crashed" ELSE pc[r]]
          BY <3>1 DEF Crash
    <3>3. \A r \in Request : pc[r] \notin Answered => Left("crashed") < Left(pc[r])
          BY <2>0 DEF Pc, DeployPc, RollbackPc, Answered
    <3> QED
        BY <3>2, <3>3
  <2> QED
      BY <2>1, <2>3, <2>4, <2>5, <2>6, <2>7 DEF Next
<1>2. IInv /\ [Next]_vars => [Advance]_vars
      BY <1>1
<1> QED
    BY <1>2, IInvAlways, PTL DEF Spec, HandlersAdvance
=============================================================================
