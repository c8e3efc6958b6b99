---------------------- MODULE IncidentResponse_proofs ----------------------
(***************************************************************************)
(* Machine-checked proofs about module IncidentResponse, for any sets of   *)
(* requests, deployments, incidents and workers and any number of crashes. *)
(*                                                                         *)
(* Every step of the incident service is a step of the deployment service  *)
(* or leaves it alone, so what Deployments_proofs proves holds here too.   *)
(***************************************************************************)
EXTENDS IncidentResponse, Deployments_proofs

\* A responder works on a declared incident, and announces its end once.
StageInv ==
  /\ \A i \in Incidents : status[i] = "ABSENT" => suspect[i] = None
  /\ \A r \in Responder :
       /\ stage[r] # "new" => about[r] \in Incidents /\ status[about[r]] # "ABSENT"
       /\ stage[r] = "new" => about[r] = None
  /\ \A q \in Diagnoses :
       /\ stage[q] \in {"new", "collect", "conclude", "answered", "lost"}
       /\ Logged("DIAGNOSIS_COMPLETED", q) <=> stage[q] = "answered"
  /\ \A r \in Rollbacks :
       /\ stage[r] \notin {"collect", "conclude"}
       /\ Logged("RECOVERY_COMPLETED", r) <=> stage[r] = "answered"

\* Between its UPDATE and its commit a resolution has the incident's row, and
\* what it read of the memory stays true.
TicketInv ==
  /\ \A r \in Rollbacks : stage[r] \in {"remember", "recover"} => ticketLock[about[r]] = r
  /\ \A r \in Rollbacks : stage[r] = "recover" =>
       (remembered[r] <=> postmortems[about[r]] > 0)

\* A status read is one the ledger explains.
KnownInv ==
  \A r \in Responder :
    /\ stage[r] = "new" => known[r] = None
    /\ known[r] = "MITIGATING" => Diagnosed(about[r])
    /\ known[r] = "RESOLVED" => Recovered(about[r])

IncidentInv ==
  IncidentTypeOK /\ StageInv /\ TicketInv /\ OnePostmortem /\ KnownInv
    /\ LedgerExplainsIncident

\* A rollback replies only when it is complete, and one that a resolution
\* asked for is of the incident's deployment.
RemedyInv ==
  \A r \in Rollbacks :
    /\ pc[r] \in {"reply", "done"} => Emitted("ROLLBACK_COMPLETED", r)
    /\ pc[r] # "new" /\ stage[r] \in {"close", "remember", "recover", "answered"}
         => Emitted("ROLLBACK_COMPLETED", r)
    /\ pc[r] # "new" /\ stage[r] # "new" => subject[r] = suspect[about[r]]

\* On one loop a completed rollback is not undone.
DownInv ==
  \A r \in Rollbacks : Emitted("ROLLBACK_COMPLETED", r) =>
    /\ pc[r] # "new"
    /\ SameLoop(subject[r]) => state[subject[r]] \in {"ROLLING_BACK", "ROLLED_BACK"}

-----------------------------------------------------------------------------
(* The deployment service below *)

\* The steps of the incident service, one by one.
LEMMA Steps ==
  ASSUME [IncidentNext]_allVars
  PROVE  \/ \E i \in Incidents, d \in Deploys \cup {None} : CreateIncident(i, d)
         \/ \E q \in Diagnoses, i \in Incidents : Diagnose(q, i)
         \/ \E q \in Responder : Collect(q) \/ Conclude(q)
         \/ \E r \in Rollbacks, i \in Incidents : ResolveInPlace(r, i)
         \/ \E r \in Rollbacks, i \in Incidents, w \in Worker : ResolveByRollback(r, w, i)
         \/ \E r \in Rollbacks : RolledBack(r) \/ Close(r) \/ Remember(r) \/ Recover(r)
         \/ \E r \in Responder : Lose(r)
         \/ \E w \in Worker : CrashWorker(w)
         \/ UNCHANGED incidentVars /\ (DeploymentsNext \/ UNCHANGED vars)
BY DEF IncidentNext, Respond, DeploymentsNext, allVars

LEMMA DeploymentsStep == IncidentTypeOK /\ [IncidentNext]_allVars => [Next]_vars
<1> SUFFICES ASSUME IncidentTypeOK, [IncidentNext]_allVars PROVE [Next]_vars
    OBVIOUS
<1>1. CASE \E r \in Rollbacks, i \in Incidents, w \in Worker : ResolveByRollback(r, w, i)
  <2> PICK r \in Rollbacks, i \in Incidents, w \in Worker : ResolveByRollback(r, w, i)
      BY <1>1
  <2>1. suspect[i] \in Deploys /\ LoadCurrent(r, w, suspect[i])
        BY DEF ResolveByRollback, IncidentTypeOK
  <2> QED
      BY <2>1 DEF Next, Arrival
<1>2. CASE \E w \in Worker : CrashWorker(w)
      BY <1>2 DEF CrashWorker, Next
<1>3. CASE DeploymentsNext
      BY <1>3 DEF DeploymentsNext, GuidedRollbackStep, Next, Arrival
<1>4. CASE UNCHANGED vars
      BY <1>4
<1>5. CASE \/ \E i \in Incidents, d \in Deploys \cup {None} : CreateIncident(i, d)
           \/ \E q \in Diagnoses, i \in Incidents : Diagnose(q, i)
           \/ \E q \in Responder : Collect(q) \/ Conclude(q)
           \/ \E r \in Rollbacks, i \in Incidents : ResolveInPlace(r, i)
           \/ \E r \in Rollbacks : RolledBack(r) \/ Close(r) \/ Remember(r) \/ Recover(r)
           \/ \E r \in Responder : Lose(r)
  <2>1. UNCHANGED vars
        BY <1>5 DEF CreateIncident, Diagnose, Collect, Conclude, ResolveInPlace, RolledBack,
                    Close, Remember, Recover, Lose
  <2> QED
      BY <2>1
<1> QED
    BY <1>1, <1>2, <1>3, <1>4, <1>5, Steps

-----------------------------------------------------------------------------
(* Types and stages *)

LEMMA StageTypeInit == IncidentInit => IncidentTypeOK /\ StageInv
BY TypeInit, RespondersDistinct
   DEF IncidentInit, IncidentTypeOK, StageInv, Responder, Stage, Logged, IncidentStatus

LEMMA LogType ==
  ASSUME NEW type \in IncidentEvent, NEW r \in Incidents \cup Responder, Log(type, r),
         IncidentTypeOK
  PROVE  log' \subseteq [type : IncidentEvent, trace : Incidents \cup Responder]
BY DEF Log, IncidentTypeOK

LEMMA IncidentTypeStep ==
  IncidentTypeOK /\ ArrivedInv /\ StageInv /\ [IncidentNext]_allVars => IncidentTypeOK'
<1> SUFFICES ASSUME IncidentTypeOK, ArrivedInv, StageInv, [IncidentNext]_allVars
             PROVE  IncidentTypeOK'
    OBVIOUS
<1>0. TypeOK'
      BY DeploymentsStep, TypeStep DEF IncidentTypeOK
<1> USE <1>0 DEF IncidentTypeOK, Responder, Become, Stage
<1>1. CASE \E i \in Incidents, d \in Deploys \cup {None} : CreateIncident(i, d)
      BY <1>1, LogType DEF CreateIncident, IncidentStatus, IncidentEvent
<1>2. CASE \E q \in Diagnoses, i \in Incidents : Diagnose(q, i)
      BY <1>2, LogType DEF Diagnose, IncidentEvent
<1>3. CASE \E q \in Responder : Collect(q)
      BY <1>3 DEF Collect, StageInv
<1>4. CASE \E q \in Responder : Conclude(q)
      BY <1>4, LogType DEF Conclude, StageInv, IncidentStatus, IncidentEvent
<1>5. CASE \E r \in Rollbacks, i \in Incidents : ResolveInPlace(r, i)
      BY <1>5 DEF ResolveInPlace
<1>6. CASE \E r \in Rollbacks, i \in Incidents, w \in Worker : ResolveByRollback(r, w, i)
      BY <1>6 DEF ResolveByRollback
<1>7. CASE \E r \in Rollbacks : RolledBack(r)
      BY <1>7 DEF RolledBack, StageInv
<1>8. CASE \E r \in Rollbacks : Close(r)
  <2> PICK r \in Rollbacks : Close(r)
      BY <1>8
  <2>1. ticketLock' \in [Incidents -> Rollbacks \cup {None}]
        BY DEF Close
  <2>2. stage' \in [Responder -> Stage]
        BY DEF Close
  <2> QED
      BY <2>1, <2>2 DEF Close
<1>9. CASE \E r \in Rollbacks : Remember(r)
      BY <1>9 DEF Remember
<1>10. CASE \E r \in Rollbacks : Recover(r)
  <2> PICK r \in Rollbacks : Recover(r)
      BY <1>10
  <2>1. status' \in [Incidents -> IncidentStatus \cup {"ABSENT"}]
        BY DEF Recover, IncidentStatus
  <2>2. postmortems' \in [Incidents -> Nat]
    <3>1. about[r] \in Incidents
          BY DEF Recover, StageInv
    <3>2. postmortems[about[r]] + 1 \in Nat
          BY <3>1
    <3> QED
        BY <3>1, <3>2 DEF Recover
  <2>3. ticketLock' \in [Incidents -> Rollbacks \cup {None}]
        BY DEF Recover
  <2>4. log' \subseteq [type : IncidentEvent, trace : Incidents \cup Responder]
        BY LogType DEF Recover, IncidentEvent
  <2>5. stage' \in [Responder -> Stage]
        BY DEF Recover
  <2> QED
      BY <2>1, <2>2, <2>3, <2>4, <2>5 DEF Recover
<1>11. CASE \E lost : LoseAll(lost)
      BY <1>11 DEF LoseAll
<1>12. CASE UNCHANGED incidentVars
      BY <1>12 DEF incidentVars
<1> QED
    BY <1>1, <1>2, <1>3, <1>4, <1>5, <1>6, <1>7, <1>8, <1>9, <1>10, <1>11, <1>12, Steps
    DEF Lose, CrashWorker

LEMMA StageStep ==
  IncidentTypeOK /\ StageInv /\ [IncidentNext]_allVars => StageInv'
<1> SUFFICES ASSUME IncidentTypeOK, StageInv, [IncidentNext]_allVars PROVE StageInv'
    OBVIOUS
<1> USE RespondersDistinct DEF IncidentTypeOK, StageInv, Responder, Request, Become,
                               Logged, Log, Stage
<1>1. CASE \E i \in Incidents, d \in Deploys \cup {None} : CreateIncident(i, d)
      BY <1>1 DEF CreateIncident
<1>2. CASE \E q \in Diagnoses, i \in Incidents : Diagnose(q, i)
      BY <1>2 DEF Diagnose
<1>3. CASE \E q \in Responder : Collect(q)
      BY <1>3 DEF Collect
<1>4. CASE \E q \in Responder : Conclude(q)
      BY <1>4 DEF Conclude
<1>5. CASE \E r \in Rollbacks, i \in Incidents : ResolveInPlace(r, i)
      BY <1>5 DEF ResolveInPlace
<1>6. CASE \E r \in Rollbacks, i \in Incidents, w \in Worker : ResolveByRollback(r, w, i)
      BY <1>6 DEF ResolveByRollback
<1>7. CASE \E r \in Rollbacks : RolledBack(r)
      BY <1>7 DEF RolledBack
<1>8. CASE \E r \in Rollbacks : Close(r)
      BY <1>8 DEF Close
<1>9. CASE \E r \in Rollbacks : Remember(r)
      BY <1>9 DEF Remember
<1>10. CASE \E r \in Rollbacks : Recover(r)
      BY <1>10 DEF Recover
<1>11. CASE \E r \in Responder : Lose(r)
      BY <1>11 DEF Lose, Alone, LoseAll
<1>12. CASE \E w \in Worker : CrashWorker(w)
      BY <1>12 DEF CrashWorker, LoseAll
<1>13. CASE UNCHANGED incidentVars
      BY <1>13 DEF incidentVars
<1> QED
    BY <1>1, <1>2, <1>3, <1>4, <1>5, <1>6, <1>7, <1>8, <1>9, <1>10, <1>11, <1>12, <1>13,
       Steps

LEMMA BasicInit == IncidentInit => IncidentTypeOK /\ StageInv /\ IInv
BY StageTypeInit, IInvInit DEF IncidentInit

LEMMA BasicStep ==
  IncidentTypeOK /\ StageInv /\ IInv /\ [IncidentNext]_allVars
    => (IncidentTypeOK /\ StageInv /\ IInv)'
BY IncidentTypeStep, StageStep, DeploymentsStep, IInvStep DEF IInv

LEMMA BasicAlways == IncidentSpec => [](IncidentTypeOK /\ StageInv /\ IInv)
BY BasicInit, BasicStep, PTL DEF IncidentSpec

(* Every variable of the incident service has its type. *)
THEOREM IncidentTypeCorrect == IncidentSpec => []IncidentTypeOK
BY BasicAlways, PTL

(* The composition is an implementation of the deployment service: a
   resolution does to deployments what some rollback request could. *)
THEOREM ImplementsDeployments == IncidentSpec => Spec
<1>1. IncidentInit => Init
      BY DEF IncidentInit
<1> QED
    BY <1>1, DeploymentsStep, BasicAlways, PTL DEF IncidentSpec, Spec

-----------------------------------------------------------------------------
(* What a step does to the history of an incident *)

\* A responder keeps its incident, and ends by announcing it.
LEMMA ResponderStep ==
  ASSUME IncidentTypeOK, StageInv, [IncidentNext]_allVars, NEW p \in Responder
  PROVE  /\ stage[p] # "new" => about'[p] = about[p] /\ stage'[p] # "new"
         /\ stage'[p] = "answered" <=>
              stage[p] = "answered" \/ Conclude(p) \/ (p \in Rollbacks /\ Recover(p))
<1> USE DEF IncidentTypeOK, StageInv, Become, Responder
<1>1. CASE \E i \in Incidents, d \in Deploys \cup {None} : CreateIncident(i, d)
      BY <1>1 DEF CreateIncident, Conclude, Recover
<1>2. CASE \E q \in Diagnoses, i \in Incidents : Diagnose(q, i)
      BY <1>2 DEF Diagnose, Conclude, Recover
<1>3. CASE \E q \in Responder : Collect(q)
      BY <1>3 DEF Collect, Conclude, Recover
<1>4. CASE \E q \in Responder : Conclude(q)
      BY <1>4 DEF Conclude, Recover
<1>5. CASE \E r \in Rollbacks, i \in Incidents : ResolveInPlace(r, i)
      BY <1>5 DEF ResolveInPlace, Conclude, Recover
<1>6. CASE \E r \in Rollbacks, i \in Incidents, w \in Worker : ResolveByRollback(r, w, i)
      BY <1>6 DEF ResolveByRollback, Conclude, Recover
<1>7. CASE \E r \in Rollbacks : RolledBack(r) \/ Close(r) \/ Remember(r)
      BY <1>7 DEF RolledBack, Close, Remember, Conclude, Recover
<1>8. CASE \E r \in Rollbacks : Recover(r)
      BY <1>8 DEF Conclude, Recover
<1>9. CASE \E r \in Responder : Lose(r)
      BY <1>9 DEF Lose, Alone, LoseAll, Conclude, Recover
<1>10. CASE \E w \in Worker : CrashWorker(w)
      BY <1>10 DEF CrashWorker, LoseAll, Conclude, Recover
<1>11. CASE UNCHANGED incidentVars
      BY <1>11 DEF incidentVars, Conclude, Recover
<1> QED
    BY <1>1, <1>2, <1>3, <1>4, <1>5, <1>6, <1>7, <1>8, <1>9, <1>10, <1>11, Steps

LEMMA DiagnosedStep ==
  ASSUME IncidentTypeOK, StageInv, [IncidentNext]_allVars, NEW i \in Incidents
  PROVE  Diagnosed(i)' <=> Diagnosed(i) \/ \E q \in Diagnoses : Conclude(q) /\ about[q] = i
<1>1. StageInv'
      BY StageStep
<1>2. \A q \in Diagnoses : q \in Responder /\ q \notin Rollbacks
      BY RespondersDistinct DEF Responder, Request
<1>3. \A q \in Diagnoses : about'[q] = i /\ stage'[q] = "answered" <=>
        about[q] = i /\ (stage[q] = "answered" \/ Conclude(q))
      BY <1>1, <1>2, ResponderStep DEF StageInv, Conclude
<1> QED
    BY <1>1, <1>3 DEF Diagnosed, StageInv

LEMMA RecoveredStep ==
  ASSUME IncidentTypeOK, StageInv, [IncidentNext]_allVars, NEW i \in Incidents
  PROVE  Recovered(i)' <=> Recovered(i) \/ \E r \in Rollbacks : Recover(r) /\ about[r] = i
<1>1. StageInv'
      BY StageStep
<1>2. \A r \in Rollbacks : r \in Responder /\ ~Conclude(r)
      BY DEF Responder, StageInv, Conclude
<1>3. \A r \in Rollbacks : about'[r] = i /\ stage'[r] = "answered" <=>
        about[r] = i /\ (stage[r] = "answered" \/ Recover(r))
      BY <1>1, <1>2, ResponderStep DEF StageInv, Recover
<1> QED
    BY <1>1, <1>3 DEF Recovered, StageInv

LEMMA StatusWriters ==
  ASSUME IncidentTypeOK, StageInv, [IncidentNext]_allVars, NEW i \in Incidents,
         status'[i] # status[i]
  PROVE  \/ status[i] = "ABSENT" /\ status'[i] = "OPEN"
         \/ \E q \in Diagnoses :
              Conclude(q) /\ about[q] = i /\ status'[i] = "MITIGATING"
         \/ \E r \in Rollbacks :
              Recover(r) /\ about[r] = i /\ status'[i] = "RESOLVED"
<1> USE DEF IncidentTypeOK
<1>1. CASE \E j \in Incidents, d \in Deploys \cup {None} : CreateIncident(j, d)
      BY <1>1 DEF CreateIncident
<1>2. CASE \E q \in Responder : Conclude(q)
      BY <1>2 DEF Conclude, StageInv, Responder
<1>3. CASE \E r \in Rollbacks : Recover(r)
      BY <1>3 DEF Recover, StageInv
<1>4. CASE UNCHANGED status
      BY <1>4
<1> QED
    BY <1>1, <1>2, <1>3, <1>4, Steps
    DEF Diagnose, Collect, ResolveInPlace, ResolveByRollback, RolledBack, Close,
        Remember, Lose, CrashWorker, LoseAll, incidentVars

-----------------------------------------------------------------------------
(* The ledger explains the incident *)

LEMMA KnownStep ==
  ASSUME IncidentTypeOK, StageInv, KnownInv, LedgerExplainsIncident,
         [IncidentNext]_allVars
  PROVE  KnownInv'
<1> SUFFICES ASSUME NEW p \in Responder
             PROVE  /\ stage'[p] = "new" => known'[p] = None
                    /\ known'[p] = "MITIGATING" => Diagnosed(about[p])'
                    /\ known'[p] = "RESOLVED" => Recovered(about[p])'
    BY DEF KnownInv
<1>1. /\ stage'[p] = "new" => stage[p] = "new"
      /\ \/ known'[p] = known[p]
         \/ /\ known'[p] = status[about'[p]] /\ about'[p] \in Incidents
            /\ stage'[p] # "new"
  <2> USE DEF IncidentTypeOK, StageInv, Become, Responder
  <2>1. CASE \E q \in Responder : Collect(q) \/ Conclude(q)
        BY <2>1 DEF Collect, Conclude
  <2>2. CASE \E r \in Rollbacks, i \in Incidents : ResolveInPlace(r, i)
        BY <2>2 DEF ResolveInPlace
  <2>3. CASE \E r \in Rollbacks : RolledBack(r)
        BY <2>3 DEF RolledBack
  <2>4. CASE UNCHANGED known
        BY <2>4, ResponderStep
  <2> QED
      BY <2>1, <2>2, <2>3, <2>4, Steps
      DEF CreateIncident, Diagnose, ResolveByRollback, Close, Remember, Recover, Lose,
          CrashWorker, LoseAll, incidentVars
<1>2. \A i \in Incidents :
        (Diagnosed(i) => Diagnosed(i)') /\ (Recovered(i) => Recovered(i)')
      BY DiagnosedStep, RecoveredStep
<1>3. CASE known'[p] = status[about'[p]] /\ about'[p] \in Incidents /\ stage'[p] # "new"
  <2>1. \A i \in Incidents : /\ status[i] = "MITIGATING" => Diagnosed(i)'
                             /\ status[i] = "RESOLVED" => Recovered(i)'
        BY <1>2 DEF LedgerExplainsIncident
  <2> PICK j \in Incidents : j = about'[p]
      BY <1>3
  <2>2. /\ known'[p] = "MITIGATING" => Diagnosed(j)'
        /\ known'[p] = "RESOLVED" => Recovered(j)'
        BY <1>3, <2>1
  <2> QED
      BY <1>3, <2>2 DEF Diagnosed, Recovered
<1>4. CASE known'[p] = known[p] /\ stage[p] = "new"
      BY <1>4, RespondersDistinct DEF KnownInv, IncidentStatus
<1>5. CASE known'[p] = known[p] /\ stage[p] # "new"
  <2>1. about'[p] = about[p] /\ about[p] \in Incidents
        BY <1>5, ResponderStep DEF StageInv
  <2> QED
      BY <1>1, <1>2, <1>5, <2>1 DEF KnownInv
<1> QED
    BY <1>1, <1>3, <1>4, <1>5

LEMMA ExplainedStep ==
  ASSUME IncidentTypeOK, StageInv, KnownInv, LedgerExplainsIncident,
         [IncidentNext]_allVars
  PROVE  LedgerExplainsIncident'
<1> SUFFICES ASSUME NEW i \in Incidents
             PROVE  /\ status'[i] = "MITIGATING" => Diagnosed(i)'
                    /\ status'[i] = "RESOLVED" => Recovered(i)'
                    /\ Diagnosed(i)' \/ Recovered(i)' => status'[i] \in {"MITIGATING", "RESOLVED"}
                    /\ Recovered(i)' /\ ~Diagnosed(i)' => status'[i] = "RESOLVED"
    BY DEF LedgerExplainsIncident
<1> USE DEF LedgerExplainsIncident
<1>0. /\ Diagnosed(i)' <=> Diagnosed(i) \/ \E q \in Diagnoses : Conclude(q) /\ about[q] = i
      /\ Recovered(i)' <=> Recovered(i) \/ \E r \in Rollbacks : Recover(r) /\ about[r] = i
      BY DiagnosedStep, RecoveredStep
<1>1. CASE \E q \in Diagnoses : Conclude(q) /\ about[q] = i
  <2> PICK q \in Diagnoses : Conclude(q) /\ about[q] = i
      BY <1>1
  <2>1. known[q] = "MITIGATING" => Diagnosed(i)
        BY DEF KnownInv, Responder
  <2>2. IF known[q] = "MITIGATING" THEN status' = status ELSE status'[i] = "MITIGATING"
        BY DEF Conclude, IncidentTypeOK
  <2> QED
      BY <1>0, <2>1, <2>2
<1>2. CASE \E r \in Rollbacks : Recover(r) /\ about[r] = i
  <2> PICK r \in Rollbacks : Recover(r) /\ about[r] = i
      BY <1>2
  <2>1. known[r] = "RESOLVED" => Recovered(i)
        BY DEF KnownInv, Responder
  <2>2. IF known[r] = "RESOLVED" THEN status' = status ELSE status'[i] = "RESOLVED"
        BY DEF Recover, IncidentTypeOK
  <2> QED
      BY <1>0, <2>1, <2>2
<1>3. CASE ~(\E q \in Diagnoses : Conclude(q) /\ about[q] = i)
           /\ ~(\E r \in Rollbacks : Recover(r) /\ about[r] = i)
      BY <1>0, <1>3, StatusWriters
<1> QED
    BY <1>1, <1>2, <1>3

-----------------------------------------------------------------------------
(* One post-mortem *)

LEMMA TicketStep ==
  IncidentTypeOK /\ StageInv /\ TicketInv /\ [IncidentNext]_allVars => TicketInv'
<1> SUFFICES ASSUME IncidentTypeOK, StageInv, TicketInv, [IncidentNext]_allVars PROVE TicketInv'
    OBVIOUS
<1> USE RespondersDistinct DEF IncidentTypeOK, StageInv, TicketInv, Become, Responder, Request
<1>1. CASE \E q \in Responder : Conclude(q) \/ Collect(q)
      BY <1>1 DEF Conclude, Collect
<1>2. CASE \E q \in Diagnoses, i \in Incidents : Diagnose(q, i)
      BY <1>2 DEF Diagnose
<1>3. CASE \E r \in Rollbacks, i \in Incidents : ResolveInPlace(r, i)
      BY <1>3 DEF ResolveInPlace
<1>4. CASE \E r \in Rollbacks, i \in Incidents, w \in Worker : ResolveByRollback(r, w, i)
      BY <1>4 DEF ResolveByRollback
<1>5. CASE \E r \in Rollbacks : RolledBack(r)
      BY <1>5 DEF RolledBack
<1>6. CASE \E r \in Rollbacks : Close(r)
  <2> PICK r \in Rollbacks : Close(r)
      BY <1>6
  <2>1. /\ about[r] \in Incidents /\ ticketLock'[about[r]] = r
        /\ stage'[r] = "remember"
        BY DEF Close
  <2>2. \A s \in Rollbacks : s # r /\ stage'[s] \in {"remember", "recover"} =>
          /\ stage'[s] = stage[s] /\ ticketLock[about[s]] = s /\ s # None
        BY NoneIsNothing DEF Close
  <2>3. \A s \in Rollbacks : s # r /\ stage'[s] \in {"remember", "recover"} =>
          ticketLock'[about[s]] = s
        BY <2>2 DEF Close
  <2> QED
      BY <2>1, <2>2, <2>3 DEF Close
<1>7. CASE \E r \in Rollbacks : Remember(r)
  <2> PICK r \in Rollbacks : Remember(r)
      BY <1>7
  <2>1. \A s \in Rollbacks : stage'[s] \in {"remember", "recover"} =>
          stage[s] \in {"remember", "recover"} /\ ticketLock'[about[s]] = s
        BY DEF Remember
  <2>2. \A s \in Rollbacks : stage'[s] = "recover" =>
          (remembered'[s] <=> postmortems[about[s]] > 0)
        BY DEF Remember
  <2> QED
      BY <2>1, <2>2 DEF Remember
<1>8. CASE \E r \in Rollbacks : Recover(r)
      BY <1>8 DEF Recover
<1>9. CASE \E r \in Responder : Lose(r)
      BY <1>9 DEF Lose, LoseAll
<1>10. CASE \E w \in Worker : CrashWorker(w)
      BY <1>10 DEF CrashWorker, LoseAll
<1>11. CASE \E i \in Incidents, d \in Deploys \cup {None} : CreateIncident(i, d)
      BY <1>11 DEF CreateIncident
<1>12. CASE UNCHANGED incidentVars
      BY <1>12 DEF incidentVars
<1> QED
    BY <1>1, <1>2, <1>3, <1>4, <1>5, <1>6, <1>7, <1>8, <1>9, <1>10, <1>11, <1>12, Steps

LEMMA PostmortemStep ==
  ASSUME IncidentTypeOK, StageInv, TicketInv, OnePostmortem, [IncidentNext]_allVars
  PROVE  OnePostmortem'
<1> SUFFICES ASSUME NEW i \in Incidents
             PROVE  postmortems'[i] = IF Recovered(i)' THEN 1 ELSE 0
    BY DEF OnePostmortem
<1>0. /\ postmortems[i] = IF Recovered(i) THEN 1 ELSE 0
      /\ Recovered(i)' <=> Recovered(i) \/ \E r \in Rollbacks : Recover(r) /\ about[r] = i
      BY RecoveredStep DEF OnePostmortem
<1>1. CASE \E r \in Rollbacks : Recover(r) /\ about[r] = i
  <2> PICK r \in Rollbacks : Recover(r) /\ about[r] = i
      BY <1>1
  <2>1. remembered[r] <=> postmortems[i] > 0
        BY DEF Recover, TicketInv
  <2>2. postmortems'[i] = IF remembered[r] THEN postmortems[i] ELSE postmortems[i] + 1
        BY DEF Recover, IncidentTypeOK
  <2> QED
      BY <1>0, <1>1, <2>1, <2>2
<1>2. CASE ~\E r \in Rollbacks : Recover(r) /\ about[r] = i
  <2>1. postmortems'[i] = postmortems[i]
    <3>1. CASE \E r \in Rollbacks : Recover(r)
          BY <1>2, <3>1 DEF Recover, IncidentTypeOK
    <3>2. CASE UNCHANGED postmortems
          BY <3>2
    <3> QED
        BY <3>1, <3>2, Steps
        DEF CreateIncident, Diagnose, Collect, Conclude, ResolveInPlace, ResolveByRollback,
            RolledBack, Close, Remember, Lose, CrashWorker, LoseAll, incidentVars
  <2> QED
      BY <1>0, <1>2, <2>1
<1> QED
    BY <1>1, <1>2

LEMMA IncidentInvInit == IncidentInit => IncidentInv
<1> SUFFICES ASSUME IncidentInit PROVE IncidentInv
    OBVIOUS
<1>1. \A i \in Incidents : ~Diagnosed(i) /\ ~Recovered(i)
      BY DEF IncidentInit, Diagnosed, Recovered, Logged
<1> QED
    BY <1>1, StageTypeInit, RespondersDistinct
    DEF IncidentInv, IncidentInit, TicketInv, OnePostmortem, KnownInv,
        LedgerExplainsIncident, Responder, IncidentStatus

LEMMA IncidentInvAlways == IncidentSpec => []IncidentInv
<1>1. IncidentInv /\ (IncidentTypeOK /\ StageInv)' /\ [IncidentNext]_allVars => IncidentInv'
      BY TicketStep, PostmortemStep, KnownStep, ExplainedStep DEF IncidentInv
<1> QED
    BY <1>1, IncidentInvInit, BasicAlways, PTL DEF IncidentSpec

(* The incident's status and the ledger tell the same story. *)
THEOREM IncidentLedgerCorrect == IncidentSpec => []LedgerExplainsIncident
<1>1. IncidentInv => LedgerExplainsIncident
      BY DEF IncidentInv
<1> QED
    BY <1>1, IncidentInvAlways, PTL

(* A recovered incident has exactly one post-mortem. *)
THEOREM PostmortemUnique == IncidentSpec => []OnePostmortem
<1>1. IncidentInv => OnePostmortem
      BY DEF IncidentInv
<1> QED
    BY <1>1, IncidentInvAlways, PTL

-----------------------------------------------------------------------------
(* Recovery by rollback *)

LEMMA ReplyStep ==
  ASSUME TypeOK, ArrivedInv, [Next]_vars, NEW q \in Rollbacks
  PROVE  /\ Emitted("ROLLBACK_COMPLETED", q)'
              => Emitted("ROLLBACK_COMPLETED", q) \/ MarkRolledBack(q)
         /\ pc'[q] \in {"reply", "done"} => pc[q] \in {"reply", "done"} \/ MarkRolledBack(q)
         /\ pc[q] # "new" => pc'[q] # "new"
<1> USE RequestsDistinct
    DEF TypeOK, ArrivedInv, Request, Goto, Emit, Emitted, deployVars, rollbackVars
<1>1. CASE \E g \in Gates : DecideGate(g)
      BY <1>1 DEF DecideGate
<1>2. CASE \E w \in Worker, r \in Deploys, g \in Gates \cup {None} : ReadGate(r, w, g)
      BY <1>2 DEF ReadGate
<1>3. CASE \E w \in Worker, r \in Rollbacks, e \in Deploys : LoadCurrent(r, w, e)
      BY <1>3 DEF LoadCurrent
<1>4. CASE \E r \in Deploys : DeployStep(r)
      BY <1>4
      DEF DeployStep, HaltAtGate, StartDeployment, UnknownGate, DispatchDeploy,
          RefuseRequest, DeploySucceeds, DeployFails, FinishDeploy
<1>5. CASE \E r \in Rollbacks : RollbackStep(r)
      BY <1>5
      DEF RollbackStep, ExplicitTarget, DefaultTarget, CallRollback, RollbackAnswered,
          RollbackRaises, MarkRollingBack, MarkRolledBack
<1>6. CASE \E r \in Request : Return(r)
      BY <1>6 DEF Return
<1>7. CASE \E w \in Worker : Crash(w)
      BY <1>7 DEF Crash
<1>8. CASE UNCHANGED vars
      BY <1>8 DEF vars
<1> QED
    BY <1>1, <1>2, <1>3, <1>4, <1>5, <1>6, <1>7, <1>8 DEF Next, Arrival

LEMMA DownStep == IInv /\ SoloInv /\ DownInv /\ [Next]_vars => DownInv'
<1> SUFFICES ASSUME IInv, SoloInv, DownInv, [Next]_vars, NEW q \in Rollbacks,
                    Emitted("ROLLBACK_COMPLETED", q)'
             PROVE  /\ pc'[q] # "new"
                    /\ SameLoop(subject[q])'
                         => state'[subject'[q]] \in {"ROLLING_BACK", "ROLLED_BACK"}
    BY DEF DownInv
<1>1. Emitted("ROLLBACK_COMPLETED", q) \/ MarkRolledBack(q)
      BY ReplyStep DEF IInv
<1>2. pc[q] # "new" /\ (MarkRolledBack(q) => pc[q] = "finish")
      BY <1>1 DEF DownInv, MarkRolledBack
<1>3. subject[q] \in Deploys /\ subject'[q] = subject[q]
      BY <1>2, Monotone, NoneIsNothing, RequestsDistinct DEF IInv, ArrivedInv, Request
<1> DEFINE d == subject[q]
<1>4. SameLoop(subject[q])' => SameLoop(d)
  <2>1. \A e \in Deploys : SameLoop(e)' => SameLoop(e)
        BY SameLoopBefore
  <2> QED
      BY <1>3, <2>1 DEF SameLoop
<1>5. SameLoop(d) => state[d] \in {"ROLLING_BACK", "ROLLED_BACK"}
      BY <1>1, <1>2, <1>3 DEF DownInv, SoloInv
<1>6. SameLoop(d) => state'[d] \in {"ROLLING_BACK", "ROLLED_BACK"}
      BY <1>3, <1>5, RolledBackStays
<1> QED
    BY <1>2, <1>3, <1>4, <1>6, ReplyStep DEF IInv

\* A request that rolls back for an incident starts with that.
LEMMA RemedyStarts ==
  ASSUME IncidentTypeOK, StageInv, IInv, [IncidentNext]_allVars, NEW r \in Rollbacks,
         pc'[r] # "new", stage'[r] # "new", pc[r] = "new" \/ stage[r] = "new"
  PROVE  stage'[r] = "rollback" /\ subject'[r] = suspect'[about'[r]]
<1> USE RespondersDistinct
    DEF IncidentTypeOK, TypeOK, StageInv, Become, Responder, Request, vars
<1>1. CASE \E q \in Responder : Conclude(q) \/ Collect(q)
      BY <1>1 DEF Conclude, Collect
<1>2. CASE \E q \in Diagnoses, i \in Incidents : Diagnose(q, i)
      BY <1>2 DEF Diagnose
<1>3. CASE \E p \in Rollbacks, i \in Incidents : ResolveInPlace(p, i)
      BY <1>3 DEF ResolveInPlace
<1>4. CASE \E p \in Rollbacks, i \in Incidents, w \in Worker : ResolveByRollback(p, w, i)
  <2> PICK p \in Rollbacks, i \in Incidents, w \in Worker : ResolveByRollback(p, w, i)
      BY <1>4
  <2>1. r = p
        BY DEF ResolveByRollback, LoadCurrent, Goto
  <2>2. stage'[r] = "rollback" /\ about'[r] = i
        BY <2>1 DEF ResolveByRollback
  <2>3. subject'[r] = suspect'[i]
        BY <2>1 DEF ResolveByRollback, LoadCurrent
  <2> QED
      BY <2>2, <2>3
<1>5. CASE \E p \in Rollbacks : RolledBack(p)
      BY <1>5 DEF RolledBack
<1>6. CASE \E p \in Rollbacks : Close(p) \/ Remember(p) \/ Recover(p)
      BY <1>6 DEF Close, Remember, Recover
<1>7. CASE \E p \in Responder : Lose(p)
      BY <1>7 DEF Lose, Alone, LoseAll
<1>8. CASE \E w \in Worker : CrashWorker(w)
  <2> PICK w \in Worker : CrashWorker(w)
      BY <1>8
  <2>1. stage[r] # "new"
        BY DEF CrashWorker, LoseAll
  <2>2. pc[r] = "new" => home[r] = None
        BY DEF IInv, ArrivedInv
  <2>3. pc[r] # "new"
        BY <2>2, NoneIsNothing DEF CrashWorker, Crash
  <2> QED
      BY <2>1, <2>3
<1>9. CASE \E i \in Incidents, d \in Deploys \cup {None} : CreateIncident(i, d)
      BY <1>9 DEF CreateIncident
<1>10. CASE UNCHANGED incidentVars /\ (DeploymentsNext \/ UNCHANGED vars)
  <2>1. stage[r] # "new" /\ pc[r] = "new"
        BY <1>10 DEF incidentVars
  <2>2. CASE DeploymentsNext
    <3> USE RequestsDistinct DEF Goto
    <3>1. CASE \E w \in Worker, p \in Rollbacks, d \in Deploys :
                 stage[p] = "new" /\ LoadCurrent(p, w, d)
          BY <2>1, <3>1 DEF LoadCurrent
    <3>2. CASE \E w \in Worker, p \in Deploys, g \in Gates \cup {None} : ReadGate(p, w, g)
          BY <2>1, <3>2 DEF ReadGate
    <3>3. CASE \E p \in Deploys : DeployStep(p)
          BY <2>1, <3>3
          DEF DeployStep, HaltAtGate, StartDeployment, UnknownGate, DispatchDeploy,
              RefuseRequest, DeploySucceeds, DeployFails, FinishDeploy
    <3>4. CASE \E p \in Rollbacks : RollbackStep(p)
          BY <2>1, <3>4
          DEF RollbackStep, ExplicitTarget, DefaultTarget, CallRollback,
              RollbackAnswered, RollbackRaises, MarkRollingBack, MarkRolledBack
    <3>5. CASE \E p \in Request : Return(p)
          BY <2>1, <3>5 DEF Return
    <3>6. CASE \E g \in Gates : DecideGate(g)
          BY <2>1, <3>6 DEF DecideGate
    <3> QED
        BY <2>2, <3>1, <3>2, <3>3, <3>4, <3>5, <3>6 DEF DeploymentsNext, GuidedRollbackStep
  <2> QED
      BY <1>10, <2>1, <2>2
<1> QED
    BY <1>1, <1>2, <1>3, <1>4, <1>5, <1>6, <1>7, <1>8, <1>9, <1>10, Steps

\* A resolution that went through a rollback goes on when that replied.
LEMMA RemedyGoesOn ==
  ASSUME IncidentTypeOK, StageInv, [IncidentNext]_allVars, NEW r \in Rollbacks,
         stage'[r] \in {"close", "remember", "recover", "answered"}, stage[r] # "new"
  PROVE  stage[r] \in {"close", "remember", "recover", "answered"} \/ RolledBack(r)
<1> USE RespondersDistinct DEF IncidentTypeOK, StageInv, Become, Responder, Request
<1>1. CASE \E q \in Responder : Conclude(q) \/ Collect(q)
      BY <1>1 DEF Conclude, Collect
<1>2. CASE \E q \in Diagnoses, i \in Incidents : Diagnose(q, i)
      BY <1>2 DEF Diagnose
<1>3. CASE \E p \in Rollbacks, i \in Incidents : ResolveInPlace(p, i)
      BY <1>3 DEF ResolveInPlace
<1>4. CASE \E p \in Rollbacks, i \in Incidents, w \in Worker : ResolveByRollback(p, w, i)
      BY <1>4 DEF ResolveByRollback
<1>5. CASE \E p \in Rollbacks : RolledBack(p)
      BY <1>5 DEF RolledBack
<1>6. CASE \E p \in Rollbacks : Close(p) \/ Remember(p) \/ Recover(p)
      BY <1>6 DEF Close, Remember, Recover
<1>7. CASE \E p \in Responder : Lose(p)
      BY <1>7 DEF Lose, LoseAll
<1>8. CASE \E w \in Worker : CrashWorker(w)
      BY <1>8 DEF CrashWorker, LoseAll
<1>9. CASE \E i \in Incidents, d \in Deploys \cup {None} : CreateIncident(i, d)
      BY <1>9 DEF CreateIncident
<1>10. CASE UNCHANGED incidentVars
      BY <1>10 DEF incidentVars
<1> QED
    BY <1>1, <1>2, <1>3, <1>4, <1>5, <1>6, <1>7, <1>8, <1>9, <1>10, Steps

LEMMA RemedyStep ==
  IncidentTypeOK /\ StageInv /\ IInv /\ RemedyInv /\ [IncidentNext]_allVars => RemedyInv'
<1> SUFFICES ASSUME IncidentTypeOK, StageInv, IInv, RemedyInv, [IncidentNext]_allVars,
                    NEW r \in Rollbacks
             PROVE  /\ pc'[r] \in {"reply", "done"} => Emitted("ROLLBACK_COMPLETED", r)'
                    /\ pc'[r] # "new" /\ stage'[r] \in {"close", "remember", "recover", "answered"}
                         => Emitted("ROLLBACK_COMPLETED", r)'
                    /\ pc'[r] # "new" /\ stage'[r] # "new" => subject'[r] = suspect'[about'[r]]
    BY DEF RemedyInv
<1>0. TypeOK /\ ArrivedInv /\ [Next]_vars
      BY DeploymentsStep DEF IInv
<1>1. Emitted("ROLLBACK_COMPLETED", r) => Emitted("ROLLBACK_COMPLETED", r)'
      BY <1>0, Monotone DEF Emitted
<1>2. pc'[r] \in {"reply", "done"} => Emitted("ROLLBACK_COMPLETED", r)'
      BY <1>0, <1>1, ReplyStep DEF RemedyInv, MarkRolledBack, Emit, Emitted
<1>3. pc'[r] # "new" /\ stage'[r] \in {"close", "remember", "recover", "answered"}
        => Emitted("ROLLBACK_COMPLETED", r)'
      BY <1>1, RemedyStarts, RemedyGoesOn DEF RemedyInv, RolledBack
<1>4. ASSUME pc'[r] # "new", stage'[r] # "new"
      PROVE  subject'[r] = suspect'[about'[r]]
  <2>1. about'[r] \in Incidents /\ (stage[r] # "new" => about'[r] = about[r])
        BY <1>4, StageStep, ResponderStep DEF StageInv, Responder
  <2>2. \A i \in Incidents : status[i] # "ABSENT" => suspect'[i] = suspect[i]
        BY Steps DEF IncidentTypeOK, CreateIncident, Diagnose, Collect, Conclude,
                     ResolveInPlace, ResolveByRollback, RolledBack, Close, Remember,
                     Recover, Lose, CrashWorker, LoseAll, incidentVars
  <2>3. CASE pc[r] = "new" \/ stage[r] = "new"
        BY <1>4, <2>3, RemedyStarts
  <2>4. CASE pc[r] # "new" /\ stage[r] # "new"
    <3>1. subject[r] \in Deploys
          BY <2>4 DEF IInv, ArrivedInv
    <3>2. subject'[r] = subject[r]
          BY <1>0, <3>1, Monotone, NoneIsNothing DEF Request
    <3>3. about[r] \in Incidents /\ status[about[r]] # "ABSENT"
          BY <2>4 DEF StageInv, Responder
    <3> QED
        BY <2>1, <2>2, <2>4, <3>2, <3>3 DEF RemedyInv
  <2> QED
      BY <2>3, <2>4
<1> QED
    BY <1>2, <1>3, <1>4

LEMMA DownAlways == Spec => []DownInv
<1>1. Init => DownInv
      BY DEF Init, DownInv, Emitted
<1>2. Spec => []SoloInv
      BY SoloInit, SoloStep, IInvAlways, PTL DEF Spec
<1> QED
    BY <1>1, <1>2, DownStep, IInvAlways, PTL DEF Spec

(* A recovery by rollback is announced only after the request's own rollback
   completed, of the incident's deployment, and on one event loop that stays
   taken down. *)
THEOREM RecoveryCorrect == IncidentSpec => []RecoveryFollowsRollback
<1>1. IncidentInit => RemedyInv
      BY DEF IncidentInit, Init, RemedyInv, Request, Responder
<1>2. IncidentSpec => []RemedyInv
      BY <1>1, RemedyStep, BasicAlways, PTL DEF IncidentSpec
<1>3. StageInv /\ RemedyInv /\ DownInv => RecoveryFollowsRollback
      BY DEF StageInv, RemedyInv, DownInv, RecoveryFollowsRollback, ByRollback
<1> QED
    BY <1>2, <1>3, BasicAlways, DownAlways, ImplementsDeployments, PTL

-----------------------------------------------------------------------------
(* What reopens an incident *)

\* Whoever diagnoses a recovered incident is through.
DiagnosedInTime ==
  \A i \in Incidents, q \in Diagnoses :
    Recovered(i) /\ about[q] = i => stage[q] \in {"answered", "lost"}

(* RECOVERY_COMPLETED does not always close an incident; what reopens one is
   a diagnosis that comes too late, and nothing else: not a second resolution,
   a status read before, a request that is lost or a worker that crashes. *)
THEOREM OnlyLateDiagnosesReopen ==
  IncidentSpec /\ []DiagnosedInTime => RecoveryCloses
<1> DEFINE Closes == \A i \in Incidents : Recovered(i) /\ status[i] = "RESOLVED" => status'[i] = "RESOLVED"
<1>1. IncidentTypeOK /\ StageInv /\ DiagnosedInTime /\ [IncidentNext]_allVars => Closes
  <2> SUFFICES ASSUME IncidentTypeOK, StageInv, DiagnosedInTime, [IncidentNext]_allVars,
                      NEW i \in Incidents, Recovered(i), status[i] = "RESOLVED", status'[i] # "RESOLVED"
               PROVE  FALSE
      OBVIOUS
  <2>1. PICK q \in Diagnoses : Conclude(q) /\ about[q] = i
        BY StatusWriters
  <2> QED
      BY <2>1 DEF Conclude, DiagnosedInTime
<1> QED
    BY <1>1, BasicAlways, PTL DEF IncidentSpec, RecoveryCloses

-----------------------------------------------------------------------------
(* Waiting *)

Responding == {"collect", "conclude", "close", "remember", "recover"}

\* The next step of r can be taken: nobody has the incident's row, and a
\* resolution that went through a rollback still has its loop.
CanRespond(r) ==
  CASE stage[r] = "conclude" -> known[r] # "MITIGATING" => ticketLock[about[r]] = None
    [] stage[r] = "close"    -> HasLoop(r) /\ ticketLock[about[r]] = None
    [] stage[r] = "collect"  -> TRUE
    [] OTHER                 -> HasLoop(r)

IncidentWaitsEnd ==
  \A r \in Responder : stage[r] \in Responding =>
    \/ CanRespond(r)
    \/ \E q \in Rollbacks : ticketLock[about[r]] = q /\ stage[q] \in {"remember", "recover"} /\ CanRespond(q)

\* The incident's row is held by a resolution on its way to its commit.
HolderInv ==
  \A i \in Incidents : ticketLock[i] # None =>
    stage[ticketLock[i]] \in {"remember", "recover"} /\ about[ticketLock[i]] = i

LEMMA HolderStep ==
  ASSUME IncidentTypeOK, StageInv, HolderInv, [IncidentNext]_allVars
  PROVE  HolderInv'
<1> USE RespondersDistinct
    DEF IncidentTypeOK, StageInv, HolderInv, Become, Responder, Request
<1>0. None \notin Responder
      BY NoneIsNothing
<1>1. CASE \E i \in Incidents, d \in Deploys \cup {None} : CreateIncident(i, d)
      BY <1>1 DEF CreateIncident
<1>2. CASE \E q \in Diagnoses, i \in Incidents : Diagnose(q, i)
      BY <1>2 DEF Diagnose
<1>3. CASE \E q \in Responder : Collect(q)
      BY <1>3 DEF Collect
<1>4. CASE \E q \in Responder : Conclude(q)
      BY <1>4 DEF Conclude
<1>5. CASE \E r \in Rollbacks, i \in Incidents : ResolveInPlace(r, i)
      BY <1>5 DEF ResolveInPlace
<1>6. CASE \E r \in Rollbacks, i \in Incidents, w \in Worker : ResolveByRollback(r, w, i)
      BY <1>6 DEF ResolveByRollback
<1>7. CASE \E r \in Rollbacks : RolledBack(r) \/ Remember(r)
      BY <1>7 DEF RolledBack, Remember
<1>8. CASE \E r \in Rollbacks : Close(r)
      BY <1>8 DEF Close
<1>9. CASE \E r \in Rollbacks : Recover(r)
      BY <1>9 DEF Recover
<1>10. CASE \E r \in Responder : Lose(r)
      BY <1>10 DEF Lose, LoseAll
<1>11. CASE \E w \in Worker : CrashWorker(w)
      BY <1>11 DEF CrashWorker, LoseAll
<1>12. CASE UNCHANGED incidentVars
      BY <1>12 DEF incidentVars
<1> QED
    BY <1>1, <1>2, <1>3, <1>4, <1>5, <1>6, <1>7, <1>8, <1>9, <1>10, <1>11, <1>12, Steps

(* Who waits for an incident's row waits for a resolution that can go on, with
   its rollback's loop if it has one: the row locks of deployments and of
   incidents close no circle. *)
THEOREM IncidentWaitingEnds == IncidentSpec => []IncidentWaitsEnd
<1>1. IncidentInit => HolderInv
      BY DEF IncidentInit, HolderInv
<1>2. IncidentSpec => []HolderInv
      BY <1>1, HolderStep, BasicAlways, PTL DEF IncidentSpec
<1>3. IncidentTypeOK /\ StageInv /\ IInv /\ HolderInv => IncidentWaitsEnd
  <2> SUFFICES ASSUME IncidentTypeOK, StageInv, IInv, HolderInv,
                      NEW r \in Responder, stage[r] \in Responding
               PROVE  \/ CanRespond(r)
                      \/ \E q \in Rollbacks : /\ ticketLock[about[r]] = q
                                             /\ stage[q] \in {"remember", "recover"} /\ CanRespond(q)
      BY DEF IncidentWaitsEnd
  <2>1. \A q \in Rollbacks : HasLoop(q)
        BY DEF HasLoop, IInv, LoopsInv, Live, Pc, Answered, Request
  <2>2. stage[r] \in {"close", "remember", "recover"} => r \in Rollbacks
        BY DEF StageInv, Responder
  <2>3. CASE ticketLock[about[r]] = None
        BY <2>1, <2>2, <2>3 DEF CanRespond, Responding
  <2>4. CASE ticketLock[about[r]] # None
    <3>1. about[r] \in Incidents
          BY DEF StageInv, Responding
    <3>2. PICK q \in Rollbacks : ticketLock[about[r]] = q
          BY <2>4, <3>1 DEF IncidentTypeOK
    <3>3. stage[q] \in {"remember", "recover"} /\ CanRespond(q)
          BY <2>1, <2>4, <3>1, <3>2 DEF HolderInv, CanRespond
    <3> QED
        BY <3>2, <3>3
  <2> QED
      BY <2>3, <2>4
<1> QED
    BY <1>2, <1>3, BasicAlways, PTL

\* How far a responder is from its end.
StageLeft(label) ==
  CASE label = "new"                     -> 5
    [] label \in {"collect", "rollback"} -> 4
    [] label \in {"conclude", "close"}   -> 3
    [] label = "remember"                -> 2
    [] label = "recover"                 -> 1
    [] OTHER                             -> 0

RespondersAdvance ==
  [][\A r \in Responder : stage'[r] = stage[r] \/ StageLeft(stage'[r]) < StageLeft(stage[r])]_allVars

(* A diagnosis or a resolution has at most five stages, and never goes back to
   an earlier one; the rollback within takes seven steps at most. *)
THEOREM ResponsesAreShort == IncidentSpec => RespondersAdvance /\ HandlersAdvance
<1> DEFINE Advance == \A r \in Responder : stage'[r] = stage[r] \/ StageLeft(stage'[r]) < StageLeft(stage[r])
<1>1. ASSUME IncidentTypeOK, StageInv, [IncidentNext]_allVars PROVE Advance
  <2> USE <1>1 DEF IncidentTypeOK
  <2>0. /\ StageLeft("new") = 5 /\ StageLeft("collect") = 4 /\ StageLeft("rollback") = 4
        /\ StageLeft("conclude") = 3 /\ StageLeft("close") = 3 /\ StageLeft("remember") = 2
        /\ StageLeft("recover") = 1 /\ StageLeft("answered") = 0 /\ StageLeft("lost") = 0
        BY DEF StageLeft
  <2>1. ASSUME NEW r \in Responder, NEW to, Become(r, to), StageLeft(to) < StageLeft(stage[r])
        PROVE  Advance
        BY <2>1 DEF Become
  <2> DEFINE r0 == Rollbacks \subseteq Responder /\ Diagnoses \subseteq Responder
  <2>2. r0
        BY DEF Responder
  <2>3. CASE UNCHANGED stage
        BY <2>3
  <2>4. CASE \E q \in Diagnoses, i \in Incidents : Diagnose(q, i)
        BY <2>0, <2>1, <2>2, <2>4 DEF Diagnose
  <2>5. CASE \E q \in Responder : Collect(q) \/ Conclude(q)
        BY <2>0, <2>1, <2>5 DEF Collect, Conclude
  <2>6. CASE \E r \in Rollbacks, i \in Incidents : ResolveInPlace(r, i)
        BY <2>0, <2>1, <2>2, <2>6 DEF ResolveInPlace
  <2>7. CASE \E r \in Rollbacks, i \in Incidents, w \in Worker : ResolveByRollback(r, w, i)
        BY <2>0, <2>1, <2>2, <2>7 DEF ResolveByRollback
  <2>8. CASE \E r \in Rollbacks : RolledBack(r) \/ Close(r) \/ Remember(r) \/ Recover(r)
        BY <2>0, <2>1, <2>2, <2>8 DEF RolledBack, Close, Remember, Recover
  <2>9. ASSUME NEW lost, LoseAll(lost), \A r \in lost : stage[r] \notin {"new", "answered"}
        PROVE  Advance
    <3>1. \A r \in Responder : stage[r] \in Stage \ {"answered", "lost"} => StageLeft("lost") < StageLeft(stage[r])
          BY <2>0 DEF Stage
    <3> QED
        BY <2>9, <3>1 DEF LoseAll
  <2>10. CASE (\E r \in Responder : Lose(r)) \/ \E w \in Worker : CrashWorker(w)
        BY <2>9, <2>10 DEF Lose, Alone, CrashWorker
  <2> QED
      BY <2>3, <2>4, <2>5, <2>6, <2>7, <2>8, <2>10, Steps DEF CreateIncident, incidentVars
<1>2. IncidentTypeOK /\ StageInv /\ [IncidentNext]_allVars => [Advance]_allVars
      BY <1>1
<1> QED
    BY <1>2, BasicAlways, ImplementsDeployments, RequestsAreShort, PTL DEF IncidentSpec, RespondersAdvance
=============================================================================
