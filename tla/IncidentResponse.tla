-------------------------- MODULE IncidentResponse --------------------------
(***************************************************************************)
(* Incident response (backend/app/services/incident_service.py) on top of  *)
(* the deployment service: incidents are declared, diagnosed and resolved  *)
(* by concurrent requests, and a resolution may roll the incident's        *)
(* deployment back, within its own request.                                *)
(*                                                                         *)
(* A request of Rollbacks is now a call of the rollback endpoint or of the *)
(* resolve endpoint.  The rollback within a resolution is the rollback of  *)
(* Deployments, and the rest of the resolution continues where that stands *)
(* to reply.  Requests that touch no provider never suspend and are short, *)
(* so it does not matter whose loop they hold: each runs as if in a worker *)
(* of its own.                                                             *)
(***************************************************************************)
EXTENDS Deployments

CONSTANTS
  Incidents,
  Diagnoses    \* requests that diagnose an incident

Responder == Diagnoses \cup Rollbacks


VARIABLES
  status,       \* committed incidents.status, "ABSENT" before the row is committed
  suspect,      \* incidents.deployment_id
  ticketLock,   \* the request whose open transaction has updated the incident
  postmortems,  \* how many memories have the incident's key
  log,          \* incident events in the ledger
  stage,        \* where each responder's handler stands
  about,        \* the incident a responder is about
  known,        \* the incident's status as loaded in the responder's session
  remembered    \* whether a resolution found the incident's memory

incidentVars == <<status, suspect, ticketLock, postmortems, log, stage, about,
                  known, remembered>>
allVars == <<vars, incidentVars>>

-----------------------------------------------------------------------------
IncidentStatus == {"OPEN", "INVESTIGATING", "MITIGATING", "RESOLVED", "CLOSED"}
IncidentEvent  == {"INCIDENT_CREATED", "DIAGNOSIS_STARTED",
                   "DIAGNOSIS_COMPLETED", "RECOVERY_COMPLETED"}

ASSUME RespondersDistinct ==
  /\ Diagnoses \cap Request = {}
  /\ None \notin Incidents \cup Diagnoses \cup IncidentStatus

Stage == {"new", "collect", "conclude", "rollback", "close", "remember",
          "recover", "answered", "lost"}

\* Declaring an incident has no request of its own: its trace is the incident.
Logged(type, r) == [type |-> type, trace |-> r] \in log
Log(type, r)    == log' = log \cup {[type |-> type, trace |-> r]}
Become(r, s)    == stage' = [stage EXCEPT ![r] = s]

\* The resolution goes through a rollback: it runs on a worker's loop.
ByRollback(r) == pc[r] # "new"
HasLoop(r)    == pc[r] = "reply" => Running(r)

IncidentInit ==
  /\ Init
  /\ status      = [i \in Incidents |-> "ABSENT"]
  /\ suspect     = [i \in Incidents |-> None]
  /\ ticketLock  = [i \in Incidents |-> None]
  /\ postmortems = [i \in Incidents |-> 0]
  /\ log         = {}
  /\ stage       = [r \in Responder |-> "new"]
  /\ about       = [r \in Responder |-> None]
  /\ known       = [r \in Responder |-> None]
  /\ remembered  = [r \in Rollbacks |-> FALSE]

-----------------------------------------------------------------------------
(* create_incident *)

\* The row and its event are one transaction; its deployment, if any, must
\* exist, and nothing asks in what state it is.
CreateIncident(i, d) ==
  /\ status[i] = "ABSENT"
  /\ d # None => state[d] # "ABSENT"
  /\ status'  = [status EXCEPT ![i] = "OPEN"]
  /\ suspect' = [suspect EXCEPT ![i] = d]
  /\ Log("INCIDENT_CREATED", i)
  /\ UNCHANGED <<ticketLock, postmortems, stage, about, known, remembered>>
  /\ UNCHANGED vars

-----------------------------------------------------------------------------
(* diagnose_incident *)

\* MUTANT: the incident is marked when the diagnosis starts.
DiagnoseMarking(q, i) ==
  /\ stage[q] = "new" /\ status[i] # "ABSENT"
  /\ about' = [about EXCEPT ![q] = i]
  /\ status' = [status EXCEPT ![i] = "MITIGATING"]
  /\ Log("DIAGNOSIS_STARTED", q)
  /\ Become(q, "collect")
  /\ UNCHANGED <<suspect, ticketLock, postmortems, known, remembered>>
  /\ UNCHANGED vars

\* Any incident may be diagnosed, whatever its status.
Diagnose(q, i) ==
  /\ stage[q] = "new" /\ status[i] # "ABSENT"
  /\ about' = [about EXCEPT ![q] = i]
  /\ Log("DIAGNOSIS_STARTED", q)
  /\ Become(q, "collect")
  /\ UNCHANGED <<status, suspect, ticketLock, postmortems, known, remembered>>
  /\ UNCHANGED vars

\* The commit expired the incident: it is read again with the logs.
Collect(q) ==
  /\ stage[q] = "collect"
  /\ known' = [known EXCEPT ![q] = status[about[q]]]
  /\ Become(q, "conclude")
  /\ UNCHANGED <<status, suspect, ticketLock, postmortems, log, about, remembered>>
  /\ UNCHANGED vars

\* MUTANT: a diagnosis leaves a status that no enumeration has.
ConcludeDiagnosed(q) ==
  /\ stage[q] = "conclude"
  /\ status' = [status EXCEPT ![about[q]] = "DIAGNOSED"]
  /\ Log("DIAGNOSIS_COMPLETED", q)
  /\ Become(q, "answered")
  /\ UNCHANGED <<suspect, ticketLock, postmortems, about, known, remembered>>
  /\ UNCHANGED vars

\* The diagnosis run and MITIGATING are committed with the event.  An UPDATE
\* waits for the row and writes the status only if it was loaded as another
\* (for the same status, the wait of an UPDATE of the other columns is left out).
Conclude(q) ==
  /\ stage[q] = "conclude"
  /\ known[q] # "MITIGATING" => ticketLock[about[q]] = None
  /\ status' = IF known[q] = "MITIGATING" THEN status
               ELSE [status EXCEPT ![about[q]] = "MITIGATING"]
  /\ Log("DIAGNOSIS_COMPLETED", q)
  /\ Become(q, "answered")
  /\ UNCHANGED <<suspect, ticketLock, postmortems, about, known, remembered>>
  /\ UNCHANGED vars

-----------------------------------------------------------------------------
(* remediate_and_resolve *)

\* The request asks for another remedy than a rollback, or the incident names
\* no deployment.
ResolveInPlace(r, i) ==
  /\ stage[r] = "new" /\ pc[r] = "new" /\ status[i] # "ABSENT"
  /\ about' = [about EXCEPT ![r] = i]
  /\ known' = [known EXCEPT ![r] = status[i]]
  /\ Become(r, "close")
  /\ UNCHANGED <<status, suspect, ticketLock, postmortems, log, remembered>>
  /\ UNCHANGED vars

\* The incident's deployment is rolled back, to the default target.
ResolveByRollback(r, w, i) ==
  /\ stage[r] = "new" /\ status[i] # "ABSENT" /\ suspect[i] # None
  /\ about' = [about EXCEPT ![r] = i]
  /\ Become(r, "rollback")
  /\ LoadCurrent(r, w, suspect[i])
  /\ UNCHANGED <<status, suspect, ticketLock, postmortems, log, known, remembered>>

\* MUTANT: a rollback that raised does not stop the resolution.
RolledBackOrNot(r) ==
  /\ stage[r] = "rollback"
  /\ pc[r] = "error" \/ (pc[r] = "reply" /\ Running(r))
  /\ known' = [known EXCEPT ![r] = status[about[r]]]
  /\ Become(r, "close")
  /\ UNCHANGED <<status, suspect, ticketLock, postmortems, log, about, remembered>>
  /\ UNCHANGED vars

\* The rollback returned; its commits expired the incident, which is read again.
\* A rollback that raises ends the request, and the incident stays as it is.
RolledBack(r) ==
  /\ stage[r] = "rollback" /\ pc[r] = "reply" /\ Running(r)
  /\ known' = [known EXCEPT ![r] = status[about[r]]]
  /\ Become(r, "close")
  /\ UNCHANGED <<status, suspect, ticketLock, postmortems, log, about, remembered>>
  /\ UNCHANGED vars

\* MUTANT: the memory is looked up before the incident is updated.
CloseUnlocked(r) ==
  /\ stage[r] = "close" /\ HasLoop(r)
  /\ Become(r, "remember")
  /\ UNCHANGED <<status, suspect, ticketLock, postmortems, log, about, known, remembered>>
  /\ UNCHANGED vars

\* RESOLVED is flushed: resolved_at is always written, so the row is locked.
Close(r) ==
  /\ stage[r] = "close" /\ HasLoop(r)
  /\ ticketLock[about[r]] = None
  /\ ticketLock' = [ticketLock EXCEPT ![about[r]] = r]
  /\ Become(r, "remember")
  /\ UNCHANGED <<status, suspect, postmortems, log, about, known, remembered>>
  /\ UNCHANGED vars

\* MemoryRepository.store looks the key up; no constraint makes it unique.
Remember(r) ==
  /\ stage[r] = "remember" /\ HasLoop(r)
  /\ remembered' = [remembered EXCEPT ![r] = postmortems[about[r]] > 0]
  /\ Become(r, "recover")
  /\ UNCHANGED <<status, suspect, ticketLock, postmortems, log, about, known>>
  /\ UNCHANGED vars

\* The post-mortem and RESOLVED are committed with the event.
Recover(r) ==
  /\ stage[r] = "recover" /\ HasLoop(r)
  /\ status' = IF known[r] = "RESOLVED" THEN status
               ELSE [status EXCEPT ![about[r]] = "RESOLVED"]
  /\ postmortems' = IF remembered[r] THEN postmortems
                    ELSE [postmortems EXCEPT ![about[r]] = @ + 1]
  /\ ticketLock'  = [ticketLock EXCEPT ![about[r]] = None]
  /\ Log("RECOVERY_COMPLETED", r)
  /\ Become(r, "answered")
  /\ UNCHANGED <<suspect, about, known, remembered>>
  /\ UNCHANGED vars

-----------------------------------------------------------------------------
(* The deployment service below, and crashes. *)

\* Responders that hold no loop of Deployments and are at work.
Alone(r) == (r \in Rollbacks => ~ByRollback(r)) /\ stage[r] \notin {"new", "answered", "lost"}

LoseAll(lost) ==
  /\ stage' = [r \in Responder |-> IF r \in lost THEN "lost" ELSE stage[r]]
  /\ ticketLock' = [i \in Incidents |-> IF ticketLock[i] \in lost THEN None ELSE ticketLock[i]]
  /\ UNCHANGED <<status, suspect, postmortems, log, about, known, remembered>>

\* The process of a responder dies: its open transaction is rolled back.
Lose(r) == Alone(r) /\ LoseAll({r}) /\ UNCHANGED vars

\* A worker dies, with the resolvers whose rollback it was running.
CrashWorker(w) ==
  /\ Crash(w)
  /\ LoseAll({r \in Rollbacks : pc'[r] = "crashed" /\ stage[r] \notin {"new", "answered"}})

\* A resolution passes no target to rollback.
GuidedRollbackStep(r) ==
  /\ RollbackStep(r)
  /\ stage[r] = "rollback" /\ pc[r] = "target" => DefaultTarget(r)

Respond(r) ==
  \/ Collect(r) \/ Conclude(r)
  \/ r \in Rollbacks /\ (RolledBack(r) \/ Close(r) \/ Remember(r) \/ Recover(r))

DeploymentsNext ==
  /\ \/ \E g \in Gates : DecideGate(g)
     \/ \E w \in Worker :
          \/ \E r \in Deploys, g \in Gates \cup {None} : ReadGate(r, w, g)
          \/ \E r \in Rollbacks, d \in Deploys : stage[r] = "new" /\ LoadCurrent(r, w, d)
     \/ \E r \in Deploys : DeployStep(r)
     \/ \E r \in Rollbacks : GuidedRollbackStep(r)
     \/ \E r \in Request : (r \in Rollbacks => stage[r] \in {"new", "answered"}) /\ Return(r)
  /\ UNCHANGED incidentVars

IncidentNext ==
  \/ \E i \in Incidents, d \in Deploys \cup {None} : CreateIncident(i, d)
  \/ \E q \in Diagnoses, i \in Incidents : Diagnose(q, i)
  \/ \E r \in Rollbacks, i \in Incidents :
       ResolveInPlace(r, i) \/ \E w \in Worker : ResolveByRollback(r, w, i)
  \/ \E r \in Responder : Respond(r) \/ Lose(r)
  \/ \E w \in Worker : CrashWorker(w)
  \/ DeploymentsNext

IncidentSpec == IncidentInit /\ [][IncidentNext]_allVars
-----------------------------------------------------------------------------
(* Properties *)

IncidentTypeOK ==
  /\ TypeOK
  /\ status      \in [Incidents -> IncidentStatus \cup {"ABSENT"}]
  /\ suspect     \in [Incidents -> Deploys \cup {None}]
  /\ ticketLock  \in [Incidents -> Rollbacks \cup {None}]
  /\ postmortems \in [Incidents -> Nat]
  /\ log         \subseteq [type : IncidentEvent, trace : Incidents \cup Responder]
  /\ stage       \in [Responder -> Stage]
  /\ about       \in [Responder -> Incidents \cup {None}]
  /\ known       \in [Responder -> IncidentStatus \cup {None}]
  /\ remembered  \in [Rollbacks -> BOOLEAN]

Diagnosed(i) == \E q \in Diagnoses : about[q] = i /\ Logged("DIAGNOSIS_COMPLETED", q)
Recovered(i) == \E r \in Rollbacks : about[r] = i /\ Logged("RECOVERY_COMPLETED", r)

(* The incident's status and the ledger tell the same story, however requests
   interleave and whichever are lost: nothing is mitigated before a diagnosis
   is announced or resolved before a recovery is, and an announced diagnosis
   or recovery shows. *)
LedgerExplainsIncident ==
  \A i \in Incidents :
    /\ status[i] = "MITIGATING" => Diagnosed(i)
    /\ status[i] = "RESOLVED" => Recovered(i)
    /\ Diagnosed(i) \/ Recovered(i) => status[i] \in {"MITIGATING", "RESOLVED"}
    /\ Recovered(i) /\ ~Diagnosed(i) => status[i] = "RESOLVED"

(* A recovery by rollback is announced only after this very request's rollback
   completed, and the deployment stays taken down when one event loop served
   all requests about it. *)
RecoveryFollowsRollback ==
  \A r \in Rollbacks : Logged("RECOVERY_COMPLETED", r) /\ ByRollback(r) =>
    /\ Emitted("ROLLBACK_COMPLETED", r)
    /\ subject[r] = suspect[about[r]]
    /\ SameLoop(subject[r]) => state[subject[r]] \in {"ROLLING_BACK", "ROLLED_BACK"}

(* "Unique semantic key": a recovered incident has one post-mortem, although
   nothing in the schema says so: the UPDATE of the incident comes first and
   serialises the look-up of the key with the insertion. *)
OnePostmortem ==
  \A i \in Incidents : postmortems[i] = IF Recovered(i) THEN 1 ELSE 0

(* Contract: RECOVERY_COMPLETED closes the incident. *)
RecoveryCloses ==
  [][\A i \in Incidents : Recovered(i) /\ status[i] = "RESOLVED"
       => status'[i] = "RESOLVED"]_allVars
=============================================================================
