------------------------ MODULE DeploymentLifecycle ------------------------
(***************************************************************************)
(* What the deployment service promises about a deployment's row, seen     *)
(* from outside the handlers: the committed states it goes through and the *)
(* outcome the ledger announces for it.  There is no request, worker, row  *)
(* lock or session here; module Deployments implements this one when one   *)
(* event loop serves the deployments.                                      *)
(***************************************************************************)
CONSTANT Deploys

VARIABLES
  state,    \* committed deployments.state
  outcome   \* the outcome announced: "open", "completed" or "failed"

vars == <<state, outcome>>

Init ==
  /\ state   = [d \in Deploys |-> "ABSENT"]
  /\ outcome = [d \in Deploys |-> "open"]

Move(d, from, to) ==
  /\ state[d] \in from
  /\ state' = [state EXCEPT ![d] = to]

\* A deployment is halted at its gate, or starts.
Halt(d)  == Move(d, {"ABSENT"}, "FAILED") /\ UNCHANGED outcome
Start(d) == Move(d, {"ABSENT"}, "BUILDING") /\ UNCHANGED outcome

\* Only a deployment still building ends, and its one outcome is announced in
\* the step that commits it.
Succeed(d) ==
  /\ Move(d, {"BUILDING"}, "SUCCESS")
  /\ outcome[d] = "open"
  /\ outcome' = [outcome EXCEPT ![d] = "completed"]

Fail(d) ==
  /\ Move(d, {"BUILDING"}, "FAILED")
  /\ outcome[d] = "open"
  /\ outcome' = [outcome EXCEPT ![d] = "failed"]

\* Any deployment may be rolled back, and again; nothing else follows.
BeginRollback(d) ==
  /\ Move(d, {"BUILDING", "SUCCESS", "FAILED", "ROLLED_BACK"}, "ROLLING_BACK")
  /\ UNCHANGED outcome

EndRollback(d) == Move(d, {"ROLLING_BACK"}, "ROLLED_BACK") /\ UNCHANGED outcome

Step(d) ==
  \/ Halt(d) \/ Start(d) \/ Succeed(d) \/ Fail(d)
  \/ BeginRollback(d) \/ EndRollback(d)

Next == \E d \in Deploys : Step(d)

Spec == Init /\ [][Next]_vars
=============================================================================
