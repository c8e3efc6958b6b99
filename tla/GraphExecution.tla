--------------------------- MODULE GraphExecution ---------------------------
(***************************************************************************)
(* What execute_graph promises about a graph of tasks, seen from its       *)
(* caller: the graph is refused or accepted as a whole, each task has one  *)
(* outcome, and a task that was begun is never abandoned.  There is no     *)
(* queue, batch, permit, retry or deadline here; module TaskScheduler      *)
(* implements this one.                                                    *)
(***************************************************************************)
CONSTANTS Task, Missing

VARIABLES
  deps,     \* the tasks each task depends on
  verdict,  \* "submitted", "refused", "accepted" or "done"
  outcome   \* of each task: "waiting", "begun", "succeeded" or "failed"

vars == <<deps, verdict, outcome>>

(* Reference definition of an executable graph: no dependency is missing, and
   every non-empty set of tasks has one that depends on none of them. *)
Acyclic ==
  \A S \in SUBSET Task : S # {} => \E t \in S : deps[t] \cap S = {}
Executable == (\A t \in Task : deps[t] \subseteq Task) /\ Acyclic

Init ==
  /\ deps \in [Task -> SUBSET (Task \cup {Missing})]
  /\ verdict = "submitted"
  /\ outcome = [t \in Task |-> "waiting"]

Decide(v) ==
  /\ verdict = "submitted"
  /\ verdict' = v
  /\ UNCHANGED <<deps, outcome>>

Refuse == ~Executable /\ Decide("refused")
Accept == Executable /\ Decide("accepted")

\* A task is begun on the success of all it depends on.
Begin(t) ==
  /\ verdict = "accepted"
  /\ outcome[t] = "waiting" /\ \A d \in deps[t] : outcome[d] = "succeeded"
  /\ outcome' = [outcome EXCEPT ![t] = "begun"]
  /\ UNCHANGED <<deps, verdict>>

End(t) ==
  /\ verdict = "accepted"
  /\ outcome[t] = "begun"
  /\ \E o \in {"succeeded", "failed"} : outcome' = [outcome EXCEPT ![t] = o]
  /\ UNCHANGED <<deps, verdict>>

\* What was begun has ended, and nothing that waits can begin: all of it fails.
Abandon ==
  /\ verdict = "accepted"
  /\ \A t \in Task : outcome[t] # "begun"
  /\ \A t \in Task : outcome[t] = "waiting" => \E d \in deps[t] : outcome[d] # "succeeded"
  /\ \E t \in Task : outcome[t] = "waiting"
  /\ outcome' = [t \in Task |-> IF outcome[t] = "waiting" THEN "failed" ELSE outcome[t]]
  /\ verdict' = "done"
  /\ UNCHANGED deps

Close ==
  /\ verdict = "accepted"
  /\ \A t \in Task : outcome[t] \in {"succeeded", "failed"}
  /\ verdict' = "done"
  /\ UNCHANGED <<deps, outcome>>

Next == Refuse \/ Accept \/ Abandon \/ Close \/ \E t \in Task : Begin(t) \/ End(t)

Spec == Init /\ [][Next]_vars
=============================================================================
