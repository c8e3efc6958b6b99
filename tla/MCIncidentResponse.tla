------------------------- MODULE MCIncidentResponse -------------------------
(* Instances of IncidentResponse for TLC. *)
EXTENDS IncidentResponse, TLC

CONSTANTS d1, r1, r2, q1, i1, w1, w2

OneScope == [d \in Deploys |-> "project/production"]

\* The two requests, and the two workers, differ by name only.
Symmetry == Permutations(Rollbacks) \cup Permutations(Worker)
=============================================================================
