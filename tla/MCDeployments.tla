--------------------------- MODULE MCDeployments ---------------------------
(* Instances of Deployments for TLC. *)
EXTENDS Deployments

CONSTANTS d1, d2, b1, b2, g1, w1, w2

\* Both deployments go to one project and environment, so that each can be
\* the other's rollback target.
OneScope  == [d \in Deploys |-> "project/production"]

=============================================================================
