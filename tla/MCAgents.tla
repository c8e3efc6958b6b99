------------------------------ MODULE MCAgents ------------------------------
(***************************************************************************)
(* Instances of AgentRuntime and AgentTeam for TLC.  The single agent and  *)
(* the team are two ways to run a goal and have no state in common: a      *)
(* behaviour of this module is one of either, and the other stays idle.    *)
(* The team gets bounds of its own.                                        *)
(***************************************************************************)
EXTENDS AgentRuntime

CONSTANTS TeamTokens, TeamCost, TeamUse, TeamCache, MaxPlan, None

ASSUME TeamGiven == /\ {TeamTokens, TeamCost, TeamUse, TeamCache} \subseteq Nat \ {0}
                    /\ MaxPlan \in Nat /\ None \notin Tool

VARIABLES side, tPhase, tPlan, tStep, tCall, tSpent, tCache, tTaken, tDone, tForgotten, tResult

T == INSTANCE AgentTeam WITH
       TokenBudget <- TeamTokens, CostBudget <- TeamCost, MaxUse <- TeamUse, CacheSize <- TeamCache,
       phase <- tPhase, plan <- tPlan, step <- tStep, call <- tCall, spent <- tSpent,
       cache <- tCache, taken <- tTaken, done <- tDone, forgotten <- tForgotten, result <- tResult
tVars == <<tPhase, tPlan, tStep, tCall, tSpent, tCache, tTaken, tDone, tForgotten, tResult>>

AgentsInit == AgentInit /\ T!TeamInit /\ side \in {"one", "team"}
AgentsNext ==
  \/ side = "one"  /\ AgentNext  /\ UNCHANGED side /\ UNCHANGED tVars
  \/ side = "team" /\ T!TeamNext /\ UNCHANGED side /\ UNCHANGED agentVars
AgentsSpec ==
  /\ AgentsInit /\ [][AgentsNext]_<<side, agentVars, tVars>>
  /\ WF_agentVars(side = "one" /\ AgentStep /\ UNCHANGED side /\ UNCHANGED tVars)
  /\ WF_tVars(side = "team" /\ T!TeamStep /\ UNCHANGED side /\ UNCHANGED agentVars)

\* The types of both modules.
AgentsTypeOK == AgentTypeOK /\ T!TeamTypeOK

\* README.md has a "Hard spending cap": the code keeps to it but for what the
\* single agent's last call, or the team's last sub-task, uses.
OverrunBounded == OverrunByOneCall /\ T!OverrunByOneSubtask

\* What is reported as done was done, and not twice unless it was forgotten.
WorksOnce == AgentWorksOnce /\ T!TeamWorksOnce

\* Whatever models say and tools do, a run of either kind comes to an end.
AgentsReturn ==
  /\ phase = "loop" ~> phase \in {"returned", "raised", "lost"}
  /\ tPhase = "planning" ~> tPhase \in {"returned", "lost"}
=============================================================================
