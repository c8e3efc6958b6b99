----------------------------- MODULE AgentTeam -----------------------------
(***************************************************************************)
(* A team of agents: orchestrate in agent/orchestrator.py with the plans   *)
(* of agent/planner.py.  Sub-tasks are worked on one after the other, each *)
(* by a specialist in a loop of its own of at most four model calls; what  *)
(* a tool reports may make a specialist hand over to another, for whom a   *)
(* sub-task is inserted into the plan.  All spend from one budget and use  *)
(* one cache, for what tools report and for what models reply.  Where the  *)
(* sub-tasks of a plan have ids of their own, no two prompts of a run are  *)
(* equal: each sub-task is told the results so far, and each call what was *)
(* said before.  So no reply is ever taken from the cache, but every one   *)
(* goes into it, and may drop a report that would have been.               *)
(***************************************************************************)
EXTENDS AgentCredit

CONSTANTS
  MaxPlan,  \* bound: sub-tasks of a plan that a model makes
  None      \* no tool, not in Tool

SubtaskSteps == 4

VARIABLES
  phase,     \* "idle", "planning", "dispatch", "ask", "reply"; "returned" and "lost" are the ends
  plan,      \* the sub-tasks not yet through, [role, model]: the first is worked on
  step,      \* model calls for it
  call,      \* the tool call to act upon
  spent,
  cache,     \* tool calls with what they reported, and replies
  taken,     \* actions_taken: [tool, status]
  done,      \* history: how often a tool call was executed and succeeded
  forgotten, \* history: the tool calls dropped from the cache
  result     \* the status of the AgentResult

teamVars == <<phase, plan, step, call, spent, cache, taken, done, forgotten, result>>
books == <<spent, cache, done, forgotten>>

Role    == {"REVIEWER", "DEPLOYER", "DIAGNOSTICIAN", "MONITOR", "PLANNER"}
Subtask == [role : Role, model : DOMAIN Rate]
Goal    == {"review", "deploy", "diagnose", "other"}

\* What a tool reports, as far as somebody is handed over to for it.
Report == {"critical_issue", "failed_health", "root_cause", "nothing_special", "empty"}

On(role, model) == [role |-> role, model |-> model]

\* _rule_based_decompose
Template == [
  review   |-> <<On("REVIEWER", "fast"), On("REVIEWER", "reasoning"), On("REVIEWER", "fast")>>,
  deploy   |-> <<On("DEPLOYER", "fast"), On("REVIEWER", "reasoning"), On("DEPLOYER", "fast"),
                 On("MONITOR", "fast")>>,
  diagnose |-> <<On("DIAGNOSTICIAN", "fast"), On("DIAGNOSTICIAN", "reasoning"), On("DEPLOYER", "fast")>>,
  other    |-> <<On("PLANNER", "fast")>>]

\* A goal that needs deep reasoning is planned by a reasoning model.
Planner(g) == IF g = "diagnose" THEN "reasoning" ELSE "fast"

TeamInit ==
  /\ phase = "idle" /\ plan = <<>> /\ step = 0 /\ call = None
  /\ spent = Nothing /\ cache = <<>> /\ taken = {} /\ done = [t \in Tool |-> 0] /\ forgotten = {}
  /\ result = "none"

Orchestrate ==
  /\ phase = "idle"
  /\ phase' = "planning"
  /\ UNCHANGED <<plan, step, call, taken, result>> /\ UNCHANGED books

\* What the cache keeps of a reply: an entry that nothing asks for again.
WithReply(c) == Append(Room(c), [key |-> None, value |-> "reply"])

\* What drops out of the cache for the next entry, if it is a tool's report.
Losing(c) == Dropped(c) \cap Tool

Replied ==
  /\ cache' = WithReply(cache)
  /\ forgotten' = forgotten \cup Losing(cache)

\* decompose: the model's plan, an unknown role being a planner's; the
\* template if it gives none that can be read, or cannot be asked.
Decompose(g) ==
  /\ phase = "planning"
  /\ \/ \E use \in 1 .. MaxUse :
          /\ spent' = RecordUsage(spent, Planner(g), use)
          /\ plan' \in {Template[g]} \cup UNION {[1 .. n -> Subtask] : n \in 1 .. MaxPlan}
          /\ Replied
     \/ plan' = Template[g] /\ UNCHANGED <<spent, cache, forgotten>>
  /\ phase' = "dispatch"
  /\ UNCHANGED <<step, call, taken, done, result>>

-----------------------------------------------------------------------------
(* The sub-tasks *)

\* The budget is looked at between sub-tasks.
Dispatch ==
  /\ phase = "dispatch" /\ plan # <<>> /\ ~Exceeded(spent)
  /\ phase' = "ask" /\ step' = 0
  /\ UNCHANGED <<plan, call, taken, result>> /\ UNCHANGED books

\* MUTANT: what is left of the plan is not synthesized.
SynthesizeDone ==
  /\ phase = "dispatch" /\ plan = <<>>
  /\ result' = IF Exceeded(spent) THEN "TIMED_OUT" ELSE "COMPLETED"
  /\ phase' = "returned"
  /\ UNCHANGED <<plan, step, call, taken>> /\ UNCHANGED books

Synthesize ==
  /\ phase = "dispatch" /\ (plan = <<>> \/ Exceeded(spent))
  /\ result' = IF Exceeded(spent) THEN "TIMED_OUT" ELSE "COMPLETED"
  /\ phase' = "returned"
  /\ UNCHANGED <<plan, step, call, taken>> /\ UNCHANGED books

\* should_handoff: whom a specialist hands over to, and the model for it.
Handover(role, report) ==
  IF role = "REVIEWER" /\ report = "critical_issue"  THEN <<On("DEPLOYER", "fast")>>
  ELSE IF role = "DEPLOYER" /\ report = "failed_health" THEN <<On("DIAGNOSTICIAN", "reasoning")>>
  ELSE IF role = "DIAGNOSTICIAN" /\ report = "root_cause" THEN <<On("DEPLOYER", "fast")>>
  ELSE <<>>

\* The sub-task is over; whoever was handed over to is next.
Over(next) ==
  /\ plan' = next \o Tail(plan)
  /\ phase' = "dispatch" /\ step' = 0 /\ call' = None

\* A reply that asks for a call is acted upon next; a final answer ends the
\* sub-task; one that cannot be read, and is not answered either, leaves the
\* next step to the next call.
Ask ==
  /\ phase = "ask" /\ step < SubtaskSteps
  /\ \E use \in 1 .. MaxUse : spent' = RecordUsage(spent, plan[1].model, use)
  /\ \/ call' \in Tool /\ phase' = "reply" /\ step' = step + 1 /\ UNCHANGED plan
     \/ Over(<<>>)
     \/ step' = step + 1 /\ UNCHANGED <<phase, plan, call>>
  /\ Replied
  /\ UNCHANGED <<taken, done, result>>

\* A call of the model that raises ends the sub-task, as do four steps.
GiveUp ==
  /\ phase = "ask" /\ Over(<<>>)
  /\ UNCHANGED <<taken, result>> /\ UNCHANGED books

Propose ==
  /\ phase = "reply" /\ call \in Guarded
  /\ taken' = taken \cup {[tool |-> call, status |-> "PROPOSED"]}
  /\ result' = "WAITING_FOR_APPROVAL" /\ phase' = "returned"
  /\ UNCHANGED <<plan, step, call>> /\ UNCHANGED books

\* The report goes to the model, unless somebody else takes over.
Told(status, report) ==
  /\ taken' = taken \cup {[tool |-> call, status |-> status]}
  /\ LET next == Handover(plan[1].role, report) IN
     IF next = <<>> THEN phase' = "ask" /\ call' = None /\ UNCHANGED <<plan, step>>
     ELSE Over(next)
  /\ UNCHANGED <<spent, result>>

\* An empty report counts as none: the call is made again.
Known(t) == Has(cache, t) /\ Lookup(cache, t) # "empty"

Recall ==
  /\ phase = "reply" /\ call \notin Guarded /\ Known(call)
  /\ Told("COMPLETED", Lookup(cache, call))
  /\ UNCHANGED <<cache, done, forgotten>>

\* MUTANT: what fails is remembered as done.
ExecuteFailsRemembered ==
  /\ phase = "reply" /\ call \notin Guarded /\ ~Known(call)
  /\ Told("FAILED", "nothing_special")
  /\ cache' = Store(cache, call, "nothing_special")
  /\ forgotten' = forgotten \cup Losing(cache)
  /\ UNCHANGED done

ExecuteFails ==
  /\ phase = "reply" /\ call \notin Guarded /\ ~Known(call)
  /\ Told("FAILED", "nothing_special")
  /\ UNCHANGED <<cache, done, forgotten>>

\* Any tool may be called, on the list or not.
Execute(report) ==
  /\ phase = "reply" /\ call \notin Guarded /\ ~Known(call)
  /\ done' = [done EXCEPT ![call] = @ + 1]
  /\ cache' = Store(cache, call, report)
  /\ forgotten' = forgotten \cup Losing(cache) \cup (IF report = "empty" THEN {call} ELSE {})
  /\ Told("COMPLETED", report)

Die ==
  /\ phase \in {"planning", "dispatch", "ask", "reply"}
  /\ phase' = "lost"
  /\ UNCHANGED <<plan, step, call, taken, result>> /\ UNCHANGED books

TeamStep ==
  \/ \E g \in Goal : Decompose(g)
  \/ Dispatch \/ Synthesize \/ Ask \/ GiveUp \/ Propose \/ Recall \/ ExecuteFails
  \/ \E report \in Report : Execute(report)

TeamNext == Orchestrate \/ TeamStep \/ Die

\* Model calls time out, tools answer, and the event loop goes on.
TeamSpec == TeamInit /\ [][TeamNext]_teamVars /\ WF_teamVars(TeamStep)

-----------------------------------------------------------------------------
(* Properties *)

TeamTypeOK ==
  /\ phase \in {"idle", "planning", "dispatch", "ask", "reply", "returned", "lost"}
  /\ plan \in Seq(Subtask)
  /\ step \in 0 .. SubtaskSteps
  /\ call \in Tool \cup {None}
  /\ spent \in Spent
  /\ Len(cache) <= CacheSize
  /\ taken \subseteq [tool : Tool, status : {"PROPOSED", "COMPLETED", "FAILED"}]
  /\ done \in [Tool -> Nat] /\ forgotten \subseteq Tool
  /\ result \in {"none", "COMPLETED", "TIMED_OUT", "WAITING_FOR_APPROVAL"}

\* The budget is looked at between sub-tasks: it is overrun by what one
\* sub-task uses, and by no more, however often the work is handed over.
OverrunByOneSubtask ==
  /\ spent.tokens < TokenBudget + SubtaskSteps * MaxUse
  /\ spent.cost   < CostBudget + SubtaskSteps * MaxUse * Rate["reasoning"]

\* What a COMPLETED action reports was done in this run, by whichever
\* specialist, and done once unless the cache lost the report, to another one
\* or to a model's reply, or it was empty.
TeamWorksOnce ==
  /\ \A a \in taken : a.status = "COMPLETED" => done[a.tool] >= 1
  /\ \A t \in Tool : done[t] > 1 => t \in forgotten

\* A deployer and a diagnostician can hand over to each other again and again,
\* from cached reports even; the budget ends it.
TeamReturns == phase = "planning" ~> phase \in {"returned", "lost"}

=============================================================================
