---------------------------- MODULE AgentCredit ----------------------------
(***************************************************************************)
(* What the single agent (agent/react_agent.py) and the team of agents     *)
(* (agent/orchestrator.py) have in common: the credit they may spend       *)
(* (TokenBudgetManager), the cache of what models and tools answered       *)
(* (ResponseCache, one for both), and how a reply of a model is read.      *)
(***************************************************************************)
EXTENDS Integers, Sequences, FiniteSets

CONSTANTS
  Tool,        \* tool calls: the name of a tool with its parameters
  Offered,     \* those of tools on the list given to the agent
  Guarded,     \* those of tools in require_human_approval_for
  TokenBudget, \* max_tokens_budget
  CostBudget,  \* max_cost_usd_budget, in the price of one cheap token
  MaxUse,      \* bound: tokens of one model call
  CacheSize    \* cache_max_entries

ASSUME ToolsGiven   == Offered \subseteq Tool /\ Guarded \subseteq Tool
ASSUME BudgetsGiven == TokenBudget \in Nat \ {0} /\ CostBudget \in Nat \ {0}
ASSUME UseBounded   == MaxUse \in Nat \ {0} /\ CacheSize \in Nat \ {0}

\* The price of a token: MODEL_PRICING_REGISTRY charges a reasoning model more.
Rate == [fast |-> 1, reasoning |-> 3]

Nothing == [tokens |-> 0, cost |-> 0]
Spent   == [tokens : Nat, cost : Nat]

RecordUsage(spent, model, use) ==
  [tokens |-> spent.tokens + use, cost |-> spent.cost + use * Rate[model]]

\* MUTANT: the budget counts as exceeded when both limits are.
ExceededBoth(spent) == spent.tokens >= TokenBudget /\ spent.cost >= CostBudget

\* is_budget_exceeded
Exceeded(spent) == spent.tokens >= TokenBudget \/ spent.cost >= CostBudget

-----------------------------------------------------------------------------
(* The cache, oldest entry first *)

Has(cache, key)    == \E i \in DOMAIN cache : cache[i].key = key
Lookup(cache, key) == cache[CHOOSE i \in DOMAIN cache : cache[i].key = key].value

\* A full cache drops its oldest entry, also for a key it has already.
Full(cache)   == Len(cache) >= CacheSize
Room(cache)   == IF Full(cache) THEN Tail(cache) ELSE cache
Dropped(cache) == IF Full(cache) THEN {cache[1].key} ELSE {}

Store(cache, key, value) ==
  IF Has(Room(cache), key)
  THEN [i \in DOMAIN Room(cache) |->
          IF Room(cache)[i].key = key THEN [key |-> key, value |-> value] ELSE Room(cache)[i]]
  ELSE Append(Room(cache), [key |-> key, value |-> value])

-----------------------------------------------------------------------------
(* How a reply reads: a final answer wherever it says FINAL_ANSWER, else the
   call it asks for, else nothing. *)

Action  == [kind : {"action"}, about : Tool]
Garbage == [kind |-> "garbage", about |-> "nothing"]

=============================================================================
