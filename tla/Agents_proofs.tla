---------------------------- MODULE Agents_proofs ----------------------------
(* Proofs about the two ways to run a goal, the single agent (AgentRuntime)  *)
(* and the team (AgentTeam, T! here), for all budgets, caches and tools and  *)
(* whatever models say and tools answer.                                     *)
EXTENDS MCAgents, TLAPS

-----------------------------------------------------------------------------
(* The budget *)

OneSpends == spent \in Spent /\ OverrunByOneCall

LEMMA OneSpendsWithinBudget ==
  ASSUME OneSpends, [AgentNext]_agentVars
  PROVE  OneSpends'
<1>1. CASE Ask
  <2>1. CASE UNCHANGED spent
    BY <2>1 DEF OneSpends, OverrunByOneCall
  <2>2. ASSUME NEW use \in 1 .. MaxUse, spent' = RecordUsage(spent, "fast", use) PROVE OneSpends'
    BY <1>1, <2>2, BudgetsGiven, UseBounded
       DEF OneSpends, OverrunByOneCall, Ask, RecordUsage, Rate, Spent, Exceeded
  <2> QED BY <1>1, <2>1, <2>2 DEF Ask
<1>2. CASE UNCHANGED spent
  BY <1>2 DEF OneSpends, OverrunByOneCall
<1>3. Misconfigured \/ Halt \/ AskFails \/ Finish \/ Propose \/ Conclude \/ Die => UNCHANGED spent
  BY DEF Misconfigured, Halt, AskFails, Finish, Propose, Conclude, Die, talk
<1>4. \A mode, review : RunAgent(mode, review) => UNCHANGED spent
  BY DEF RunAgent, talk
<1>5. Unavailable \/ Reprompt => UNCHANGED spent
  BY DEF Unavailable, Reprompt, Observe
<1>6. \A t \in Tool : Recall(t) \/ Execute(t) \/ ExecuteFails(t) => UNCHANGED spent
  BY DEF Recall, Execute, ExecuteFails, Observe
<1>7. UNCHANGED agentVars => UNCHANGED spent
  BY DEF agentVars
<1> QED BY <1>1, <1>2, <1>3, <1>4, <1>5, <1>6, <1>7 DEF AgentNext, AgentStep

\* While a specialist works, what the team has spent over its budget is
\* covered by the specialist's calls.
TeamSpends ==
  /\ tSpent \in Spent
  /\ tPlan \in Seq(T!Subtask)
  /\ tStep \in 0 .. 4
  /\ tPhase \in {"idle", "planning"} => tSpent = Nothing
  /\ tPhase \in {"ask", "reply"} =>
       /\ tPlan # <<>>
       /\ tSpent.tokens < TeamTokens + tStep * TeamUse
       /\ tSpent.cost < TeamCost + tStep * TeamUse * 3
  /\ tSpent.tokens < TeamTokens + 4 * TeamUse
  /\ tSpent.cost < TeamCost + 4 * TeamUse * 3

LEMMA Calls ==
  ASSUME NEW n \in 0 .. 4, NEW U \in Nat
  PROVE  /\ n * U \in Nat /\ n * U <= 4 * U
         /\ n * U * 3 \in Nat /\ n * U * 3 <= 4 * U * 3
         /\ (n + 1) * U = n * U + U /\ (n + 1) * U * 3 = n * U * 3 + U * 3
<1>1. n = 0 \/ n = 1 \/ n = 2 \/ n = 3 \/ n = 4
  OBVIOUS
<1> QED BY <1>1

\* What one call adds.
LEMMA CallCosts ==
  ASSUME NEW s \in Spent, NEW model \in DOMAIN T!Rate, NEW use \in 1 .. TeamUse
  PROVE  /\ T!RecordUsage(s, model, use) \in Spent
         /\ T!RecordUsage(s, model, use).tokens <= s.tokens + TeamUse
         /\ T!RecordUsage(s, model, use).cost <= s.cost + TeamUse * 3
BY TeamGiven DEF T!RecordUsage, T!Rate, Spent

LEMMA Rates == DOMAIN T!Rate = {"fast", "reasoning"}
BY DEF T!Rate

LEMMA OnTyped ==
  ASSUME NEW role \in T!Role, NEW model \in {"fast", "reasoning"}
  PROVE  T!On(role, model) \in T!Subtask
BY Rates DEF T!On, T!Subtask

LEMMA PlanTyped ==
  ASSUME NEW g \in T!Goal
  PROVE  /\ T!Template[g] \in Seq(T!Subtask)
         /\ T!Planner(g) \in DOMAIN T!Rate
<1>1. T!Planner(g) \in DOMAIN T!Rate
  BY Rates DEF T!Planner
<1>2. DEFINE o(role, model) == T!On(role, model)
<1>3. /\ o("REVIEWER", "fast") \in T!Subtask /\ o("REVIEWER", "reasoning") \in T!Subtask
      /\ o("DEPLOYER", "fast") \in T!Subtask /\ o("MONITOR", "fast") \in T!Subtask
      /\ o("DIAGNOSTICIAN", "fast") \in T!Subtask /\ o("DIAGNOSTICIAN", "reasoning") \in T!Subtask
      /\ o("PLANNER", "fast") \in T!Subtask
  BY OnTyped DEF T!Role
<1>4. \A a \in T!Subtask : <<a>> \in Seq(T!Subtask)
  OBVIOUS
<1>5. \A a, b, c \in T!Subtask : <<a, b, c>> \in Seq(T!Subtask)
  OBVIOUS
<1>6. \A a, b, c, d \in T!Subtask : <<a, b, c, d>> \in Seq(T!Subtask)
  OBVIOUS
<1>7. CASE g = "review"
  <2>1. T!Template[g] = <<o("REVIEWER", "fast"), o("REVIEWER", "reasoning"), o("REVIEWER", "fast")>>
    BY <1>7 DEF T!Template
  <2> HIDE DEF o
  <2> QED BY <1>1, <1>3, <1>5, <2>1
<1>8. CASE g = "deploy"
  <2>1. T!Template[g] = <<o("DEPLOYER", "fast"), o("REVIEWER", "reasoning"), o("DEPLOYER", "fast"),
                          o("MONITOR", "fast")>>
    BY <1>8 DEF T!Template
  <2> HIDE DEF o
  <2> QED BY <1>1, <1>3, <1>6, <2>1
<1>9. CASE g = "diagnose"
  <2>1. T!Template[g] = <<o("DIAGNOSTICIAN", "fast"), o("DIAGNOSTICIAN", "reasoning"), o("DEPLOYER", "fast")>>
    BY <1>9 DEF T!Template
  <2> HIDE DEF o
  <2> QED BY <1>1, <1>3, <1>5, <2>1
<1>10. CASE g = "other"
  <2>1. T!Template[g] = <<o("PLANNER", "fast")>>
    BY <1>10 DEF T!Template
  <2> HIDE DEF o
  <2> QED BY <1>1, <1>3, <1>4, <2>1
<1> QED BY <1>1, <1>7, <1>8, <1>9, <1>10 DEF T!Goal

\* The end of a sub-task.
LEMMA OverSpends ==
  ASSUME NEW next \in Seq(T!Subtask), tPlan \in Seq(T!Subtask), tPlan # <<>>, T!Over(next), tSpent' \in Spent,
         tSpent'.tokens < TeamTokens + 4 * TeamUse,
         tSpent'.cost < TeamCost + 4 * TeamUse * 3
  PROVE  TeamSpends'
<1>1. tPlan' \in Seq(T!Subtask)
  BY DEF T!Over
<1> QED BY <1>1 DEF TeamSpends, T!Over

LEMMA EmptyTyped == <<>> \in Seq(T!Subtask)
OBVIOUS

LEMMA HandoverTyped ==
  ASSUME NEW role, NEW report
  PROVE  T!Handover(role, report) \in Seq(T!Subtask)
<1>1. /\ T!On("DEPLOYER", "fast") \in T!Subtask
      /\ T!On("DIAGNOSTICIAN", "reasoning") \in T!Subtask
  BY OnTyped DEF T!Role
<1>2. \A a \in T!Subtask : <<a>> \in Seq(T!Subtask)
  OBVIOUS
<1>3. <<>> \in Seq(T!Subtask)
  OBVIOUS
<1> QED BY <1>1, <1>2, <1>3 DEF T!Handover

LEMMA ToldSpends ==
  ASSUME TeamSpends, tPhase = "reply", NEW status, NEW report, T!Told(status, report)
  PROVE  TeamSpends'
<1>1. UNCHANGED tSpent
  BY DEF T!Told
<1>2. CASE tPhase' = "ask" /\ UNCHANGED <<tPlan, tStep>>
  BY <1>1, <1>2 DEF TeamSpends
<1>3. CASE T!Over(T!Handover(tPlan[1].role, report))
  <2>1. tPlan # <<>> /\ tPlan \in Seq(T!Subtask) /\ tSpent' \in Spent
        /\ tSpent'.tokens < TeamTokens + 4 * TeamUse /\ tSpent'.cost < TeamCost + 4 * TeamUse * 3
    BY <1>1 DEF TeamSpends
  <2> QED BY <1>3, <2>1, OverSpends, HandoverTyped
<1> QED BY <1>2, <1>3 DEF T!Told

LEMMA TeamSpendsWithinBudget ==
  ASSUME TeamSpends, [T!TeamNext]_tVars
  PROVE  TeamSpends'
<1>0. TeamTokens \in Nat /\ TeamCost \in Nat /\ TeamUse \in Nat /\ TeamTokens > 0 /\ TeamCost > 0 /\ TeamUse > 0
  BY TeamGiven
<1>1. CASE T!Orchestrate
  BY <1>1 DEF T!Orchestrate, T!books, TeamSpends
<1>2. ASSUME NEW g \in T!Goal, T!Decompose(g) PROVE TeamSpends'
  <2>1. tPhase' = "dispatch" /\ tStep' = tStep /\ tPhase = "planning" /\ tSpent = Nothing
    BY <1>2 DEF T!Decompose, TeamSpends
  <2>2. \A n \in 1 .. MaxPlan : [1 .. n -> T!Subtask] \subseteq Seq(T!Subtask)
    BY TeamGiven
  <2>3. tPlan' \in Seq(T!Subtask)
    BY <1>2, <2>2, PlanTyped DEF T!Decompose
  <2>4. tSpent' \in Spent /\ tSpent'.tokens <= TeamUse /\ tSpent'.cost <= TeamUse * 3
    <3>1. Nothing \in Spent /\ Nothing.tokens = 0 /\ Nothing.cost = 0
      BY DEF Nothing, Spent
    <3>2. CASE UNCHANGED tSpent
      BY <1>0, <2>1, <3>1, <3>2
    <3>3. ASSUME NEW use \in 1 .. TeamUse, tSpent' = T!RecordUsage(tSpent, T!Planner(g), use)
          PROVE  tSpent' \in Spent /\ tSpent'.tokens <= TeamUse /\ tSpent'.cost <= TeamUse * 3
      BY <1>0, <2>1, <3>1, <3>3, CallCosts, PlanTyped
    <3> QED BY <1>2, <3>2, <3>3 DEF T!Decompose
  <2>5. tSpent'.tokens < TeamTokens + 4 * TeamUse /\ tSpent'.cost < TeamCost + 4 * TeamUse * 3
    BY <1>0, <2>4 DEF Spent
  <2> QED BY <2>1, <2>3, <2>4, <2>5 DEF TeamSpends
<1>3. CASE T!Dispatch
  <2>1. /\ tPhase' = "ask" /\ tStep' = 0 /\ UNCHANGED <<tPlan, tSpent>> /\ tPlan # <<>>
        /\ tSpent.tokens < TeamTokens /\ tSpent.cost < TeamCost
    BY <1>0, <1>3 DEF T!Dispatch, T!books, T!Exceeded, TeamSpends, Spent
  <2> QED BY <1>0, <2>1 DEF TeamSpends
<1>4. CASE T!Ask
  <2>1. PICK use \in 1 .. TeamUse : tSpent' = T!RecordUsage(tSpent, tPlan[1].model, use)
    BY <1>4 DEF T!Ask
  <2>2. /\ tPhase = "ask" /\ tStep \in 0 .. 3 /\ tPlan # <<>> /\ tPlan \in Seq(T!Subtask) /\ tSpent \in Spent
        /\ tSpent.tokens < TeamTokens + tStep * TeamUse /\ tSpent.cost < TeamCost + tStep * TeamUse * 3
    BY <1>4 DEF T!Ask, TeamSpends, T!SubtaskSteps
  <2>3. tPlan[1].model \in DOMAIN T!Rate
    <3>1. tPlan[1] \in T!Subtask
      BY <2>2
    <3> QED BY <3>1 DEF T!Subtask
  <2>4. tSpent' \in Spent /\ tSpent'.tokens <= tSpent.tokens + TeamUse /\ tSpent'.cost <= tSpent.cost + TeamUse * 3
    BY <2>1, <2>2, <2>3, CallCosts
  <2>5. /\ tSpent'.tokens < TeamTokens + (tStep + 1) * TeamUse
        /\ tSpent'.cost < TeamCost + (tStep + 1) * TeamUse * 3
    BY <1>0, <2>2, <2>4, Calls DEF Spent
  <2>6. tSpent'.tokens < TeamTokens + 4 * TeamUse /\ tSpent'.cost < TeamCost + 4 * TeamUse * 3
    <3>1. tStep + 1 \in 0 .. 4
      BY <2>2
    <3>2. (tStep + 1) * TeamUse <= 4 * TeamUse /\ (tStep + 1) * TeamUse * 3 <= 4 * TeamUse * 3
          /\ (tStep + 1) * TeamUse \in Nat /\ (tStep + 1) * TeamUse * 3 \in Nat
      BY <1>0, <3>1, Calls
    <3> QED BY <1>0, <2>4, <2>5, <3>2 DEF Spent
  <2>7. CASE T!Over(<<>>)
    BY <2>2, <2>4, <2>6, <2>7, OverSpends, EmptyTyped
  <2>8. CASE tStep' = tStep + 1 /\ tPhase' \in {"ask", "reply"} /\ UNCHANGED tPlan
    BY <2>2, <2>4, <2>5, <2>6, <2>8 DEF TeamSpends
  <2> QED BY <1>4, <2>2, <2>7, <2>8 DEF T!Ask
<1>5. CASE T!GiveUp
  <2>1. T!Over(<<>>) /\ UNCHANGED tSpent /\ tPhase = "ask"
    BY <1>5 DEF T!GiveUp, T!books
  <2>2. tPlan # <<>> /\ tPlan \in Seq(T!Subtask) /\ tSpent' \in Spent
        /\ tSpent'.tokens < TeamTokens + 4 * TeamUse /\ tSpent'.cost < TeamCost + 4 * TeamUse * 3
    BY <2>1 DEF TeamSpends
  <2> QED BY <2>1, <2>2, OverSpends, EmptyTyped
<1>6. CASE T!Synthesize \/ T!Propose \/ T!Die
  <2>1. tPhase' \in {"returned", "lost"} /\ UNCHANGED <<tPlan, tStep, tSpent>>
    BY <1>6 DEF T!Synthesize, T!Propose, T!Die, T!books
  <2> QED BY <2>1 DEF TeamSpends
<1>7. CASE T!Recall \/ T!ExecuteFails
  BY <1>7, ToldSpends DEF T!Recall, T!ExecuteFails
<1>8. ASSUME NEW report \in T!Report, T!Execute(report) PROVE TeamSpends'
  BY <1>8, ToldSpends DEF T!Execute
<1>9. CASE UNCHANGED tVars
  BY <1>9 DEF tVars, TeamSpends
<1> QED BY <1>1, <1>2, <1>3, <1>4, <1>5, <1>6, <1>7, <1>8, <1>9 DEF T!TeamNext, T!TeamStep

BudgetInv == OneSpends /\ TeamSpends

LEMMA BudgetInit == AgentsInit => BudgetInv
<1> SUFFICES ASSUME AgentsInit PROVE BudgetInv
  OBVIOUS
<1>1. OneSpends
  BY BudgetsGiven, UseBounded DEF AgentsInit, AgentInit, OneSpends, OverrunByOneCall, Nothing, Spent, Rate
<1>2. TeamSpends
  BY TeamGiven, EmptyTyped DEF AgentsInit, T!TeamInit, T!Nothing, Nothing, TeamSpends, Spent
<1> QED BY <1>1, <1>2 DEF BudgetInv

LEMMA BudgetStep == BudgetInv /\ [AgentsNext]_<<side, agentVars, tVars>> => BudgetInv'
<1> SUFFICES ASSUME BudgetInv, [AgentsNext]_<<side, agentVars, tVars>> PROVE BudgetInv'
  OBVIOUS
<1>1. [AgentNext]_agentVars /\ [T!TeamNext]_tVars
  BY DEF AgentsNext
<1> QED BY <1>1, OneSpendsWithinBudget, TeamSpendsWithinBudget DEF BudgetInv

\* The "hard spending cap" is overrun by no more than the single agent's last
\* call, or the team's last sub-task, whatever models say, however often work
\* is handed over, and whatever the budgets are.
THEOREM BudgetKept == AgentsSpec => []OverrunBounded
<1>1. BudgetInv => OverrunBounded
  BY TeamGiven DEF BudgetInv, OneSpends, TeamSpends, OverrunBounded, T!OverrunByOneSubtask, T!SubtaskSteps, T!Rate
<1> QED BY <1>1, BudgetInit, BudgetStep, PTL DEF AgentsSpec

-----------------------------------------------------------------------------
(* The cache *)

\* What storing does to the entries there is room for.
Put(r, key, e) ==
  IF Has(r, key) THEN [i \in DOMAIN r |-> IF r[i].key = key THEN e ELSE r[i]] ELSE Append(r, e)

\* An entry of s is e or one of c's.
NewOrOld(s, e, c) == \A i \in DOMAIN s : s[i] = e \/ \E j \in DOMAIN c : s[i] = c[j]

LEMMA PutFacts ==
  ASSUME NEW S, NEW r \in Seq(S), NEW key, NEW e, e.key = key
  PROVE  LET s == Put(r, key, e) IN
         /\ s \in Seq(S \cup {e})
         /\ Has(s, key)
         /\ \A k : Has(r, k) => Has(s, k)
         /\ NewOrOld(s, e, r)
<1> DEFINE s == Put(r, key, e)
<1>1. CASE Has(r, key)
  <2>1. s = [i \in DOMAIN r |-> IF r[i].key = key THEN e ELSE r[i]]
    BY <1>1 DEF Put
  <2> HIDE DEF s
  <2>2. DOMAIN r = 1 .. Len(r) /\ Len(r) \in Nat /\ \A i \in DOMAIN r : r[i] \in S
    OBVIOUS
  <2>3. s \in Seq(S \cup {e})
    <3>1. s \in [1 .. Len(r) -> S \cup {e}]
      BY <2>1, <2>2
    <3>2. \A n \in Nat : [1 .. n -> S \cup {e}] \subseteq Seq(S \cup {e})
      OBVIOUS
    <3> QED BY <2>2, <3>1, <3>2
  <2>4. DOMAIN s = DOMAIN r /\ \A i \in DOMAIN r : s[i] = IF r[i].key = key THEN e ELSE r[i]
    BY <2>1
  <2>5. \A i \in DOMAIN r : s[i].key = r[i].key
    BY <2>4
  <2> QED BY <1>1, <2>3, <2>4, <2>5 DEF Has, s, NewOrOld
<1>2. CASE ~Has(r, key)
  <2>1. s = Append(r, e)
    BY <1>2 DEF Put
  <2> HIDE DEF s
  <2>2. /\ s \in Seq(S \cup {e}) /\ DOMAIN r = 1 .. Len(r) /\ DOMAIN s = 1 .. Len(r) + 1 /\ Len(r) \in Nat
        /\ \A i \in 1 .. Len(r) : s[i] = r[i]
        /\ s[Len(r) + 1] = e
    BY <2>1
  <2>3. Has(s, key)
    <3>1. Len(r) + 1 \in DOMAIN s /\ s[Len(r) + 1].key = key
      BY <2>2
    <3> QED BY <3>1 DEF Has
  <2>4. \A k : Has(r, k) => Has(s, k)
    BY <2>2 DEF Has
  <2>5. \A i \in DOMAIN s : s[i] = e \/ \E j \in DOMAIN r : s[i] = r[j]
    BY <2>2
  <2> QED BY <2>2, <2>3, <2>4, <2>5 DEF s, NewOrOld
<1> QED BY <1>1, <1>2

\* What a full cache drops is its first entry.
LEMMA TailFacts ==
  ASSUME NEW S, NEW c \in Seq(S), c # <<>>
  PROVE  /\ Tail(c) \in Seq(S)
         /\ \A k : Has(c, k) => Has(Tail(c), k) \/ k = c[1].key
         /\ \A i \in DOMAIN Tail(c) : \E j \in DOMAIN c : Tail(c)[i] = c[j]
<1>1. /\ Tail(c) \in Seq(S) /\ Len(c) \in Nat \ {0} /\ DOMAIN c = 1 .. Len(c)
      /\ DOMAIN Tail(c) = 1 .. Len(c) - 1
      /\ \A i \in 1 .. Len(c) - 1 : Tail(c)[i] = c[i + 1]
  OBVIOUS
<1>2. \A i \in DOMAIN Tail(c) : \E j \in DOMAIN c : Tail(c)[i] = c[j]
  BY <1>1
<1>3. ASSUME NEW k, Has(c, k), k # c[1].key PROVE Has(Tail(c), k)
  <2>1. PICK i \in DOMAIN c : c[i].key = k
    BY <1>3 DEF Has
  <2>2. i - 1 \in DOMAIN Tail(c) /\ Tail(c)[i - 1] = c[i]
    BY <1>1, <1>3, <2>1
  <2> QED BY <2>1, <2>2 DEF Has
<1> QED BY <1>1, <1>2, <1>3

Entry(key, value) == [key |-> key, value |-> value]

\* There is room, or the first entry is dropped.
MadeRoom(c, r, dropped) ==
  \/ r = c /\ dropped = {}
  \/ c # <<>> /\ r = Tail(c) /\ dropped = {c[1].key}

LEMMA RoomFacts ==
  ASSUME NEW S, NEW c \in Seq(S), NEW r, NEW dropped, MadeRoom(c, r, dropped)
  PROVE  /\ r \in Seq(S)
         /\ \A k : Has(c, k) => Has(r, k) \/ k \in dropped
         /\ \A i \in DOMAIN r : \E j \in DOMAIN c : r[i] = c[j]
<1>1. CASE r = c /\ dropped = {}
  BY <1>1
<1>2. CASE c # <<>> /\ r = Tail(c) /\ dropped = {c[1].key}
  <2>1. \A k : Has(c, k) => Has(Tail(c), k) \/ k = c[1].key
    BY <1>2, TailFacts
  <2>2. Tail(c) \in Seq(S) /\ \A i \in DOMAIN Tail(c) : \E j \in DOMAIN c : Tail(c)[i] = c[j]
    BY <1>2, TailFacts
  <2> QED BY <1>2, <2>1, <2>2
<1> QED BY <1>1, <1>2 DEF MadeRoom

\* Nothing but the key stored comes into the cache, and nothing but what is
\* dropped leaves it.
LEMMA Stored ==
  ASSUME NEW S, NEW c \in Seq(S), NEW key, NEW e, e.key = key, NEW r, NEW dropped,
         MadeRoom(c, r, dropped)
  PROVE  /\ Put(r, key, e) \in Seq(S \cup {e})
         /\ Has(Put(r, key, e), key)
         /\ \A k : Has(c, k) => Has(Put(r, key, e), k) \/ k \in dropped
         /\ NewOrOld(Put(r, key, e), e, c)
<1>1. /\ r \in Seq(S)
      /\ \A k : Has(c, k) => Has(r, k) \/ k \in dropped
      /\ \A i \in DOMAIN r : \E j \in DOMAIN c : r[i] = c[j]
  BY RoomFacts
<1> DEFINE s == Put(r, key, e)
<1>2. /\ s \in Seq(S \cup {e}) /\ Has(s, key) /\ NewOrOld(s, e, r)
      /\ \A k : Has(r, k) => Has(s, k)
  BY <1>1, PutFacts
<1> HIDE DEF s
<1>3. NewOrOld(s, e, c)
  BY <1>1, <1>2 DEF NewOrOld
<1> QED BY <1>1, <1>2, <1>3 DEF s

LEMMA OneStored ==
  ASSUME NEW S, NEW c \in Seq(S), NEW key, NEW value, NEW e, e = Entry(key, value)
  PROVE  /\ Store(c, key, value) \in Seq(S \cup {e})
         /\ Has(Store(c, key, value), key)
         /\ \A k : Has(c, k) => Has(Store(c, key, value), k) \/ k \in Dropped(c)
         /\ NewOrOld(Store(c, key, value), e, c)
<1>1. PICK r, dropped : r = Room(c) /\ dropped = Dropped(c)
  OBVIOUS
<1>2. MadeRoom(c, r, dropped)
  BY <1>1, UseBounded DEF Room, Dropped, Full, MadeRoom
<1>3. Store(c, key, value) = Put(r, key, e)
  BY <1>1 DEF Store, Put, Entry
<1>4. e.key = key
  BY DEF Entry
<1>5. /\ Put(r, key, e) \in Seq(S \cup {e}) /\ Has(Put(r, key, e), key)
      /\ \A k : Has(c, k) => Has(Put(r, key, e), k) \/ k \in dropped
      /\ NewOrOld(Put(r, key, e), e, c)
  BY <1>2, <1>4, Stored
<1> QED BY <1>1, <1>3, <1>5

LEMMA SameHas == \A c, k : T!Has(c, k) <=> Has(c, k)
BY DEF T!Has, Has

LEMMA TeamStored ==
  ASSUME NEW S, NEW c \in Seq(S), NEW key, NEW value, NEW e, e = Entry(key, value)
  PROVE  /\ T!Store(c, key, value) \in Seq(S \cup {e})
         /\ Has(T!Store(c, key, value), key)
         /\ \A k : Has(c, k) => Has(T!Store(c, key, value), k) \/ k \in T!Dropped(c)
         /\ NewOrOld(T!Store(c, key, value), e, c)
<1>1. PICK r, dropped : r = T!Room(c) /\ dropped = T!Dropped(c)
  OBVIOUS
<1>2. MadeRoom(c, r, dropped)
  BY <1>1, TeamGiven DEF T!Room, T!Dropped, T!Full, MadeRoom
<1>3. T!Store(c, key, value) = Put(r, key, e)
  BY <1>1, SameHas DEF T!Store, Put, Entry
<1>4. e.key = key
  BY DEF Entry
<1>5. /\ Put(r, key, e) \in Seq(S \cup {e}) /\ Has(Put(r, key, e), key)
      /\ \A k : Has(c, k) => Has(Put(r, key, e), k) \/ k \in dropped
      /\ NewOrOld(Put(r, key, e), e, c)
  BY <1>2, <1>4, Stored
<1> QED BY <1>1, <1>3, <1>5

\* A reply is added to the entries there is room for.
LEMMA TeamReplyStored ==
  ASSUME NEW S, NEW c \in Seq(S), NEW e, e = Entry(None, "reply")
  PROVE  /\ T!WithReply(c) \in Seq(S \cup {e})
         /\ \A k : Has(c, k) => Has(T!WithReply(c), k) \/ k \in T!Dropped(c)
         /\ NewOrOld(T!WithReply(c), e, c)
<1>1. PICK r, dropped : r = T!Room(c) /\ dropped = T!Dropped(c)
  OBVIOUS
<1>2. MadeRoom(c, r, dropped)
  BY <1>1, TeamGiven DEF T!Room, T!Dropped, T!Full, MadeRoom
<1>3. /\ r \in Seq(S)
      /\ \A k : Has(c, k) => Has(r, k) \/ k \in dropped
      /\ \A i \in DOMAIN r : \E j \in DOMAIN c : r[i] = c[j]
  BY <1>2, RoomFacts
<1>4. PICK s : s = Append(r, e)
  OBVIOUS
<1>5. T!WithReply(c) = s
  BY <1>1, <1>4 DEF T!WithReply, Entry
<1>6. /\ s \in Seq(S \cup {e}) /\ DOMAIN r = 1 .. Len(r) /\ DOMAIN s = 1 .. Len(r) + 1 /\ Len(r) \in Nat
      /\ \A i \in 1 .. Len(r) : s[i] = r[i]
      /\ s[Len(r) + 1] = e
  BY <1>3, <1>4
<1>7. \A k : Has(r, k) => Has(s, k)
  BY <1>6 DEF Has
<1>8. \A i \in DOMAIN s : s[i] = e \/ \E j \in DOMAIN r : s[i] = r[j]
  BY <1>6
<1>9. NewOrOld(s, e, c)
  BY <1>3, <1>8 DEF NewOrOld
<1> QED BY <1>1, <1>3, <1>5, <1>6, <1>7, <1>9

LEMMA OnlyStored ==
  ASSUME NEW s, NEW key, NEW value, NEW c, NewOrOld(s, Entry(key, value), c), NEW k, Has(s, k)
  PROVE  k = key \/ Has(c, k)
<1>1. PICK i \in DOMAIN s : s[i].key = k
  BY DEF Has
<1>2. s[i] = Entry(key, value) \/ \E j \in DOMAIN c : s[i] = c[j]
  BY DEF NewOrOld
<1>3. Entry(key, value).key = key
  BY DEF Entry
<1> QED BY <1>1, <1>2, <1>3 DEF Has

-----------------------------------------------------------------------------
(* What is reported was done, and done once *)

\* What was done is in the cache or was forgotten.
OneWorks ==
  /\ \E S : cache \in Seq(S)
  /\ done \in [Tool -> Nat]
  /\ \A a \in taken : a.status = "COMPLETED" => a.tool \in Tool /\ done[a.tool] >= 1
  /\ \A t \in Tool :
       /\ Has(cache, CallKey(t)) => done[t] >= 1
       /\ done[t] >= 1 => Has(cache, CallKey(t)) \/ CallKey(t) \in forgotten
       /\ done[t] > 1 => CallKey(t) \in forgotten

LEMMA KeysDiffer ==
  /\ \A t, u : CallKey(t) = CallKey(u) => t = u
  /\ \A t, prompt : CallKey(t) # [of |-> "model", tool |-> {}, prompt |-> prompt]
<1>1. ASSUME NEW t, NEW u, CallKey(t) = CallKey(u) PROVE t = u
  <2>1. CallKey(t).tool = {t} /\ CallKey(u).tool = {u}
    BY DEF CallKey
  <2> QED BY <1>1, <2>1
<1>2. \A t, prompt : CallKey(t) # [of |-> "model", tool |-> {}, prompt |-> prompt]
  <2>1. \A t, prompt : CallKey(t).of = "tool" /\ [of |-> "model", tool |-> {}, prompt |-> prompt].of = "model"
    BY DEF CallKey
  <2> QED BY <2>1
<1> QED BY <1>1, <1>2

\* A step that leaves the cache and the calls made alone.
LEMMA OneReported ==
  ASSUME OneWorks, UNCHANGED <<cache, done, forgotten>>,
         \A a \in taken' : a \in taken \/ (a.status = "COMPLETED" => a.tool \in Tool /\ done[a.tool] >= 1)
  PROVE  OneWorks'
BY DEF OneWorks, CallKey

LEMMA OneWorksOnce ==
  ASSUME OneWorks, [AgentNext]_agentVars
  PROVE  OneWorks'
<1>1. CASE Ask
  <2>1. CASE UNCHANGED <<cache, forgotten>>
    BY <1>1, <2>1, OneReported DEF Ask, work
  <2>2. ASSUME NEW key, key = [of |-> "model", tool |-> {}, prompt |-> Compress(history)],
               cache' = Store(cache, key, reply'), forgotten' = forgotten \cup Dropped(cache)
        PROVE  OneWorks'
    <3>1. UNCHANGED <<taken, done>>
      BY <1>1 DEF Ask, work
    <3>2. PICK S : cache \in Seq(S)
      BY DEF OneWorks
    <3>3. PICK e : e = Entry(key, reply')
      OBVIOUS
    <3>4. /\ cache' \in Seq(S \cup {e})
          /\ \A k : Has(cache, k) => Has(cache', k) \/ k \in Dropped(cache)
          /\ NewOrOld(cache', e, cache)
      BY <2>2, <3>2, <3>3, OneStored
    <3>5. \A t : CallKey(t) # key
      BY <2>2, KeysDiffer
    <3>6. \A t : Has(cache', CallKey(t)) => Has(cache, CallKey(t))
      BY <3>3, <3>4, <3>5, OnlyStored
    <3>7. \A t : CallKey(t)' = CallKey(t)
      BY DEF CallKey
    <3> QED BY <2>2, <3>1, <3>4, <3>6, <3>7 DEF OneWorks
  <2> QED BY <1>1, <2>1, <2>2 DEF Ask
<1>2. ASSUME NEW t \in Tool, Execute(t) PROVE OneWorks'
  <2>1. /\ cache' = Store(cache, CallKey(t), "answer") /\ forgotten' = forgotten \cup Dropped(cache)
        /\ done' = [done EXCEPT ![t] = @ + 1] /\ ~Has(cache, CallKey(t))
        /\ taken' = taken \cup {[tool |-> t, status |-> "COMPLETED"]}
    BY <1>2 DEF Execute, Callable, Report
  <2>2. PICK S : cache \in Seq(S)
    BY DEF OneWorks
  <2>3. PICK e : e = Entry(CallKey(t), "answer")
    OBVIOUS
  <2>4. /\ cache' \in Seq(S \cup {e})
        /\ Has(cache', CallKey(t))
        /\ \A k : Has(cache, k) => Has(cache', k) \/ k \in Dropped(cache)
        /\ NewOrOld(cache', e, cache)
    BY <2>1, <2>2, <2>3, OneStored
  <2>5. /\ done' \in [Tool -> Nat] /\ done'[t] = done[t] + 1 /\ done[t] \in Nat
        /\ \A u \in Tool : u # t => done'[u] = done[u]
    BY <2>1 DEF OneWorks
  <2>6. \A u \in Tool : u # t /\ Has(cache', CallKey(u)) => Has(cache, CallKey(u))
    BY <2>3, <2>4, KeysDiffer, OnlyStored
  <2>7. \A u : CallKey(u)' = CallKey(u)
    BY DEF CallKey
  <2>8. ASSUME NEW a \in taken', a.status = "COMPLETED" PROVE a.tool \in Tool /\ done'[a.tool] >= 1
    <3>1. CASE a \in taken
      <4>1. a.tool \in Tool /\ done[a.tool] >= 1
        BY <2>8, <3>1 DEF OneWorks
      <4> QED BY <2>5, <4>1
    <3>2. CASE a.tool = t
      BY <2>5, <3>2
    <3> QED BY <2>1, <2>8, <3>1, <3>2
  <2>9. ASSUME NEW u \in Tool
        PROVE  /\ Has(cache', CallKey(u)) => done'[u] >= 1
               /\ done'[u] >= 1 => Has(cache', CallKey(u)) \/ CallKey(u) \in forgotten'
               /\ done'[u] > 1 => CallKey(u) \in forgotten'
    <3>1. CASE u = t
      <4>1. done[t] >= 1 => CallKey(t) \in forgotten
        BY <2>1 DEF OneWorks
      <4> QED BY <2>1, <2>4, <2>5, <3>1, <4>1
    <3>2. CASE u # t
      <4>1. /\ Has(cache, CallKey(u)) => done[u] >= 1
            /\ done[u] >= 1 => Has(cache, CallKey(u)) \/ CallKey(u) \in forgotten
            /\ done[u] > 1 => CallKey(u) \in forgotten
        BY DEF OneWorks
      <4> QED BY <2>1, <2>4, <2>5, <2>6, <3>2, <4>1
    <3> QED BY <3>1, <3>2
  <2> QED BY <2>4, <2>5, <2>7, <2>8, <2>9 DEF OneWorks
<1>3. ASSUME NEW t \in Tool, Recall(t) PROVE OneWorks'
  <2>1. done[t] >= 1
    BY <1>3 DEF Recall, OneWorks
  <2> QED BY <1>3, <2>1, OneReported DEF Recall, Report
<1>4. ASSUME NEW t \in Tool, ExecuteFails(t) PROVE OneWorks'
  BY <1>4, OneReported DEF ExecuteFails, Report
<1>5. CASE Propose
  BY <1>5, OneReported DEF Propose
<1>6. CASE UNCHANGED <<cache, done, forgotten, taken>>
  BY <1>6, OneReported
<1>7. \/ Misconfigured \/ Halt \/ AskFails \/ Finish \/ Unavailable \/ Reprompt \/ Conclude \/ Die
      \/ \E mode, review : RunAgent(mode, review)
      \/ UNCHANGED agentVars
      => UNCHANGED <<cache, done, forgotten, taken>>
  BY DEF Misconfigured, Halt, AskFails, Finish, Unavailable, Reprompt, Conclude, Die, RunAgent, work, agentVars
<1> QED BY <1>1, <1>2, <1>3, <1>4, <1>5, <1>6, <1>7 DEF AgentNext, AgentStep

\* The same of the team, whose empty reports count as forgotten at once.
TeamWorks ==
  /\ \E S : tCache \in Seq(S)
  /\ tDone \in [Tool -> Nat]
  /\ tPhase = "reply" => tCall \in Tool
  /\ \A a \in tTaken : a.status = "COMPLETED" => a.tool \in Tool /\ tDone[a.tool] >= 1
  /\ \A i \in DOMAIN tCache : tCache[i].value = "empty" => tCache[i].key \in tForgotten
  /\ \A t \in Tool :
       /\ Has(tCache, t) => tDone[t] >= 1
       /\ tDone[t] >= 1 => Has(tCache, t) \/ t \in tForgotten
       /\ tDone[t] > 1 => t \in tForgotten

LEMMA TeamReported ==
  ASSUME TeamWorks, UNCHANGED <<tCache, tDone, tForgotten>>, tPhase' = "reply" => tCall' \in Tool,
         \A a \in tTaken' : a \in tTaken \/ (a.status = "COMPLETED" => a.tool \in Tool /\ tDone[a.tool] >= 1)
  PROVE  TeamWorks'
BY DEF TeamWorks

LEMMA ToldPhase ==
  ASSUME NEW status, NEW report, T!Told(status, report)
  PROVE  tPhase' # "reply" /\ tTaken' = tTaken \cup {[tool |-> tCall, status |-> status]}
BY DEF T!Told, T!Over

\* A reply in the cache may push out the report of a tool, which is then known to
\* be forgotten.
LEMMA TeamReplied ==
  ASSUME TeamWorks, T!Replied, UNCHANGED <<tDone, tTaken>>, tPhase' = "reply" => tCall' \in Tool
  PROVE  TeamWorks'
<1>1. PICK S : tCache \in Seq(S)
  BY DEF TeamWorks
<1>2. PICK e : e = Entry(None, "reply")
  OBVIOUS
<1>3. /\ tCache' \in Seq(S \cup {e})
      /\ \A k : Has(tCache, k) => Has(tCache', k) \/ k \in T!Dropped(tCache)
      /\ NewOrOld(tCache', e, tCache)
  BY <1>1, <1>2, TeamReplyStored DEF T!Replied
<1>4. tForgotten' = tForgotten \cup (T!Dropped(tCache) \cap Tool)
  BY DEF T!Replied, T!Losing
<1>5. \A t \in Tool : Has(tCache', t) => Has(tCache, t)
  BY <1>2, <1>3, OnlyStored, TeamGiven
<1>6. ASSUME NEW t \in Tool
      PROVE  /\ Has(tCache', t) => tDone'[t] >= 1
             /\ tDone'[t] >= 1 => Has(tCache', t) \/ t \in tForgotten'
             /\ tDone'[t] > 1 => t \in tForgotten'
  BY <1>3, <1>4, <1>5 DEF TeamWorks
<1>7. ASSUME NEW i \in DOMAIN tCache', tCache'[i].value = "empty" PROVE tCache'[i].key \in tForgotten'
  <2>1. tCache'[i] # e
    BY <1>2, <1>7 DEF Entry
  <2>2. PICK j \in DOMAIN tCache : tCache'[i] = tCache[j]
    BY <1>3, <2>1 DEF NewOrOld
  <2> QED BY <1>4, <1>7, <2>2 DEF TeamWorks
<1>8. /\ tDone' \in [Tool -> Nat]
      /\ \A a \in tTaken' : a.status = "COMPLETED" => a.tool \in Tool /\ tDone'[a.tool] >= 1
  BY DEF TeamWorks
<1> QED BY <1>3, <1>6, <1>7, <1>8 DEF TeamWorks

LEMMA TeamWorksOnceStep ==
  ASSUME TeamWorks, [T!TeamNext]_tVars
  PROVE  TeamWorks'
<1>1. ASSUME NEW report \in T!Report, T!Execute(report) PROVE TeamWorks'
  <2> DEFINE t == tCall
  <2>1. /\ tCache' = T!Store(tCache, t, report) /\ ~T!Known(t) /\ t \in Tool
        /\ tForgotten' = tForgotten \cup (T!Dropped(tCache) \cap Tool) \cup (IF report = "empty" THEN {t} ELSE {})
        /\ tDone' = [tDone EXCEPT ![t] = @ + 1]
        /\ tTaken' = tTaken \cup {[tool |-> t, status |-> "COMPLETED"]} /\ tPhase' # "reply"
    BY <1>1, ToldPhase DEF T!Execute, T!Losing, TeamWorks
  <2>2. PICK S : tCache \in Seq(S)
    BY DEF TeamWorks
  <2>3. PICK e : e = Entry(t, report)
    OBVIOUS
  <2> HIDE DEF t
  <2>4. /\ tCache' \in Seq(S \cup {e})
        /\ Has(tCache', t)
        /\ \A k : Has(tCache, k) => Has(tCache', k) \/ k \in T!Dropped(tCache)
        /\ NewOrOld(tCache', e, tCache)
    BY <2>1, <2>2, <2>3, TeamStored
  <2>5. /\ tDone' \in [Tool -> Nat] /\ tDone'[t] = tDone[t] + 1 /\ tDone[t] \in Nat
        /\ \A u \in Tool : u # t => tDone'[u] = tDone[u]
    BY <2>1 DEF TeamWorks
  <2>6. \A u \in Tool : u # t /\ Has(tCache', u) => Has(tCache, u)
    BY <2>3, <2>4, OnlyStored
  <2>7. tDone[t] >= 1 => t \in tForgotten
    <3>1. CASE ~Has(tCache, t)
      BY <2>1, <3>1 DEF TeamWorks
    <3>2. CASE Has(tCache, t)
      <4>1. T!Lookup(tCache, t) = "empty"
        BY <2>1, <3>2, SameHas DEF T!Known
      <4>2. PICK i \in DOMAIN tCache : tCache[i].key = t /\ T!Lookup(tCache, t) = tCache[i].value
        <5>1. \E i \in DOMAIN tCache : tCache[i].key = t
          BY <3>2 DEF Has
        <5> QED BY <5>1 DEF T!Lookup
      <4> QED BY <4>1, <4>2 DEF TeamWorks
    <3> QED BY <3>1, <3>2
  <2>8. ASSUME NEW a \in tTaken', a.status = "COMPLETED" PROVE a.tool \in Tool /\ tDone'[a.tool] >= 1
    <3>1. CASE a \in tTaken
      <4>1. a.tool \in Tool /\ tDone[a.tool] >= 1
        BY <2>8, <3>1 DEF TeamWorks
      <4> QED BY <2>5, <4>1
    <3>2. CASE a.tool = t
      BY <2>1, <2>5, <3>2
    <3> QED BY <2>1, <2>8, <3>1, <3>2
  <2>9. ASSUME NEW u \in Tool
        PROVE  /\ Has(tCache', u) => tDone'[u] >= 1
               /\ tDone'[u] >= 1 => Has(tCache', u) \/ u \in tForgotten'
               /\ tDone'[u] > 1 => u \in tForgotten'
    <3>1. CASE u = t
      BY <2>1, <2>4, <2>5, <2>7, <3>1
    <3>2. CASE u # t
      <4>1. /\ Has(tCache, u) => tDone[u] >= 1
            /\ tDone[u] >= 1 => Has(tCache, u) \/ u \in tForgotten
            /\ tDone[u] > 1 => u \in tForgotten
        BY DEF TeamWorks
      <4> QED BY <2>1, <2>4, <2>5, <2>6, <3>2, <4>1
    <3> QED BY <3>1, <3>2
  <2>10. ASSUME NEW i \in DOMAIN tCache', tCache'[i].value = "empty" PROVE tCache'[i].key \in tForgotten'
    <3>1. CASE tCache'[i] = e
      <4>1. report = "empty" /\ tCache'[i].key = t
        BY <2>3, <2>10, <3>1 DEF Entry
      <4> QED BY <2>1, <4>1
    <3>2. CASE \E j \in DOMAIN tCache : tCache'[i] = tCache[j]
      <4>1. tCache'[i].key \in tForgotten
        BY <2>10, <3>2 DEF TeamWorks
      <4> QED BY <2>1, <4>1
    <3> QED BY <2>4, <3>1, <3>2 DEF NewOrOld
  <2> QED BY <2>1, <2>4, <2>5, <2>8, <2>9, <2>10 DEF TeamWorks
<1>2. CASE T!Recall
  <2>1. tCall \in Tool /\ Has(tCache, tCall)
    BY <1>2, SameHas DEF T!Recall, T!Known, TeamWorks
  <2>2. tDone[tCall] >= 1
    BY <2>1 DEF TeamWorks
  <2> QED BY <1>2, <2>1, <2>2, ToldPhase, TeamReported DEF T!Recall
<1>3. CASE T!ExecuteFails
  BY <1>3, ToldPhase, TeamReported DEF T!ExecuteFails
<1>4. CASE T!Propose
  BY <1>4, TeamReported DEF T!Propose, T!books
<1>5. CASE UNCHANGED <<tCache, tDone, tForgotten, tTaken>> /\ (tPhase' = "reply" => tCall' \in Tool)
  BY <1>5, TeamReported
<1>6. UNCHANGED tVars => UNCHANGED <<tCache, tDone, tForgotten, tTaken>> /\ (tPhase' = "reply" => tCall' \in Tool)
  BY DEF tVars, TeamWorks
<1>7. CASE T!Ask
  BY <1>7, TeamReplied DEF T!Ask, T!Over
<1>8. ASSUME NEW g \in T!Goal, T!Decompose(g) PROVE TeamWorks'
  <2>1. UNCHANGED <<tDone, tTaken>> /\ tPhase' = "dispatch"
    BY <1>8 DEF T!Decompose
  <2>2. T!Replied \/ UNCHANGED <<tCache, tForgotten>>
    BY <1>8 DEF T!Decompose
  <2> QED BY <2>1, <2>2, TeamReplied, TeamReported
<1>9. T!Orchestrate \/ T!Dispatch \/ T!Synthesize \/ T!GiveUp \/ T!Die
      => UNCHANGED <<tCache, tDone, tForgotten, tTaken>> /\ (tPhase' = "reply" => tCall' \in Tool)
  BY DEF T!Orchestrate, T!Dispatch, T!Synthesize, T!GiveUp, T!Die, T!Over, T!books
<1> QED BY <1>1, <1>2, <1>3, <1>4, <1>5, <1>6, <1>7, <1>8, <1>9 DEF T!TeamNext, T!TeamStep

\* What is reported as done was done, by whichever specialist, and done once
\* unless its report was dropped from the cache, for another report or for what a
\* model replied, or was empty: for every size of the cache, and however long the
\* run.
THEOREM WorkDoneOnce == AgentsSpec => []WorksOnce
<1> DEFINE WorksInv == OneWorks /\ TeamWorks
<1>1. AgentsInit => WorksInv
  <2> SUFFICES ASSUME AgentsInit PROVE WorksInv
    OBVIOUS
  <2>1. <<>> \in Seq({}) /\ \A k : ~Has(<<>>, k)
    BY DEF Has
  <2>2. OneWorks
    BY <2>1 DEF AgentsInit, AgentInit, OneWorks
  <2>3. TeamWorks
    BY <2>1 DEF AgentsInit, T!TeamInit, TeamWorks
  <2> QED BY <2>2, <2>3
<1>2. WorksInv /\ [AgentsNext]_<<side, agentVars, tVars>> => WorksInv'
  <2> SUFFICES ASSUME WorksInv, [AgentsNext]_<<side, agentVars, tVars>> PROVE WorksInv'
    OBVIOUS
  <2>1. [AgentNext]_agentVars /\ [T!TeamNext]_tVars
    BY DEF AgentsNext
  <2> QED BY <2>1, OneWorksOnce, TeamWorksOnceStep
<1>3. WorksInv => WorksOnce
  BY DEF OneWorks, TeamWorks, WorksOnce, AgentWorksOnce, T!TeamWorksOnce
<1> HIDE DEF WorksInv
<1> QED BY <1>1, <1>2, <1>3, PTL DEF AgentsSpec

-----------------------------------------------------------------------------
(* The conversation *)

\* h begins with the opening and ends as the conversation t does: all of it
\* while it is short, and the last Window + 1 messages when it is not.
Reminds(h, t) ==
  /\ Len(h) >= 2 /\ h[1] = Opening[1] /\ h[2] = Opening[2]
  /\ Len(t) <= Window => Len(h) = Len(t) + 2
  /\ Len(t) > Window => Len(h) >= Window + 3
  /\ \A i \in 0 .. Window : i < Len(t) => h[Len(h) - i] = t[Len(t) - i]

\* Both hear the same next message.
LEMMA HearAlike ==
  ASSUME NEW S, NEW h \in Seq(S), NEW t \in Seq(S), NEW m, Reminds(h, t)
  PROVE  /\ Append(h, m) \in Seq(S \cup {m}) /\ Append(t, m) \in Seq(S \cup {m})
         /\ Len(Append(h, m)) = Len(h) + 1
         /\ Reminds(Append(h, m), Append(t, m))
<1> DEFINE hm == Append(h, m)
           tm == Append(t, m)
<1>1. /\ hm \in Seq(S \cup {m}) /\ Len(hm) = Len(h) + 1 /\ hm[Len(h) + 1] = m
      /\ \A i \in 1 .. Len(h) : hm[i] = h[i]
  OBVIOUS
<1>2. /\ tm \in Seq(S \cup {m}) /\ Len(tm) = Len(t) + 1 /\ tm[Len(t) + 1] = m
      /\ \A i \in 1 .. Len(t) : tm[i] = t[i]
  OBVIOUS
<1>3. Len(h) \in Nat /\ Len(t) \in Nat
  OBVIOUS
<1> HIDE DEF hm, tm
<1>4. ASSUME NEW i \in 0 .. Window, i < Len(tm) PROVE hm[Len(hm) - i] = tm[Len(tm) - i]
  <2>1. CASE i = 0
    BY <1>1, <1>2, <1>3, <2>1
  <2>2. CASE i > 0
    <3>1. i - 1 \in 0 .. Window /\ i - 1 < Len(t)
      BY <1>2, <1>3, <1>4, <2>2, LoopGiven
    <3>2. h[Len(h) - (i - 1)] = t[Len(t) - (i - 1)]
      BY <3>1 DEF Reminds
    <3>3. Len(hm) - i = Len(h) - (i - 1) /\ Len(tm) - i = Len(t) - (i - 1)
      BY <1>1, <1>2, <1>3, <3>1
    <3>4. Len(h) - (i - 1) \in 1 .. Len(h) /\ Len(t) - (i - 1) \in 1 .. Len(t)
      <4>1. Window \in Nat /\ i \in Nat /\ i <= Window
        BY LoopGiven
      <4>2. Len(h) >= i
        <5>1. CASE Len(t) <= Window
          BY <1>3, <3>1, <4>1, <5>1 DEF Reminds
        <5>2. CASE Len(t) > Window
          BY <1>3, <4>1, <5>2 DEF Reminds
        <5> QED BY <1>3, <4>1, <5>1, <5>2
      <4> QED BY <1>3, <2>2, <3>1, <4>1, <4>2
    <3> QED BY <1>1, <1>2, <3>2, <3>3, <3>4
  <2> QED BY <1>3, <2>1, <2>2
<1>5. Len(hm) >= 2 /\ hm[1] = Opening[1] /\ hm[2] = Opening[2]
  BY <1>1, <1>3 DEF Reminds
<1>6. (Len(tm) <= Window => Len(hm) = Len(tm) + 2) /\ (Len(tm) > Window => Len(hm) >= Window + 3)
  BY <1>1, <1>2, <1>3, LoopGiven DEF Reminds
<1>7. Reminds(hm, tm)
  BY <1>4, <1>5, <1>6 DEF Reminds
<1> QED BY <1>1, <1>2, <1>7 DEF hm, tm

\* x goes on with b after n places.
GoesOn(x, n, b) == \A i \in 1 .. Len(b) : x[n + i] = b[i]

LEMMA Joined ==
  ASSUME NEW S, NEW a \in Seq(S), NEW b \in Seq(S)
  PROVE  /\ a \o b \in Seq(S) /\ Len(a \o b) = Len(a) + Len(b)
         /\ \A i \in 1 .. Len(a) : (a \o b)[i] = a[i]
         /\ GoesOn(a \o b, Len(a), b)
BY DEF GoesOn

\* What a compressed conversation consists of.
LEMMA Compressed ==
  ASSUME NEW S, NEW h \in Seq(S), Len(h) > 6, Len(h) > Window + 2
  PROVE  LET c == Compress(h) IN
         /\ \E sum : c \in Seq(S \cup {sum})
         /\ Len(c) = Window + 3
         /\ c[1] = h[1] /\ c[2] = h[2]
         /\ \A i \in 0 .. Window - 1 : c[Len(c) - i] = h[Len(h) - i]
<1> DEFINE sum  == Summary(SubSeq(h, 3, Len(h) - Window))
           from == SubSeq(h, 1, 2)
           till == SubSeq(h, Len(h) - Window + 1, Len(h))
           c    == from \o <<sum>> \o till
<1>2. Len(h) \in Nat /\ Window \in Nat /\ Window > 0
  BY LoopGiven
<1>1. Compress(h) = c
  <2>1. ~(Len(h) <= 6 \/ Len(h) <= Window + 2)
    BY <1>2
  <2> QED BY <2>1 DEF Compress
<1>3. from \in Seq(S) /\ Len(from) = 2 /\ from[1] = h[1] /\ from[2] = h[2]
  BY <1>2
<1>4. till \in Seq(S) /\ Len(till) = Window /\ \A i \in 1 .. Window : till[i] = h[Len(h) - Window + i]
  BY <1>2
<1> HIDE DEF sum, from, till
<1>5. PICK T1 : T1 = S \cup {sum}
  OBVIOUS
<1>6. from \in Seq(T1) /\ till \in Seq(T1)
  BY <1>3, <1>4, <1>5
<1>9. PICK one : one = <<sum>>
  OBVIOUS
<1>10. one \in Seq(T1) /\ Len(one) = 1
  BY <1>5, <1>9
<1>11. /\ from \o one \in Seq(T1) /\ Len(from \o one) = 3
       /\ (from \o one)[1] = h[1] /\ (from \o one)[2] = h[2]
  <2>1. from \o one \in Seq(T1) /\ Len(from \o one) = Len(from) + Len(one)
    BY <1>6, <1>10, Joined
  <2>2. \A i \in 1 .. Len(from) : (from \o one)[i] = from[i]
    BY <1>6, <1>10, Joined
  <2> QED BY <1>3, <1>10, <2>1, <2>2
<1>12. PICK front : front = from \o one
  OBVIOUS
<1>7. c \in Seq(T1) /\ Len(c) = 3 + Window /\ c[1] = h[1] /\ c[2] = h[2]
      /\ GoesOn(c, 3, till)
  <2>0. front \in Seq(T1) /\ Len(front) = 3 /\ front[1] = h[1] /\ front[2] = h[2]
    BY <1>11, <1>12
  <2>1. c = front \o till
    BY <1>9, <1>12
  <2> HIDE DEF c
  <2>2. /\ front \o till \in Seq(T1) /\ Len(front \o till) = Len(front) + Len(till)
        /\ \A i \in 1 .. Len(front) : (front \o till)[i] = front[i]
    BY <2>0, <1>6, Joined
  <2>3. GoesOn(front \o till, Len(front), till)
    BY <2>0, <1>6, Joined
  <2>4. c \in Seq(T1) /\ Len(c) = Len(front) + Len(till) /\ \A i \in 1 .. Len(front) : c[i] = front[i]
    BY <2>1, <2>2
  <2>5. GoesOn(c, 3, till)
    BY <2>0, <2>1, <2>3
  <2> QED BY <1>4, <2>0, <2>4, <2>5
<1> HIDE DEF c
<1>8. ASSUME NEW i \in 0 .. Window - 1 PROVE c[Len(c) - i] = h[Len(h) - i]
  <2>1. Window - i \in 1 .. Window /\ Len(c) - i = 3 + (Window - i) /\ Len(h) - i = Len(h) - Window + (Window - i)
    BY <1>2, <1>7
  <2>2. c[3 + (Window - i)] = till[Window - i] /\ till[Window - i] = h[Len(h) - Window + (Window - i)]
    BY <1>4, <1>7, <2>1 DEF GoesOn
  <2> QED BY <2>1, <2>2
<1>13. c \in Seq(S \cup {sum})
  BY <1>5, <1>7
<1>14. \E s : Compress(h) \in Seq(S \cup {s})
  BY <1>1, <1>13
<1>15. Len(c) = Window + 3 /\ c[1] = h[1] /\ c[2] = h[2]
  BY <1>2, <1>7
<1> QED BY <1>1, <1>8, <1>14, <1>15

\* A compressed history with the reply to it reminds as well, and is short.
LEMMA AskAlike ==
  ASSUME NEW S, NEW h \in Seq(S), NEW t \in Seq(S), NEW m, Reminds(h, t)
  PROVE  LET n == Append(Compress(h), m) IN
         /\ \E V : n \in Seq(V) /\ Append(t, m) \in Seq(V)
         /\ Reminds(n, Append(t, m))
         /\ Len(n) <= 7 \/ Len(n) <= Window + 4
<1>0. Len(h) \in Nat /\ Len(t) \in Nat /\ Window \in Nat /\ Window > 0
  BY LoopGiven
<1>1. CASE Len(h) <= 6 \/ Len(h) <= Window + 2
  <2>1. Compress(h) = h
    BY <1>1 DEF Compress
  <2> DEFINE hm == Append(h, m)
             tm == Append(t, m)
  <2>2. hm \in Seq(S \cup {m}) /\ tm \in Seq(S \cup {m}) /\ Len(hm) = Len(h) + 1 /\ Reminds(hm, tm)
    BY HearAlike
  <2> HIDE DEF hm, tm
  <2>3. Len(hm) <= 7 \/ Len(hm) <= Window + 4
    BY <1>0, <1>1, <2>2
  <2> QED BY <2>1, <2>2, <2>3 DEF hm, tm
<1>2. CASE Len(h) > 6 /\ Len(h) > Window + 2
  <2> DEFINE c == Compress(h)
             n == Append(c, m)
             tm == Append(t, m)
  <2>1. PICK sum : c \in Seq(S \cup {sum})
    BY <1>2, Compressed
  <2>2. /\ Len(c) = Window + 3 /\ c[1] = h[1] /\ c[2] = h[2]
        /\ \A i \in 0 .. Window - 1 : c[Len(c) - i] = h[Len(h) - i]
    BY <1>2, Compressed
  <2> HIDE DEF c
  <2>3. /\ n \in Seq(S \cup {sum, m}) /\ Len(n) = Window + 4 /\ n[Window + 4] = m
        /\ \A i \in 1 .. Window + 3 : n[i] = c[i]
    BY <1>0, <2>1, <2>2
  <2>4. /\ tm \in Seq(S \cup {sum, m}) /\ Len(tm) = Len(t) + 1 /\ tm[Len(t) + 1] = m
        /\ \A i \in 1 .. Len(t) : tm[i] = t[i]
    OBVIOUS
  <2> HIDE DEF n, tm
  <2>5. Len(t) > Window
    BY <1>0, <1>2 DEF Reminds
  <2>6. ASSUME NEW i \in 0 .. Window PROVE n[Len(n) - i] = tm[Len(tm) - i]
    <3>1. CASE i = 0
      BY <1>0, <2>3, <2>4, <3>1
    <3>2. CASE i > 0
      <4>1. i - 1 \in 0 .. Window - 1 /\ i - 1 \in 0 .. Window /\ i - 1 < Len(t)
        BY <1>0, <2>5, <3>2
      <4>2. c[Len(c) - (i - 1)] = h[Len(h) - (i - 1)] /\ h[Len(h) - (i - 1)] = t[Len(t) - (i - 1)]
        BY <2>2, <4>1 DEF Reminds
      <4>3. /\ Len(n) - i = Len(c) - (i - 1) /\ Len(tm) - i = Len(t) - (i - 1)
            /\ Len(n) - i \in 1 .. Window + 3 /\ Len(tm) - i \in 1 .. Len(t)
        BY <1>0, <2>2, <2>3, <2>4, <4>1
      <4> QED BY <2>3, <2>4, <4>2, <4>3
    <3> QED BY <1>0, <3>1, <3>2
  <2>7. Len(n) >= 2 /\ n[1] = Opening[1] /\ n[2] = Opening[2]
    BY <1>0, <2>2, <2>3 DEF Reminds
  <2>8. Reminds(n, tm)
    BY <1>0, <2>3, <2>4, <2>5, <2>6, <2>7 DEF Reminds
  <2> QED BY <2>3, <2>4, <2>8 DEF n, tm, c
<1> QED BY <1>0, <1>1, <1>2

ConvInv ==
  /\ \E S : history \in Seq(S) /\ transcript \in Seq(S)
  /\ Reminds(history, transcript)
  /\ phase = "reply" => Len(history) <= 7 \/ Len(history) <= Window + 4
  /\ Len(history) <= 8 \/ Len(history) <= Window + 5

LEMMA ConvInit == AgentInit => ConvInv
<1> SUFFICES ASSUME AgentInit PROVE ConvInv
  OBVIOUS
<1>1. history = Opening /\ transcript = <<>> /\ phase = "idle"
  BY DEF AgentInit
<1>2. PICK one, two : Opening = <<one, two>>
  BY DEF Opening
<1>3. history \in Seq({one, two}) /\ transcript \in Seq({one, two})
      /\ Len(history) = 2 /\ Len(transcript) = 0
  BY <1>1, <1>2
<1>4. Reminds(history, transcript)
  BY <1>1, <1>3, LoopGiven DEF Reminds
<1> QED BY <1>1, <1>3, <1>4 DEF ConvInv

LEMMA ObserveKeeps == ASSUME NEW about, ConvInv, phase = "reply", Observe(about) PROVE ConvInv'
<1>1. PICK S : history \in Seq(S) /\ transcript \in Seq(S)
  BY DEF ConvInv
<1>2. PICK m : history' = Append(history, m) /\ transcript' = Append(transcript, m)
  BY DEF Observe
<1>3. Reminds(history, transcript) /\ (Len(history) <= 7 \/ Len(history) <= Window + 4)
  BY DEF ConvInv
<1>4. /\ history' \in Seq(S \cup {m}) /\ transcript' \in Seq(S \cup {m})
      /\ Len(history') = Len(history) + 1 /\ Reminds(history', transcript')
  BY <1>1, <1>2, <1>3, HearAlike
<1>5. Len(history) \in Nat /\ Window \in Nat
  BY <1>1, LoopGiven
<1>6. Len(history') <= 8 \/ Len(history') <= Window + 5
  BY <1>3, <1>4, <1>5
<1>7. phase' # "reply"
  BY DEF Observe
<1>8. Reminds(history, transcript)'
  BY <1>4 DEF Reminds
<1> QED BY <1>4, <1>6, <1>7, <1>8 DEF ConvInv

LEMMA AskKeeps == ConvInv /\ Ask => ConvInv'
<1> SUFFICES ASSUME ConvInv, Ask PROVE ConvInv'
  OBVIOUS
<1>1. PICK S : history \in Seq(S) /\ transcript \in Seq(S)
  BY DEF ConvInv
<1>2. PICK m : history' = Append(Compress(history), m) /\ transcript' = Append(transcript, m)
  BY DEF Ask
<1>3. Reminds(history, transcript)
  BY DEF ConvInv
<1>4. /\ \E V : history' \in Seq(V) /\ transcript' \in Seq(V)
      /\ Reminds(history', transcript')
      /\ Len(history') <= 7 \/ Len(history') <= Window + 4
  BY <1>1, <1>2, <1>3, AskAlike
<1>5. Len(history') \in Nat /\ Window \in Nat
  BY <1>4, LoopGiven
<1>6. Len(history') <= 8 \/ Len(history') <= Window + 5
  BY <1>4, <1>5
<1>7. Reminds(history, transcript)'
  BY <1>4 DEF Reminds
<1> QED BY <1>4, <1>6, <1>7 DEF ConvInv

LEMMA ConvStep == ConvInv /\ [AgentNext]_agentVars => ConvInv'
<1> SUFFICES ASSUME ConvInv, [AgentNext]_agentVars PROVE ConvInv'
  OBVIOUS
<1>1. ASSUME UNCHANGED <<history, transcript>>, phase' # "reply" \/ UNCHANGED phase PROVE ConvInv'
  BY <1>1 DEF ConvInv, Reminds
<1>2. CASE Ask
  BY <1>2, AskKeeps
<1>3. CASE UNCHANGED agentVars
  BY <1>1, <1>3 DEF agentVars
<1>4. CASE Misconfigured \/ Halt \/ AskFails \/ Finish \/ Propose \/ Conclude \/ Die
  <2>1. UNCHANGED <<history, transcript>>
    BY <1>4 DEF Misconfigured, Halt, AskFails, Finish, Propose, Conclude, Die, talk
  <2>2. phase' # "reply"
    BY <1>4 DEF Misconfigured, Halt, AskFails, Finish, Propose, Conclude, Die, EndWith
  <2> QED BY <1>1, <2>1, <2>2
<1>5. ASSUME NEW mode, NEW review, RunAgent(mode, review) PROVE ConvInv'
  BY <1>1, <1>5 DEF RunAgent, talk
<1>6. CASE Unavailable \/ Reprompt
  BY <1>6, ObserveKeeps DEF Unavailable, Reprompt, Replied
<1>7. ASSUME NEW t \in Tool, Recall(t) \/ Execute(t) \/ ExecuteFails(t) PROVE ConvInv'
  BY <1>7, ObserveKeeps DEF Recall, Execute, ExecuteFails, Callable, Replied
<1> QED BY <1>2, <1>3, <1>4, <1>5, <1>6, <1>7 DEF AgentNext, AgentStep

\* Two sequences that end alike end alike as SubSeq cuts them.
LEMMA SameTail ==
  ASSUME NEW S, NEW h \in Seq(S), NEW t \in Seq(S), NEW kept \in Nat,
         kept <= Len(h), kept <= Len(t),
         \A i \in 0 .. kept - 1 : h[Len(h) - i] = t[Len(t) - i]
  PROVE  SubSeq(h, Len(h) - kept + 1, Len(h)) = SubSeq(t, Len(t) - kept + 1, Len(t))
<1> DEFINE a == SubSeq(h, Len(h) - kept + 1, Len(h))
           b == SubSeq(t, Len(t) - kept + 1, Len(t))
<1>1. Len(h) \in Nat /\ Len(t) \in Nat
  OBVIOUS
<1>2. a \in Seq(S) /\ Len(a) = kept /\ \A i \in 1 .. kept : a[i] = h[Len(h) - kept + i]
  BY <1>1
<1>3. b \in Seq(S) /\ Len(b) = kept /\ \A i \in 1 .. kept : b[i] = t[Len(t) - kept + i]
  BY <1>1
<1>4. ASSUME NEW i \in 1 .. kept PROVE a[i] = b[i]
  <2>1. kept - i \in 0 .. kept - 1 /\ Len(h) - (kept - i) = Len(h) - kept + i
        /\ Len(t) - (kept - i) = Len(t) - kept + i
    BY <1>1
  <2> QED BY <1>2, <1>3, <2>1
<1> HIDE DEF a, b
<1>5. a = b
  BY <1>2, <1>3, <1>4
<1> QED BY <1>5 DEF a, b

LEMMA RemindedIsKept == ConvInv => ConversationKept
<1> SUFFICES ASSUME ConvInv PROVE ConversationKept
  OBVIOUS
<1>1. PICK S : history \in Seq(S) /\ transcript \in Seq(S)
  BY DEF ConvInv
<1>2. PICK kept : kept = IF Len(transcript) <= Window THEN Len(transcript) ELSE Window + 1
  OBVIOUS
<1>3. Len(history) \in Nat /\ Len(transcript) \in Nat /\ Window \in Nat
  BY <1>1, LoopGiven
<1>4. kept \in Nat /\ kept <= Len(transcript) /\ kept <= Window + 1
  BY <1>2, <1>3
<1>5. kept <= Len(history)
  <2>1. CASE Len(transcript) <= Window
    BY <1>2, <1>3, <2>1 DEF ConvInv, Reminds
  <2>2. CASE Len(transcript) > Window
    BY <1>2, <1>3, <2>2 DEF ConvInv, Reminds
  <2> QED BY <1>3, <2>1, <2>2
<1>6. ASSUME NEW i \in 0 .. kept - 1
      PROVE  history[Len(history) - i] = transcript[Len(transcript) - i]
  <2>1. i \in 0 .. Window /\ i < Len(transcript)
    BY <1>3, <1>4
  <2> QED BY <2>1 DEF ConvInv, Reminds
<1>7. SubSeq(history, Len(history) - kept + 1, Len(history))
        = SubSeq(transcript, Len(transcript) - kept + 1, Len(transcript))
  BY <1>1, <1>4, <1>5, <1>6, SameTail
<1>8. SubSeq(history, 1, 2) = Opening
  <2>1. PICK one, two : Opening = <<one, two>>
    BY DEF Opening
  <2>2. Len(history) >= 2 /\ history[1] = one /\ history[2] = two
    BY <2>1 DEF ConvInv, Reminds
  <2>3. SubSeq(history, 1, 2) = <<history[1], history[2]>>
    <3>1. PICK x : x = SubSeq(history, 1, 2)
      OBVIOUS
    <3>2. x \in Seq(S) /\ Len(x) = 2 /\ x[1] = history[1] /\ x[2] = history[2]
      BY <1>1, <1>3, <2>2, <3>1
    <3>3. x = <<x[1], x[2]>>
      BY <3>2
    <3> QED BY <3>1, <3>2, <3>3
  <2> QED BY <2>1, <2>2, <2>3
<1>9. Len(history) <= 8 \/ Len(history) <= Window + 5
  BY DEF ConvInv
<1> QED BY <1>2, <1>7, <1>8, <1>9 DEF ConversationKept

\* However long a run and whatever its model and tools say, the conversation
\* the model is sent stays short, begins with its rules and its goal, and ends
\* with the last Window messages and one more, word for word: compress_history
\* and _call_llm in react_agent.py.
THEOREM ConversationIsKept == AgentsSpec => []ConversationKept
<1>1. AgentsInit => ConvInv
  BY ConvInit DEF AgentsInit
<1>2. ConvInv /\ [AgentsNext]_<<side, agentVars, tVars>> => ConvInv'
  <2>1. [AgentsNext]_<<side, agentVars, tVars>> => [AgentNext]_agentVars
    BY DEF AgentsNext
  <2> QED BY <2>1, ConvStep
<1> QED BY <1>1, <1>2, RemindedIsKept, PTL DEF AgentsSpec

-----------------------------------------------------------------------------
(* Types *)

\* Storing adds at most one entry.
LEMMA PutLength ==
  ASSUME NEW S, NEW r \in Seq(S), NEW key, NEW e
  PROVE  Len(Put(r, key, e)) \in Nat /\ Len(Put(r, key, e)) <= Len(r) + 1
<1>1. CASE Has(r, key)
  <2>1. Put(r, key, e) = [i \in DOMAIN r |-> IF r[i].key = key THEN e ELSE r[i]]
    BY <1>1 DEF Put
  <2>2. PICK s : s = [i \in 1 .. Len(r) |-> IF r[i].key = key THEN e ELSE r[i]]
    OBVIOUS
  <2>3. DOMAIN r = 1 .. Len(r) /\ Len(r) \in Nat
    OBVIOUS
  <2>4. s \in Seq(S \cup {e}) /\ Len(s) = Len(r)
    <3>1. \A i \in 1 .. Len(r) : r[i] \in S
      OBVIOUS
    <3>2. s \in [1 .. Len(r) -> S \cup {e}]
      BY <2>2, <3>1
    <3> QED BY <2>3, <3>2
  <2> QED BY <2>1, <2>2, <2>3, <2>4
<1>2. CASE ~Has(r, key)
  <2>1. Put(r, key, e) = Append(r, e)
    BY <1>2 DEF Put
  <2>2. Append(r, e) \in Seq(S \cup {e}) /\ Len(Append(r, e)) = Len(r) + 1 /\ Len(r) \in Nat
    OBVIOUS
  <2> QED BY <2>1, <2>2
<1> QED BY <1>1, <1>2

\* There is room for one entry more.
LEMMA RoomFits ==
  ASSUME NEW S, NEW c \in Seq(S), NEW size \in Nat \ {0}, Len(c) <= size, NEW r,
         r = IF Len(c) >= size THEN Tail(c) ELSE c
  PROVE  r \in Seq(S) /\ Len(r) + 1 <= size
<1>1. Len(c) \in Nat
  OBVIOUS
<1>2. CASE Len(c) >= size
  <2>1. c # <<>> /\ r = Tail(c)
    BY <1>2
  <2>2. Tail(c) \in Seq(S) /\ Len(Tail(c)) = Len(c) - 1
    BY <2>1
  <2> QED BY <1>1, <2>1, <2>2
<1>3. CASE ~(Len(c) >= size)
  BY <1>1, <1>3
<1> QED BY <1>2, <1>3

\* The length of a cache after storing, if it had at most size entries.
LEMMA PutFits ==
  ASSUME NEW S, NEW c \in Seq(S), NEW size \in Nat \ {0}, Len(c) <= size, NEW key, NEW e, NEW r,
         r = IF Len(c) >= size THEN Tail(c) ELSE c
  PROVE  Len(Put(r, key, e)) <= size
<1>2. r \in Seq(S) /\ Len(r) + 1 <= size
  BY RoomFits
<1>3. Len(r) \in Nat
  BY <1>2
<1>4. Len(Put(r, key, e)) \in Nat /\ Len(Put(r, key, e)) <= Len(r) + 1
  BY <1>2, PutLength
<1> QED BY <1>2, <1>3, <1>4

\* What the cache has for a prompt is a reply.
CacheTyped ==
  /\ \E S : cache \in Seq(S)
  /\ \A i \in DOMAIN cache : cache[i].key.of = "model" => cache[i].value \in Reply

OneTyped == AgentTypeOK /\ CacheTyped

LEMMA ReplyStored ==
  ASSUME AgentTypeOK, CacheTyped, NEW key, NEW value, key.of = "model" => value \in Reply,
         cache' = Store(cache, key, value)
  PROVE  CacheTyped' /\ Len(cache') <= CacheSize
<1>1. PICK S : cache \in Seq(S)
  BY DEF CacheTyped
<1>2. PICK e : e = Entry(key, value)
  OBVIOUS
<1>3. e.key = key /\ e.value = value
  BY <1>2 DEF Entry
<1>4. cache' \in Seq(S \cup {e}) /\ NewOrOld(cache', e, cache)
  BY <1>1, <1>2, OneStored
<1>5. CacheTyped'
  <2>1. ASSUME NEW i \in DOMAIN cache', cache'[i].key.of = "model" PROVE cache'[i].value \in Reply
    <3>1. CASE cache'[i] = e
      BY <1>3, <2>1, <3>1
    <3>2. CASE \E j \in DOMAIN cache : cache'[i] = cache[j]
      BY <2>1, <3>2 DEF CacheTyped
    <3> QED BY <1>4, <3>1, <3>2 DEF NewOrOld
  <2> QED BY <1>4, <2>1 DEF CacheTyped, Reply, Final, Verdict, Action, Garbage
<1>6. Len(cache') <= CacheSize
  <2>1. PICK r : r = Room(cache)
    OBVIOUS
  <2>2. Store(cache, key, value) = Put(r, key, e)
    BY <1>2, <2>1 DEF Store, Put, Entry
  <2>3. r = IF Len(cache) >= CacheSize THEN Tail(cache) ELSE cache
    BY <2>1 DEF Room, Full
  <2>4. Len(cache) <= CacheSize /\ CacheSize \in Nat \ {0}
    BY UseBounded DEF AgentTypeOK
  <2>5. Len(Put(r, key, e)) <= CacheSize
    BY <1>1, <2>3, <2>4, PutFits
  <2> QED BY <2>2, <2>5
<1> QED BY <1>5, <1>6

LEMMA OneTypedStep ==
  ASSUME OneTyped, OneSpends, [AgentNext]_agentVars
  PROVE  OneTyped'
<1> USE DEF OneTyped
<1>0. spent' \in Spent
  BY OneSpendsWithinBudget DEF OneSpends
<1>1. ASSUME UNCHANGED cache PROVE CacheTyped' /\ Len(cache') <= CacheSize
  BY <1>1 DEF CacheTyped, AgentTypeOK, Reply, Final, Verdict, Action, Garbage
<1>2. CASE Ask
  <2>1. PICK key : key = [of |-> "model", tool |-> {}, prompt |-> Compress(history)]
    OBVIOUS
  <2>2. key.of = "model"
    BY <2>1
  <2>3. step' \in 0 .. MaxSteps
    BY <1>2, LoopGiven DEF Ask, AgentTypeOK
  <2>4. phase' = "reply" /\ UNCHANGED <<request, result, output, announced, taken, done>>
    BY <1>2 DEF Ask, work
  <2>5. CASE Has(cache, key) /\ reply' = Lookup(cache, key) /\ UNCHANGED cache
    <3>1. PICK i \in DOMAIN cache : cache[i].key = key /\ Lookup(cache, key) = cache[i].value
      BY <2>5 DEF Has, Lookup
    <3>2. reply' \in Reply
      BY <2>2, <2>5, <3>1 DEF CacheTyped
    <3> QED BY <1>0, <1>1, <2>3, <2>4, <2>5, <3>2 DEF AgentTypeOK, Reply, Final, Verdict, Action, Garbage
  <2>6. CASE reply' \in Reply /\ cache' = Store(cache, key, reply')
    <3>1. CacheTyped' /\ Len(cache') <= CacheSize
      BY <2>6, ReplyStored
    <3> QED BY <1>0, <2>3, <2>4, <2>6, <3>1 DEF AgentTypeOK, Reply, Final, Verdict, Action, Garbage
  <2> QED BY <1>2, <2>1, <2>5, <2>6 DEF Ask
<1>3. CASE Misconfigured \/ Halt \/ AskFails \/ Conclude \/ Die
  <2>1. UNCHANGED <<request, reply, cache, taken, done>>
    BY <1>3 DEF Misconfigured, Halt, AskFails, Conclude, Die, work
  <2>2. step' \in 0 .. MaxSteps
    BY <1>3, LoopGiven DEF Misconfigured, Halt, AskFails, Conclude, Die, talk, AgentTypeOK
  <2>3. /\ phase' \in {"answered", "returned", "raised", "lost"}
        /\ result' \in {result, "FAILED", "TIMED_OUT"}
        /\ output' \in {output, "no_verdict"}
    BY <1>3 DEF Misconfigured, Halt, AskFails, Conclude, Die, EndWith
  <2>4. announced' \in Verdict \cup {"nothing", "started"}
    BY <1>3 DEF Misconfigured, Halt, AskFails, Conclude, Die, AgentTypeOK, Verdict
  <2> QED BY <1>0, <1>1, <2>1, <2>2, <2>3, <2>4 DEF AgentTypeOK, Reply, Final, Verdict, Action, Garbage
<1>4. CASE Finish
  <2>1. UNCHANGED <<request, reply, cache, announced, step, taken, done>> /\ phase' = "answered"
    BY <1>4 DEF Finish, talk, work, EndWith
  <2>2. reply \in Final
    BY <1>4 DEF Finish, Replied, AgentTypeOK, Reply, Action, Garbage
  <2>3. /\ result' \in {"COMPLETED", "FAILED", "TIMED_OUT"}
        /\ output' \in Verdict \cup {"no_verdict"}
    BY <1>4, <2>2 DEF Finish, EndWith, Final
  <2> QED BY <1>0, <1>1, <2>1, <2>3 DEF AgentTypeOK, Reply, Final, Verdict, Action, Garbage
<1>5. CASE Propose
  <2>1. /\ UNCHANGED <<request, reply, cache, announced, step, done>> /\ phase' = "answered"
        /\ result' = "WAITING_FOR_APPROVAL" /\ output' = "no_verdict"
        /\ taken' = taken \cup {[tool |-> reply.about, status |-> "PROPOSED"]} /\ reply.about \in Tool
    BY <1>5, ToolsGiven DEF Propose, talk, EndWith
  <2> QED BY <1>0, <1>1, <2>1 DEF AgentTypeOK, Reply, Final, Verdict, Action, Garbage
<1>6. ASSUME NEW mode \in {"react", "multi_agent"}, NEW review \in BOOLEAN, RunAgent(mode, review)
      PROVE OneTyped'
  BY <1>0, <1>1, <1>6 DEF RunAgent, talk, work, AgentTypeOK, Reply, Final, Verdict, Action, Garbage
<1>7. CASE Unavailable \/ Reprompt
  BY <1>0, <1>1, <1>7 DEF Unavailable, Reprompt, Observe, work, AgentTypeOK, Reply, Final, Verdict, Action, Garbage
<1>8. ASSUME NEW t \in Tool, Recall(t) \/ ExecuteFails(t) PROVE OneTyped'
  <2>1. \E about : Observe(about)
    BY <1>8 DEF Recall, ExecuteFails
  <2>2. UNCHANGED <<cache, done>> /\ taken' \subseteq taken \cup [tool : Tool, status : {"COMPLETED", "FAILED"}]
    BY <1>8 DEF Recall, ExecuteFails, Report
  <2> QED BY <1>0, <1>1, <2>1, <2>2 DEF Observe, AgentTypeOK, Reply, Final, Verdict, Action, Garbage
<1>9. ASSUME NEW t \in Tool, Execute(t) PROVE OneTyped'
  <2>1. Observe(t)
    BY <1>9 DEF Execute
  <2>2. done' \in [Tool -> Nat] /\ taken' \subseteq taken \cup [tool : Tool, status : {"COMPLETED", "FAILED"}]
    BY <1>9 DEF Execute, Report, AgentTypeOK
  <2>3. PICK key : key = CallKey(t)
    OBVIOUS
  <2>4. cache' = Store(cache, key, "answer") /\ key.of # "model"
    BY <1>9, <2>3 DEF Execute, CallKey
  <2>5. CacheTyped' /\ Len(cache') <= CacheSize
    BY <2>4, ReplyStored
  <2> QED BY <1>0, <2>1, <2>2, <2>5 DEF Observe, AgentTypeOK, Reply, Final, Verdict, Action, Garbage
<1>10. CASE UNCHANGED agentVars
  BY <1>0, <1>1, <1>10 DEF agentVars, AgentTypeOK, Reply, Final, Verdict, Action, Garbage
<1> QED BY <1>2, <1>3, <1>4, <1>5, <1>6, <1>7, <1>8, <1>9, <1>10 DEF AgentNext, AgentStep

\* What the team's budget and its calls do not say already.
TeamTyped ==
  /\ tPhase \in {"idle", "planning", "dispatch", "ask", "reply", "returned", "lost"}
  /\ tCall \in Tool \cup {None}
  /\ Len(tCache) <= TeamCache
  /\ tTaken \subseteq [tool : Tool, status : {"PROPOSED", "COMPLETED", "FAILED"}]
  /\ tForgotten \subseteq Tool
  /\ tResult \in {"none", "COMPLETED", "TIMED_OUT", "WAITING_FOR_APPROVAL"}

LEMMA ReportStored ==
  ASSUME TeamTyped, TeamWorks, NEW key \in Tool, NEW value, tCache' = T!Store(tCache, key, value)
  PROVE  Len(tCache') <= TeamCache
<1>0. TeamCache \in Nat \ {0}
  BY TeamGiven
<1>1. PICK S : tCache \in Seq(S)
  BY DEF TeamWorks
<1>2. PICK e : e = Entry(key, value)
  OBVIOUS
<1>3. PICK r : r = T!Room(tCache)
  OBVIOUS
<1>4. T!Store(tCache, key, value) = Put(r, key, e)
  BY <1>2, <1>3, SameHas DEF T!Store, Put, Entry
<1>5. r = IF Len(tCache) >= TeamCache THEN Tail(tCache) ELSE tCache
  BY <1>3 DEF T!Room, T!Full
<1>6. Len(Put(r, key, e)) <= TeamCache
  BY <1>0, <1>1, <1>5, PutFits DEF TeamTyped
<1> QED BY <1>4, <1>6

LEMMA ReplyFits ==
  ASSUME TeamTyped, TeamWorks, T!Replied
  PROVE  Len(tCache') <= TeamCache /\ tForgotten' \subseteq Tool
<1>0. TeamCache \in Nat \ {0}
  BY TeamGiven
<1>1. PICK S : tCache \in Seq(S)
  BY DEF TeamWorks
<1>2. PICK r : r = T!Room(tCache)
  OBVIOUS
<1>3. r = IF Len(tCache) >= TeamCache THEN Tail(tCache) ELSE tCache
  BY <1>2 DEF T!Room, T!Full
<1>4. r \in Seq(S) /\ Len(r) + 1 <= TeamCache
  BY <1>0, <1>1, <1>3, RoomFits DEF TeamTyped
<1>5. PICK e : tCache' = Append(r, e)
  BY <1>2 DEF T!Replied, T!WithReply
<1>6. Len(tCache') = Len(r) + 1
  BY <1>4, <1>5
<1>7. tForgotten' \subseteq Tool
  BY DEF T!Replied, T!Losing, TeamTyped
<1> QED BY <1>4, <1>6, <1>7

LEMMA ToldTyped ==
  ASSUME TeamTyped, tCall \in Tool, NEW status \in {"COMPLETED", "FAILED"}, NEW report, T!Told(status, report)
  PROVE  /\ tPhase' \in {"ask", "dispatch"} /\ tCall' = None /\ UNCHANGED tResult
         /\ tTaken' \subseteq [tool : Tool, status : {"PROPOSED", "COMPLETED", "FAILED"}]
<1>1. tPhase' \in {"ask", "dispatch"} /\ tCall' = None /\ UNCHANGED tResult
  BY DEF T!Told, T!Over
<1>2. tTaken' = tTaken \cup {[tool |-> tCall, status |-> status]}
  BY DEF T!Told
<1>3. tTaken' \subseteq [tool : Tool, status : {"PROPOSED", "COMPLETED", "FAILED"}]
  BY <1>2 DEF TeamTyped
<1> QED BY <1>1, <1>3

LEMMA TeamTypedStep ==
  ASSUME TeamTyped, TeamWorks, [T!TeamNext]_tVars
  PROVE  TeamTyped'
<1>1. ASSUME NEW report \in T!Report, T!Execute(report) PROVE TeamTyped'
  <2>1. tCall \in Tool /\ tCache' = T!Store(tCache, tCall, report)
        /\ tForgotten' = tForgotten \cup (T!Dropped(tCache) \cap Tool) \cup (IF report = "empty" THEN {tCall} ELSE {})
        /\ T!Told("COMPLETED", report)
    BY <1>1 DEF T!Execute, T!Losing, TeamWorks
  <2>2. Len(tCache') <= TeamCache
    BY <2>1, ReportStored
  <2>3. tForgotten' \subseteq Tool
    BY <2>1 DEF TeamTyped
  <2>4. /\ tPhase' \in {"ask", "dispatch"} /\ tCall' = None /\ UNCHANGED tResult
        /\ tTaken' \subseteq [tool : Tool, status : {"PROPOSED", "COMPLETED", "FAILED"}]
    BY <2>1, ToldTyped
  <2> QED BY <2>2, <2>3, <2>4 DEF TeamTyped
<1>2. CASE T!Recall \/ T!ExecuteFails
  <2>1. tCall \in Tool /\ UNCHANGED <<tCache, tForgotten>>
    BY <1>2 DEF T!Recall, T!ExecuteFails, TeamWorks
  <2>2. T!Told("COMPLETED", T!Lookup(tCache, tCall)) \/ T!Told("FAILED", "nothing_special")
    BY <1>2 DEF T!Recall, T!ExecuteFails
  <2>3. ASSUME NEW status \in {"COMPLETED", "FAILED"}, NEW report, T!Told(status, report)
        PROVE  /\ tPhase' \in {"ask", "dispatch"} /\ tCall' = None /\ UNCHANGED tResult
               /\ tTaken' \subseteq [tool : Tool, status : {"PROPOSED", "COMPLETED", "FAILED"}]
    BY <2>1, <2>3, ToldTyped
  <2>4. /\ tPhase' \in {"ask", "dispatch"} /\ tCall' = None /\ UNCHANGED tResult
        /\ tTaken' \subseteq [tool : Tool, status : {"PROPOSED", "COMPLETED", "FAILED"}]
    BY <2>2, <2>3
  <2> QED BY <2>1, <2>4 DEF TeamTyped
<1>3. CASE T!Propose
  <2>1. tCall \in Tool
    BY <1>3 DEF T!Propose, TeamWorks
  <2> QED BY <1>3, <2>1 DEF T!Propose, T!books, TeamTyped
<1>4. CASE T!Ask
  <2>1. /\ tPhase' \in {"ask", "reply", "dispatch"} /\ tCall' \in Tool \cup {None}
        /\ UNCHANGED <<tTaken, tResult>> /\ T!Replied
    BY <1>4 DEF T!Ask, T!Over, TeamTyped
  <2> QED BY <2>1, ReplyFits DEF TeamTyped
<1>5. ASSUME NEW g \in T!Goal, T!Decompose(g) PROVE TeamTyped'
  <2>1. tPhase' = "dispatch" /\ UNCHANGED <<tCall, tTaken, tResult>>
    BY <1>5 DEF T!Decompose
  <2>2. T!Replied \/ UNCHANGED <<tCache, tForgotten>>
    BY <1>5 DEF T!Decompose
  <2> QED BY <2>1, <2>2, ReplyFits DEF TeamTyped
<1>6. CASE T!Orchestrate \/ T!Dispatch \/ T!Synthesize \/ T!GiveUp \/ T!Die
  BY <1>6 DEF T!Orchestrate, T!Dispatch, T!Synthesize, T!GiveUp, T!Die, T!Over, T!books, TeamTyped
<1>7. CASE UNCHANGED tVars
  BY <1>7 DEF tVars, TeamTyped
<1> QED BY <1>1, <1>2, <1>3, <1>4, <1>5, <1>6, <1>7 DEF T!TeamNext, T!TeamStep

\* Every variable of a run keeps to its type, the cache to its size and what it
\* has for a prompt to what a model can say.
THEOREM AgentsTypeCorrect == AgentsSpec => []AgentsTypeOK
<1> DEFINE TypedInv == BudgetInv /\ OneTyped /\ TeamTyped /\ TeamWorks
<1>1. AgentsInit => TypedInv
  <2> SUFFICES ASSUME AgentsInit PROVE TypedInv
    OBVIOUS
  <2>1. <<>> \in Seq({}) /\ Len(<<>>) = 0 /\ DOMAIN <<>> = {} /\ \A k : ~Has(<<>>, k)
    BY DEF Has
  <2>2. OneTyped
    <3>1. cache = <<>> /\ CacheSize \in Nat /\ 0 \in 0 .. MaxSteps
      BY UseBounded, LoopGiven DEF AgentsInit, AgentInit
    <3>2. CacheTyped /\ Len(cache) <= CacheSize
      BY <2>1, <3>1 DEF CacheTyped
    <3> QED BY <3>1, <3>2 DEF AgentsInit, AgentInit, OneTyped, AgentTypeOK, Reply, Final, Action, Garbage,
                              Nothing, Spent, Verdict
  <2>3. TeamTyped
    BY <2>1, TeamGiven DEF AgentsInit, T!TeamInit, TeamTyped
  <2>4. TeamWorks
    BY <2>1 DEF AgentsInit, T!TeamInit, TeamWorks
  <2> QED BY <2>2, <2>3, <2>4, BudgetInit
<1>2. TypedInv /\ [AgentsNext]_<<side, agentVars, tVars>> => TypedInv'
  <2> SUFFICES ASSUME TypedInv, [AgentsNext]_<<side, agentVars, tVars>> PROVE TypedInv'
    OBVIOUS
  <2>1. [AgentNext]_agentVars /\ [T!TeamNext]_tVars
    BY DEF AgentsNext
  <2>2. OneTyped'
    BY <2>1, OneTypedStep DEF BudgetInv
  <2>3. TeamTyped' /\ TeamWorks'
    BY <2>1, TeamTypedStep, TeamWorksOnceStep
  <2> QED BY <2>2, <2>3, BudgetStep
<1>3. TypedInv => AgentsTypeOK
  BY DEF BudgetInv, OneTyped, TeamTyped, TeamWorks, TeamSpends, AgentsTypeOK, T!TeamTypeOK, T!SubtaskSteps, T!Spent, Spent
<1> HIDE DEF TypedInv
<1> QED BY <1>1, <1>2, <1>3, PTL DEF AgentsSpec

-----------------------------------------------------------------------------
(* How long a run can be *)

\* The steps the single agent has left at most: two to a model call, one to
\* begin and one to end.
OneLeft ==
  CASE phase = "idle"     -> 2 * MaxSteps + 3
    [] phase = "loop"     -> 2 * (MaxSteps - step) + 2
    [] phase = "reply"    -> 2 * (MaxSteps - step) + 3
    [] phase = "answered" -> 1
    [] OTHER              -> 0

\* A plan is never longer than it was made.
PlanRoom == MaxPlan + 4

\* The steps the team has left at most: for each token it can still spend, and
\* once more, what a plan of any length takes without a model call.
Ceiling   == TeamTokens + 4 * TeamUse
PerToken  == 4 * PlanRoom + 4
TeamLeft ==
  CASE tPhase = "idle"     -> (Ceiling + 1) * PerToken + 1
    [] tPhase = "planning" -> (Ceiling + 1) * PerToken
    [] tPhase = "reply"    -> (Ceiling - tSpent.tokens) * PerToken + 4 * Len(tPlan) + 3
    [] tPhase = "dispatch" -> (Ceiling - tSpent.tokens) * PerToken + 4 * Len(tPlan) + 2
    [] tPhase = "ask"      -> (Ceiling - tSpent.tokens) * PerToken + 4 * Len(tPlan) + 1
    [] OTHER               -> 0

\* Every step of a run leaves it fewer steps than it had.
RunsShorten == [][OneLeft' < OneLeft]_agentVars /\ [][TeamLeft' < TeamLeft]_tVars

LEMMA OneShortens ==
  ASSUME AgentTypeOK, AgentTypeOK', [AgentNext]_agentVars
  PROVE  [OneLeft' < OneLeft]_agentVars
<1> SUFFICES ASSUME AgentNext PROVE OneLeft' < OneLeft
  BY DEF agentVars
<1> USE LoopGiven
<1>1. step \in 0 .. MaxSteps /\ step' \in 0 .. MaxSteps
  BY DEF AgentTypeOK
<1>2. CASE \E mode \in {"react", "multi_agent"}, review \in BOOLEAN : RunAgent(mode, review)
  <2>1. phase = "idle" /\ phase' = "loop"
    BY <1>2 DEF RunAgent
  <2> QED BY <1>1, <2>1 DEF OneLeft
<1>3. CASE Misconfigured \/ Halt
  <2>1. phase = "loop" /\ phase' \in {"raised", "answered"}
    BY <1>3 DEF Misconfigured, Halt, Looping, EndWith
  <2> QED BY <1>1, <2>1 DEF OneLeft
<1>4. CASE Ask \/ AskFails
  <2>1. phase = "loop" /\ phase' \in {"reply", "answered"} /\ step' = step + 1
    BY <1>4 DEF Ask, AskFails, Looping, EndWith
  <2> QED BY <1>1, <2>1 DEF OneLeft
<1>5. CASE Finish \/ Propose
  <2>1. phase = "reply" /\ phase' = "answered"
    BY <1>5 DEF Finish, Propose, Replied, EndWith
  <2> QED BY <1>1, <2>1 DEF OneLeft
<1>6. CASE Unavailable \/ Reprompt \/ \E t \in Tool : Recall(t) \/ Execute(t) \/ ExecuteFails(t)
  <2>1. phase = "reply" /\ phase' = "loop" /\ step' = step
    BY <1>6 DEF Unavailable, Reprompt, Recall, Execute, ExecuteFails, Callable, Replied, Observe
  <2> QED BY <1>1, <2>1 DEF OneLeft
<1>7. CASE Conclude \/ Die
  <2>1. phase \in {"loop", "reply", "answered"} /\ phase' \in {"returned", "lost"}
    BY <1>7 DEF Conclude, Die
  <2> QED BY <1>1, <2>1 DEF OneLeft
<1> QED BY <1>2, <1>3, <1>4, <1>5, <1>6, <1>7 DEF AgentNext, AgentStep

\* A token weighs more than what can be done without a model call.
LEMMA TokenWeighs ==
  ASSUME NEW a \in Nat, NEW b \in Nat, NEW w \in Nat, a < b
  PROVE  a * w \in Nat /\ b * w \in Nat /\ a * w + w <= b * w
<1> DEFINE d == b - a - 1
<1>1. d \in Nat /\ b = a + 1 + d
  OBVIOUS
<1> HIDE DEF d
<1>2. b * w = a * w + w + d * w
  BY <1>1
<1>3. a * w \in Nat /\ d * w \in Nat
  BY <1>1
<1> QED BY <1>2, <1>3

PlanFits == tPlan \in Seq(T!Subtask) /\ Len(tPlan) <= PlanRoom

LEMMA NextLength ==
  ASSUME PlanFits, tPlan # <<>>, NEW next \in Seq(T!Subtask), T!Over(next)
  PROVE  Len(tPlan') = Len(next) + Len(tPlan) - 1 /\ Len(next) \in Nat /\ Len(tPlan) \in Nat \ {0}
<1>1. tPlan \in Seq(T!Subtask) /\ tPlan' = next \o Tail(tPlan)
  BY DEF PlanFits, T!Over
<1>2. Len(tPlan) \in Nat \ {0} /\ Tail(tPlan) \in Seq(T!Subtask) /\ Len(Tail(tPlan)) = Len(tPlan) - 1
  BY <1>1
<1>3. Len(tPlan') = Len(next) + Len(Tail(tPlan)) /\ Len(next) \in Nat
  BY <1>1, <1>2
<1> QED BY <1>2, <1>3

LEMMA OverAlone ==
  ASSUME PlanFits, tPlan # <<>>, T!Over(<<>>)
  PROVE  Len(tPlan') = Len(tPlan) - 1 /\ Len(tPlan) \in Nat \ {0}
<1>1. Len(<<>>) = 0
  OBVIOUS
<1>2. Len(tPlan') = Len(<<>>) + Len(tPlan) - 1 /\ Len(tPlan) \in Nat \ {0}
  BY NextLength, EmptyTyped
<1> QED BY <1>1, <1>2

LEMMA HandoverLength ==
  ASSUME NEW role, NEW report
  PROVE  Len(T!Handover(role, report)) \in 0 .. 1
BY DEF T!Handover

LEMMA PlanLength ==
  ASSUME NEW g \in T!Goal, T!Decompose(g)
  PROVE  Len(tPlan') \in 0 .. PlanRoom
<1>1. MaxPlan \in Nat /\ PlanRoom = MaxPlan + 4
  BY TeamGiven DEF PlanRoom
<1>2. Len(T!Template[g]) \in 0 .. 4
  BY DEF T!Goal, T!Template
<1>3. ASSUME NEW n \in 1 .. MaxPlan, tPlan' \in [1 .. n -> T!Subtask] PROVE Len(tPlan') = n
  BY <1>1, <1>3
<1>4. tPlan' = T!Template[g] \/ \E n \in 1 .. MaxPlan : tPlan' \in [1 .. n -> T!Subtask]
  BY DEF T!Decompose
<1>5. Len(tPlan') \in 0 .. 4 \/ Len(tPlan') \in 1 .. MaxPlan
  BY <1>2, <1>3, <1>4
<1>6. \A m \in Nat : 0 .. 4 \subseteq 0 .. m + 4 /\ 1 .. m \subseteq 0 .. m + 4
  OBVIOUS
<1> QED BY <1>1, <1>5, <1>6

\* What the steps do to what is left: the end, a model call, or neither.
Ended == tPhase \in {"planning", "dispatch", "ask", "reply"} /\ tPhase' \in {"returned", "lost"}
Called ==
  /\ tPhase = "ask" /\ tPhase' \in {"ask", "reply", "dispatch"}
  /\ tSpent'.tokens > tSpent.tokens /\ Len(tPlan') <= Len(tPlan)
Moved ==
  /\ UNCHANGED tSpent
  /\ \/ tPhase = "dispatch" /\ tPhase' = "ask" /\ UNCHANGED tPlan
     \/ tPhase = "ask" /\ tPhase' = "dispatch" /\ Len(tPlan') = Len(tPlan) - 1
     \/ tPhase = "reply" /\ tPhase' = "ask" /\ UNCHANGED tPlan
     \/ tPhase = "reply" /\ tPhase' = "dispatch" /\ Len(tPlan') \in {Len(tPlan), Len(tPlan) - 1}

LEMMA ToldMoves ==
  ASSUME TeamSpends, PlanFits, tPhase = "reply", NEW status, NEW report, T!Told(status, report)
  PROVE  Moved
<1>1. tPlan # <<>> /\ UNCHANGED tSpent
  BY DEF TeamSpends, T!Told
<1> DEFINE next == T!Handover(tPlan[1].role, report)
<1>2. next \in Seq(T!Subtask) /\ Len(next) \in 0 .. 1
  BY HandoverTyped, HandoverLength
<1>3. CASE T!Over(next)
  <2>1. tPhase' = "dispatch"
    BY <1>3 DEF T!Over
  <2>2. Len(tPlan') \in {Len(tPlan), Len(tPlan) - 1}
    <3>1. Len(tPlan') = Len(next) + Len(tPlan) - 1 /\ Len(tPlan) \in Nat \ {0}
      <4> HIDE DEF next
      <4> QED BY <1>1, <1>2, <1>3, NextLength
    <3> HIDE DEF next
    <3>2. Len(next) = 0 \/ Len(next) = 1
      BY <1>2
    <3>3. CASE Len(next) = 0
      BY <3>1, <3>3
    <3>4. CASE Len(next) = 1
      BY <3>1, <3>4
    <3> QED BY <3>2, <3>3, <3>4
  <2> QED BY <1>1, <2>1, <2>2 DEF Moved
<1>4. CASE tPhase' = "ask" /\ UNCHANGED tPlan
  BY <1>1, <1>4 DEF Moved
<1> QED BY <1>3, <1>4 DEF T!Told

LEMMA TeamMoves ==
  ASSUME TeamSpends, PlanFits, T!TeamNext
  PROVE  \/ tPhase = "idle" /\ tPhase' = "planning" /\ UNCHANGED tPlan
         \/ tPhase = "planning" /\ tPhase' = "dispatch" /\ Len(tPlan') \in 0 .. PlanRoom
         \/ Ended /\ UNCHANGED tPlan
         \/ Called
         \/ Moved
<1>1. CASE T!Orchestrate
  BY <1>1 DEF T!Orchestrate
<1>2. ASSUME NEW g \in T!Goal, T!Decompose(g)
      PROVE  tPhase = "planning" /\ tPhase' = "dispatch" /\ Len(tPlan') \in 0 .. PlanRoom
  BY <1>2, PlanLength DEF T!Decompose
<1>3. CASE T!Dispatch
  BY <1>3 DEF T!Dispatch, T!books, Moved
<1>4. CASE T!Synthesize \/ T!Propose \/ T!Die
  BY <1>4 DEF T!Synthesize, T!Propose, T!Die, Ended
<1>5. CASE T!Ask
  <2>1. tPhase = "ask" /\ tPlan # <<>> /\ tSpent \in Spent
    BY <1>5 DEF T!Ask, TeamSpends
  <2>2. tSpent'.tokens > tSpent.tokens
    <3>1. PICK use \in 1 .. TeamUse : tSpent' = T!RecordUsage(tSpent, tPlan[1].model, use)
      BY <1>5 DEF T!Ask
    <3>2. tSpent'.tokens = tSpent.tokens + use /\ tSpent.tokens \in Nat
      BY <2>1, <3>1 DEF T!RecordUsage, Spent
    <3> QED BY <3>2, TeamGiven
  <2>3. CASE T!Over(<<>>)
    <3>1. Len(tPlan') = Len(tPlan) - 1 /\ Len(tPlan) \in Nat
      BY <2>1, <2>3, OverAlone
    <3>2. Len(tPlan') <= Len(tPlan)
      BY <3>1
    <3>3. tPhase' = "dispatch"
      BY <2>3 DEF T!Over
    <3> QED BY <2>1, <2>2, <3>2, <3>3 DEF Called
  <2>4. CASE tPhase' \in {"ask", "reply"} /\ UNCHANGED tPlan
    <3>1. Len(tPlan) \in Nat
      BY DEF PlanFits
    <3> QED BY <2>1, <2>2, <2>4, <3>1 DEF Called
  <2> QED BY <1>5, <2>1, <2>3, <2>4 DEF T!Ask
<1>6. CASE T!GiveUp
  <2>1. tPhase = "ask" /\ T!Over(<<>>) /\ UNCHANGED tSpent /\ tPlan # <<>>
    BY <1>6 DEF T!GiveUp, T!books, TeamSpends
  <2>2. Len(tPlan') = Len(tPlan) - 1
    BY <2>1, OverAlone
  <2> QED BY <2>1, <2>2 DEF T!Over, Moved
<1>7. CASE T!Recall \/ T!ExecuteFails \/ \E report \in T!Report : T!Execute(report)
  BY <1>7, ToldMoves DEF T!Recall, T!ExecuteFails, T!Execute
<1> QED BY <1>1, <1>2, <1>3, <1>4, <1>5, <1>6, <1>7 DEF T!TeamNext, T!TeamStep

LEMMA PlanStaysShort ==
  ASSUME TeamSpends, TeamSpends', PlanFits, [T!TeamNext]_tVars
  PROVE  PlanFits'
<1>1. tPlan' \in Seq(T!Subtask) /\ Len(tPlan) \in Nat /\ PlanRoom \in Nat
  BY TeamGiven DEF TeamSpends, PlanFits, PlanRoom
<1>2. CASE UNCHANGED tVars
  BY <1>2 DEF tVars, PlanFits
<1>3. CASE T!TeamNext
  <2>1. Len(tPlan') <= PlanRoom
    BY <1>1, <1>3, TeamMoves DEF Ended, Called, Moved, PlanFits
  <2> QED BY <1>1, <2>1 DEF PlanFits
<1> QED BY <1>2, <1>3

LEMMA TeamShortens ==
  ASSUME TeamSpends, TeamSpends', PlanFits, PlanFits', [T!TeamNext]_tVars
  PROVE  [TeamLeft' < TeamLeft]_tVars
<1> SUFFICES ASSUME T!TeamNext PROVE TeamLeft' < TeamLeft
  BY DEF tVars
<1> DEFINE a == Ceiling - tSpent.tokens
           b == Ceiling - tSpent'.tokens
<1>1. /\ Len(tPlan) \in 0 .. PlanRoom /\ Len(tPlan') \in 0 .. PlanRoom
      /\ PerToken \in Nat /\ PerToken = 4 * PlanRoom + 4 /\ PlanRoom \in Nat
      /\ a \in Nat \ {0} /\ b \in Nat \ {0} /\ a < Ceiling + 1 /\ b < Ceiling + 1 /\ Ceiling \in Nat
  <2>1. MaxPlan \in Nat /\ PlanRoom \in Nat /\ PerToken = 4 * PlanRoom + 4
    BY TeamGiven DEF PlanRoom, PerToken
  <2>2. Len(tPlan) \in Nat /\ Len(tPlan') \in Nat
    BY DEF PlanFits
  <2>3. Ceiling \in Nat /\ tSpent.tokens \in Nat /\ tSpent'.tokens \in Nat
        /\ tSpent.tokens < Ceiling /\ tSpent'.tokens < Ceiling
    BY TeamGiven DEF TeamSpends, Ceiling, Spent
  <2> QED BY <2>1, <2>2, <2>3 DEF PlanFits
<1>2. /\ a * PerToken \in Nat /\ b * PerToken \in Nat /\ (Ceiling + 1) * PerToken \in Nat
      /\ b * PerToken + PerToken <= (Ceiling + 1) * PerToken
  <2> HIDE DEF a, b
  <2>1. a * PerToken \in Nat
    BY <1>1, TokenWeighs
  <2>2. b * PerToken \in Nat /\ (Ceiling + 1) * PerToken \in Nat /\ b * PerToken + PerToken <= (Ceiling + 1) * PerToken
    <3>1. b \in Nat /\ Ceiling + 1 \in Nat
      BY <1>1
    <3> QED BY <1>1, <3>1, TokenWeighs
  <2> QED BY <2>1, <2>2
<1>3. CASE tPhase = "idle" /\ tPhase' = "planning"
  BY <1>2, <1>3 DEF TeamLeft
<1>4. CASE tPhase = "planning" /\ tPhase' = "dispatch"
  <2>1. TeamLeft = (Ceiling + 1) * PerToken /\ TeamLeft' = b * PerToken + 4 * Len(tPlan') + 2
    BY <1>4 DEF TeamLeft
  <2> HIDE DEF b
  <2> QED BY <1>1, <1>2, <2>1
<1>5. CASE Ended
  <2>1. TeamLeft' = 0
    BY <1>5 DEF Ended, TeamLeft
  <2>2. (Ceiling + 1) * PerToken > 0 /\ a * PerToken >= PerToken
    <3>1. 0 * PerToken + PerToken <= a * PerToken /\ 0 * PerToken + PerToken <= (Ceiling + 1) * PerToken
      BY <1>1, TokenWeighs
    <3> QED BY <1>1, <3>1
  <2>3. TeamLeft > 0
    <3>1. \/ TeamLeft = (Ceiling + 1) * PerToken
          \/ \E r \in 1 .. 3 : TeamLeft = a * PerToken + 4 * Len(tPlan) + r
      BY <1>5 DEF Ended, TeamLeft
    <3> HIDE DEF a
    <3> QED BY <1>1, <1>2, <2>2, <3>1
  <2> QED BY <2>1, <2>3
<1>6. CASE Called
  <2>1. b < a
    BY <1>1, <1>6 DEF Called, Ceiling, TeamSpends, Spent
  <2>2. b * PerToken + PerToken <= a * PerToken
    BY <1>1, <2>1, TokenWeighs
  <2>3. PICK r \in 1 .. 3 : TeamLeft' = b * PerToken + 4 * Len(tPlan') + r
    BY <1>6 DEF Called, TeamLeft
  <2>4. TeamLeft = a * PerToken + 4 * Len(tPlan) + 1
    BY <1>6 DEF Called, TeamLeft
  <2> HIDE DEF a, b
  <2> QED BY <1>1, <1>2, <1>6, <2>2, <2>3, <2>4 DEF Called
<1>7. CASE Moved
  <2>1. b = a
    BY <1>7 DEF Moved
  <2>2. PICK r \in 1 .. 3, s \in 1 .. 3 :
          /\ TeamLeft = a * PerToken + 4 * Len(tPlan) + r
          /\ TeamLeft' = b * PerToken + 4 * Len(tPlan') + s
          /\ (r > s /\ Len(tPlan') = Len(tPlan)) \/ Len(tPlan') = Len(tPlan) - 1
    BY <1>7 DEF Moved, TeamLeft
  <2> HIDE DEF a, b
  <2> QED BY <1>1, <1>2, <2>1, <2>2
<1> QED BY <1>3, <1>4, <1>5, <1>6, <1>7, TeamMoves

Measured == OneLeft \in Nat /\ TeamLeft \in Nat

LEMMA LeftIsNat ==
  ASSUME AgentTypeOK, TeamSpends, PlanFits
  PROVE  Measured
<1>1. OneLeft \in Nat
  <2>1. step \in 0 .. MaxSteps /\ MaxSteps \in Nat
    BY LoopGiven DEF AgentTypeOK
  <2> QED BY <2>1 DEF OneLeft
<1>2. TeamLeft \in Nat
  <2>1. Ceiling - tSpent.tokens \in Nat /\ Ceiling + 1 \in Nat /\ PerToken \in Nat /\ Len(tPlan) \in Nat
    BY TeamGiven DEF TeamSpends, PlanFits, PerToken, PlanRoom, Ceiling, Spent
  <2>2. (Ceiling - tSpent.tokens) * PerToken \in Nat /\ (Ceiling + 1) * PerToken \in Nat
    BY <2>1
  <2> DEFINE x == (Ceiling - tSpent.tokens) * PerToken
             y == (Ceiling + 1) * PerToken
             l == Len(tPlan)
  <2>3. TeamLeft \in {0, y, y + 1} \cup {x + 4 * l + 1, x + 4 * l + 2, x + 4 * l + 3}
    BY DEF TeamLeft
  <2>4. x \in Nat /\ y \in Nat /\ l \in Nat
    BY <2>1, <2>2
  <2> HIDE DEF x, y, l
  <2> QED BY <2>3, <2>4
<1> QED BY <1>1, <1>2 DEF Measured

\* A run of either kind is finite, whatever models say and tools report, however
\* often specialists hand over to each other: the single agent takes at most
\* two steps per allowed model call and three more; each step of the team uses
\* up what its budget and its plan leave it.
THEOREM RunsAreFinite == AgentsSpec => []Measured /\ RunsShorten
<1> DEFINE FiniteInv == BudgetInv /\ PlanFits
           Steps == [OneLeft' < OneLeft]_agentVars /\ [TeamLeft' < TeamLeft]_tVars
<1>1. AgentsInit => FiniteInv
  <2> SUFFICES ASSUME AgentsInit PROVE FiniteInv
    OBVIOUS
  <2>1. tPlan = <<>> /\ PlanRoom \in Nat
    BY TeamGiven DEF AgentsInit, T!TeamInit, PlanRoom
  <2> QED BY <2>1, BudgetInit, EmptyTyped DEF PlanFits
<1>2. FiniteInv /\ [AgentsNext]_<<side, agentVars, tVars>> => FiniteInv'
  <2> SUFFICES ASSUME FiniteInv, [AgentsNext]_<<side, agentVars, tVars>> PROVE FiniteInv'
    OBVIOUS
  <2>1. [T!TeamNext]_tVars
    BY DEF AgentsNext
  <2> QED BY <2>1, BudgetStep, PlanStaysShort DEF BudgetInv
<1>3. FiniteInv /\ AgentsTypeOK => Measured
  BY LeftIsNat DEF BudgetInv, AgentsTypeOK
<1>4. /\ FiniteInv /\ FiniteInv' /\ AgentsTypeOK /\ AgentsTypeOK'
      /\ [AgentsNext]_<<side, agentVars, tVars>>
      => Steps
  <2> SUFFICES ASSUME FiniteInv, FiniteInv', AgentsTypeOK, AgentsTypeOK',
                      [AgentsNext]_<<side, agentVars, tVars>>
               PROVE  Steps
    OBVIOUS
  <2>1. [AgentNext]_agentVars /\ [T!TeamNext]_tVars
    BY DEF AgentsNext
  <2> QED BY <2>1, OneShortens, TeamShortens DEF BudgetInv, AgentsTypeOK
<1> HIDE DEF FiniteInv
<1> QED BY <1>1, <1>2, <1>3, <1>4, AgentsTypeCorrect, PTL DEF AgentsSpec, RunsShorten

=============================================================================
