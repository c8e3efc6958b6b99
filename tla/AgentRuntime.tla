---------------------------- MODULE AgentRuntime ----------------------------
(***************************************************************************)
(* One run of an agent for a user: run_agent in                            *)
(* backend/app/services/agent_execution_service.py around the reason-act   *)
(* loop of agent/react_agent.py, the model client of agent/llm_client.py   *)
(* and the tools behind ToolExecutionService.  A run has an agent of its   *)
(* own and takes its steps one after the other; what it cannot foresee is  *)
(* what the model says and what the tools answer.                          *)
(***************************************************************************)
EXTENDS AgentCredit

CONSTANTS
  MaxSteps,  \* max_steps
  Window     \* max_history_turns: messages kept in full

ASSUME LoopGiven == MaxSteps \in Nat /\ Window \in Nat \ {0}

VARIABLES
  phase,      \* "idle", "loop", "reply", "answered"; "returned", "raised" and "lost" are the ends
  request,    \* [mode, review]: what the user asked for
  step,       \* model calls so far
  history,    \* the messages sent to the model
  transcript, \* history: the messages there were
  reply,      \* the reply being acted upon
  spent,
  cache,      \* [key, value]: tool calls and prompts with their answers
  taken,      \* actions_taken: [tool, status]
  done,       \* history: how often a tool call was executed and succeeded
  forgotten,  \* history: the keys dropped from the cache
  result,     \* the status of the AgentResult
  output,     \* the verdict in its output
  announced   \* the review's last event: "nothing", "started", or the verdict of REVIEW_COMPLETED

agentVars == <<phase, request, step, history, transcript, reply, spent, cache, taken, done,
               forgotten, result, output, announced>>
talk == <<step, history, transcript, spent>>
work == <<taken, done>>

Verdict == {"APPROVE", "REQUEST_CHANGES"}

\* A final answer may be good, name no verdict, be null, or be no valid result.
Final == [kind : {"final"}, about : Verdict \cup {"no_verdict", "null", "invalid"}]
Reply == Final \cup Action \cup {Garbage}

\* A message: what the model said or was told, or what a summary sums up.
Message(role, about) == [role |-> role, about |-> {about}]
Opening == <<Message("system", "rules"), Message("user", "goal")>>

AgentInit ==
  /\ phase = "idle" /\ request = [mode |-> "react", review |-> FALSE]
  /\ step = 0 /\ history = Opening /\ transcript = <<>> /\ reply = Garbage
  /\ spent = Nothing /\ cache = <<>>
  /\ taken = {} /\ done = [t \in Tool |-> 0] /\ forgotten = {}
  /\ result = "none" /\ output = "no_verdict" /\ announced = "nothing"

-----------------------------------------------------------------------------
(* run_agent, up to the loop *)

\* A goal that asks for a review is announced.
RunAgent(mode, review) ==
  /\ phase = "idle"
  /\ request' = [mode |-> mode, review |-> review]
  /\ announced' = IF review THEN "started" ELSE "nothing"
  /\ phase' = "loop"
  /\ UNCHANGED <<reply, cache, forgotten, result, output>> /\ UNCHANGED talk /\ UNCHANGED work

\* In the mode "multi_agent" AgentConfig is given arguments it does not have,
\* and the fallback asks for a status that AgentStatus does not have.
Misconfigured ==
  /\ phase = "loop" /\ request.mode = "multi_agent"
  /\ phase' = "raised"
  /\ UNCHANGED <<request, reply, cache, forgotten, result, output, announced>>
  /\ UNCHANGED talk /\ UNCHANGED work

-----------------------------------------------------------------------------
(* The loop *)

Looping == phase = "loop" /\ request.mode = "react"

EndWith(status, verdict) ==
  /\ result' = status /\ output' = verdict /\ phase' = "answered"

\* Steps or budget are used up.
Halt ==
  /\ Looping /\ (step >= MaxSteps \/ Exceeded(spent))
  /\ EndWith("TIMED_OUT", "no_verdict")
  /\ UNCHANGED <<request, reply, cache, forgotten, announced>> /\ UNCHANGED talk /\ UNCHANGED work

\* What compress_history says of the messages it takes out: the actions and
\* the observations among them.  An older summary is neither.
Summary(middle) ==
  [role |-> "summary",
   about |-> UNION {middle[i].about : i \in {j \in DOMAIN middle :
     \/ middle[j].role = "assistant" /\ middle[j].about \subseteq Tool
     \/ middle[j].role = "observation"}}]

\* MUTANT: the window is cut one message short.
CompressShort(messages) ==
  IF Len(messages) <= 6 \/ Len(messages) <= Window + 2 THEN messages
  ELSE SubSeq(messages, 1, 2)
         \o <<Summary(SubSeq(messages, 3, Len(messages) - Window))>>
         \o SubSeq(messages, Len(messages) - Window + 2, Len(messages))

\* Six messages are never compressed; of more, the first two and the last
\* Window stay as they are.
Compress(messages) ==
  IF Len(messages) <= 6 \/ Len(messages) <= Window + 2 THEN messages
  ELSE SubSeq(messages, 1, 2)
         \o <<Summary(SubSeq(messages, 3, Len(messages) - Window))>>
         \o SubSeq(messages, Len(messages) - Window + 1, Len(messages))

\* What the reply adds to the conversation.
Said(r) == Message("assistant", r.about)

\* chat_completion: a prompt that was sent before is answered from the cache
\* and costs nothing.
Ask ==
  LET prompt == Compress(history)
      key    == [of |-> "model", tool |-> {}, prompt |-> prompt] IN
  /\ Looping /\ step < MaxSteps /\ ~Exceeded(spent)
  /\ step' = step + 1
  /\ \/ /\ Has(cache, key)
        /\ reply' = Lookup(cache, key)
        /\ UNCHANGED <<spent, cache, forgotten>>
     \/ /\ ~Has(cache, key)
        /\ reply' \in Reply
        /\ \E use \in 1 .. MaxUse : spent' = RecordUsage(spent, "fast", use)
        /\ cache' = Store(cache, key, reply')
        /\ forgotten' = forgotten \cup Dropped(cache)
  /\ history' = Append(prompt, Said(reply'))
  /\ transcript' = Append(transcript, Said(reply'))
  /\ phase' = "reply"
  /\ UNCHANGED <<request, result, output, announced>> /\ UNCHANGED work

\* The call raises: no connection, a time-out, or an HTTP error, for which the
\* fallback of the client reads variables it has not set.
AskFails ==
  /\ Looping /\ step < MaxSteps /\ ~Exceeded(spent)
  /\ step' = step + 1
  /\ EndWith("FAILED", "no_verdict")
  /\ UNCHANGED <<request, history, transcript, spent, reply, cache, forgotten, announced>>
  /\ UNCHANGED work

-----------------------------------------------------------------------------
(* The reply is acted upon *)

Replied(kind) == phase = "reply" /\ reply.kind = kind

\* An answer that is null leaves the loop as if there were none; one that is
\* no valid result raises.
Finish ==
  /\ Replied("final")
  /\ CASE reply.about = "null"    -> EndWith("TIMED_OUT", "no_verdict")
       [] reply.about = "invalid" -> EndWith("FAILED", "no_verdict")
       [] OTHER                   -> EndWith("COMPLETED", reply.about)
  /\ UNCHANGED <<request, reply, cache, forgotten, announced>> /\ UNCHANGED talk /\ UNCHANGED work

Propose ==
  /\ Replied("action") /\ reply.about \in Guarded
  /\ taken' = taken \cup {[tool |-> reply.about, status |-> "PROPOSED"]}
  /\ EndWith("WAITING_FOR_APPROVAL", "no_verdict")
  /\ UNCHANGED <<request, reply, cache, done, forgotten, announced>> /\ UNCHANGED talk

\* The next message to the model, after which the loop goes on.
Observe(about) ==
  /\ history' = Append(history, Message("observation", about))
  /\ transcript' = Append(transcript, Message("observation", about))
  /\ phase' = "loop"
  /\ UNCHANGED <<request, step, reply, spent, result, output, announced>>

Unavailable ==
  /\ Replied("action") /\ reply.about \notin Guarded \cup Offered
  /\ Observe("unavailable")
  /\ UNCHANGED <<cache, forgotten>> /\ UNCHANGED work

Reprompt ==
  /\ Replied("garbage")
  /\ Observe("unreadable")
  /\ UNCHANGED <<cache, forgotten>> /\ UNCHANGED work

Callable(t) == Replied("action") /\ t = reply.about /\ t \in Offered \ Guarded
CallKey(t)  == [of |-> "tool", tool |-> {t}, prompt |-> <<>>]
Report(t, status) == taken' = taken \cup {[tool |-> t, status |-> status]}

\* The same call once answered is not made again.
Recall(t) ==
  /\ Callable(t) /\ Has(cache, CallKey(t))
  /\ Report(t, "COMPLETED") /\ Observe(t)
  /\ UNCHANGED <<cache, done, forgotten>>

\* MUTANT: the answer is remembered under the prompt.
ExecuteUncached(t) ==
  /\ Callable(t) /\ ~Has(cache, CallKey(t))
  /\ Report(t, "COMPLETED") /\ Observe(t)
  /\ done' = [done EXCEPT ![t] = @ + 1]
  /\ cache' = Store(cache, [CallKey(t) EXCEPT !.prompt = history], "answer")
  /\ forgotten' = forgotten \cup Dropped(cache)

Execute(t) ==
  /\ Callable(t) /\ ~Has(cache, CallKey(t))
  /\ Report(t, "COMPLETED") /\ Observe(t)
  /\ done' = [done EXCEPT ![t] = @ + 1]
  /\ cache' = Store(cache, CallKey(t), "answer")
  /\ forgotten' = forgotten \cup Dropped(cache)

\* dispatch denies, or the tool raises: the executor raises, the loop goes on.
ExecuteFails(t) ==
  /\ Callable(t) /\ ~Has(cache, CallKey(t))
  /\ Report(t, "FAILED") /\ Observe("error")
  /\ UNCHANGED <<cache, done, forgotten>>

-----------------------------------------------------------------------------
(* run_agent, after the loop *)

\* MUTANT: an output without a verdict is announced as it is.
ConcludeAsIs ==
  /\ phase = "answered"
  /\ announced' = IF ~request.review THEN announced ELSE output
  /\ phase' = "returned"
  /\ UNCHANGED <<request, reply, cache, forgotten, result, output>> /\ UNCHANGED talk /\ UNCHANGED work

\* The end of a review is announced with the verdict of the output, or, where
\* the output has none, with APPROVE.
Conclude ==
  /\ phase = "answered"
  /\ announced' = IF ~request.review THEN announced
                  ELSE IF output \in Verdict THEN output ELSE "APPROVE"
  /\ phase' = "returned"
  /\ UNCHANGED <<request, reply, cache, forgotten, result, output>> /\ UNCHANGED talk /\ UNCHANGED work

Die ==
  /\ phase \in {"loop", "reply", "answered"}
  /\ phase' = "lost"
  /\ UNCHANGED <<request, reply, cache, forgotten, result, output, announced>>
  /\ UNCHANGED talk /\ UNCHANGED work

AgentStep ==
  \/ Misconfigured \/ Halt \/ Ask \/ AskFails
  \/ Finish \/ Propose \/ Unavailable \/ Reprompt
  \/ \E t \in Tool : Recall(t) \/ Execute(t) \/ ExecuteFails(t)
  \/ Conclude

AgentNext ==
  \/ \E mode \in {"react", "multi_agent"}, review \in BOOLEAN : RunAgent(mode, review)
  \/ AgentStep \/ Die

\* Model calls time out, tools answer, and the event loop goes on.
AgentSpec == AgentInit /\ [][AgentNext]_agentVars /\ WF_agentVars(AgentStep)

-----------------------------------------------------------------------------
(* Properties *)

AgentTypeOK ==
  /\ phase \in {"idle", "loop", "reply", "answered", "returned", "raised", "lost"}
  /\ request \in [mode : {"react", "multi_agent"}, review : BOOLEAN]
  /\ step \in 0 .. MaxSteps
  /\ reply \in Reply
  /\ spent \in Spent
  /\ Len(cache) <= CacheSize
  /\ taken \subseteq [tool : Tool, status : {"PROPOSED", "COMPLETED", "FAILED"}]
  /\ done \in [Tool -> Nat]
  /\ result \in {"none", "COMPLETED", "FAILED", "TIMED_OUT", "WAITING_FOR_APPROVAL"}
  /\ output \in Verdict \cup {"no_verdict"}
  /\ announced \in Verdict \cup {"nothing", "started"}

\* The budget is looked at before each call, so that it is overrun by what
\* one call uses, and by no more, whatever else happens in the run.
OverrunByOneCall ==
  /\ spent.tokens < TokenBudget + MaxUse
  /\ spent.cost   < CostBudget + MaxUse * Rate["fast"]

\* What a COMPLETED action reports was done in this run, and was done once
\* unless the cache lost its answer.
AgentWorksOnce ==
  /\ \A a \in taken : a.status = "COMPLETED" => done[a.tool] >= 1
  /\ \A t \in Tool : done[t] > 1 => CallKey(t) \in forgotten

\* However long the run, the model is reminded of its rules and its goal and
\* has the last messages in full, its latest reply and those it replied to,
\* and the conversation it is sent stays short.
ConversationKept ==
  LET kept == IF Len(transcript) <= Window THEN Len(transcript) ELSE Window + 1 IN
  /\ SubSeq(history, 1, 2) = Opening
  /\ SubSeq(history, Len(history) - kept + 1, Len(history))
       = SubSeq(transcript, Len(transcript) - kept + 1, Len(transcript))
  /\ Len(history) <= 8 \/ Len(history) <= Window + 5

\* Whatever the model says and the tools do, the run comes to an end.
AgentReturns == phase = "loop" ~> phase \in {"returned", "raised", "lost"}

=============================================================================
