# NexOps in TLA+

Models, model checks and proofs of the control plane of NexOps: the FastAPI
monolith under `backend/app` that reviews pull requests, gates, deploys and
rolls back releases and responds to incidents, with the multi-agent
orchestration it contains, and the agent under `agent`. Paths below are relative
to the repository.

## The system

| Component | State it keeps | Operations | Talks to |
|---|---|---|---|
| Deployment service (`services/deployment_service.py`) | `deployments`, `deployment_logs` rows | `trigger_deployment`, `rollback`, queries | gates (read), provider adapters (awaited), event bus (every emit commits) |
| Gates and risk (`services/risk_service.py`) | `deployment_gates`, audit log rows | `evaluate_gate`, `approve_gate`, `reject_gate`, `bypass_gate` | reviews, tests, pull requests (read); read by deployments |
| Incident response (`services/incident_service.py`) | `incidents`, `diagnosis_runs`, memories | create, `diagnose`, `remediate_and_resolve` | `rollback` (awaited), memory, event bus |
| Task graph and scheduler (`services/orchestration/task_graph.py`, `scheduler.py`) | task statuses, attempts, one batch, a semaphore | `validate_dag`, `get_ready_tasks`, `execute_graph` | workers (awaited with a deadline) |
| Pull request workflow (`services/orchestration/orchestrator.py`, `policy_engine.py`, `result_aggregator.py`) | `worker_results`, the report | `execute_workflow` | scheduler, model router |
| Provider adapters (`providers/`) | none | `deploy`, `get_logs`, `rollback` | Render over HTTP when a key is set, otherwise answered locally |
| Event bus (`services/event_bus.py`) | `platform_events` ledger, in-process subscribers | `emit`, `subscribe` | everything; `emit` commits the caller's session |
| Webhooks and pull requests (`services/github_service.py`) | `webhook_events`, `pull_requests`, `github_connections` | `process_webhook`, `connect_repository`, `get_pull_request`, `get_diff` | GitHub's API, event bus |
| Reviews and test runs (`services/review_service.py`, `test_service.py`) | `reviews`, findings, `test_runs` | `execute_review`, `run_tests` | cached diff of the pull request, event bus, GitHub |
| Projects, members, keys (`services/project_service.py`) | `projects`, `project_members`, `api_keys` | create, delete, members, roles, keys | audit log |
| Authentication (`services/auth_service.py`, `api/deps.py`) | users, accounts, sessions | register, two logins, logout, check of a token | GitHub's OAuth |
| Agent (`agent/`, `services/agent_execution_service.py`) | conversation, budget, cache, plan | the reason-act loop, the team's plan and hand-overs | models, tools |
| Monitoring (`services/monitoring_service.py`) | health checks, metrics | `execute_probe`, summary | event bus |
| Memory (`services/memory_service.py`) | memories | store, search | - |
| Frontend (`frontend/`) | browser state | pages | HTTP API |

### What is hard about it

* **Asynchronous handlers over a synchronous session.** A handler is a
  coroutine on a worker's event loop, but its database calls block the loop. It
  yields only where it awaits something that really suspends. So handlers of one
  loop interleave at provider and model calls, handlers of several processes
  everywhere, and a lock that has to be waited for stalls a whole loop.
* **Hidden commits.** `EventBus.emit` commits the session, so an operation is cut
  into transactions at the events it emits. What is flushed after the last commit
  is invisible to others, but holds row locks. The gate endpoints have no event,
  and commit nothing.
* **No recovery.** Nothing looks, at start-up or later, for rows left in a
  transient state by a crash or an exception.
* **Retries, deadlines, partial evidence** in the orchestration: what a failed or
  cancelled worker leaves behind, and what is concluded without it.
* **Redelivery.** GitHub repeats and reorders what it reports, and the record that makes
  a delivery a duplicate is committed before the delivery is processed.
* **Whatever a model says.** An agent's loop must end, stay near its budget and not repeat
  what has effects, with replies that cannot be foreseen.
* **Check-then-act** on rows read in an earlier transaction: gate status,
  rollback target, incident status, last owner, webhook deduplication.

`PROJECT.json` lists these hazards at their lines, with the properties that watch
them, or the reason why none does yet.

### What makes each component correct

* Deployments: row and ledger agree in every committed state; an outcome is
  announced once and stays unless rolled back; work in progress has somebody at
  work on it; a halted deployment is inert; a late provider answer does not undo a
  rollback; every request is answered (it is not where loops wait for each other: see
  Fairness).
* Scheduler: exactly the executable graphs are accepted; dependencies first;
  failure has a cause and is passed on to all dependants; it ends.
* Workflow: the evidence is that of the tasks that succeeded, once each; the risk
  is assessed on complete evidence; critical findings block, production needs a
  sign-off; a report always comes out.
* Webhooks: every delivery is announced at most once and settles; a row is one version of
  the pull request, not a mixture of two.
* Reviews and gates: tables, ledger and GitHub tell one story; the gate agrees with the
  review it is given and is monotone in its evidence; a review is of the commit it is
  stored for (it is not: see Findings).
* Incidents: status, ledger and memory tell the same story; a recovery by rollback
  is announced only when that rollback is complete; a resolved incident stays
  resolved (it does not: see Findings).
* Projects: there is an owner, and owners are made by owners.
* Accounts: a user can log in, and a dead token opens nothing.
* Agents: the budget holds but for the last piece of work; no call is made twice; the model
  is told what it needs; a run ends.

## The modules

| Module | What it is |
|---|---|
| `Deployments.tla` | `trigger_deployment` and `rollback` as concurrent requests |
| `DeploymentLifecycle.tla` | what they promise about one row: the abstract specification |
| `IncidentResponse.tla` | extends `Deployments` with declaring, diagnosing and resolving incidents |
| `TaskScheduler.tla` | `TaskGraph` and `execute_graph` |
| `GraphExecution.tla` | what they promise about a graph: the abstract specification |
| `PrWorkflow.tla` | extends `TaskScheduler` with the workers, the policy and the report of `execute_workflow` |
| `PullRequests.tla` | webhook deliveries and reads from GitHub over the row of a pull request |
| `DeliveryLifecycle.tla` | what the webhook endpoint promises about a delivery |
| `Reviews.tla` | reviews, test runs, the cached diff and the gate |
| `ReviewLifecycle.tla` | what `execute_review` promises about a review |
| `Membership.tla` | a project, its members and keys |
| `Accounts.tla` | registration, logins and tokens |
| `AgentCredit.tla` | budget and cache of agents |
| `AgentRuntime.tla`, `AgentTeam.tla` | extend it with the single agent and the team |
| `MCDeployments`, `MCIncidentResponse`, `MCReviews` | constants and symmetry for TLC |
| `MCWorkflow`, `MCWorkspace`, `MCAgents` | two modules each, one of which is run in a behaviour |
| `Deployments_proofs`, `IncidentResponse_proofs`, `TaskScheduler_proofs`, `PrWorkflow_proofs`, `PullRequests_proofs`, `Reviews_proofs`, `Workspace_proofs`, `Agents_proofs` | theorems about them |

Four of them state what a component promises, without its processes, sessions and queues,
and the detailed module is shown to implement them: `Deployments` implements
`DeploymentLifecycle` on one event loop, `TaskScheduler` and with it `PrWorkflow`
implement `GraphExecution`, `PullRequests` implements `DeliveryLifecycle`, `Reviews`
implements `ReviewLifecycle`. And each module that extends another implements it
(`IncidentResponse` each step of `Deployments`, `PrWorkflow` each of `TaskScheduler`), so
that what is proved of the smaller one holds in the composition.

Definitions whose comment begins with `MUTANT` are not part of a specification: each is
a plausible mistake in the operator below it, and some property fails when it takes the
operator's place.

### Deployments

A request is an element of `Deploys` or `Rollbacks`; a deploy request names the
row it creates. `pc` is where its handler stands, `home` the worker process that
took it, `loop[w]` the coroutine that worker's event loop executes (`None` when it
is idle). Each action is the stretch of a handler between two points at which
others can look at, or change, the database:

| Action | Code (`deployment_service.py`) |
|---|---|
| `ReadGate` | arrival, and the gate read, lines 92-94 |
| `HaltAtGate` | row created in FAILED and committed, 95-115 |
| `StartDeployment` | PENDING and BUILDING, committed by emitting DEPLOYMENT_STARTED, 117-151 |
| `UnknownGate` | the insert breaks the foreign key of `gate_id` |
| `DispatchDeploy` | TESTING, APPROVED, DEPLOYING flushed (row locked), adapter awaited, 153-178 |
| `RefuseRequest` | building the `DeploymentRequest` raises, before the `try`, 166-175 |
| `DeploySucceeds`, `DeployFails` | the answer, committed with its event, 178-237 |
| `LoadCurrent` | 247-249 |
| `ExplicitTarget`, `DefaultTarget` | 251-260 |
| `MarkRollingBack` | 262-280 |
| `CallRollback`, `RollbackAnswered`, `RollbackRaises` | 282-289 |
| `MarkRolledBack` | 291-312 |
| `DecideGate` | approve, reject, bypass of `risk_service.py`, 292-368 |
| `Crash` | the process dies and is restarted |

Points a reader of the code may want explained:

* Only committed states are in `state`. PENDING, TESTING, APPROVED, DEPLOYING and
  HEALTH_CHECK are flushed and overwritten inside one transaction, so nobody ever
  sees them; what others notice of them is `rowLock`.
* SQLAlchemy writes an attribute only if its value changes. A rollback whose
  session has loaded ROLLING_BACK writes nothing and waits for no lock
  (`MarkRollingBack`); ROLLED_BACK always stamps `completed_at`, so
  `MarkRolledBack` always issues an UPDATE (`Overwrite` leaves the state column
  alone if the session had it already). A log row refers to the deployment by a
  foreign key, which does not conflict with the UPDATE's lock.
* `CallRollback` reloads the row because the commit inside `emit` expired it.
* Whether an adapter call suspends is a choice: only Render with a live key does.
* The gate endpoints never commit, so a gate evaluated through them is never a
  row: status `"LOST"`. Committed statuses, and `DecideGate`, stand for
  `RiskService` in a session whose owner commits, as in
  `backend/tests/test_e2e_devops_loop.py`.
* `born` is `created_at`: PostgreSQL's `now()`, the time the transaction began.
* A 404 for an unknown deployment changes nothing and is left out. Log lines, URL
  and provider ids carry no property.

`DeploymentLifecycle` has only the committed state and the announced outcome of a
row: it is halted or started once, ends once and only while it is still building,
and can be rolled back, again and again. The refinement maps `outcome` to the
ledger.

### IncidentResponse

A request of `Rollbacks` is now a call of the rollback endpoint or of the resolve
endpoint. `stage` is where a resolution or a diagnosis stands; `pc` still is where
the rollback inside a resolution stands, and when that reaches `"reply"` the
resolution goes on on the same event loop.

| Action | Code (`incident_service.py`) |
|---|---|
| `CreateIncident` | 45-78, one commit |
| `Diagnose` | 93-118, committed by DIAGNOSIS_STARTED |
| `Collect` | 120-146, the incident read again, the logs |
| `Conclude` | 148-180, diagnosis run and MITIGATING, committed by DIAGNOSIS_COMPLETED |
| `ResolveInPlace` | 182-194 when no rollback is asked for or possible |
| `ResolveByRollback`, `RolledBack` | 193-199, the rollback and its return |
| `Close` | 202-206 with `update_status`: RESOLVED flushed, the row locked |
| `Remember` | the look-up of `MemoryRepository.store`, 46-50 |
| `Recover` | the post-mortem and RECOVERY_COMPLETED, 208-239, committed together |
| `Lose`, `CrashWorker` | the process of a responder dies |

* `diagnose_incident` awaits nothing and `remediate_and_resolve` only the rollback.
  Requests without a rollback therefore never suspend; they are not bound to a loop
  of the model, which is one worker more than the code may have, and only adds
  interleavings.
* `known` is the status the session has loaded; assigning an equal value writes
  nothing. RESOLVED always stamps `resolved_at`, so `Close` always locks the row.
* A post-mortem's key has eight hexadecimal digits of the incident's id; that two
  incidents of a project could share one is left out.
* A rollback that raises ends the resolution where it stands.

### TaskScheduler

`deps` is any graph over the tasks, with dependencies that may name no task,
chosen initially. `Link`, `Pop`, `Sorted` are `validate_dag`: `unvisited` is what
Kahn's algorithm has not popped, and an in-degree of zero is that no dependency is
unvisited. `Collect` is `get_ready_tasks`, `Start` to `Raise` the body of
`_run_single_task`, `Gathered` the return of `gather`, `GiveUp` and `Leave` the two
ends of the loop. `GraphExecution` has only the verdict on the graph and the outcome of
each task; the refinement maps a task that is retried to one that was begun and has not
ended. A permit of the semaphore is held exactly while a task is
RUNNING. The branch that sleeps while a task is RUNNING is never taken, since
`gather` has returned when the loop looks; the other members of `TaskStatus` are
never assigned.

### PrWorkflow

The four tasks of `create_pr_workflow_graph` under the scheduler, with
`worker_results` as the sequence it is. A diff is clean, suspect to the security
worker, or holds `eval(`/`exec(`. Which worker can overrun or raise follows from
what it awaits: the test worker and the risk assessor await nothing; the code
review and (for a suspect diff) the security review call a model, through
`execute_completion`, which falls back to a canned answer on errors but may
take as long as the deadline; a null content makes only the security worker
raise. The test worker's result is a constant, so `tests_passed` is always true.
Contradiction messages and deduplication do not influence the status and are left
out.

`MCWorkflow` lets a behaviour be either the workflow of a pull request or the run of
any graph that three of the tasks can form, so that one run checks both modules.

### PullRequests

A pull request of one connected repository. `github` is what it has been on GitHub,
oldest first; change `d` is reported by delivery `d`. A process of `Ingest` is an event
loop that takes webhooks: the handler awaits nothing once it has the body, so a loop has
one delivery at a time. A process of `Client` is a thread of the other endpoints.
Every repository call commits, and so every commit ends a step.

| Action | Code (`github_service.py` unless said otherwise) |
|---|---|
| `OpenPull`, `PushPull`, `ClosePull`, `ReopenPull` | GitHub, external |
| `Receive` | arrival and the look-up of the delivery id, 425-444 |
| `Record` | the `webhook_events` row, committed first, 446-454 |
| `LoadPull`, `SavePull` | `PullRequestRepository.upsert`, 16-53, with the payload of `_save_pr_data`, 274-301 |
| `AnnouncePull` | the event by the payload's action, 465-499 |
| `MarkProcessed` | 504-506 |
| `SyncPull` | `get_pull_request`, `api/v1/github.py` 177-209: only where there is no row |
| `ConnectRepository` | 155-259: listed pull requests, or a baseline if the list fails or is empty |
| `Die` | the process, thread or connection is lost |

`DeliveryLifecycle` has of a delivery whether it was taken, announced, and settled or
broken off; the refinement takes the stage from the `webhook_events` row and the worker
in charge.

* Deliveries may be sent again, overtake each other, and reach two workers at once.
* The upsert writes the columns whose values differ from those it loaded. `view` is what
  it loaded, and `Updated` mixes it with what the row has become.
* GitHub's list has no `merged` field: a merged pull request is read as closed.
* `last` and `interrupted` are history: which payload the row was saved from without
  another save in between, and which deliveries were cut off after being recorded.

### Reviews

Reviews, test runs and gates of one pull request on threads, where each commit ends a
step and makes the session read the row again. A commit is a number, and its diff a
`Change`: the findings the patterns make, critical paths, size, whether tests are missing.
`PullRequests` says how the head follows GitHub; here `SaveHead` does it in one step.

| Action | Code |
|---|---|
| `StartReview` | `review_service.py` 343-387: the cached diff, or `get_diff` |
| `FetchDiff`, `CacheDiff` | `github_service.py` 345-405 |
| `AnnounceReview`, `Conclude`, `CompleteReview` | `review_service.py` 389-504, three commits |
| `PostReview` | `github_service.py` 508-547 |
| `StartTests`, `CompleteTests`, `StoreTests` | `test_service.py` 42-193: both events before the rows |
| `EvaluateGate` | `risk_service.py` 80-271 |

`ReviewLifecycle` has of a review that it was opened, its row, that it was announced, that
it was posted, and that its request broke off; the refinement reads the first and third off
the ledger. That one is shown to be implemented by a theorem only: adding `PROPERTY
ReviewSpec` to `Reviews_gates.cfg` lets TLC confirm it on the same instance.

* The score (`DiffScore`, `PathScore`, `TestScore`, `ReviewScore`, their caps), the level
  and the status are operators on the evidence; `decision` is the answer just given.
* A gate that was evaluated leaves nothing but that answer: its endpoint never commits.
* `of` in a review is the commit whose diff it has read (0 if the diff is made up),
  `head` the commit it is stored for.
* The list of files exists only where the diff has just been fetched; without it the rule
  on missing tests finds nothing (`fresh`).

### Membership

One project, its members and its first API key. A request reads who asks (`Authorize`),
whom it concerns (`Inspect`), counts the owners where one is at stake (`CountOwners`),
writes (`WriteMember`, `WriteProject`) and audits (`Audit`): each is a statement or a
commit of its own in `project_service.py` 60-384, without locks, so that requests
interleave between them. `CreateProject`, `EnrolOwner` and `AuditCreation` are the three
commits of `create_project`. A superuser who is no member acts as OWNER.

* `Project.members` is loaded together with the project (`lazy="selectin"`,
  `db/models/project.py` 34-39), and SQLAlchemy answers a later query for a row it holds
  with the object it has. So `Authorize` reads the target's role too (`found`), and
  `get_member` in `Inspect` finds anew only whether the row is still there (`Answer`). A
  role that changed meanwhile is not seen, unless the row was deleted (`Forgotten`).
* The last owner can therefore be lost in two ways. Two requests can count two owners each
  and take one each. And a request that loaded its target as a MAINTAINER who is then
  promoted counts nothing at all: it removes or demotes what may have become the only owner,
  with no other request at work any more.
* `stale` is history: an owner was taken by a write when the owners were no longer those at
  its last look, which is the count if there was one and the load of the members otherwise
  (`basis`).
* A superuser can add the creator before `EnrolOwner` does, which then breaks the unique
  constraint and fails: a project without an owner of its own (`creation = "failed"`).

### Accounts

One person's user row, accounts and tokens: `Enter`, `CreateUser`, `CreateAccount` and
`CreateSession` are the commits of `register`, `login` and `authenticate_github`
(`auth_service.py` 26-251); `Expire`, `Revoke`, `Present` and `Authenticate` the life of
a session or an API key and its use in `api/deps.py` 13-73. `MCWorkspace` runs
`Membership` and `Accounts` side by side, one of them in each behaviour.

### AgentCredit, AgentRuntime, AgentTeam

`AgentCredit` has what both kinds of agent share: budget (`RecordUsage`, `Exceeded`), the
cache as a sequence, oldest entry first (`Has`, `Lookup`, `Store`), and what a reply can be.
What a model says and a tool answers is a choice in every step.

`AgentRuntime` is `run_agent` (`agent_execution_service.py` 59-240) around the loop of
`agent/react_agent.py`:

| Action | Code |
|---|---|
| `RunAgent`, `Misconfigured`, `Conclude` | `agent_execution_service.py` 59-178, 180-212, 214-240 |
| `Halt` | steps or budget used up, `react_agent.py` 311-340 |
| `Ask`, `AskFails` | the compressed history sent, `llm_client.py` 98-277, `credit_optimizer.py` 350-394 |
| `Finish`, `Propose`, `Unavailable`, `Reprompt` | what the reply was, `react_agent.py` 184-309 |
| `Recall`, `Execute`, `ExecuteFails` | a tool call from the cache, made, or refused, 238-291 |

`AgentTeam` is `orchestrate` (`agent/orchestrator.py` 282-421) with the plans of
`agent/planner.py`: `Decompose`, `Dispatch`, the specialist's own loop (`Ask`, `GiveUp`,
`Recall`, `Execute`, `ExecuteFails`, 453-546), `Handover` by what a tool reported
(189-245), `Propose`, `Synthesize`. `MCAgents` runs one of the two in each behaviour.

* The cost of a token is 1 for a cheap model and 3 for a reasoning one; only that
  they differ matters.
* A prompt of the single agent may have been sent before, when compression makes two
  prompts equal: it is then answered from the cache at no cost. A team's prompts are
  never equal where the sub-tasks of its plan have different ids, since each sub-task is
  told the results so far.
* Replies and tool reports share one cache of limited size, in a team as in the single
  agent (`llm_client.py` 226-237, `orchestrator.py` 107-111). A team never asks for a reply
  again, but every reply takes a place (`Replied`) and may drop a report, whose call is then
  made a second time.
* `done` and `forgotten` are history: how often a call was really made, and which calls
  the cache has dropped.

## Checks

| Run | Instance | Shows |
|---|---|---|
| `deployments_safety` | 1 deployment, 2 rollbacks, 1 gate, 2 workers, 1 crash, fairness; 1.3 million states | `TypeOK`, `LedgerExplainsState`, `TransientIsOwned`, `HaltedIsInert`, `NoResurrection`, `AnsweredUnlessStalled` |
| `deployments_lifecycle` | 2 deployments, 1 rollback, 1 gate, 1 worker, 1 crash; 0.4 million | the refinement `LifecycleSpec` |
| `deployments_settle` | 1 deployment, 1 rollback, no crash, fairness | `EveryDeploymentSettles` is violated |
| `deployments_default_target` | 2 deployments, 1 rollback | `DefaultTargetIsPrior` is violated |
| `incident_safety` | 1 deployment, 1 incident, 2 requests that roll back or resolve, 1 diagnosis, 2 workers, 1 crash, symmetry; 0.7 million | `IncidentTypeOK`, `LedgerExplainsIncident`, `RecoveryFollowsRollback`, `OnePostmortem` |
| `incident_reopens` | 1 incident, 1 resolution, 1 diagnosis, no crash | `RecoveryCloses` is violated |
| `workflow` | all 4096 graphs on 3 tasks and a missing one, and the workflow of 4 tasks for all diffs and environments; 2 retries, 3 permits, fairness; 0.1 million | of the scheduler the refinement `ExecutionSpec`, `ValidationCorrect`, `DependenciesFirst`, `FailuresExplained`, `Terminates`; of the workflow `PrTypeOK`, `EvidenceMatchesGraph`, `RiskSeesTheDiff`, `ReleaseIsGuarded`, `EvaluationReports` |
| `webhooks` | 2 ingesting workers, 1 thread, 2 changes of the pull request, 1 resent delivery, 1 death, fairness; 0.35 million | the refinement `DeliverySpec`; `PullTypeOK`, `NothingDroppedSilently`, `RowIsLastPayload`, `DeliveriesSettle` |
| `gates` | 2 threads, 2 kinds of change, 2 pushes, 2 runs, 1 death; 1.05 million | `ReviewTypeOK`, `ToldAlike`, `GateRespectsVerdict`, `GateMonotone` |
| `gates_head` | the same with 1 thread and no death | `HeadIsTheCommitEvaluated` is violated |
| `workspace` | a project with 3 users (1 superuser), yet to be created or with an owner and a maintainer, 3 requests for OWNER or MAINTAINER; a person with 3 logins, 1 key, 1 use of a token; 1 death, symmetry; 1.0 million | `WorkspaceTypeOK`, `OwnerLeftUnlessRaced`, `OwnersMakeOwners`, `UserHasAccount`, `DeadTokensStayDead` |
| `agents` | 3 tools (1 offered, 1 guarded, 1 neither); single agent: 7 tokens, cost 6, at most 2 tokens a call, cache of 3, 5 steps, window of 2; team: 4 tokens, cost 5, 1 token a call, cache of 2, planned sub-tasks 1; fairness; 0.9 million | `AgentsTypeOK`, `OverrunBounded`, `WorksOnce`, `ConversationKept`, `AgentsReturn` |

**Bounds**, and why they are enough.

* Interaction in `Deployments` is per row: a row has one creator and any number of
  rollbacks, and two rollbacks on two workers already give every overlap of two
  writers with the creator. Two rows matter only for the choice of a rollback target,
  and are there in the runs about it. One crash is enough for work to be lost at every
  point while others go on; a second adds no new kind of loss, since nothing recovers.
* In `IncidentResponse`, two resolutions meet at the incident's row and at the memory,
  in every combination of with and without a rollback, and the diagnosis can start and
  end at any point of either; incidents share nothing but the deployment.
* In `TaskScheduler`, three tasks have every shape of dependency there is up to a chain
  of three, a fan and a cycle. `PrWorkflow` has the code's own numbers.
* In `PullRequests`, two workers and a thread are three savers of one row, so that a
  save can be overlapped by another and both by a read from GitHub; two changes can be
  delivered in either order, and one of them twice, at once.
* In `Reviews`, two threads run any two of review, test and gate at once over a head
  that moves under them twice; two changes differ in everything that the score looks at.
* In `Membership`, three requests are two that remove the last two owners and one that
  changes who may ask. With the creation still to come they are too few for a target that
  is promoted while somebody is about to remove it; `TeamInit`, a project as it is after
  its creation and one addition, leaves all three for that. In `Accounts`, three logins are a registration, a login with a
  password and one from GitHub, at once.
* The agents' budgets are used up within a few calls, so that a run is over budget and
  over its steps; the caches are smaller than what there is to cache, so that an answer
  is forgotten and asked for again, dropped by another answer or by a reply. With a window of 2 the conversation is compressed
  more than once. The team's templates have up to four sub-tasks whatever `MaxPlan` is.

The theorems below do without these bounds.

The symmetries exchange requests, workers or logins; under them only invariants and one
action property are checked, no liveness.

**Deadlock** is not checked: requests end, crashes are bounded, and a finished
system stops. What must not stop is stated as liveness instead.

**Fairness.**

* `Deployments!Fairness` is weak fairness of each request's own handler: an event loop
  runs what is ready, and an adapter call ends, since the HTTP client has a time-out.
  Arrivals, gate decisions and crashes are not fair. The code can deadlock: a rollback
  handled by the loop on which the deployment's own handler is suspended waits for that
  handler's row lock and keeps the loop from ever resuming it; and with two deployments two
  loops can do that to each other. `Stalled` says just that, and `AnsweredUnlessStalled`
  that nothing else keeps a request from its end, with calls that suspend at will and
  rollbacks that wait for rows held on the other worker. Without `Stalled` TLC finds the
  deadlock.
* The scheduler's fairness is that of the event loop and, per task, of a worker that
  ends or is cancelled at its deadline.
* `PullRequests!Fairness` is weak fairness of each ingesting worker once it has a
  delivery, and strong fairness of each delivery's first attempt: GitHub sends what
  happened, and a worker that is free now and then takes it. Resending is not fair.
* `AgentRuntime` and `AgentTeam` have weak fairness of their own step: calls of a model
  have a time-out and tools answer. What the model says is not fair at all.

### Findings

Each of the first four is a run in which TLC finds the quoted statement violated.

* A deployment need not settle (`deployments_settle`): `rollback` has no `except`
  around the adapter, and a request that cannot be built is refused before the
  `try`. The contract's state machine leads both states to FAILED.
* The default rollback target may be the deployment itself
  (`deployments_default_target`).
* A diagnosis that ends after RECOVERY_COMPLETED takes the incident out of RESOLVED
  (`incident_reopens`), while the event contract calls it closed.
* A review may be of another commit than the one it is stored and announced for
  (`gates_head`). TLC's behaviour has a newer diff: a push between the save of the head and
  the fetch of the diff. The same lack of a tie gives older ones, as a cached diff outlives
  the pushes that change the head.

Met while reading, without a run:

* A gate attached to the pull request is not looked at, although the comment on step 1
  of `trigger_deployment` says so (`deployment_service.py` 91-94).
* The gate endpoints never commit, so no decision and no audit entry survives its
  request, while `README.md:362` offers an "immutable gate audit history".
* `evaluate_gate` takes the latest review and the latest test run of the pull request,
  of whatever commit they are.
* A report may be APPROVED, "All multi-agent reviews ... passed", when a review timed
  out and the risk was never assessed (`orchestrator.py:139`, `result_aggregator.py:103`).
* A review by an agent that failed or ran out of steps is announced as APPROVE
  (`agent_execution_service.py:216`), and the mode "multi_agent" always raises (181, 201).
* The "Hard spending cap" of `README.md:298` is overrun by the last call, or the last
  sub-task: `OverrunBounded` says by how much at most.
* `create_project` commits the project before its owner; a request that dies in between
  leaves a project without one.
* The life cycle of `contracts/deployment_contract.md:69` ends in ROLLED_BACK, while the
  code rolls back whatever it is asked to, BUILDING and ROLLED_BACK included
  (`DeploymentLifecycle!BeginRollback` is what it does).

## Proofs

All theorems are checked by TLAPS to the last leaf and hold for every value of the
constants under the modules' named assumptions. Two of the modules with proofs extend an
MC module, since the run they are about is of two components side by side; they use
nothing of its constants but their assumptions.

Three kinds of results go beyond the properties of the runs.

* *Refinement* of the abstract specifications: `OneLoopImplementsLifecycle`,
  `ImplementsExecution` and `PrImplementsExecution`, `ImplementsLifecycle`,
  `ImplementsReviewLifecycle`.
* *What liveness rests on.* That something happens eventually needs fairness and ENABLED and
  stays with TLC, but its two ingredients are safety and proved for all constants: that work
  is *finite*, since every step lowers a natural number (`ExecutionIsFinite`,
  `EvaluationIsFinite`, `RunsAreFinite`) or takes a request further and none takes one back
  (`RequestsAreShort`, `ResponsesAreShort`), and that it is *never stuck*
  (`PermitsSuffice`, `EvaluationNeverStuck`, `WaitingEnds`, `IncidentWaitingEnds`). The
  conditions under which a step can be taken are written out in these theorems (`CanGo`,
  `CanRespond`); TLC has confirmed that they are ENABLED of the actions.
* *Causes.* Where the code breaks a promise, that nothing else breaks it: incidents are
  reopened by late diagnoses only (`OnlyLateDiagnosesReopen`), a project that has had its
  owner loses the last one only to a removal or demotion that overlaps another, reckoned from
  loading the members (`TurnsKeepAnOwner`), a row mixes two versions of its pull request only after two savers overlapped (`TurnsKeepRowsWhole`). Each has a hypothesis
  on the behaviour, which says what a repair has to bring about and which, for instance, every
  behaviour without the second process satisfies.

**`Deployments_proofs`.** From `RequestsDistinct`, `NoneIsNothing` and
`CrashBound`. The inductive invariant `IInv` joins to the
properties what they need:

* `ArrivedInv`: a request that has arrived has a worker, and a rollback a row;
* `LoopsInv`: a handler that does not wait for its provider has its worker's loop;
* `LocksInv`: a row is locked just while its creator awaits the provider;
* `DeploysInv`: what state, calls and ledger say of a deployment at each point of
  its handler, for instance that it has no outcome before its provider answers;
* `RollbacksInv`: a rollback has announced itself before it calls the provider;
* `OwnedInv`: a strengthening of `TransientIsOwned`, the owner of a row in
  ROLLING_BACK being one that will write over it, or raised, or was lost.

`TypeCorrect`, `LedgerCorrect`, `TransientOwned` and `HaltedInert` follow.
`RollbackWins` (`NoResurrection`) needs `SoloInv` in addition: for requests on one
loop, a row whose creator has committed it and is not answered is still BUILDING, and
a rollback that has announced itself finds no creator waiting for its provider;
neither yields between its commit and the lock, or the await, that protects it. `OneLoopImplementsLifecycle` assumes that
there is at most one worker and shows that each step of `Deployments` is a step of
`DeploymentLifecycle` or a stutter. `WaitingEnds` follows from `LocksInv` and `LoopsInv`
with `HeldInv` (who has a loop is at work on it): whoever cannot go on waits for a row whose
deployment is at its provider, or for its own loop; as long as no provider call suspends,
the one waited for can go on; and if any request is at work on a worker that is not
`Stalled`, one such request can go on, since a set of workers whose loops all wait for each
other is what `Stalled` means (`SomebodyMoves`). A row's lock held across a suspended call is
the only way to wait in a circle. `RequestsAreShort` counts the steps a request has left (`Left`).

**`IncidentResponse_proofs`.** From the above and `RespondersDistinct`. Each step is a
step of `Deployments` or leaves it alone (`ImplementsDeployments`), so every theorem of
`Deployments_proofs` holds with incidents too, and its invariants can be used here.
`StageInv` ties stages to what is announced. `TicketInv` says that between its UPDATE
and its commit a resolution has the incident's row, so that what it read of the memory
is still true when it inserts; `PostmortemUnique` is inductive with it. `KnownInv` says
that the ledger explains what a session has loaded, however old that is, which is what
keeps `IncidentLedgerCorrect` true when an equal value writes nothing. For
`RecoveryCorrect`, `RemedyInv` follows the rollback of a resolution and `DownInv`, from
`SoloInv`, keeps the deployment down on one loop. `OnlyLateDiagnosesReopen` assumes of a
behaviour that whoever diagnoses an incident is through when its recovery is announced, and
concludes `RecoveryCloses`, the property that a run finds violated without the assumption.
`IncidentWaitingEnds` adds `HolderInv`, that an incident's row is held only on the way to
the commit, so that incident rows add nothing to what `WaitingEnds` allows.

**`TaskScheduler_proofs`.** From `MissingIsNoTask`, `TasksFinite`, `RetriesNat` and
`SomePermit`. `IInv` is
`PhaseInv` (what each phase says of batch and validation), `AttemptsInv`, `SortInv`,
`OrderInv` and `FailInv`. `SortInv` is the correctness of Kahn's algorithm: the
visited tasks depend on no unvisited one and are well-founded, which visiting a
task without in-edges preserves (`VisitWellFounded`), so that an empty rest means
an acyclic graph, while a rest without such a task is itself the witness of a
cycle. That acyclicity is then what `FailuresAccounted` uses: among the tasks that
failed one depends on none of the others, and it was tried.

`ImplementsExecution` maps every task to its outcome; that a graph is refused just if it
cannot be executed is `SortInv` again, and that nothing begun is abandoned that `gather`
returns only when the whole batch has ended. `ExecutionIsFinite` adds up what is
outstanding: for each task its visit and the steps its retries leave it (`Fuel`), and the
rank of the phase. The sum over the tasks is the size of a set (`Work`), which loses an
element and wins none with every step (`LessWork`). `PermitsSuffice`: if no task of the
batch runs, all permits are free.

**`PrWorkflow_proofs`.** From `WorkflowTasks` and the scheduler's assumptions.
`ImplementsScheduler` makes the scheduler's invariant available. `GivenInv` says what does
not change, `ResultInv` that every result is what its worker makes of the diff, whenever it
ran, `EvidenceInv` that there is exactly one result of each task that has succeeded and none
of the others, and `ReportInv` that a report is about evidence that no longer changes.
`EvidenceComplete`, `RiskInformed` and `ReleaseGuarded` follow. With the scheduler's
theorems, `EvaluationNeverStuck` and `EvaluationIsFinite`: an evaluation is never refused
its own graph, something can go on until its report is there, and its steps run out.

**`PullRequests_proofs`.** From `ProcessesDistinct` and `Bounds`. `DeliveryInv` carries it:
of a delivery that is recorded and not processed, at most one worker is in charge, because
the record's key is unique, and the number of its events is what the stage of that worker
says; if nobody is in charge the delivery was interrupted. `ProcInv`, `LastInv` and `GithubInv` say
which changes handlers and the row may be about, `ViewInv` that a row that was loaded is
still there; with them `RowIsLastPayload` is inductive: writing only the columns that differ
gives the payload as long as what was loaded is still what is there. `ImplementsLifecycle`
adds `BrokenInv`, that a delivery whose handler broke off has nobody in charge, ever again. `TurnsKeepRowsWhole`: as long as one handler at a
time is between its look at the row and its save, what it has loaded is what is there, so
that every save is one that no other overlapped, and no insert comes second.

**`Reviews_proofs`.** From `ChangesGiven`, `ReviewBounds` and `NoneIsApart`.
`DecisionMonotone` is about the policy alone: each part of the score is monotone in its
evidence, so are their sum, the level and the status. The invariant joins to the
properties that a job is what its thread's label says (`JobInv`), what ledger and tables say
of a run at each label (`StoryInv`), that the verdict and the risk of a stored review are
those of its findings (`VerdictInv`) and that the last decision is that of its evidence
(`DecisionInv`). `ImplementsReviewLifecycle` adds `RunInv`: runs are numbered as they start,
each has one thread, and what ledger, tables and GitHub say of it has not got further than
that thread.

**`Workspace_proofs`.** From `PeopleGiven`, `DeathsBounded`, `RolesGiven` and `TokensGiven`. Of
members: the owners there are have been owners, a request that is to make one comes from
somebody who has been owner or is a superuser (`GrantOK`), and one that is to take an owner
has counted another at its last look (`CountOK`), where the target's role, as loaded, agrees
with the owners of that moment (`SeenOK`).
`TurnsKeepAnOwner` looks only at behaviours in which no two requests that can take an owner,
by removing or demoting, are between loading the members and their write, and shows of them
that a project keeps an owner. Turns from the count on would not do, as TLC confirms: a
target promoted after the load is not counted. `OwnersMakeOwners` is an
action property, proved from the invariant. Of accounts: the request that made the user
goes on to its account or died; an access that met a dead token keeps to that token, and a
token that is dead stays so.

**`Agents_proofs`.** From `ToolsGiven`, `BudgetsGiven`, `UseBounded`, `LoopGiven` and `TeamGiven`.

* `BudgetKept`: for the team, what is spent beyond the budget is covered by the calls of
  the current sub-task, for which `step` counts.
* `WorkDoneOnce`: a call that was done is in the cache, or was forgotten. `Stored` says what
  the cache, a sequence that loses its oldest entry, has after a call, `TeamReplied` what a
  reply leaves of it.
* `ConversationIsKept`: `Reminds` relates the compressed conversation to the one there was,
  counted from the end, where the two agree. A new message at both ends keeps it
  (`HearAlike`); compression replaces the middle by one message (`Compressed`) and happens
  only when more than the window is there, so that what is kept of the older conversation
  and the reply to it make the `Window + 1` messages of the property.
* `AgentsTypeCorrect`: what the cache has for a prompt is a reply (`CacheTyped`), and
  storing makes room first (`PutFits`), so that the cache keeps to its size.
* `RunsAreFinite`: `OneLeft` is what the step limit leaves a single agent, `TeamLeft` what
  budget and plan leave a team; every round of a sub-task begins with a model call, which
  uses budget, a hand-over takes the place of the sub-task that made it, and a plan never
  grows beyond what it was made (`PlanStaysShort`).

Only model-checked: the liveness properties (`AnsweredUnlessStalled`, `Terminates`,
`EvaluationReports`, `DeliveriesSettle`, `AgentsReturn`), since fairness and ENABLED are
out of the prover's reach. What they rest on is proved for scheduler, evaluation, agents,
deployments and incidents; deliveries take no locks, and their steps are not yet counted.
Every other property of a passing run is a theorem. `TypeOK` of the scheduler, `AnnouncedOnce`
and `ReviewSpec` are theorems that no run checks; the refinements `ExecutionSpec` and
`DeliverySpec` are checked in the place of the first two.

## Plan

Done, in this order: `Deployments` with `DeploymentLifecycle`; `TaskScheduler` and
`PrWorkflow`; `IncidentResponse` over `Deployments`; `PullRequests`; `Reviews` with the gate;
`Membership` and `Accounts`; the agents; the proofs of all of them; the abstract
specifications of scheduler, webhooks and reviews with their refinements; measures, the
absence of circular waits, causes.

Next among proofs: measures for deliveries, reviews, members and accounts; one abstract
budget that both kinds of agent implement; an abstract life cycle of incidents; that a row follows GitHub if deliveries come one
at a time and in order.

What could follow after that: one composition of `PullRequests`, `Reviews` and
`Deployments`, from the
webhook to the release, once the gate endpoints commit and there is a gate to hand on; the
connection pool, under all endpoints at once; more than one project, for the incidents'
search in the memory.

## Not modelled

* Data without protocol: the patterns that analyse a diff, prompts and model answers, the
  pruning of long observations, markdown, wording of findings and contradictions, schemas,
  migrations, configuration, password hashing.
* The tools' own work and the agent's context engine: they read and assemble text.
  `validate_tool_dispatch` has no caller in the workflow.
* A webhook payload whose processing raises (`github_service.py` 500-504): the delivery is
  marked processed with the error, and nothing else happens.
* Two sub-tasks of one plan with the same id, which a model could make: results
  are kept by id, so that a later prompt may equal an earlier one and be answered from the
  cache.
* Monitoring, and the memory beyond the post-mortem: single transactions nobody reacts to.
* In-process subscribers of the event bus: no module of the application subscribes.
* The connection pool, and database failures inside a handler. A handler suspended in a
  provider call keeps its connection; how many do so is a question about all endpoints at
  once.
* The audit trail of gates, which is never committed; the fallback by which an API key
  stands for its project's owner.
* The two awaits of one adapter call (deploy, then its logs) are one suspension.
* The platforms behind the adapters and GitHub itself, but for what they may answer.
* The front end: it renders what the HTTP API says and keeps nothing the back end needs.
