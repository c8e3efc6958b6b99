---------------------------- MODULE PullRequests ----------------------------
(***************************************************************************)
(* Pull requests as NexOps knows them: one pull request of one connected   *)
(* repository, the webhook deliveries that report its changes, and the     *)
(* requests that read it from GitHub's API (GitHubService in               *)
(* backend/app/services/github_service.py, called by api/v1/github.py).    *)
(*                                                                         *)
(* A webhook handler never awaits once it has the body, so a worker's      *)
(* event loop ingests one delivery at a time; the other endpoints run on   *)
(* threads beside it.  Every repository call commits, so the steps below   *)
(* are the stretches between two commits or two calls to GitHub.           *)
(*                                                                         *)
(* The pull request is number 1 of its repository: the number the          *)
(* integration baseline takes.  Deliveries of type push, and of actions    *)
(* not named here, are logged and marked processed; "reopened" stands for  *)
(* the actions that save the payload and announce nothing.                 *)
(***************************************************************************)
EXTENDS Integers, Sequences, FiniteSets

CONSTANTS
  Ingest,       \* event loops that take webhook deliveries
  Client,       \* threads that serve the other endpoints
  MaxVersions,  \* bound: changes of the pull request on GitHub
  MaxResends,   \* bound: times GitHub sends a delivery again
  MaxDeaths     \* bound: handlers that die under way

Process  == Ingest \cup Client
Delivery == 1 .. MaxVersions
Baseline == 0     \* the branch commit the synthesized pull request has for a head

ASSUME ProcessesDistinct == Ingest \cap Client = {}
ASSUME Bounds == MaxVersions \in Nat /\ MaxResends \in Nat /\ MaxDeaths \in Nat

VARIABLES
  github,       \* what the pull request has been on GitHub, oldest first
  row,          \* the committed pull_requests row, NoRow before there is one
  log,          \* webhook_events: each delivery's committed record
  events,       \* how many PR_OPENED and PR_UPDATED events stem from each delivery
  sent,         \* deliveries GitHub has sent
  resends,      \* how many of them it has sent again
  pc,
  job,          \* what a handler is about to save: a payload and where it is from
  view,         \* the row as a handler's session loaded it
  last,         \* history: the payload the row was last saved from, NoJob if another save overlapped
  interrupted,  \* history: deliveries whose handler died after recording them
  deaths

vars == <<github, row, log, events, sent, resends, pc, job, view, last, interrupted, deaths>>
deliveryVars == <<log, sent, resends, interrupted>>

-----------------------------------------------------------------------------
(* Vocabulary *)

PRState == {"OPEN", "CLOSED", "MERGED"}
HeadSha == 0 .. MaxVersions
Version == [head : HeadSha, state : PRState, action : {"opened", "synchronize", "closed", "reopened"}]
NoRow   == [head |-> -1, state |-> "OPEN"]
Row     == [head : HeadSha, state : PRState]

Newest  == Len(github)
Source  == {"webhook", "pull", "list", "baseline"}
NoJob   == [from |-> "webhook", of |-> 0]
Job     == [from : Source, of : 0 .. MaxVersions]
Goto(p, label) == pc' = [pc EXCEPT ![p] = label]

\* MUTANT: the state of a listed pull request is not upper-cased.
PayloadRawState(j) ==
  CASE j.from = "baseline" -> [head |-> Baseline, state |-> "OPEN"]
    [] j.from = "list"     -> [head  |-> github[j.of].head,
                               state |-> IF github[j.of].state = "OPEN" THEN "OPEN" ELSE "closed"]
    [] OTHER               -> [head |-> github[j.of].head, state |-> github[j.of].state]

\* _save_pr_data: what the columns of a payload become.  GitHub's list of
\* pull requests carries no "merged" field, so a merged one is read as closed.
Payload(j) ==
  CASE j.from = "baseline" -> [head |-> Baseline, state |-> "OPEN"]
    [] j.from = "list"     -> [head  |-> github[j.of].head,
                               state |-> IF github[j.of].state = "OPEN" THEN "OPEN" ELSE "CLOSED"]
    [] OTHER               -> [head |-> github[j.of].head, state |-> github[j.of].state]

Init ==
  /\ github = <<>>
  /\ row = NoRow
  /\ log = [d \in Delivery |-> "absent"]
  /\ events = [d \in Delivery |-> 0]
  /\ sent = {}
  /\ resends = 0
  /\ pc = [p \in Process |-> "idle"]
  /\ job = [p \in Process |-> NoJob]
  /\ view = [p \in Process |-> NoRow]
  /\ last = NoJob
  /\ interrupted = {}
  /\ deaths = 0

-----------------------------------------------------------------------------
(* GitHub *)

Becomes(head, state, action) ==
  /\ Newest < MaxVersions
  /\ github' = Append(github, [head |-> head, state |-> state, action |-> action])
  /\ UNCHANGED <<row, events, pc, job, view, last, deaths>> /\ UNCHANGED deliveryVars

OpenPull  == github = <<>> /\ Becomes(1, "OPEN", "opened")
PushPull  == /\ github # <<>> /\ github[Newest].state = "OPEN"
             /\ Becomes(github[Newest].head + 1, "OPEN", "synchronize")
\* The first that NexOps can hear of a pull request older than the
\* installation of the GitHub App is that it was closed.
ClosePull == \/ github = <<>> /\ Becomes(1, "CLOSED", "closed")
             \/ /\ github # <<>> /\ github[Newest].state = "OPEN"
                /\ \E s \in {"CLOSED", "MERGED"} : Becomes(github[Newest].head, s, "closed")
ReopenPull == /\ github # <<>> /\ github[Newest].state = "CLOSED"
              /\ Becomes(github[Newest].head, "OPEN", "reopened")

-----------------------------------------------------------------------------
(* github_webhook and process_webhook *)

\* GitHub sends a delivery, the first time or again: after no answer, or on
\* request.  Deliveries may overtake each other.  A delivery id already in
\* webhook_events is answered and nothing is done, whatever became of it.
Receive(p, d) ==
  /\ pc[p] = "idle" /\ d <= Newest
  /\ IF d \in sent
     THEN resends < MaxResends /\ resends' = resends + 1 /\ UNCHANGED sent
     ELSE sent' = sent \cup {d} /\ UNCHANGED resends
  /\ IF log[d] # "absent"
     THEN UNCHANGED <<pc, job>>
     ELSE /\ Goto(p, "record")
          /\ job' = [job EXCEPT ![p] = [from |-> "webhook", of |-> d]]
  /\ UNCHANGED <<github, row, log, events, view, last, interrupted, deaths>>

\* MUTANT: no unique constraint behind the look-up.
RecordUnconstrained(p) ==
  /\ pc[p] = "record"
  /\ log' = [log EXCEPT ![job[p].of] = "logged"]
  /\ Goto(p, "load")
  /\ UNCHANGED <<github, row, events, sent, resends, job, view, last, interrupted, deaths>>

\* The record is committed before anything is done.  delivery_id is unique,
\* so the second of two handlers that both found no record fails here.
Record(p) ==
  /\ pc[p] = "record"
  /\ IF log[job[p].of] = "absent"
     THEN /\ log' = [log EXCEPT ![job[p].of] = "logged"]
          /\ Goto(p, "load") /\ UNCHANGED job
     ELSE Goto(p, "idle") /\ job' = [job EXCEPT ![p] = NoJob] /\ UNCHANGED log
  /\ UNCHANGED <<github, row, events, sent, resends, view, last, interrupted, deaths>>

\* A connected repository's pull requests are announced too, each time.
AnnouncePull(p) ==
  /\ pc[p] = "announce"
  /\ IF job[p].from = "webhook"
     THEN /\ events' = IF github[job[p].of].action \in {"opened", "synchronize"}
                       THEN [events EXCEPT ![job[p].of] = @ + 1] ELSE events
          /\ Goto(p, "mark") /\ UNCHANGED job
     ELSE Goto(p, "idle") /\ job' = [job EXCEPT ![p] = NoJob] /\ UNCHANGED events
  /\ UNCHANGED <<github, row, view, last, deaths>> /\ UNCHANGED deliveryVars

\* MUTANT: the handler answers as soon as the event is out.
MarkForgotten(p) ==
  /\ pc[p] = "mark"
  /\ Goto(p, "idle") /\ job' = [job EXCEPT ![p] = NoJob]
  /\ UNCHANGED <<github, row, log, events, sent, resends, view, last, interrupted, deaths>>

MarkProcessed(p) ==
  /\ pc[p] = "mark"
  /\ log' = [log EXCEPT ![job[p].of] = "processed"]
  /\ Goto(p, "idle") /\ job' = [job EXCEPT ![p] = NoJob]
  /\ UNCHANGED <<github, row, events, sent, resends, view, last, interrupted, deaths>>

-----------------------------------------------------------------------------
(* PullRequestRepository.upsert *)

LoadPull(p) ==
  /\ pc[p] = "load"
  /\ view' = [view EXCEPT ![p] = row]
  /\ Goto(p, "save")
  /\ UNCHANGED <<github, row, events, job, last, deaths>> /\ UNCHANGED deliveryVars

\* MUTANT: the state column is not among those that are updated.
UpdatedHeadOnly(loaded, data) ==
  [head  |-> IF data.head # loaded.head THEN data.head ELSE row.head, state |-> row.state]

\* The UPDATE names only the columns whose values differ from the loaded ones.
Updated(loaded, data) ==
  [head  |-> IF data.head  # loaded.head  THEN data.head  ELSE row.head,
   state |-> IF data.state # loaded.state THEN data.state ELSE row.state]

\* (connection, number) is unique: an INSERT that comes second fails, and the
\* failed flush leaves the session unusable, so the handler ends in an error
\* and a delivery's record is never marked.
SavePull(p) ==
  /\ pc[p] = "save"
  /\ LET data == Payload(job[p]) IN
     IF view[p] = NoRow /\ row # NoRow
     THEN /\ Goto(p, "idle") /\ job' = [job EXCEPT ![p] = NoJob]
          /\ interrupted' = IF job[p].from = "webhook" THEN interrupted \cup {job[p].of} ELSE interrupted
          /\ UNCHANGED <<row, last>>
     ELSE /\ row' = IF view[p] = NoRow THEN data ELSE Updated(view[p], data)
          /\ last' = IF view[p] = row THEN job[p] ELSE NoJob
          /\ IF job[p].from = "pull"
             THEN Goto(p, "idle") /\ job' = [job EXCEPT ![p] = NoJob]
             ELSE Goto(p, "announce") /\ UNCHANGED job
          /\ UNCHANGED interrupted
  /\ view' = [view EXCEPT ![p] = NoRow]
  /\ UNCHANGED <<github, log, events, sent, resends, deaths>>

-----------------------------------------------------------------------------
(* Reads from GitHub's API, on threads *)

Fetch(c, from, of) ==
  /\ Goto(c, "load")
  /\ job' = [job EXCEPT ![c] = [from |-> from, of |-> of]]
  /\ UNCHANGED <<github, row, events, view, last, deaths>> /\ UNCHANGED deliveryVars

\* get_pull_request: only a pull request without a row is read from GitHub.
SyncPull(c) ==
  /\ pc[c] = "idle" /\ row = NoRow /\ github # <<>>
  /\ Fetch(c, "pull", Newest)

\* connect_repository, for a repository connected before: every listed pull
\* request is saved and announced as opened.  A listing that fails counts as
\* an empty one, and an empty one makes a baseline pull request number 1.
ConnectRepository(c) ==
  /\ pc[c] = "idle"
  /\ \/ github # <<>> /\ Fetch(c, "list", Newest)
     \/ Fetch(c, "baseline", 0)

-----------------------------------------------------------------------------
(* A handler dies: its process, its thread or its database connection. *)

Die(p) ==
  /\ pc[p] # "idle" /\ deaths < MaxDeaths
  /\ deaths' = deaths + 1
  /\ interrupted' = IF job[p].from = "webhook" /\ pc[p] # "record"
                    THEN interrupted \cup {job[p].of} ELSE interrupted
  /\ Goto(p, "idle") /\ job' = [job EXCEPT ![p] = NoJob]
  /\ view' = [view EXCEPT ![p] = NoRow]
  /\ UNCHANGED <<github, row, log, events, sent, resends, last>>

GitHubStep == OpenPull \/ PushPull \/ ClosePull \/ ReopenPull
IngestStep(p) == Record(p) \/ LoadPull(p) \/ SavePull(p) \/ AnnouncePull(p) \/ MarkProcessed(p)
ClientStep(c) == SyncPull(c) \/ ConnectRepository(c) \/ LoadPull(c) \/ SavePull(c) \/ AnnouncePull(c)

Next ==
  \/ GitHubStep
  \/ \E p \in Ingest : IngestStep(p) \/ \E d \in Delivery : Receive(p, d)
  \/ \E c \in Client : ClientStep(c)
  \/ \E p \in Process : Die(p)

Spec == Init /\ [][Next]_vars

\* GitHub sends each delivery at least once, and a handler that runs goes on.
FirstAttempt(d) == d \notin sent /\ \E p \in Ingest : Receive(p, d)
Fairness == /\ \A p \in Ingest : WF_vars(IngestStep(p))
            /\ \A d \in Delivery : SF_vars(FirstAttempt(d))
FairSpec == Spec /\ Fairness

-----------------------------------------------------------------------------
(* Properties *)

PullTypeOK ==
  /\ github \in Seq(Version) /\ Newest <= MaxVersions
  /\ row \in Row \cup {NoRow}
  /\ log \in [Delivery -> {"absent", "logged", "processed"}]
  /\ events \in [Delivery -> Nat]
  /\ sent \subseteq Delivery
  /\ resends \in 0 .. MaxResends
  /\ pc \in [Process -> {"idle", "record", "load", "save", "announce", "mark"}]
  /\ job \in [Process -> Job]
  /\ view \in [Process -> Row \cup {NoRow}]
  /\ last \in Job
  /\ interrupted \subseteq Delivery
  /\ deaths \in 0 .. MaxDeaths

Announces(d) == github[d].action \in {"opened", "synchronize"}

\* process_webhook promises idempotency: however often, and on however many
\* workers at once, GitHub sends a delivery, it is announced at most once, and
\* exactly once by the time its record says it is processed.
AnnouncedOnce ==
  \A d \in Delivery :
    /\ events[d] <= 1
    /\ log[d] = "processed" => events[d] = IF Announces(d) THEN 1 ELSE 0

\* How a delivery stands, for whoever looks at webhook_events and the ledger.
Stage(d) ==
  CASE log[d] = "absent"                         -> "unseen"
    [] log[d] = "processed"                      -> "settled"
    [] log[d] = "logged" /\ d \in interrupted    -> "broken"
    [] log[d] = "logged" /\ d \notin interrupted -> "taken"

Lifecycle == INSTANCE DeliveryLifecycle
               WITH known     <- 1 .. Newest,
                    loud      <- {d \in 1 .. Newest : Announces(d)},
                    stage     <- [d \in Delivery |-> Stage(d)],
                    announced <- events

(* Duplicates, reordering, concurrent workers and handlers that die leave each
   delivery one way to go: taken once, announced before it is settled, and once
   its handler broke off, neither announced nor settled any more. *)
DeliverySpec == Lifecycle!Spec

Working(d) == \E p \in Ingest : pc[p] \notin {"idle", "record"} /\ job[p].of = d

\* A delivery that was recorded is processed or being processed,
\* unless its handler died or lost the race for the pull request's row: the
\* only deliveries that a redelivery, answered as a duplicate, cannot bring back.
NothingDroppedSilently ==
  \A d \in Delivery :
    log[d] = "logged" => Working(d) \/ d \in interrupted

\* A save that no other save overlapped leaves the row as the payload says,
\* whichever of the four ways the payload came in: an upsert writes only the
\* columns that changed, and still the row is one version of the pull request.
RowIsLastPayload ==
  LET j == last IN
  j # NoJob =>
    IF j.from = "baseline" THEN row.head = Baseline /\ row.state = "OPEN"
    ELSE /\ row.head = github[j.of].head
         /\ row.state = "OPEN" <=> github[j.of].state = "OPEN"
         /\ j.from # "list" => row.state = github[j.of].state

Lost(d) == /\ log[d] = "absent" /\ d \in sent
           /\ \A p \in Ingest : pc[p] = "idle" \/ job[p].of # d

\* Every change on GitHub is in the end processed, unless its handler died
\* or lost the race for the row.
DeliveriesSettle ==
  \A d \in Delivery : d <= Newest ~> (log[d] = "processed" \/ d \in interrupted \/ Lost(d))

=============================================================================
