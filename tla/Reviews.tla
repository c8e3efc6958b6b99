------------------------------ MODULE Reviews ------------------------------
(***************************************************************************)
(* Reviews, test runs and risk gates of one pull request: execute_review   *)
(* (review_service.py), run_tests (test_service.py), evaluate_gate         *)
(* (risk_service.py), and the diff cache they share with                   *)
(* GitHubService.get_diff.  Their endpoints run on threads; each commit    *)
(* ends a step, and expires the rows a session has loaded, so that the     *)
(* next step reads pr.head_sha anew.                                       *)
(*                                                                         *)
(* A commit of the pull request is known by its number; what matters of    *)
(* its diff is a Change.  How the row's head follows GitHub is the matter  *)
(* of PullRequests: here the webhook saves GitHub's head in one step.      *)
(***************************************************************************)
EXTENDS Integers, Sequences, FiniteSets

CONSTANTS
  Thread,      \* threads that serve requests
  Change,      \* what a commit's diff may hold
  MaxPushes,   \* bound: commits pushed to the pull request
  MaxRuns,     \* bound: reviews and test runs started
  MaxDeaths,   \* bound: requests that die under way
  None         \* nothing cached, no decision, no run

-----------------------------------------------------------------------------
(* Findings: SECURITY_PATTERNS, BUG_PATTERNS, STYLE_PATTERNS *)

Finding ==
  [category : {"SECURITY"}, severity : {"BLOCKER", "ERROR"}]
    \cup [category : {"BUG"}, severity : {"WARNING"}]
    \cup [category : {"STYLE"}, severity : {"INFO"}]
MissingTests == [category |-> "TESTING", severity |-> "WARNING"]
Category == {"SECURITY", "BUG", "STYLE", "TESTING"}

\* CRITICAL_PATH_PATTERNS
CriticalPath == {"migration", "security", "infrastructure", "configuration"}

\* lines: the size of the diff as the gate measures it; untested: more than
\* two files, sources among them and no test.
ChangeShape == [findings : SUBSET Finding, critical : SUBSET CriticalPath, lines : Nat, untested : BOOLEAN]
ASSUME ChangesGiven == Change \subseteq ChangeShape
ASSUME ReviewBounds == MaxPushes \in Nat /\ MaxRuns \in Nat /\ MaxDeaths \in Nat
ASSUME NoneIsApart == None \notin Int /\ None \notin Thread

\* The three lines get_diff makes up when GitHub fails.
Fallback == [findings |-> {}, critical |-> {}, lines |-> 3, untested |-> FALSE]

HasSeverity(findings, s) == \E f \in findings : f.severity = s

\* calculate_risk_and_verdict
RiskAndVerdict(findings) ==
  CASE HasSeverity(findings, "BLOCKER") -> [risk |-> "CRITICAL", verdict |-> "REQUEST_CHANGES"]
    [] ~HasSeverity(findings, "BLOCKER") /\ HasSeverity(findings, "ERROR")
         -> [risk |-> "HIGH", verdict |-> "REQUEST_CHANGES"]
    [] ~HasSeverity(findings, "BLOCKER") /\ ~HasSeverity(findings, "ERROR") /\ HasSeverity(findings, "WARNING")
         -> [risk |-> "MEDIUM", verdict |-> "COMMENT"]
    [] OTHER -> [risk |-> "LOW", verdict |-> "APPROVE"]

-----------------------------------------------------------------------------
(* evaluate_gate: from evidence to a decision *)

TestEvidence   == {"none", "passed", "unfinished", "failed"}
ReviewEvidence == {"none", "clean", "warning", "error", "blocker"}
EvidenceOf(changes) ==
  [lines : {c.lines : c \in changes}, critical : {c.critical : c \in changes},
   tests : TestEvidence, review : ReviewEvidence]

DiffScore(e) == CASE e.lines > 500 -> 30 [] e.lines \in 151 .. 500 -> 15 [] OTHER -> 0

PathScore(e) ==
  LET points(path, n) == IF path \in e.critical THEN n ELSE 0
      sum == points("migration", 35) + points("security", 30)
               + points("infrastructure", 25) + points("configuration", 15)
  IN  IF sum > 40 THEN 40 ELSE sum

\* MUTANT: a test run that neither failed nor passed weighs nothing.
TestScoreUnfinishedFree(e) ==
  CASE e.tests = "failed" -> 50 [] e.tests \in {"passed", "unfinished"} -> 0 [] OTHER -> 20

TestScore(e) ==
  CASE e.tests = "failed" -> 50 [] e.tests = "passed" -> 0
    [] e.tests = "unfinished" -> 25 [] OTHER -> 20

ReviewScore(e) ==
  CASE e.review = "blocker" -> 50 [] e.review = "error" -> 30 [] e.review = "warning" -> 10
    [] e.review = "clean" -> 0 [] OTHER -> 20

Score(e) ==
  LET sum == DiffScore(e) + PathScore(e) + TestScore(e) + ReviewScore(e)
  IN  IF sum > 100 THEN 100 ELSE sum

\* MUTANT: an error without a high score is no reason for a high risk.
RiskLevelByScore(e) ==
  CASE e.review = "blocker" \/ Score(e) >= 75 -> "CRITICAL"
    [] e.review # "blocker" /\ Score(e) \in 50 .. 74 -> "HIGH"
    [] e.review # "blocker" /\ Score(e) < 50 /\ (Score(e) >= 25 \/ e.critical # {}) -> "MEDIUM"
    [] OTHER -> "LOW"

RiskLevel(e) ==
  CASE e.review = "blocker" \/ Score(e) >= 75 -> "CRITICAL"
    [] e.review # "blocker" /\ Score(e) < 75 /\ (Score(e) >= 50 \/ e.review = "error") -> "HIGH"
    [] e.review \notin {"blocker", "error"} /\ Score(e) < 50 /\ (Score(e) >= 25 \/ e.critical # {}) -> "MEDIUM"
    [] OTHER -> "LOW"

GateDecision(e) ==
  IF e.tests = "failed" \/ e.review = "blocker" THEN "BLOCKED"
  ELSE IF RiskLevel(e) \in {"HIGH", "CRITICAL"} \/ e.critical # {} THEN "REQUIRES_APPROVAL"
  ELSE "PASSED"

-----------------------------------------------------------------------------
VARIABLES
  commits,     \* the pull request on GitHub: what each commit's diff holds
  head,        \* the row's head_sha, 0 before the row exists
  diff,        \* the row's diff_text: the commit it is of, or None
  reviews,     \* committed reviews, oldest first
  tests,       \* committed test runs, oldest first
  ledger,      \* REVIEW_ and TEST_ events
  posted,      \* reviews posted to GitHub
  runs,        \* review and test run ids handed out
  decision,    \* the answer of a gate evaluated just now, and what it rests on
  died,        \* history: runs whose request died under way
  pc, job

vars == <<commits, head, diff, reviews, tests, ledger, posted, runs, decision, died, pc, job>>
pullVars == <<commits, head, diff>>
storeVars == <<reviews, tests, ledger, posted>>

Newest  == Len(commits)
Commit  == 1 .. MaxPushes
RunId   == 1 .. MaxRuns
Run     == RunId \cup {None}
Job     == [run : Run, of : Commit \cup {0, None}, fresh : BOOLEAN, focus : SUBSET Category]
NoJob   == [run |-> None, of |-> None, fresh |-> FALSE, focus |-> {}]
Verdict == {"APPROVE", "COMMENT", "REQUEST_CHANGES"}
Review  == [run : RunId, of : Commit \cup {0}, head : Commit, findings : SUBSET (Finding \cup {MissingTests}),
            risk : {"LOW", "MEDIUM", "HIGH", "CRITICAL"}, verdict : Verdict]
Event   == [type : {"REVIEW_STARTED", "REVIEW_COMPLETED", "TEST_STARTED", "TEST_COMPLETED"},
            run : RunId, verdict : Verdict \cup {None}]
Respond == decision' = None   \* by now the answer has gone out
Goto(t, label) == pc' = [pc EXCEPT ![t] = label]
ChangeOf(c) == IF c = 0 THEN Fallback ELSE commits[c]
Emit(type, run, verdict) == ledger' = ledger \cup {[type |-> type, run |-> run, verdict |-> verdict]}

Init ==
  /\ commits = <<>> /\ head = 0 /\ diff = None
  /\ reviews = <<>> /\ tests = <<>> /\ ledger = {} /\ posted = {}
  /\ runs = 0 /\ decision = None /\ died = {}
  /\ pc = [t \in Thread |-> "idle"]
  /\ job = [t \in Thread |-> NoJob]

-----------------------------------------------------------------------------
(* The pull request *)

Push(c) ==
  /\ Newest < MaxPushes
  /\ commits' = Append(commits, c)
  /\ UNCHANGED <<head, diff, runs, died, pc, job>> /\ UNCHANGED storeVars /\ Respond

\* The webhook leaves the cached diff alone.
SaveHead ==
  /\ head < Newest /\ head' = Newest
  /\ UNCHANGED <<commits, diff, runs, died, pc, job>> /\ UNCHANGED storeVars /\ Respond

-----------------------------------------------------------------------------
(* execute_review *)

\* MUTANT: what get_diff makes up is cached, too.
WithDiffAlways(source) == IF source = "cached" THEN "announce" ELSE "cache"

\* get_diff caches what it fetched, not what it made up.
WithDiff(source) == IF source = "fetched" THEN "cache" ELSE "announce"

\* The request loads the row and takes its diff text; without one it asks
\* get_diff, which fetches GitHub's newest or falls back.  An empty focus is
\* no filter.
StartReview(t, focus) ==
  /\ pc[t] = "idle" /\ head > 0 /\ runs < MaxRuns
  /\ runs' = runs + 1
  /\ \E source \in {"cached", "fetched", "failed"} :
       /\ source = "cached" <=> diff # None
       /\ job' = [job EXCEPT ![t] =
            [run |-> runs + 1, focus |-> focus, fresh |-> source = "fetched",
             of |-> CASE source = "cached" -> diff [] source = "fetched" -> Newest [] OTHER -> 0]]
       /\ Goto(t, WithDiff(source))
  /\ UNCHANGED died /\ UNCHANGED pullVars /\ UNCHANGED storeVars /\ Respond

\* GET .../diff: get_diff on its own.
FetchDiff(t) ==
  /\ pc[t] = "idle" /\ head > 0
  /\ job' = [job EXCEPT ![t] = [NoJob EXCEPT !.of = Newest, !.fresh = TRUE]]
  /\ Goto(t, "cache")
  /\ UNCHANGED <<runs, died>> /\ UNCHANGED pullVars /\ UNCHANGED storeVars /\ Respond

\* get_diff stores what it fetched, whatever the row holds by now.
CacheDiff(t) ==
  /\ pc[t] = "cache"
  /\ diff' = job[t].of
  /\ IF job[t].run = None
     THEN Goto(t, "idle") /\ job' = [job EXCEPT ![t] = NoJob]
     ELSE Goto(t, "announce") /\ UNCHANGED job
  /\ UNCHANGED <<commits, head, runs, died>> /\ UNCHANGED storeVars /\ Respond

AnnounceReview(t) ==
  /\ pc[t] = "announce"
  /\ Emit("REVIEW_STARTED", job[t].run, None)
  /\ Goto(t, "conclude")
  /\ UNCHANGED <<reviews, tests, posted, runs, died, job>> /\ Respond /\ UNCHANGED pullVars

\* analyze_diff and the focus filter.  The list of files, which the rule on
\* missing tests reads, is there only when the diff was fetched just now.
Findings(t) ==
  LET c == ChangeOf(job[t].of)
      all == c.findings \cup IF job[t].fresh /\ c.untested THEN {MissingTests} ELSE {}
  IN  IF job[t].focus = {} THEN all ELSE {f \in all : f.category \in job[t].focus}

Conclude(t) ==
  /\ pc[t] = "conclude"
  /\ reviews' = Append(reviews,
       [run |-> job[t].run, of |-> job[t].of, head |-> head, findings |-> Findings(t),
        risk |-> RiskAndVerdict(Findings(t)).risk, verdict |-> RiskAndVerdict(Findings(t)).verdict])
  /\ Goto(t, "complete")
  /\ UNCHANGED <<tests, ledger, posted, runs, died, job>> /\ Respond /\ UNCHANGED pullVars

\* MUTANT: the event takes the verdict of the newest review.
CompleteReviewNewest(t) ==
  /\ pc[t] = "complete"
  /\ Emit("REVIEW_COMPLETED", job[t].run, reviews[Len(reviews)].verdict)
  /\ \/ Goto(t, "post") /\ UNCHANGED job
     \/ Goto(t, "idle") /\ job' = [job EXCEPT ![t] = NoJob]
  /\ UNCHANGED <<reviews, tests, posted, runs, died>> /\ Respond /\ UNCHANGED pullVars

CompleteReview(t) ==
  /\ pc[t] = "complete"
  /\ Emit("REVIEW_COMPLETED", job[t].run, RiskAndVerdict(Findings(t)).verdict)
  /\ \/ Goto(t, "post") /\ UNCHANGED job
     \/ Goto(t, "idle") /\ job' = [job EXCEPT ![t] = NoJob]
  /\ UNCHANGED <<reviews, tests, posted, runs, died>> /\ Respond /\ UNCHANGED pullVars

\* post_pull_request_review: a failure is logged and forgotten.
PostReview(t) ==
  /\ pc[t] = "post"
  /\ \/ posted' = posted \cup {[run |-> job[t].run, verdict |-> RiskAndVerdict(Findings(t)).verdict]}
     \/ UNCHANGED posted
  /\ Goto(t, "idle") /\ job' = [job EXCEPT ![t] = NoJob]
  /\ UNCHANGED <<reviews, tests, ledger, runs, died>> /\ Respond /\ UNCHANGED pullVars

-----------------------------------------------------------------------------
(* run_tests: both events first, then the rows.  The five cases always pass. *)

StartTests(t) ==
  /\ pc[t] = "idle" /\ head > 0 /\ runs < MaxRuns
  /\ runs' = runs + 1
  /\ Emit("TEST_STARTED", runs + 1, None)
  /\ job' = [job EXCEPT ![t] = [NoJob EXCEPT !.run = runs + 1]]
  /\ Goto(t, "tested")
  /\ UNCHANGED <<reviews, tests, posted, died>> /\ Respond /\ UNCHANGED pullVars

\* MUTANT: the rows are left for later.
CompleteTestsOnly(t) ==
  /\ pc[t] = "tested"
  /\ Emit("TEST_COMPLETED", job[t].run, None)
  /\ Goto(t, "idle") /\ job' = [job EXCEPT ![t] = NoJob]
  /\ UNCHANGED <<reviews, tests, posted, runs, died>> /\ Respond /\ UNCHANGED pullVars

CompleteTests(t) ==
  /\ pc[t] = "tested"
  /\ Emit("TEST_COMPLETED", job[t].run, None)
  /\ Goto(t, "store")
  /\ UNCHANGED <<reviews, tests, posted, runs, died, job>> /\ Respond /\ UNCHANGED pullVars

StoreTests(t) ==
  /\ pc[t] = "store"
  /\ tests' = Append(tests, [run |-> job[t].run, status |-> "passed"])
  /\ Goto(t, "idle") /\ job' = [job EXCEPT ![t] = NoJob]
  /\ UNCHANGED <<reviews, ledger, posted, runs, died>> /\ Respond /\ UNCHANGED pullVars

-----------------------------------------------------------------------------
(* evaluate_gate *)

Weight(findings) ==
  CASE HasSeverity(findings, "BLOCKER") -> "blocker"
    [] ~HasSeverity(findings, "BLOCKER") /\ HasSeverity(findings, "ERROR") -> "error"
    [] ~HasSeverity(findings, "BLOCKER") /\ ~HasSeverity(findings, "ERROR")
         /\ HasSeverity(findings, "WARNING") -> "warning"
    [] OTHER -> "clean"

\* The size is the row's, the paths those of the cached diff, which need not
\* be of the same commit.  The request names a review, or
\* the latest is taken; the same for the test run, whose outcome is all that
\* counts.  The gate and its audit entry are flushed and the session is closed
\* without a commit: the answer is all that remains of it.
EvaluateGate(t, i) ==
  /\ pc[t] = "idle" /\ head > 0
  /\ LET e == [lines    |-> commits[head].lines,
               critical |-> IF diff = None THEN {} ELSE ChangeOf(diff).critical,
               tests    |-> IF tests = <<>> THEN "none" ELSE tests[Len(tests)].status,
               review   |-> IF i = 0 THEN "none" ELSE Weight(reviews[i].findings)]
     IN  decision' = [evidence |-> e, review |-> i, risk |-> RiskLevel(e), status |-> GateDecision(e)]
  /\ UNCHANGED <<reviews, tests, ledger, posted, runs, died, pc, job>> /\ UNCHANGED pullVars

Die(t) ==
  /\ pc[t] # "idle" /\ Cardinality(died) < MaxDeaths /\ job[t].run # None
  /\ died' = died \cup {job[t].run}
  /\ Goto(t, "idle") /\ job' = [job EXCEPT ![t] = NoJob]
  /\ UNCHANGED runs /\ UNCHANGED pullVars /\ UNCHANGED storeVars /\ Respond

-----------------------------------------------------------------------------
RunStep(t) == \/ CacheDiff(t) \/ AnnounceReview(t) \/ Conclude(t) \/ CompleteReview(t) \/ PostReview(t)
              \/ CompleteTests(t) \/ StoreTests(t)

Next ==
  \/ \E c \in Change : Push(c)
  \/ SaveHead
  \/ \E t \in Thread :
       \/ \E focus \in {{}, {"STYLE"}} : StartReview(t, focus)
       \/ FetchDiff(t)
       \/ StartTests(t)
       \/ \E i \in (IF reviews = <<>> THEN {0} ELSE 1 .. Len(reviews)) : EvaluateGate(t, i)
       \/ RunStep(t)
       \/ Die(t)

Spec == Init /\ [][Next]_vars
-----------------------------------------------------------------------------
(* Properties *)

\* Among the types: what GitHub never said is not cached.
ReviewTypeOK ==
  /\ commits \in Seq(Change) /\ Newest <= MaxPushes
  /\ head \in 0 .. Newest
  /\ diff \in Commit \cup {None}
  /\ reviews \in Seq(Review)
  /\ tests \in Seq([run : RunId, status : {"passed"}])
  /\ ledger \subseteq Event
  /\ posted \subseteq [run : RunId, verdict : Verdict]
  /\ runs \in 0 .. MaxRuns
  /\ decision = None \/ (decision.status \in {"PASSED", "REQUIRES_APPROVAL", "BLOCKED"}
                         /\ decision.review <= Len(reviews))
  /\ died \subseteq RunId
  /\ pc \in [Thread -> {"idle", "cache", "announce", "conclude", "complete", "post", "tested", "store"}]
  /\ job \in [Thread -> Job]

At(labels, run) == \E t \in Thread : pc[t] \in labels /\ job[t].run = run
Stored(run, verdict) == \E i \in DOMAIN reviews : reviews[i].run = run /\ reviews[i].verdict = verdict
Said(type, run) == \E e \in ledger : e.type = type /\ e.run = run

\* What the ledger, the tables and GitHub say of one review is one story with
\* one verdict: nothing is posted that was not announced, nothing announced
\* that is not stored, and a review that was started and did not get so far
\* is under way or died.
ReviewsToldAlike ==
  /\ \A p \in posted : \E e \in ledger :
       e.type = "REVIEW_COMPLETED" /\ e.run = p.run /\ e.verdict = p.verdict
  /\ \A e \in ledger : e.type = "REVIEW_COMPLETED" => Stored(e.run, e.verdict)
  /\ \A i \in DOMAIN reviews :
       \/ Said("REVIEW_COMPLETED", reviews[i].run)
       \/ At({"complete"}, reviews[i].run) \/ reviews[i].run \in died
  /\ \A e \in ledger : e.type = "REVIEW_STARTED" =>
       \/ Said("REVIEW_COMPLETED", e.run)
       \/ At({"conclude", "complete"}, e.run) \/ e.run \in died

\* Of a test run the ledger speaks first: a completed run has its row, unless
\* the request is about to write it or died before.
TestsToldAlike ==
  /\ \A i \in DOMAIN tests : Said("TEST_COMPLETED", tests[i].run)
  /\ \A e \in ledger : e.type = "TEST_COMPLETED" =>
       \/ \E i \in DOMAIN tests : tests[i].run = e.run
       \/ At({"store"}, e.run) \/ e.run \in died

\* Neither of the two kinds of runs is told of in two ways.
ToldAlike == ReviewsToldAlike /\ TestsToldAlike

\* Two engines judge the same findings: a gate that is given a review that
\* asks for changes does not pass, and one of critical risk is blocked.
GateRespectsVerdict ==
  (decision # None /\ decision.review > 0) =>
    LET r == reviews[decision.review] IN
    /\ r.verdict = "REQUEST_CHANGES" => decision.status # "PASSED"
    /\ r.risk = "CRITICAL" => decision.status = "BLOCKED"

TestOrder   == [none |-> 1, passed |-> 0, unfinished |-> 2, failed |-> 3]
ReviewOrder == [none |-> 2, clean |-> 0, warning |-> 1, error |-> 3, blocker |-> 4]
StatusOrder == [PASSED |-> 0, REQUIRES_APPROVAL |-> 1, BLOCKED |-> 2]
NoBetter(e, f) ==
  /\ e.lines >= f.lines /\ f.critical \subseteq e.critical
  /\ TestOrder[e.tests] >= TestOrder[f.tests]
  /\ ReviewOrder[e.review] >= ReviewOrder[f.review]

\* The policy is monotone: with evidence that is in no respect better, the
\* gate would have been no more permissive than it was.
GateMonotone ==
  decision # None =>
    \A e \in EvidenceOf(Change \cup {Fallback}) :
      NoBetter(e, decision.evidence) => StatusOrder[GateDecision(e)] >= StatusOrder[decision.status]

\* contracts/review_contract.md on head_sha: "Git commit SHA evaluated."  Here
\* a review's diff, where it is not made up, is the diff of its head.
HeadIsTheCommitEvaluated == \A i \in DOMAIN reviews : reviews[i].of \in {0, reviews[i].head}

\* The ledger, the rows and GitHub's side of each review, as ReviewLifecycle
\* sees them.
opened == {e.run : e \in {f \in ledger : f.type = "REVIEW_STARTED"}}
rows   == [i \in DOMAIN reviews |-> [run |-> reviews[i].run, verdict |-> reviews[i].verdict]]
told   == {[run |-> e.run, verdict |-> e.verdict] : e \in {f \in ledger : f.type = "REVIEW_COMPLETED"}}
Lifecycle == INSTANCE ReviewLifecycle WITH Run <- RunId, broken <- died

\* execute_review, on its threads, implements ReviewLifecycle: a review is
\* judged once, announced and posted with the verdict that was stored, and
\* silent once its request died.
ReviewSpec == Lifecycle!Spec

=============================================================================
