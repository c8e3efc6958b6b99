--------------------------- MODULE Reviews_proofs ---------------------------
(* Proofs about Reviews, for every number of threads, runs and commits, and  *)
(* whatever the commits' diffs hold.                                         *)
EXTENDS Reviews, TLAPS

-----------------------------------------------------------------------------
(* The policy of the gate, as a function of the evidence *)

Evidence == [lines : Nat, critical : SUBSET CriticalPath, tests : TestEvidence, review : ReviewEvidence]

\* The four parts of the score, and the cap on their sum.
LEMMA ScoreMonotone ==
  ASSUME NEW e \in Evidence, NEW f \in Evidence, NoBetter(e, f)
  PROVE  Score(e) \in Nat /\ Score(f) \in Nat /\ Score(e) >= Score(f)
<1> USE DEF Evidence
<1>1. /\ DiffScore(e) \in Nat /\ DiffScore(f) \in Nat
      /\ DiffScore(e) >= DiffScore(f)
  BY DEF NoBetter, DiffScore
<1>2. /\ PathScore(e) \in Nat /\ PathScore(f) \in Nat
      /\ PathScore(e) >= PathScore(f)
  BY DEF NoBetter, PathScore
<1>3. /\ TestScore(e) \in Nat /\ TestScore(f) \in Nat
      /\ TestScore(e) >= TestScore(f)
  BY DEF NoBetter, TestScore, TestOrder, TestEvidence
<1>4. /\ ReviewScore(e) \in Nat /\ ReviewScore(f) \in Nat
      /\ ReviewScore(e) >= ReviewScore(f)
  BY DEF NoBetter, ReviewScore, ReviewOrder, ReviewEvidence
<1> QED BY <1>1, <1>2, <1>3, <1>4 DEF Score

LEMMA ScoreNat == ASSUME NEW e \in Evidence PROVE Score(e) \in Nat
<1>1. TestOrder[e.tests] >= TestOrder[e.tests] /\ ReviewOrder[e.review] >= ReviewOrder[e.review]
  BY DEF Evidence, TestOrder, TestEvidence, ReviewOrder, ReviewEvidence
<1>2. NoBetter(e, e)
  BY <1>1 DEF NoBetter, Evidence
<1> QED BY <1>2, ScoreMonotone

\* When the risk is HIGH or CRITICAL.
Severe(e) == Score(e) >= 50 \/ e.review \in {"error", "blocker"}

LEMMA SevereRisk ==
  ASSUME NEW e \in Evidence
  PROVE  RiskLevel(e) \in {"HIGH", "CRITICAL"} <=> Severe(e)
BY ScoreNat DEF RiskLevel, Severe, Evidence

\* Evidence that is in no respect better never makes the gate more permissive.
THEOREM DecisionMonotone ==
  ASSUME NEW e \in Evidence, NEW f \in Evidence, NoBetter(e, f)
  PROVE  StatusOrder[GateDecision(e)] >= StatusOrder[GateDecision(f)]
<1>1. Severe(f) => Severe(e)
  BY ScoreMonotone DEF Severe, NoBetter, ReviewOrder, Evidence, ReviewEvidence
<1>2. f.critical # {} => e.critical # {}
  BY DEF NoBetter
<1>3. f.tests = "failed" => e.tests = "failed"
  BY DEF NoBetter, TestOrder, Evidence, TestEvidence
<1>4. f.review = "blocker" => e.review = "blocker"
  BY DEF NoBetter, ReviewOrder, Evidence, ReviewEvidence
<1> QED BY <1>1, <1>2, <1>3, <1>4, SevereRisk DEF GateDecision, StatusOrder

\* A review that asks for changes does not let the gate pass, and a blocker
\* blocks it.
LEMMA DecisionRespectsReview ==
  ASSUME NEW e \in Evidence
  PROVE  /\ e.review \in {"error", "blocker"} => GateDecision(e) # "PASSED"
         /\ e.review = "blocker" => GateDecision(e) = "BLOCKED"
BY SevereRisk DEF GateDecision, Severe

-----------------------------------------------------------------------------
(* The inductive invariant *)

RunVerdict(t) == RiskAndVerdict(Findings(t)).verdict
CompletedWith(run, verdict) ==
  \E e \in ledger : e.type = "REVIEW_COMPLETED" /\ e.run = run /\ e.verdict = verdict

\* A request has a pull request, and one that runs a run of its own.
JobOK(t) ==
  /\ pc[t] # "idle" => head > 0
  /\ pc[t] \in {"announce", "conclude", "complete", "post", "tested", "store"} => job[t].run \in RunId
  /\ pc[t] = "cache" => job[t].of \in 1 .. Newest
  /\ pc[t] \in {"announce", "conclude", "complete", "post"} => job[t].of \in 0 .. Newest
  /\ pc[t] = "cache" /\ job[t].run # None => job[t].run \in RunId
JobInv == \A t \in Thread : JobOK(t)

\* What a request is about to say is so.
StoryOK(t) ==
  /\ pc[t] = "complete" => Stored(job[t].run, RunVerdict(t))
  /\ pc[t] = "post" => CompletedWith(job[t].run, RunVerdict(t))
  /\ pc[t] = "store" => Said("TEST_COMPLETED", job[t].run)
StoryInv == \A t \in Thread : StoryOK(t)

\* A cached diff, and a review, is of a commit there is.
DiffInv == diff \in (1 .. Newest) \cup {None}

\* A stored review carries the verdict on its findings.
VerdictInv ==
  \A i \in DOMAIN reviews :
    /\ reviews[i].verdict = RiskAndVerdict(reviews[i].findings).verdict
    /\ reviews[i].risk = RiskAndVerdict(reviews[i].findings).risk

\* An answer of the gate rests on evidence, and on the review it names.
DecisionInv ==
  decision # None =>
    /\ decision.evidence \in Evidence
    /\ decision.status = GateDecision(decision.evidence)
    /\ decision.review \in 0 .. Len(reviews)
    /\ decision.review > 0 => decision.evidence.review = Weight(reviews[decision.review].findings)

IInv == ReviewTypeOK /\ DiffInv /\ JobInv /\ StoryInv /\ VerdictInv /\ DecisionInv /\ ToldAlike

-----------------------------------------------------------------------------
(* Facts about findings *)

AllFindings == Finding \cup {MissingTests}

LEMMA VerdictTyped ==
  ASSUME NEW F
  PROVE  /\ RiskAndVerdict(F).verdict \in Verdict
         /\ RiskAndVerdict(F).risk \in {"LOW", "MEDIUM", "HIGH", "CRITICAL"}
BY DEF RiskAndVerdict, Verdict

LEMMA ChangeTyped ==
  ASSUME ReviewTypeOK, NEW n \in 0 .. Newest
  PROVE  ChangeOf(n) \in ChangeShape
BY ChangesGiven DEF ReviewTypeOK, ChangeOf, Newest, Fallback, ChangeShape

LEMMA FindingsTyped ==
  ASSUME ReviewTypeOK, NEW t \in Thread, job[t].of \in 0 .. Newest
  PROVE  Findings(t) \in SUBSET AllFindings
<1>1. ChangeOf(job[t].of).findings \in SUBSET Finding
  BY ChangeTyped DEF ChangeShape
<1> QED BY <1>1 DEF Findings, AllFindings

\* The two engines weigh the same findings alike.
LEMMA WeightOfVerdict ==
  ASSUME NEW F
  PROVE  /\ Weight(F) \in ReviewEvidence
         /\ RiskAndVerdict(F).verdict = "REQUEST_CHANGES" => Weight(F) \in {"error", "blocker"}
         /\ RiskAndVerdict(F).risk = "CRITICAL" => Weight(F) = "blocker"
BY DEF Weight, RiskAndVerdict, ReviewEvidence
-----------------------------------------------------------------------------
(* What no step takes back *)

Grows(old, new, S) == new = old \/ \E x \in S : new = Append(old, x)

LEMMA SeqGrows ==
  ASSUME NEW S, NEW old \in Seq(S), NEW new, Grows(old, new, S)
  PROVE  /\ new \in Seq(S) /\ Len(new) >= Len(old)
         /\ \A i \in DOMAIN old : i \in DOMAIN new /\ new[i] = old[i]
<1>1. CASE new = old
  BY <1>1
<1>2. ASSUME NEW x \in S, new = Append(old, x)
      PROVE  /\ new \in Seq(S) /\ Len(new) >= Len(old)
             /\ \A i \in DOMAIN old : i \in DOMAIN new /\ new[i] = old[i]
  <2>1. /\ new \in Seq(S) /\ Len(new) = Len(old) + 1 /\ Len(old) \in Nat
        /\ DOMAIN old = 1 .. Len(old) /\ DOMAIN new = 1 .. Len(new)
        /\ \A i \in 1 .. Len(old) : new[i] = old[i]
    BY <1>2
  <2> QED BY <2>1
<1> QED BY <1>1, <1>2 DEF Grows

\* The verdict of a request under way does not change while it runs.
LEMMA VerdictKept ==
  ASSUME ReviewTypeOK, Grows(commits, commits', Change),
         NEW t \in Thread, job[t].of \in 0 .. Newest, job'[t] = job[t]
  PROVE  /\ job'[t].of \in 0 .. Newest'
         /\ RunVerdict(t)' = RunVerdict(t)
<1>1. Newest' >= Newest /\ job'[t].of \in 0 .. Newest'
  BY DEF ReviewTypeOK, Grows, Newest
<1>2. \A n \in 0 .. Newest : ChangeOf(n)' = ChangeOf(n)
  <2>1. \A n \in 1 .. Newest : commits'[n] = commits[n]
    BY DEF ReviewTypeOK, Grows, Newest
  <2> QED BY <2>1 DEF ReviewTypeOK, Newest, ChangeOf
<1>3. Findings(t)' = Findings(t)
  BY <1>2 DEF Findings, ChangeOf
<1> QED BY <1>1, <1>3 DEF RunVerdict

\* What the tables and the ledger hold stays there.
LEMMA RecordsKept ==
  ASSUME ReviewTypeOK, ledger \subseteq ledger',
         Grows(reviews, reviews', Review), NEW run, NEW verdict, NEW type
  PROVE  /\ Stored(run, verdict) => Stored(run, verdict)'
         /\ CompletedWith(run, verdict) => CompletedWith(run, verdict)'
         /\ Said(type, run) => Said(type, run)'
<1>1. \A i \in DOMAIN reviews : i \in DOMAIN reviews' /\ reviews'[i] = reviews[i]
  BY SeqGrows DEF ReviewTypeOK
<1> QED BY <1>1 DEF Stored, CompletedWith, Said

\* A thread that does not move keeps what is known of it.
LEMMA ThreadKept ==
  ASSUME IInv, head' \in Nat, head' >= head, ledger \subseteq ledger',
         Grows(commits, commits', Change), Grows(reviews, reviews', Review),
         NEW t \in Thread, pc'[t] = pc[t], job'[t] = job[t]
  PROVE  JobOK(t)' /\ StoryOK(t)'
<1> USE DEF IInv
<1>1. Newest' >= Newest /\ Newest \in Nat /\ Newest' \in Nat
  BY SeqGrows DEF ReviewTypeOK, Newest
<1>2. JobOK(t) /\ StoryOK(t)
  BY DEF JobInv, StoryInv
<1>3. JobOK(t)'
  <2>1. /\ pc'[t] = pc[t] /\ job'[t].run = job[t].run /\ job'[t].of = job[t].of
        /\ head \in Nat /\ (head > 0 => head' > 0)
    BY DEF ReviewTypeOK, Newest
  <2>2. job[t].of \in 0 .. Newest => job'[t].of \in 0 .. Newest'
    BY <1>1, <2>1
  <2>3. job[t].of \in 1 .. Newest => job'[t].of \in 1 .. Newest'
    BY <1>1, <2>1
  <2> QED BY <1>2, <2>1, <2>2, <2>3 DEF JobOK
<1>4. StoryOK(t)'
  BY <1>2, VerdictKept, RecordsKept DEF StoryOK, JobOK
<1> QED BY <1>3, <1>4

\* A step that tells of no review and ends no request leaves the story alone.
LEMMA StoryKept ==
  ASSUME IInv, UNCHANGED <<reviews, tests, posted>>, died \subseteq died', ledger \subseteq ledger',
         \A e \in ledger' \ ledger : e.type = "TEST_STARTED",
         \A t \in Thread : pc[t] \in {"conclude", "complete", "store"} =>
                             pc'[t] = pc[t] /\ job'[t] = job[t]
  PROVE  ToldAlike'
<1> USE DEF IInv, ToldAlike
<1>1. \A run : /\ At({"complete"}, run) => At({"complete"}, run)'
               /\ At({"conclude", "complete"}, run) => At({"conclude", "complete"}, run)'
               /\ At({"store"}, run) => At({"store"}, run)'
  BY DEF At
<1>2. \A run, type : Said(type, run) => Said(type, run)'
  BY DEF Said
<1>3. \A run, verdict : Stored(run, verdict) => Stored(run, verdict)'
  BY DEF Stored
<1>4. ReviewsToldAlike'
  BY <1>1, <1>2, <1>3 DEF ReviewsToldAlike
<1>5. TestsToldAlike'
  BY <1>1, <1>2, <1>3 DEF TestsToldAlike
<1> QED BY <1>4, <1>5

-----------------------------------------------------------------------------
(* The steps *)

LEMMA PushStep == ASSUME IInv, NEW c \in Change, Push(c) PROVE IInv'
<1> USE DEF IInv, Push, Respond, storeVars
<1>1. ReviewTypeOK /\ Grows(commits, commits', Change) /\ Grows(reviews, reviews', Review)
  BY DEF Grows
<1>2. commits' \in Seq(Change) /\ Newest' = Newest + 1 /\ Newest \in Nat
  BY DEF ReviewTypeOK, Newest
<1>3. ReviewTypeOK' /\ DiffInv'
  <2>1. Newest' <= MaxPushes /\ head' \in 0 .. Newest'
    BY <1>2, ReviewBounds DEF ReviewTypeOK
  <2>2. ReviewTypeOK'
    BY <1>2, <2>1 DEF ReviewTypeOK
  <2> QED BY <1>2, <2>2 DEF DiffInv
<1>4. JobInv' /\ StoryInv'
  BY <1>1, ThreadKept DEF JobInv, StoryInv, ReviewTypeOK, Newest
<1>5. VerdictInv' /\ DecisionInv'
  BY DEF VerdictInv, DecisionInv
<1>6. ToldAlike'
  BY StoryKept
<1> QED BY <1>3, <1>4, <1>5, <1>6

LEMMA SaveHeadStep == ASSUME IInv, SaveHead PROVE IInv'
<1> USE DEF IInv, SaveHead, Respond, storeVars
<1>1. ReviewTypeOK /\ Grows(commits, commits', Change) /\ Grows(reviews, reviews', Review)
  BY DEF Grows
<1>2. Newest \in Nat /\ Newest' = Newest /\ head \in Nat /\ head' \in Nat /\ head' >= head
  BY DEF ReviewTypeOK, Newest
<1>3. ReviewTypeOK' /\ DiffInv'
  BY <1>2 DEF ReviewTypeOK, DiffInv, Newest
<1>4. JobInv' /\ StoryInv'
  BY <1>1, <1>2, ThreadKept DEF JobInv, StoryInv
<1>5. VerdictInv' /\ DecisionInv'
  BY DEF VerdictInv, DecisionInv
<1>6. ToldAlike'
  BY StoryKept
<1> QED BY <1>3, <1>4, <1>5, <1>6

\* A step of one thread, on a pull request that stays as it is.
LEMMA OthersKept ==
  ASSUME IInv, NEW t \in Thread, UNCHANGED <<commits, head>>, ledger \subseteq ledger',
         Grows(reviews, reviews', Review),
         \A u \in Thread \ {t} : pc'[u] = pc[u] /\ job'[u] = job[u],
         JobOK(t)', StoryOK(t)'
  PROVE  JobInv' /\ StoryInv'
<1>1. head' \in Nat /\ head' >= head /\ Grows(commits, commits', Change)
  BY DEF IInv, ReviewTypeOK, Newest, Grows
<1>2. \A u \in Thread \ {t} : JobOK(u)' /\ StoryOK(u)'
  BY <1>1, ThreadKept
<1> QED BY <1>2 DEF JobInv, StoryInv

LEMMA StartReviewStep ==
  ASSUME IInv, NEW t \in Thread, NEW focus \in SUBSET Category, StartReview(t, focus)
  PROVE  IInv'
<1> USE DEF IInv, pullVars, storeVars
<1>1. PICK source \in {"cached", "fetched", "failed"} :
        /\ source = "cached" <=> diff # None
        /\ job' = [job EXCEPT ![t] =
             [run |-> runs + 1, focus |-> focus, fresh |-> source = "fetched",
              of |-> CASE source = "cached" -> diff [] source = "fetched" -> Newest [] OTHER -> 0]]
        /\ Goto(t, WithDiff(source))
  BY DEF StartReview
<1>2. /\ UNCHANGED <<commits, head, diff, reviews, tests, ledger, posted, died>>
      /\ decision' = None /\ runs' = runs + 1 /\ runs < MaxRuns /\ head > 0 /\ pc[t] = "idle"
  BY DEF StartReview, Respond
<1>3. /\ Newest \in 1 .. MaxPushes /\ runs + 1 \in RunId
  BY <1>2, ReviewBounds DEF ReviewTypeOK, Newest, RunId
<1> DEFINE of == CASE source = "cached" -> diff [] source = "fetched" -> Newest [] OTHER -> 0
<1>4. of \in 0 .. Newest /\ (source = "fetched" => of = Newest)
  BY <1>1, <1>3 DEF DiffInv
<1>5. of \in Commit \cup {0, None}
  BY <1>3, <1>4, ReviewBounds DEF Commit
<1> HIDE DEF of
<1>6. /\ job' = [job EXCEPT ![t] = [run |-> runs + 1, of |-> of, fresh |-> source = "fetched", focus |-> focus]]
      /\ pc' = [pc EXCEPT ![t] = IF source = "fetched" THEN "cache" ELSE "announce"]
  BY <1>1 DEF Goto, WithDiff, of
<1>7. ReviewTypeOK'
  <2>1. job' \in [Thread -> Job] /\ pc' \in [Thread -> {"idle", "cache", "announce", "conclude", "complete", "post", "tested", "store"}]
    BY <1>3, <1>5, <1>6 DEF ReviewTypeOK, Job, Run
  <2> QED BY <1>2, <1>3, <2>1 DEF ReviewTypeOK, Newest, RunId
<1>8. JobInv' /\ StoryInv'
  <2>1. /\ pc'[t] = (IF source = "fetched" THEN "cache" ELSE "announce")
        /\ job'[t].run = runs + 1 /\ job'[t].of = of
        /\ \A u \in Thread \ {t} : pc'[u] = pc[u] /\ job'[u] = job[u]
    BY <1>6 DEF ReviewTypeOK
  <2>2. JobOK(t)'
    BY <1>2, <1>3, <1>4, <2>1 DEF JobOK, Newest
  <2>3. StoryOK(t)'
    BY <2>1 DEF StoryOK
  <2> QED BY <1>2, <2>1, <2>2, <2>3, OthersKept DEF Grows
<1>9. VerdictInv' /\ DecisionInv' /\ DiffInv'
  BY <1>2 DEF VerdictInv, DecisionInv, DiffInv, Newest
<1>10. ToldAlike'
  BY <1>2, <1>6, StoryKept DEF ReviewTypeOK
<1> QED BY <1>7, <1>8, <1>9, <1>10

LEMMA FetchDiffStep == ASSUME IInv, NEW t \in Thread, FetchDiff(t) PROVE IInv'
<1> USE DEF IInv, pullVars, storeVars
<1>1. /\ UNCHANGED <<commits, head, diff, reviews, tests, ledger, posted, died, runs>>
      /\ decision' = None /\ head > 0 /\ pc[t] = "idle"
      /\ job' = [job EXCEPT ![t] = [NoJob EXCEPT !.of = Newest, !.fresh = TRUE]]
      /\ pc' = [pc EXCEPT ![t] = "cache"]
  BY DEF FetchDiff, Respond, Goto
<1>2. Newest \in 1 .. MaxPushes
  BY <1>1, ReviewBounds DEF ReviewTypeOK, Newest
<1>3. ReviewTypeOK'
  <2>1. job' \in [Thread -> Job]
    BY <1>1, <1>2 DEF ReviewTypeOK, Job, Run, NoJob, Commit
  <2> QED BY <1>1, <2>1 DEF ReviewTypeOK, Newest
<1>4. JobInv' /\ StoryInv'
  <2>1. /\ pc'[t] = "cache" /\ job'[t].run = None /\ job'[t].of = Newest
        /\ \A u \in Thread \ {t} : pc'[u] = pc[u] /\ job'[u] = job[u]
    BY <1>1 DEF ReviewTypeOK, NoJob
  <2>2. JobOK(t)' /\ StoryOK(t)'
    BY <1>1, <1>2, <2>1 DEF JobOK, StoryOK, Newest
  <2> QED BY <1>1, <2>1, <2>2, OthersKept DEF Grows
<1>5. VerdictInv' /\ DecisionInv' /\ DiffInv'
  BY <1>1 DEF VerdictInv, DecisionInv, DiffInv, Newest
<1>6. ToldAlike'
  BY <1>1, StoryKept DEF ReviewTypeOK
<1> QED BY <1>3, <1>4, <1>5, <1>6

\* Whoever stands where t neither stands nor leaves stays there.
LEMMA AtKept ==
  ASSUME NEW t \in Thread, NEW L, pc[t] \notin L,
         \A u \in Thread \ {t} : pc'[u] = pc[u] /\ job'[u] = job[u]
  PROVE  \A run : At(L, run) => At(L, run)'
BY DEF At

LEMMA CacheDiffStep == ASSUME IInv, NEW t \in Thread, CacheDiff(t) PROVE IInv'
<1> USE DEF IInv, storeVars
<1>1. /\ UNCHANGED <<commits, head, reviews, tests, ledger, posted, died, runs>>
      /\ decision' = None /\ pc[t] = "cache" /\ diff' = job[t].of
      /\ \A u \in Thread \ {t} : pc'[u] = pc[u] /\ job'[u] = job[u]
      /\ job' \in [Thread -> Job]
      /\ pc' \in [Thread -> {"idle", "cache", "announce", "conclude", "complete", "post", "tested", "store"}]
      /\ pc'[t] = "idle" \/ (pc'[t] = "announce" /\ job' = job /\ job[t].run # None)
  <2>1. NoJob \in Job
    BY DEF NoJob, Job, Run
  <2>2. CASE job[t].run = None
    BY <2>1, <2>2 DEF CacheDiff, Respond, Goto, ReviewTypeOK
  <2>3. CASE job[t].run # None
    BY <2>3 DEF CacheDiff, Respond, Goto, ReviewTypeOK
  <2> QED BY <2>2, <2>3
<1>2. JobOK(t) /\ diff' \in 1 .. Newest /\ Newest \in Nat /\ Newest <= MaxPushes
  BY <1>1 DEF JobInv, JobOK, ReviewTypeOK, Newest
<1>3. ReviewTypeOK' /\ DiffInv'
  <2>1. diff' \in Commit
    BY <1>2, ReviewBounds DEF Commit
  <2> QED BY <1>1, <1>2, <2>1 DEF ReviewTypeOK, DiffInv, Newest
<1>4. JobInv' /\ StoryInv'
  <2>1. JobOK(t)' /\ StoryOK(t)'
    BY <1>1, <1>2 DEF JobOK, StoryOK, Newest
  <2> QED BY <1>1, <2>1, OthersKept DEF Grows
<1>5. VerdictInv' /\ DecisionInv'
  BY <1>1 DEF VerdictInv, DecisionInv
<1>6. ToldAlike'
  BY <1>1, StoryKept
<1> QED BY <1>3, <1>4, <1>5, <1>6

LEMMA AnnounceReviewStep == ASSUME IInv, NEW t \in Thread, AnnounceReview(t) PROVE IInv'
<1> USE DEF IInv, pullVars
<1> DEFINE e == [type |-> "REVIEW_STARTED", run |-> job[t].run, verdict |-> None]
<1>1. /\ UNCHANGED <<commits, head, diff, reviews, tests, posted, died, runs, job>>
      /\ decision' = None /\ pc[t] = "announce" /\ ledger' = ledger \cup {e}
      /\ pc' = [pc EXCEPT ![t] = "conclude"]
  BY DEF AnnounceReview, Respond, Goto, Emit
<1>2. JobOK(t) /\ job[t].run \in RunId
  BY <1>1 DEF JobInv, JobOK
<1>3. /\ pc'[t] = "conclude" /\ \A u \in Thread \ {t} : pc'[u] = pc[u] /\ job'[u] = job[u]
  BY <1>1 DEF ReviewTypeOK
<1>4. ReviewTypeOK' /\ DiffInv'
  <2>1. e \in Event
    BY <1>2 DEF Event
  <2> HIDE DEF e
  <2> QED BY <1>1, <2>1 DEF ReviewTypeOK, DiffInv, Newest
<1>5. JobInv' /\ StoryInv'
  <2>1. JobOK(t)' /\ StoryOK(t)'
    BY <1>1, <1>2, <1>3 DEF JobOK, StoryOK, Newest
  <2> QED BY <1>1, <1>3, <2>1, OthersKept DEF Grows
<1>6. VerdictInv' /\ DecisionInv'
  BY <1>1 DEF VerdictInv, DecisionInv
<1>7. ToldAlike'
  <2>1. /\ \A run : At({"complete"}, run) => At({"complete"}, run)'
        /\ \A run : At({"conclude", "complete"}, run) => At({"conclude", "complete"}, run)'
        /\ \A run : At({"store"}, run) => At({"store"}, run)'
    BY <1>1, <1>3, AtKept
  <2>2. \A run : run = e.run => At({"conclude", "complete"}, run)'
    BY <1>1, <1>3 DEF At
  <2>3. /\ \A run, type : Said(type, run) => Said(type, run)'
        /\ \A run, verdict : Stored(run, verdict) => Stored(run, verdict)'
    BY <1>1 DEF Said, Stored
  <2>4. \A x \in ledger' : x \in ledger \/ x = e
    BY <1>1
  <2>5. e.type = "REVIEW_STARTED"
    OBVIOUS
  <2> HIDE DEF e
  <2>6. ReviewsToldAlike'
    <3> USE DEF ToldAlike, ReviewsToldAlike
    <3>1. \A p \in posted' : \E x \in ledger' :
            x.type = "REVIEW_COMPLETED" /\ x.run = p.run /\ x.verdict = p.verdict
      BY <1>1
    <3>2. \A x \in ledger' : x.type = "REVIEW_COMPLETED" => Stored(x.run, x.verdict)'
      BY <2>3, <2>4, <2>5
    <3>3. \A i \in DOMAIN reviews' :
            \/ Said("REVIEW_COMPLETED", reviews[i].run)'
            \/ At({"complete"}, reviews[i].run)' \/ reviews'[i].run \in died'
      BY <1>1, <2>1, <2>3
    <3>4. \A x \in ledger' : x.type = "REVIEW_STARTED" =>
            \/ Said("REVIEW_COMPLETED", x.run)'
            \/ At({"conclude", "complete"}, x.run)' \/ x.run \in died'
      BY <1>1, <2>1, <2>2, <2>3, <2>4
    <3> QED BY <3>1, <3>2, <3>3, <3>4
  <2>7. TestsToldAlike'
    BY <1>1, <2>1, <2>3, <2>4, <2>5 DEF ToldAlike, TestsToldAlike
  <2> QED BY <2>6, <2>7 DEF ToldAlike
<1> QED BY <1>4, <1>5, <1>6, <1>7

LEMMA ConcludeStep == ASSUME IInv, NEW t \in Thread, Conclude(t) PROVE IInv'
<1> USE DEF IInv, pullVars
<1> DEFINE r == [run |-> job[t].run, of |-> job[t].of, head |-> head, findings |-> Findings(t),
                 risk |-> RiskAndVerdict(Findings(t)).risk, verdict |-> RiskAndVerdict(Findings(t)).verdict]
           n == Len(reviews) + 1
<1>1. /\ UNCHANGED <<commits, head, diff, tests, ledger, posted, died, runs, job>>
      /\ decision' = None /\ pc[t] = "conclude" /\ reviews' = Append(reviews, r)
      /\ pc' = [pc EXCEPT ![t] = "complete"]
  BY DEF Conclude, Respond, Goto
<1>2. JobOK(t) /\ job[t].run \in RunId /\ job[t].of \in 0 .. Newest /\ head > 0
      /\ Newest \in Nat /\ Newest <= MaxPushes /\ head <= Newest /\ head \in Nat
  BY <1>1 DEF JobInv, JobOK, ReviewTypeOK, Newest
<1>3. /\ pc'[t] = "complete" /\ \A u \in Thread \ {t} : pc'[u] = pc[u] /\ job'[u] = job[u]
  BY <1>1 DEF ReviewTypeOK
<1>4. r \in Review
  <2>1. job[t].of \in Commit \cup {0} /\ head \in Commit
    BY <1>2, ReviewBounds DEF Commit
  <2>2. Findings(t) \in SUBSET (Finding \cup {MissingTests})
    BY <1>2, FindingsTyped DEF AllFindings
  <2> QED BY <1>2, <2>1, <2>2, VerdictTyped DEF Review
<1>5. /\ r.run = job[t].run /\ r.verdict = RunVerdict(t) /\ r.verdict = RiskAndVerdict(r.findings).verdict
      /\ r.risk = RiskAndVerdict(r.findings).risk
  BY DEF RunVerdict
<1>6. RunVerdict(t)' = RunVerdict(t)
  BY <1>1 DEF RunVerdict, Findings, ChangeOf
<1> HIDE DEF r
<1>7. /\ Grows(reviews, reviews', Review) /\ reviews' \in Seq(Review)
      /\ DOMAIN reviews' = 1 .. n /\ DOMAIN reviews = 1 .. (n - 1) /\ n \in Nat \ {0}
      /\ reviews'[n] = r /\ \A i \in DOMAIN reviews : reviews'[i] = reviews[i]
  BY <1>1, <1>4 DEF Grows, ReviewTypeOK
<1>8. ReviewTypeOK' /\ DiffInv'
  BY <1>1, <1>7 DEF ReviewTypeOK, DiffInv, Newest
<1> HIDE DEF n
<1>9. JobInv' /\ StoryInv'
  <2>1. JobOK(t)'
    BY <1>1, <1>2, <1>3 DEF JobOK, Newest
  <2>2. n \in DOMAIN reviews' /\ reviews'[n].run = job'[t].run /\ reviews'[n].verdict = RunVerdict(t)'
    <3>1. n \in DOMAIN reviews' /\ reviews'[n] = r
      BY <1>7
    <3>2. reviews'[n].run = job'[t].run
      BY <1>1, <1>5, <3>1
    <3> QED BY <1>5, <1>6, <3>1, <3>2
  <2>3. Stored(job[t].run, RunVerdict(t))'
    BY <2>2 DEF Stored
  <2>4. StoryOK(t)'
    BY <1>3, <2>3 DEF StoryOK
  <2> QED BY <1>1, <1>3, <1>7, <2>1, <2>4, OthersKept
<1>10. VerdictInv'
  <2> SUFFICES ASSUME NEW i \in DOMAIN reviews'
               PROVE  /\ reviews'[i].verdict = RiskAndVerdict(reviews'[i].findings).verdict
                      /\ reviews'[i].risk = RiskAndVerdict(reviews'[i].findings).risk
    BY DEF VerdictInv, RiskAndVerdict, HasSeverity
  <2>1. CASE i = n
    BY <1>5, <1>7, <2>1
  <2>2. CASE i \in DOMAIN reviews
    BY <1>7, <2>2 DEF VerdictInv
  <2>3. i = n \/ i \in DOMAIN reviews
    BY <1>7
  <2> QED BY <2>1, <2>2, <2>3
<1>11. DecisionInv'
  BY <1>1 DEF DecisionInv
<1>12. ToldAlike'
  <2>1. At({"complete"}, job[t].run)'
    BY <1>1, <1>3 DEF At
  <2>2. \A run : At({"complete"}, run) => At({"complete"}, run)'
    BY <1>1, <1>3 DEF At
  <2>3. \A run : At({"conclude", "complete"}, run) => At({"conclude", "complete"}, run)'
    BY <1>1, <1>3 DEF At
  <2>4. \A run : At({"store"}, run) => At({"store"}, run)'
    BY <1>1, <1>3 DEF At
  <2>5. \A type, run : Said(type, run)' <=> Said(type, run)
    BY <1>1 DEF Said
  <2>6. \A run, verdict : Stored(run, verdict) => Stored(run, verdict)'
    BY <1>7 DEF Stored
  <2>7. \A i \in DOMAIN reviews' : reviews'[i].run = job[t].run \/ (i \in DOMAIN reviews /\ reviews'[i] = reviews[i])
    BY <1>5, <1>7
  <2>8. ReviewsToldAlike'
    BY <1>1, <2>1, <2>2, <2>3, <2>5, <2>6, <2>7 DEF ToldAlike, ReviewsToldAlike
  <2>9. TestsToldAlike'
    BY <1>1, <2>4, <2>5 DEF ToldAlike, TestsToldAlike
  <2> QED BY <2>8, <2>9 DEF ToldAlike
<1> QED BY <1>8, <1>9, <1>10, <1>11, <1>12


LEMMA CompleteReviewStep == ASSUME IInv, NEW t \in Thread, CompleteReview(t) PROVE IInv'
<1> USE DEF IInv, pullVars
<1> DEFINE e == [type |-> "REVIEW_COMPLETED", run |-> job[t].run, verdict |-> RunVerdict(t)]
<1>1. /\ UNCHANGED <<commits, head, diff, reviews, tests, posted, died, runs>>
      /\ decision' = None /\ pc[t] = "complete" /\ ledger' = ledger \cup {e}
      /\ pc'[t] \in {"post", "idle"} /\ (pc'[t] = "post" => job' = job)
      /\ \A u \in Thread \ {t} : pc'[u] = pc[u] /\ job'[u] = job[u]
  BY DEF CompleteReview, Respond, Goto, Emit, RunVerdict, ReviewTypeOK
<1>2. /\ job' \in [Thread -> Job]
      /\ pc' \in [Thread -> {"idle", "cache", "announce", "conclude", "complete", "post", "tested", "store"}]
  <2>1. NoJob \in Job
    BY DEF NoJob, Job, Run
  <2> QED BY <2>1 DEF CompleteReview, Goto, ReviewTypeOK
<1>3. JobOK(t) /\ StoryOK(t) /\ job[t].run \in RunId /\ Stored(job[t].run, RunVerdict(t))
  BY <1>1 DEF JobInv, JobOK, StoryInv, StoryOK
<1>4. e \in Event
  BY <1>3, VerdictTyped DEF Event, RunVerdict
<1>5. e.type = "REVIEW_COMPLETED" /\ e.run = job[t].run /\ e.verdict = RunVerdict(t)
  OBVIOUS
<1> HIDE DEF e
<1>6. ReviewTypeOK' /\ DiffInv'
  BY <1>1, <1>2, <1>4 DEF ReviewTypeOK, DiffInv, Newest
<1>7. JobInv' /\ StoryInv'
  <2>1. JobOK(t)'
    BY <1>1, <1>3 DEF JobOK, Newest
  <2>2. ASSUME pc'[t] = "post" PROVE CompletedWith(job[t].run, RunVerdict(t))'
    <3>1. job' = job /\ RunVerdict(t)' = RunVerdict(t)
      BY <1>1, <2>2 DEF RunVerdict, Findings, ChangeOf
    <3>2. e.run = job'[t].run /\ e.verdict = RunVerdict(t)' /\ e \in ledger'
      BY <1>1, <1>5, <3>1
    <3> QED BY <1>5, <3>2 DEF CompletedWith
  <2>3. StoryOK(t)'
    BY <1>1, <2>2 DEF StoryOK
  <2> QED BY <1>1, <2>1, <2>3, OthersKept DEF Grows
<1>8. VerdictInv' /\ DecisionInv'
  BY <1>1 DEF VerdictInv, DecisionInv
<1>9. ToldAlike'
  <2>1. \A run, L : At(L, run) => At(L, run)' \/ run = e.run
    BY <1>1, <1>5 DEF At
  <2>2. \A run : At({"store"}, run) => At({"store"}, run)'
    BY <1>1, AtKept
  <2>3. /\ \A run, type : Said(type, run) => Said(type, run)'
        /\ \A run : run = e.run => Said("REVIEW_COMPLETED", run)'
        /\ \A run, verdict : Stored(run, verdict) => Stored(run, verdict)'
        /\ Stored(e.run, e.verdict)
    BY <1>1, <1>3, <1>5 DEF Said, Stored
  <2>4. \A x \in ledger' : x \in ledger \/ x = e
    BY <1>1
  <2>5. ReviewsToldAlike'
    <3> USE DEF ToldAlike, ReviewsToldAlike
    <3>1. \A p \in posted' : \E x \in ledger' :
            x.type = "REVIEW_COMPLETED" /\ x.run = p.run /\ x.verdict = p.verdict
      BY <1>1
    <3>2. \A x \in ledger' : x.type = "REVIEW_COMPLETED" => Stored(x.run, x.verdict)'
      BY <2>3, <2>4
    <3>3. \A i \in DOMAIN reviews' :
            \/ Said("REVIEW_COMPLETED", reviews[i].run)'
            \/ At({"complete"}, reviews[i].run)' \/ reviews'[i].run \in died'
      BY <1>1, <2>1, <2>3
    <3>4. \A x \in ledger' : x.type = "REVIEW_STARTED" =>
            \/ Said("REVIEW_COMPLETED", x.run)'
            \/ At({"conclude", "complete"}, x.run)' \/ x.run \in died'
      BY <1>1, <1>5, <2>1, <2>3, <2>4
    <3> QED BY <3>1, <3>2, <3>3, <3>4
  <2>6. TestsToldAlike'
    BY <1>1, <1>5, <2>2, <2>3, <2>4 DEF ToldAlike, TestsToldAlike
  <2> QED BY <2>5, <2>6 DEF ToldAlike
<1> QED BY <1>6, <1>7, <1>8, <1>9

LEMMA PostReviewStep == ASSUME IInv, NEW t \in Thread, PostReview(t) PROVE IInv'
<1> USE DEF IInv, pullVars
<1> DEFINE p == [run |-> job[t].run, verdict |-> RunVerdict(t)]
<1>1. /\ UNCHANGED <<commits, head, diff, reviews, tests, ledger, died, runs>>
      /\ decision' = None /\ pc[t] = "post" /\ pc'[t] = "idle" /\ posted' \subseteq posted \cup {p}
      /\ \A u \in Thread \ {t} : pc'[u] = pc[u] /\ job'[u] = job[u]
  BY DEF PostReview, Respond, Goto, RunVerdict, ReviewTypeOK
<1>2. /\ job' \in [Thread -> Job]
      /\ pc' \in [Thread -> {"idle", "cache", "announce", "conclude", "complete", "post", "tested", "store"}]
  <2>1. NoJob \in Job
    BY DEF NoJob, Job, Run
  <2> QED BY <2>1 DEF PostReview, Goto, ReviewTypeOK
<1>3. JobOK(t) /\ job[t].run \in RunId /\ CompletedWith(p.run, p.verdict)
  BY <1>1 DEF JobInv, JobOK, StoryInv, StoryOK
<1>4. p \in [run : RunId, verdict : Verdict]
  BY <1>3, VerdictTyped DEF RunVerdict
<1> HIDE DEF p
<1>5. ReviewTypeOK' /\ DiffInv'
  BY <1>1, <1>2, <1>4 DEF ReviewTypeOK, DiffInv, Newest
<1>6. JobInv' /\ StoryInv'
  <2>1. JobOK(t)' /\ StoryOK(t)'
    BY <1>1 DEF JobOK, StoryOK
  <2> QED BY <1>1, <2>1, OthersKept DEF Grows
<1>7. VerdictInv' /\ DecisionInv'
  BY <1>1 DEF VerdictInv, DecisionInv
<1>8. ToldAlike'
  <2>1. /\ \A run : At({"complete"}, run) => At({"complete"}, run)'
        /\ \A run : At({"conclude", "complete"}, run) => At({"conclude", "complete"}, run)'
        /\ \A run : At({"store"}, run) => At({"store"}, run)'
    BY <1>1, AtKept
  <2>2. /\ \A run, type : Said(type, run) => Said(type, run)'
        /\ \A run, verdict : Stored(run, verdict) => Stored(run, verdict)'
    BY <1>1 DEF Said, Stored
  <2>3. \A q \in posted' : \E x \in ledger :
            x.type = "REVIEW_COMPLETED" /\ x.run = q.run /\ x.verdict = q.verdict
    BY <1>1, <1>3 DEF CompletedWith, ToldAlike, ReviewsToldAlike
  <2>4. ReviewsToldAlike'
    BY <1>1, <2>1, <2>2, <2>3 DEF ToldAlike, ReviewsToldAlike
  <2>5. TestsToldAlike'
    BY <1>1, <2>1, <2>2 DEF ToldAlike, TestsToldAlike
  <2> QED BY <2>4, <2>5 DEF ToldAlike
<1> QED BY <1>5, <1>6, <1>7, <1>8

LEMMA StartTestsStep == ASSUME IInv, NEW t \in Thread, StartTests(t) PROVE IInv'
<1> USE DEF IInv, pullVars
<1> DEFINE e == [type |-> "TEST_STARTED", run |-> runs + 1, verdict |-> None]
<1>1. /\ UNCHANGED <<commits, head, diff, reviews, tests, posted, died>> /\ runs' = runs + 1
      /\ decision' = None /\ pc[t] = "idle" /\ ledger' = ledger \cup {e} /\ head > 0 /\ runs < MaxRuns
      /\ job' = [job EXCEPT ![t] = [NoJob EXCEPT !.run = runs + 1]]
      /\ pc' = [pc EXCEPT ![t] = "tested"]
  BY DEF StartTests, Respond, Goto, Emit
<1>2. runs + 1 \in RunId
  BY <1>1, ReviewBounds DEF ReviewTypeOK, RunId
<1>3. e \in Event /\ e.type = "TEST_STARTED"
  BY <1>2 DEF Event
<1> HIDE DEF e
<1>4. /\ pc'[t] = "tested" /\ job'[t].run = runs + 1
      /\ \A u \in Thread \ {t} : pc'[u] = pc[u] /\ job'[u] = job[u]
  BY <1>1 DEF ReviewTypeOK, NoJob
<1>5. ReviewTypeOK' /\ DiffInv'
  <2>1. job' \in [Thread -> Job]
    BY <1>1, <1>2 DEF ReviewTypeOK, Job, Run, NoJob
  <2>2. runs' \in 0 .. MaxRuns
    BY <1>1, <1>2, ReviewBounds DEF RunId
  <2> QED BY <1>1, <1>3, <2>1, <2>2 DEF ReviewTypeOK, DiffInv, Newest
<1>6. JobInv' /\ StoryInv'
  <2>1. JobOK(t)' /\ StoryOK(t)'
    BY <1>1, <1>2, <1>4 DEF JobOK, StoryOK
  <2> QED BY <1>1, <1>4, <2>1, OthersKept DEF Grows
<1>7. VerdictInv' /\ DecisionInv'
  BY <1>1 DEF VerdictInv, DecisionInv
<1>8. ToldAlike'
  BY <1>1, <1>3, <1>4, StoryKept
<1> QED BY <1>5, <1>6, <1>7, <1>8


LEMMA CompleteTestsStep == ASSUME IInv, NEW t \in Thread, CompleteTests(t) PROVE IInv'
<1> USE DEF IInv, pullVars
<1> DEFINE e == [type |-> "TEST_COMPLETED", run |-> job[t].run, verdict |-> None]
<1>1. /\ UNCHANGED <<commits, head, diff, reviews, tests, posted, died, runs, job>>
      /\ decision' = None /\ pc[t] = "tested" /\ ledger' = ledger \cup {e}
      /\ pc' = [pc EXCEPT ![t] = "store"]
  BY DEF CompleteTests, Respond, Goto, Emit
<1>2. JobOK(t) /\ job[t].run \in RunId
  BY <1>1 DEF JobInv, JobOK
<1>3. e \in Event /\ e.type = "TEST_COMPLETED" /\ e.run = job[t].run
  BY <1>2 DEF Event
<1> HIDE DEF e
<1>4. /\ pc'[t] = "store" /\ \A u \in Thread \ {t} : pc'[u] = pc[u] /\ job'[u] = job[u]
  BY <1>1 DEF ReviewTypeOK
<1>5. ReviewTypeOK' /\ DiffInv'
  BY <1>1, <1>3 DEF ReviewTypeOK, DiffInv, Newest
<1>6. JobInv' /\ StoryInv'
  <2>1. JobOK(t)' /\ StoryOK(t)'
    BY <1>1, <1>2, <1>3, <1>4 DEF JobOK, StoryOK, Said
  <2> QED BY <1>1, <1>4, <2>1, OthersKept DEF Grows
<1>7. VerdictInv' /\ DecisionInv'
  BY <1>1 DEF VerdictInv, DecisionInv
<1>8. ToldAlike'
  <2>1. /\ \A run : At({"complete"}, run) => At({"complete"}, run)'
        /\ \A run : At({"conclude", "complete"}, run) => At({"conclude", "complete"}, run)'
        /\ \A run : At({"store"}, run) => At({"store"}, run)'
    BY <1>1, <1>4, AtKept
  <2>2. \A run : run = e.run => At({"store"}, run)'
    BY <1>1, <1>3, <1>4 DEF At
  <2>3. /\ \A run, type : Said(type, run) => Said(type, run)'
        /\ \A run, verdict : Stored(run, verdict) => Stored(run, verdict)'
    BY <1>1 DEF Said, Stored
  <2>4. \A x \in ledger' : x \in ledger \/ x = e
    BY <1>1
  <2>5. ReviewsToldAlike'
    BY <1>1, <1>3, <2>1, <2>3, <2>4 DEF ToldAlike, ReviewsToldAlike
  <2>6. TestsToldAlike'
    BY <1>1, <2>1, <2>2, <2>3, <2>4 DEF ToldAlike, TestsToldAlike
  <2> QED BY <2>5, <2>6 DEF ToldAlike
<1> QED BY <1>5, <1>6, <1>7, <1>8

LEMMA StoreTestsStep == ASSUME IInv, NEW t \in Thread, StoreTests(t) PROVE IInv'
<1> USE DEF IInv, pullVars
<1> DEFINE r == [run |-> job[t].run, status |-> "passed"]
           n == Len(tests) + 1
<1>1. /\ UNCHANGED <<commits, head, diff, reviews, ledger, posted, died, runs>>
      /\ decision' = None /\ pc[t] = "store" /\ pc'[t] = "idle" /\ tests' = Append(tests, r)
      /\ \A u \in Thread \ {t} : pc'[u] = pc[u] /\ job'[u] = job[u]
  BY DEF StoreTests, Respond, Goto, ReviewTypeOK
<1>2. /\ job' \in [Thread -> Job]
      /\ pc' \in [Thread -> {"idle", "cache", "announce", "conclude", "complete", "post", "tested", "store"}]
  <2>1. NoJob \in Job
    BY DEF NoJob, Job, Run
  <2> QED BY <2>1 DEF StoreTests, Goto, ReviewTypeOK
<1>3. JobOK(t) /\ job[t].run \in RunId /\ Said("TEST_COMPLETED", job[t].run)
  BY <1>1 DEF JobInv, JobOK, StoryInv, StoryOK
<1>4. r \in [run : RunId, status : {"passed"}] /\ r.run = job[t].run
  BY <1>3
<1> HIDE DEF r
<1>5. /\ tests' \in Seq([run : RunId, status : {"passed"}])
      /\ DOMAIN tests' = 1 .. n /\ DOMAIN tests = 1 .. (n - 1) /\ n \in Nat \ {0}
      /\ tests'[n] = r /\ \A i \in DOMAIN tests : tests'[i] = tests[i]
  BY <1>1, <1>4 DEF ReviewTypeOK
<1>6. ReviewTypeOK' /\ DiffInv'
  BY <1>1, <1>2, <1>5 DEF ReviewTypeOK, DiffInv, Newest
<1> HIDE DEF n
<1>7. JobInv' /\ StoryInv'
  <2>1. JobOK(t)' /\ StoryOK(t)'
    BY <1>1 DEF JobOK, StoryOK
  <2> QED BY <1>1, <2>1, OthersKept DEF Grows
<1>8. VerdictInv' /\ DecisionInv'
  BY <1>1 DEF VerdictInv, DecisionInv
<1>9. ToldAlike'
  <2>1. /\ \A run : At({"complete"}, run) => At({"complete"}, run)'
        /\ \A run : At({"conclude", "complete"}, run) => At({"conclude", "complete"}, run)'
    BY <1>1, AtKept
  <2>2. \A run : At({"store"}, run) => At({"store"}, run)' \/ run = job[t].run
    BY <1>1 DEF At
  <2>3. /\ \A run, type : Said(type, run) => Said(type, run)'
        /\ \A run, verdict : Stored(run, verdict) => Stored(run, verdict)'
    BY <1>1 DEF Said, Stored
  <2>4. ReviewsToldAlike'
    BY <1>1, <2>1, <2>3 DEF ToldAlike, ReviewsToldAlike
  <2>5. TestsToldAlike'
    <3>1. \A i \in DOMAIN tests' : Said("TEST_COMPLETED", tests[i].run)'
      <4>1. \A i \in DOMAIN tests' : Said("TEST_COMPLETED", tests'[i].run)
        BY <1>3, <1>4, <1>5 DEF ToldAlike, TestsToldAlike
      <4> QED BY <1>1, <4>1 DEF Said
    <3>2. \A x \in ledger' : x.type = "TEST_COMPLETED" =>
            \/ \E i \in DOMAIN tests' : tests'[i].run = x.run
            \/ At({"store"}, x.run)' \/ x.run \in died'
      <4>1. n \in DOMAIN tests' /\ tests'[n].run = job[t].run
        BY <1>4, <1>5
      <4>2. \A i \in DOMAIN tests : i \in DOMAIN tests' /\ tests'[i] = tests[i]
        BY <1>5
      <4> QED BY <1>1, <2>2, <4>1, <4>2 DEF ToldAlike, TestsToldAlike
    <3> QED BY <3>1, <3>2 DEF TestsToldAlike
  <2> QED BY <2>4, <2>5 DEF ToldAlike
<1> QED BY <1>6, <1>7, <1>8, <1>9

LEMMA EvaluateGateStep ==
  ASSUME IInv, NEW t \in Thread,
         NEW i \in (IF reviews = <<>> THEN {0} ELSE 1 .. Len(reviews)), EvaluateGate(t, i)
  PROVE  IInv'
<1> USE DEF IInv, pullVars
<1> DEFINE e == [lines    |-> commits[head].lines,
                 critical |-> IF diff = None THEN {} ELSE ChangeOf(diff).critical,
                 tests    |-> IF tests = <<>> THEN "none" ELSE tests[Len(tests)].status,
                 review   |-> IF i = 0 THEN "none" ELSE Weight(reviews[i].findings)]
<1>1. /\ UNCHANGED <<commits, head, diff, reviews, tests, ledger, posted, died, runs, pc, job>>
      /\ head > 0
      /\ decision' = [evidence |-> e, review |-> i, risk |-> RiskLevel(e), status |-> GateDecision(e)]
  BY DEF EvaluateGate
<1>2. i \in 0 .. Len(reviews) /\ Len(reviews) \in Nat
  BY DEF ReviewTypeOK
<1>3. e \in Evidence
  <2>1. commits[head] \in ChangeShape
    BY <1>1, ChangesGiven DEF ReviewTypeOK, Newest
  <2>2. diff # None => ChangeOf(diff) \in ChangeShape
    BY ChangeTyped DEF DiffInv, ReviewTypeOK, Newest
  <2>3. (IF tests = <<>> THEN "none" ELSE tests[Len(tests)].status) \in TestEvidence
    <3> DEFINE T == [run : RunId, status : {"passed"}]
    <3>1. tests \in Seq(T)
      BY DEF ReviewTypeOK
    <3>2. tests # <<>> => tests[Len(tests)] \in T
      <4> HIDE DEF T
      <4> QED BY <3>1
    <3> QED BY <3>2 DEF TestEvidence
  <2>4. (IF i = 0 THEN "none" ELSE Weight(reviews[i].findings)) \in ReviewEvidence
    BY WeightOfVerdict DEF ReviewEvidence
  <2> QED BY <2>1, <2>2, <2>3, <2>4 DEF Evidence, ChangeShape
<1>4. i > 0 => e.review = Weight(reviews[i].findings)
  BY <1>2
<1> HIDE DEF e
<1>5. ReviewTypeOK' /\ DiffInv'
  BY <1>1, <1>2 DEF ReviewTypeOK, DiffInv, Newest, GateDecision
<1>6. JobInv' /\ StoryInv'
  <2>1. /\ head' \in Nat /\ head' >= head /\ ledger \subseteq ledger'
        /\ Grows(commits, commits', Change) /\ Grows(reviews, reviews', Review)
    BY <1>1 DEF ReviewTypeOK, Newest, Grows
  <2> QED BY <1>1, <2>1, ThreadKept DEF JobInv, StoryInv
<1>7. VerdictInv'
  BY <1>1 DEF VerdictInv
<1>8. DecisionInv'
  <2>1. /\ decision'.evidence = e /\ decision'.review = i /\ decision'.status = GateDecision(e)
    BY <1>1
  <2>2. decision'.evidence \in Evidence /\ decision'.status = GateDecision(decision'.evidence)
    BY <1>3, <2>1
  <2>3. decision'.review > 0 => decision'.evidence.review = Weight(reviews[decision'.review].findings)
    BY <1>4, <2>1
  <2>4. GateDecision(decision.evidence)' = GateDecision(decision'.evidence)
    BY DEF GateDecision, RiskLevel, Score, DiffScore, PathScore, TestScore, ReviewScore
  <2>5. Weight(reviews[decision.review].findings)' = Weight(reviews[decision'.review].findings)
    BY <1>1 DEF Weight, HasSeverity
  <2> QED BY <1>1, <1>2, <2>1, <2>2, <2>3, <2>4, <2>5 DEF DecisionInv, Evidence
<1>9. ToldAlike'
  BY <1>1, StoryKept
<1> QED BY <1>5, <1>6, <1>7, <1>8, <1>9

LEMMA DieStep == ASSUME IInv, NEW t \in Thread, Die(t) PROVE IInv'
<1> USE DEF IInv, pullVars, storeVars
<1>1. /\ UNCHANGED <<commits, head, diff, reviews, tests, ledger, posted, runs>>
      /\ decision' = None /\ pc[t] # "idle" /\ job[t].run # None /\ died' = died \cup {job[t].run}
      /\ pc'[t] = "idle" /\ \A u \in Thread \ {t} : pc'[u] = pc[u] /\ job'[u] = job[u]
  BY DEF Die, Respond, Goto, ReviewTypeOK
<1>2. /\ job' \in [Thread -> Job]
      /\ pc' \in [Thread -> {"idle", "cache", "announce", "conclude", "complete", "post", "tested", "store"}]
  <2>1. NoJob \in Job
    BY DEF NoJob, Job, Run
  <2> QED BY <2>1 DEF Die, Goto, ReviewTypeOK
<1>3. JobOK(t) /\ job[t].run \in RunId
  BY <1>1 DEF JobInv, JobOK, ReviewTypeOK
<1>4. ReviewTypeOK' /\ DiffInv'
  BY <1>1, <1>2, <1>3 DEF ReviewTypeOK, DiffInv, Newest
<1>5. JobInv' /\ StoryInv'
  <2>1. JobOK(t)' /\ StoryOK(t)'
    BY <1>1 DEF JobOK, StoryOK
  <2> QED BY <1>1, <2>1, OthersKept DEF Grows
<1>6. VerdictInv' /\ DecisionInv'
  BY <1>1 DEF VerdictInv, DecisionInv
<1>7. ToldAlike'
  <2>1. \A run, L : At(L, run) => At(L, run)' \/ run \in died'
    BY <1>1 DEF At
  <2>2. /\ \A run, type : Said(type, run) => Said(type, run)'
        /\ \A run, verdict : Stored(run, verdict) => Stored(run, verdict)'
    BY <1>1 DEF Said, Stored
  <2>3. ReviewsToldAlike'
    BY <1>1, <2>1, <2>2 DEF ToldAlike, ReviewsToldAlike
  <2>4. TestsToldAlike'
    BY <1>1, <2>1, <2>2 DEF ToldAlike, TestsToldAlike
  <2> QED BY <2>3, <2>4 DEF ToldAlike
<1> QED BY <1>4, <1>5, <1>6, <1>7


-----------------------------------------------------------------------------
(* The theorems *)

LEMMA InitIInv == Init => IInv
<1> SUFFICES ASSUME Init PROVE IInv
  OBVIOUS
<1> USE DEF Init
<1>1. ReviewTypeOK
  BY ReviewBounds DEF ReviewTypeOK, Newest, Job, Run, NoJob
<1>2. DiffInv /\ JobInv /\ StoryInv /\ VerdictInv /\ DecisionInv
  BY DEF DiffInv, JobInv, JobOK, StoryInv, StoryOK, VerdictInv, DecisionInv
<1>3. ToldAlike
  BY DEF ToldAlike, ReviewsToldAlike, TestsToldAlike
<1> QED BY <1>1, <1>2, <1>3 DEF IInv

LEMMA StutterStep == ASSUME IInv, UNCHANGED vars PROVE IInv'
<1> USE DEF IInv, vars
<1>1. ReviewTypeOK' /\ DiffInv'
  BY DEF ReviewTypeOK, DiffInv, Newest
<1>2. JobInv' /\ StoryInv'
  <2>1. /\ head' \in Nat /\ head' >= head /\ ledger \subseteq ledger'
        /\ Grows(commits, commits', Change) /\ Grows(reviews, reviews', Review)
    BY DEF ReviewTypeOK, Newest, Grows
  <2> QED BY <2>1, ThreadKept DEF JobInv, StoryInv
<1>3. VerdictInv'
  BY DEF VerdictInv
<1>4. DecisionInv'
  <2>1. GateDecision(decision.evidence)' = GateDecision(decision.evidence)
    BY DEF GateDecision, RiskLevel, Score, DiffScore, PathScore, TestScore, ReviewScore
  <2>2. Weight(reviews[decision.review].findings)' = Weight(reviews[decision.review].findings)
    BY DEF Weight, HasSeverity
  <2> QED BY <2>1, <2>2 DEF DecisionInv, Evidence
<1>5. ToldAlike'
  BY StoryKept
<1> QED BY <1>1, <1>2, <1>3, <1>4, <1>5

LEMMA StepIInv == ASSUME IInv, [Next]_vars PROVE IInv'
<1>1. ASSUME NEW c \in Change, Push(c) PROVE IInv'
  BY <1>1, PushStep
<1>2. CASE SaveHead
  BY <1>2, SaveHeadStep
<1>3. ASSUME NEW t \in Thread, NEW focus \in {{}, {"STYLE"}}, StartReview(t, focus) PROVE IInv'
  BY <1>3, StartReviewStep DEF Category
<1>4. ASSUME NEW t \in Thread, FetchDiff(t) \/ StartTests(t) \/ Die(t) PROVE IInv'
  BY <1>4, FetchDiffStep, StartTestsStep, DieStep
<1>5. ASSUME NEW t \in Thread, NEW i \in (IF reviews = <<>> THEN {0} ELSE 1 .. Len(reviews)), EvaluateGate(t, i)
      PROVE  IInv'
  BY <1>5, EvaluateGateStep
<1>6. ASSUME NEW t \in Thread, RunStep(t) PROVE IInv'
  BY <1>6, CacheDiffStep, AnnounceReviewStep, ConcludeStep, CompleteReviewStep, PostReviewStep,
     CompleteTestsStep, StoreTestsStep DEF RunStep
<1>7. CASE UNCHANGED vars
  BY <1>7, StutterStep
<1> QED BY <1>1, <1>2, <1>3, <1>4, <1>5, <1>6, <1>7 DEF Next

THEOREM Invariance == Spec => []IInv
BY InitIInv, StepIInv, PTL DEF Spec

\* Every state is of its type; among it, what get_diff makes up when GitHub
\* fails is never cached.
THEOREM ReviewTypeCorrect == Spec => []ReviewTypeOK
<1>1. IInv => ReviewTypeOK
  BY DEF IInv
<1> QED BY <1>1, Invariance, PTL

\* Ledger, tables and GitHub tell of every review and test run one story, on
\* any number of threads and wherever a request dies.
THEOREM StoryTold == Spec => []ToldAlike
<1>1. IInv => ToldAlike
  BY DEF IInv
<1> QED BY <1>1, Invariance, PTL

\* A gate that is given a review that asks for changes does not pass, and one
\* of critical risk is blocked, whatever the rest of the evidence.
THEOREM VerdictRespected == Spec => []GateRespectsVerdict
<1>1. IInv => GateRespectsVerdict
  <2> SUFFICES ASSUME IInv, decision # None, decision.review > 0
               PROVE  LET r == reviews[decision.review] IN
                      /\ r.verdict = "REQUEST_CHANGES" => decision.status # "PASSED"
                      /\ r.risk = "CRITICAL" => decision.status = "BLOCKED"
    BY DEF GateRespectsVerdict
  <2> DEFINE r == reviews[decision.review]
  <2>1. /\ decision.evidence \in Evidence /\ decision.status = GateDecision(decision.evidence)
        /\ decision.evidence.review = Weight(r.findings) /\ decision.review \in DOMAIN reviews
    BY DEF IInv, DecisionInv, ReviewTypeOK
  <2>2. r.verdict = RiskAndVerdict(r.findings).verdict /\ r.risk = RiskAndVerdict(r.findings).risk
    BY <2>1 DEF IInv, VerdictInv
  <2> QED BY <2>1, <2>2, WeightOfVerdict, DecisionRespectsReview
<1> QED BY <1>1, Invariance, PTL

\* With evidence that is in no respect better, the gate would have been no
\* more permissive than it was, whatever diffs there may be.
THEOREM GateIsMonotone == Spec => []GateMonotone
<1>1. IInv => GateMonotone
  <2> SUFFICES ASSUME IInv, decision # None, NEW e \in EvidenceOf(Change \cup {Fallback}),
                      NoBetter(e, decision.evidence)
               PROVE  StatusOrder[GateDecision(e)] >= StatusOrder[decision.status]
    BY DEF GateMonotone
  <2>1. decision.evidence \in Evidence /\ decision.status = GateDecision(decision.evidence)
    BY DEF IInv, DecisionInv
  <2>2. \A c \in Change \cup {Fallback} : c.lines \in Nat /\ c.critical \in SUBSET CriticalPath
    BY ChangesGiven DEF ChangeShape, Fallback
  <2>3. e \in Evidence
    BY <2>2 DEF EvidenceOf, Evidence
  <2> QED BY <2>1, <2>3, DecisionMonotone
<1> QED BY <1>1, Invariance, PTL

-----------------------------------------------------------------------------
(* Reviews implements ReviewLifecycle *)

Opened(run) == \E e \in ledger : e.type = "REVIEW_STARTED" /\ e.run = run
Judged(run) == \E i \in DOMAIN reviews : reviews[i].run = run
Told(run)   == \E e \in ledger : e.type = "REVIEW_COMPLETED" /\ e.run = run
Posted(run) == \E p \in posted : p.run = run

\* A run that is under way has not got further than its thread.
RunOK(t) ==
  job[t].run # None =>
    /\ job[t].run \in 1 .. runs /\ job[t].run \notin died
    /\ ~Posted(job[t].run)
    /\ pc[t] \in {"cache", "announce"} => ~Opened(job[t].run)
    /\ pc[t] \in {"cache", "announce", "conclude"} => ~Judged(job[t].run)
    /\ pc[t] \in {"cache", "announce", "conclude", "complete"} => ~Told(job[t].run)
    /\ pc[t] = "conclude" => Opened(job[t].run)

\* Runs are numbered as they start, and each has one thread.
RunInv ==
  /\ \A t \in Thread : RunOK(t)
  /\ \A t \in Thread : \A u \in Thread \ {t} : job[t].run # None => job[t].run # job[u].run
  /\ \A n : Opened(n) \/ Judged(n) \/ Told(n) \/ Posted(n) \/ n \in died => n \in 1 .. runs

\* A step of t that tells of no run but its own.
LEMMA RunKept ==
  ASSUME ReviewTypeOK, ReviewTypeOK', RunInv, NEW t \in Thread, NEW r, r = job[t].run \/ r = runs + 1,
         \A u \in Thread \ {t} : pc'[u] = pc[u] /\ job'[u] = job[u],
         runs' \in {runs, runs + 1},
         job'[t].run \in {None, r}, r # job[t].run => runs' = runs + 1,
         \A n : n # r => /\ Opened(n)' <=> Opened(n)
                         /\ Judged(n)' <=> Judged(n)
                         /\ Told(n)' <=> Told(n)
                         /\ Posted(n)' <=> Posted(n)
                         /\ n \in died' <=> n \in died,
         r = None => /\ Opened(r)' <=> Opened(r)
                     /\ Judged(r)' <=> Judged(r)
                     /\ Told(r)' <=> Told(r)
                     /\ Posted(r)' <=> Posted(r)
                     /\ r \in died' <=> r \in died,
         RunOK(t)'
  PROVE  RunInv'
<1>1. /\ runs \in Nat /\ runs' \in Nat /\ runs <= runs' /\ None \notin Int
      /\ \A u \in Thread : job[u].run # None => job[u].run \in 1 .. runs
  BY NoneIsApart DEF ReviewTypeOK, RunInv, RunOK
<1>2. ASSUME NEW u \in Thread \ {t} PROVE RunOK(u)' /\ (job[u].run # None => job[u].run # r)
  <2>1. job[u].run # None => job[u].run # r
    BY <1>1 DEF RunInv
  <2>2. RunOK(u) /\ job'[u] = job[u] /\ pc'[u] = pc[u]
    BY DEF RunInv
  <2>3. job[u].run # None => job[u].run \in 1 .. runs'
    BY <1>1
  <2> QED BY <2>1, <2>2, <2>3 DEF RunOK
<1>3. \A u \in Thread : \A v \in Thread \ {u} : job'[u].run # None => job'[u].run # job'[v].run
  <2>1. \A v \in Thread \ {t} : job'[v].run = job[v].run /\ (job[v].run # None => job[v].run # r)
    BY <1>2
  <2>2. \A u, v \in Thread \ {t} : u # v /\ job[u].run # None => job[u].run # job[v].run
    BY DEF RunInv
  <2> QED BY <2>1, <2>2
<1>4. ASSUME NEW n, (Opened(n) \/ Judged(n) \/ Told(n) \/ Posted(n) \/ n \in died)' PROVE n \in 1 .. runs'
  <2>1. CASE n # r \/ r = None
    <3>1. n \in 1 .. runs
      BY <1>4, <2>1 DEF RunInv
    <3> QED BY <1>1, <3>1
  <2>2. CASE n = r /\ r # None
    BY <1>1, <2>2
  <2> QED BY <2>1, <2>2
<1> QED BY <1>2, <1>3, <1>4 DEF RunInv

\* What is in the ledger, the tables and on GitHub, and of whom.
LEMMA RunsRead ==
  ASSUME ReviewTypeOK
  PROVE  /\ \A r : r \in opened <=> Opened(r)
         /\ \A r, v : [run |-> r, verdict |-> v] \in Lifecycle!Rows <=> Stored(r, v)
         /\ \A j \in Lifecycle!Rows : Judged(j.run)
         /\ \A r, v : [run |-> r, verdict |-> v] \in told <=> CompletedWith(r, v)
         /\ \A j \in told : Told(j.run)
<1>1. Lifecycle!Rows = {[run |-> reviews[i].run, verdict |-> reviews[i].verdict] : i \in DOMAIN reviews}
  BY DEF Lifecycle!Rows, rows
<1>2. \A r : r \in opened <=> Opened(r)
  BY DEF opened, Opened
<1>3. ASSUME NEW r, NEW v PROVE [run |-> r, verdict |-> v] \in Lifecycle!Rows <=> Stored(r, v)
  <2>1. ASSUME NEW i PROVE [run |-> r, verdict |-> v] = [run |-> reviews[i].run, verdict |-> reviews[i].verdict]
                           <=> (reviews[i].run = r /\ reviews[i].verdict = v)
    OBVIOUS
  <2> QED BY <1>1, <2>1 DEF Stored
<1>4. \A j \in Lifecycle!Rows : Judged(j.run)
  BY <1>1 DEF Judged
<1>5. ASSUME NEW r, NEW v PROVE [run |-> r, verdict |-> v] \in told <=> CompletedWith(r, v)
  <2>1. ASSUME NEW e PROVE [run |-> r, verdict |-> v] = [run |-> e.run, verdict |-> e.verdict]
                           <=> (e.run = r /\ e.verdict = v)
    OBVIOUS
  <2> QED BY <2>1 DEF told, CompletedWith
<1>6. \A j \in told : Told(j.run)
  BY DEF told, Told
<1> QED BY <1>2, <1>3, <1>4, <1>5, <1>6

\* The rows of a longer table.
LEMMA RowsAppended ==
  ASSUME ReviewTypeOK, NEW x \in Review, reviews' = Append(reviews, x)
  PROVE  /\ rows' = Append(rows, [run |-> x.run, verdict |-> x.verdict])
         /\ \A r : Judged(r)' <=> Judged(r) \/ r = x.run
<1>1. /\ reviews \in Seq(Review) /\ Len(reviews) \in Nat /\ Len(reviews') = Len(reviews) + 1
      /\ DOMAIN reviews = 1 .. Len(reviews) /\ DOMAIN reviews' = 1 .. (Len(reviews) + 1)
      /\ \A i \in 1 .. Len(reviews) : reviews'[i] = reviews[i]
      /\ reviews'[Len(reviews) + 1] = x
  BY DEF ReviewTypeOK
<1>2. rows \in Seq([run : RunId, verdict : Verdict]) /\ Len(rows) = Len(reviews)
  <2>1. \A i \in 1 .. Len(reviews) : reviews[i].run \in RunId /\ reviews[i].verdict \in Verdict
    <3>1. \A i \in 1 .. Len(reviews) : reviews[i] \in Review
      BY <1>1
    <3> QED BY <3>1 DEF Review
  <2>2. rows = [i \in 1 .. Len(reviews) |-> [run |-> reviews[i].run, verdict |-> reviews[i].verdict]]
    BY <1>1 DEF rows
  <2>3. rows \in [1 .. Len(reviews) -> [run : RunId, verdict : Verdict]]
    BY <2>1, <2>2
  <2> DEFINE S == [run : RunId, verdict : Verdict]
             n == Len(reviews)
  <2>4. rows \in [1 .. n -> S] /\ n \in Nat
    BY <1>1, <2>3
  <2> HIDE DEF S, n
  <2>5. rows \in Seq(S) /\ Len(rows) = n
    BY <2>4
  <2> QED BY <2>5 DEF S, n
<1>3. rows' = [i \in 1 .. (Len(reviews) + 1) |-> [run |-> reviews'[i].run, verdict |-> reviews'[i].verdict]]
  BY <1>1 DEF rows
<1>4. Append(rows, [run |-> x.run, verdict |-> x.verdict])
        = [i \in 1 .. (Len(reviews) + 1) |->
             IF i = Len(reviews) + 1 THEN [run |-> x.run, verdict |-> x.verdict] ELSE rows[i]]
  BY <1>1, <1>2
<1>5. \A i \in 1 .. Len(reviews) : rows[i] = [run |-> reviews[i].run, verdict |-> reviews[i].verdict]
  BY <1>1 DEF rows
<1>6. rows' = Append(rows, [run |-> x.run, verdict |-> x.verdict])
  BY <1>1, <1>3, <1>4, <1>5
<1>7. \A r : Judged(r)' <=> Judged(r) \/ r = x.run
  BY <1>1 DEF Judged
<1> QED BY <1>6, <1>7

\* A step that tells of no review leaves ReviewLifecycle alone.
SaysNothing ==
  /\ UNCHANGED <<reviews, posted, died>>
  /\ ledger \subseteq ledger'
  /\ \A e \in ledger' \ ledger : e.type \in {"TEST_STARTED", "TEST_COMPLETED"}

LEMMA QuietStep ==
  ASSUME ReviewTypeOK, SaysNothing
  PROVE  /\ UNCHANGED Lifecycle!vars
         /\ \A n : /\ Opened(n)' <=> Opened(n)
                   /\ Judged(n)' <=> Judged(n)
                   /\ Told(n)' <=> Told(n)
                   /\ Posted(n)' <=> Posted(n)
                   /\ n \in died' <=> n \in died
<1>1. {f \in ledger' : f.type = "REVIEW_STARTED"} = {f \in ledger : f.type = "REVIEW_STARTED"}
  BY DEF SaysNothing
<1>2. {f \in ledger' : f.type = "REVIEW_COMPLETED"} = {f \in ledger : f.type = "REVIEW_COMPLETED"}
  BY DEF SaysNothing
<1>3. opened' = opened /\ told' = told
  BY <1>1, <1>2 DEF opened, told
<1>4. rows' = rows
  BY DEF SaysNothing, rows
<1>5. UNCHANGED Lifecycle!vars
  BY <1>3, <1>4 DEF SaysNothing, Lifecycle!vars
<1>6. \A n : (Opened(n)' <=> Opened(n)) /\ (Told(n)' <=> Told(n))
  BY DEF SaysNothing, Opened, Told
<1>7. \A n : (Judged(n)' <=> Judged(n)) /\ (Posted(n)' <=> Posted(n)) /\ (n \in died' <=> n \in died)
  BY DEF SaysNothing, Judged, Posted
<1> QED BY <1>5, <1>6, <1>7

LEMMA NewRun ==
  ASSUME IInv, IInv', RunInv, NEW t \in Thread, (\E focus : StartReview(t, focus)) \/ StartTests(t)
  PROVE  RunInv' /\ UNCHANGED Lifecycle!vars
<1>1. PICK j \in Job : /\ job' = [job EXCEPT ![t] = j] /\ j.run = runs + 1
                       /\ runs' = runs + 1
                       /\ pc' = [pc EXCEPT ![t] = pc'[t]] /\ pc'[t] \in {"cache", "announce", "tested"}
  <2>1. /\ job' \in [Thread -> Job] /\ job \in [Thread -> Job]
        /\ pc \in [Thread -> {"idle", "cache", "announce", "conclude", "complete", "post", "tested", "store"}]
    BY DEF IInv, ReviewTypeOK
  <2>2. ASSUME NEW focus, StartReview(t, focus)
        PROVE  /\ job' = [job EXCEPT ![t] = job'[t]] /\ job'[t].run = runs + 1 /\ runs' = runs + 1
               /\ pc' = [pc EXCEPT ![t] = pc'[t]] /\ pc'[t] \in {"cache", "announce", "tested"}
    BY <2>1, <2>2 DEF StartReview, Goto, WithDiff
  <2>3. ASSUME StartTests(t)
        PROVE  /\ job' = [job EXCEPT ![t] = job'[t]] /\ job'[t].run = runs + 1 /\ runs' = runs + 1
               /\ pc' = [pc EXCEPT ![t] = pc'[t]] /\ pc'[t] \in {"cache", "announce", "tested"}
    BY <2>1, <2>3 DEF StartTests, Goto, NoJob
  <2> QED BY <2>1, <2>2, <2>3
<1>2. SaysNothing
  <2>1. ASSUME NEW focus, StartReview(t, focus) PROVE SaysNothing
    BY <2>1 DEF StartReview, storeVars, SaysNothing
  <2>2. ASSUME StartTests(t) PROVE SaysNothing
    BY <2>2 DEF StartTests, Emit, SaysNothing
  <2> QED BY <2>1, <2>2
<1>3. ReviewTypeOK /\ ReviewTypeOK' /\ runs \in Nat /\ runs + 1 \notin 1 .. runs /\ runs + 1 # None
  BY NoneIsApart DEF IInv, ReviewTypeOK
<1>4. \A n : /\ Opened(n)' <=> Opened(n)
             /\ Judged(n)' <=> Judged(n)
             /\ Told(n)' <=> Told(n)
             /\ Posted(n)' <=> Posted(n)
             /\ n \in died' <=> n \in died
  BY <1>2, <1>3, QuietStep
<1>5. /\ job'[t].run = runs + 1 /\ pc'[t] \in {"cache", "announce", "tested"}
      /\ \A u \in Thread \ {t} : pc'[u] = pc[u] /\ job'[u] = job[u]
  BY <1>1, <1>3 DEF ReviewTypeOK
<1>6. ~(Opened(runs + 1) \/ Judged(runs + 1) \/ Told(runs + 1) \/ Posted(runs + 1) \/ runs + 1 \in died)
  BY <1>3 DEF RunInv
<1>7. runs + 1 \in 1 .. runs'
  BY <1>1, <1>3
<1>8. RunOK(t)'
  BY <1>4, <1>5, <1>6, <1>7 DEF RunOK
<1> DEFINE r == runs + 1
<1>9. r = runs + 1 /\ r # None
  BY <1>3
<1> HIDE DEF r
<1>10. RunInv'
  BY <1>1, <1>3, <1>4, <1>5, <1>8, <1>9, RunKept
<1> QED BY <1>2, <1>3, <1>10, QuietStep

\* A step within a request, or its end: the run is the thread's own.
LEMMA OwnRun ==
  ASSUME IInv, IInv', RunInv, NEW t \in Thread, UNCHANGED <<runs>>,
         \A u \in Thread \ {t} : pc'[u] = pc[u] /\ job'[u] = job[u],
         job'[t].run \in {None, job[t].run},
         \A n : n # job[t].run \/ n = None =>
                  /\ Opened(n)' <=> Opened(n)
                  /\ Judged(n)' <=> Judged(n)
                  /\ Told(n)' <=> Told(n)
                  /\ Posted(n)' <=> Posted(n)
                  /\ n \in died' <=> n \in died,
         RunOK(t)'
  PROVE  RunInv'
<1> DEFINE r == job[t].run
<1>1. r = job[t].run /\ ReviewTypeOK /\ ReviewTypeOK'
  BY DEF IInv
<1> HIDE DEF r
<1> QED BY <1>1, RunKept

LEMMA QuietRun ==
  ASSUME IInv, IInv', RunInv, NEW t \in Thread,
         FetchDiff(t) \/ CacheDiff(t) \/ CompleteTests(t) \/ StoreTests(t)
  PROVE  RunInv' /\ UNCHANGED Lifecycle!vars
<1>1. ReviewTypeOK /\ RunOK(t)
  BY DEF IInv, RunInv
<1>2. CASE FetchDiff(t)
  <2>1. /\ SaysNothing /\ runs' = runs /\ job'[t].run = None
        /\ \A u \in Thread \ {t} : pc'[u] = pc[u] /\ job'[u] = job[u]
    BY <1>1, <1>2 DEF FetchDiff, storeVars, SaysNothing, Goto, NoJob, ReviewTypeOK
  <2> QED BY <1>1, <2>1, QuietStep, OwnRun DEF RunOK
<1>3. CASE CacheDiff(t)
  <2>1. /\ SaysNothing /\ runs' = runs /\ pc[t] = "cache"
        /\ job'[t].run = None \/ (job'[t].run = job[t].run /\ pc'[t] = "announce")
        /\ \A u \in Thread \ {t} : pc'[u] = pc[u] /\ job'[u] = job[u]
    BY <1>1, <1>3 DEF CacheDiff, storeVars, SaysNothing, Goto, NoJob, ReviewTypeOK
  <2>2. \A n : /\ Opened(n)' <=> Opened(n)
               /\ Judged(n)' <=> Judged(n)
               /\ Told(n)' <=> Told(n)
               /\ Posted(n)' <=> Posted(n)
               /\ n \in died' <=> n \in died
    BY <1>1, <2>1, QuietStep
  <2>3. RunOK(t)'
    BY <1>1, <2>1, <2>2 DEF RunOK
  <2> QED BY <1>1, <2>1, <2>2, <2>3, QuietStep, OwnRun
<1>4. CASE CompleteTests(t) \/ StoreTests(t)
  <2>1. SaysNothing
    BY <1>4 DEF CompleteTests, StoreTests, Emit, SaysNothing
  <2>2. /\ runs' = runs
        /\ job'[t].run = None \/ (job'[t].run = job[t].run /\ pc'[t] = "store")
        /\ \A u \in Thread \ {t} : pc'[u] = pc[u] /\ job'[u] = job[u]
    BY <1>1, <1>4 DEF CompleteTests, StoreTests, Goto, NoJob, ReviewTypeOK
  <2>3. \A n : /\ Opened(n)' <=> Opened(n)
               /\ Judged(n)' <=> Judged(n)
               /\ Told(n)' <=> Told(n)
               /\ Posted(n)' <=> Posted(n)
               /\ n \in died' <=> n \in died
    BY <1>1, <2>1, QuietStep
  <2>4. RunOK(t)'
    BY <1>1, <2>2, <2>3 DEF RunOK
  <2> QED BY <1>1, <2>1, <2>2, <2>3, <2>4, QuietStep, OwnRun
<1> QED BY <1>2, <1>3, <1>4

LEMMA AnnounceRun ==
  ASSUME IInv, IInv', RunInv, NEW t \in Thread, AnnounceReview(t)
  PROVE  RunInv' /\ Lifecycle!Next
<1> DEFINE r == job[t].run
           e == [type |-> "REVIEW_STARTED", run |-> r, verdict |-> None]
<1>1. /\ UNCHANGED <<reviews, posted, died, runs, job>> /\ pc[t] = "announce" /\ pc'[t] = "conclude"
      /\ ledger' = ledger \cup {e}
      /\ \A u \in Thread \ {t} : pc'[u] = pc[u] /\ job'[u] = job[u]
  BY DEF AnnounceReview, Emit, Goto, IInv, ReviewTypeOK
<1>2. ReviewTypeOK /\ ReviewTypeOK' /\ RunOK(t) /\ JobOK(t) /\ r \in RunId /\ r # None
  BY <1>1, NoneIsApart DEF IInv, RunInv, JobInv, JobOK, RunId
<1>3. ~Opened(r) /\ ~Judged(r) /\ ~Told(r) /\ ~Posted(r) /\ r \in 1 .. runs /\ r \notin died
  BY <1>1, <1>2 DEF RunOK
<1>4. \A n : Opened(n)' <=> Opened(n) \/ n = r
  <2>1. e.type = "REVIEW_STARTED" /\ e.run = r
    OBVIOUS
  <2> HIDE DEF e
  <2> QED BY <1>1, <2>1 DEF Opened
<1>5. \A n : (Judged(n)' <=> Judged(n)) /\ (Told(n)' <=> Told(n)) /\ (Posted(n)' <=> Posted(n))
  BY <1>1 DEF Judged, Told, Posted
<1>6. RunOK(t)'
  BY <1>1, <1>2, <1>3, <1>4, <1>5 DEF RunOK
<1>7. RunInv'
  BY <1>1, <1>2, <1>4, <1>5, <1>6, OwnRun
<1>8. opened' = opened \cup {r}
  BY <1>2, <1>4, RunsRead DEF opened, Opened
<1>9. told' = told /\ rows' = rows
  <2>1. {f \in ledger' : f.type = "REVIEW_COMPLETED"} = {f \in ledger : f.type = "REVIEW_COMPLETED"}
    BY <1>1
  <2> QED BY <1>1, <2>1 DEF told, rows
<1>10. r \notin opened
  BY <1>2, <1>3, RunsRead
<1>11. Lifecycle!Open(r)
  BY <1>1, <1>3, <1>8, <1>9, <1>10 DEF Lifecycle!Open
<1> QED BY <1>2, <1>7, <1>11 DEF Lifecycle!Next

LEMMA ConcludeRun ==
  ASSUME IInv, IInv', RunInv, NEW t \in Thread, Conclude(t)
  PROVE  RunInv' /\ Lifecycle!Next
<1> DEFINE r == job[t].run
           x == [run |-> r, of |-> job[t].of, head |-> head, findings |-> Findings(t),
                 risk |-> RiskAndVerdict(Findings(t)).risk, verdict |-> RunVerdict(t)]
<1>1. /\ UNCHANGED <<ledger, posted, died, runs, job>> /\ pc[t] = "conclude" /\ pc'[t] = "complete"
      /\ reviews' = Append(reviews, x)
      /\ \A u \in Thread \ {t} : pc'[u] = pc[u] /\ job'[u] = job[u]
  BY DEF Conclude, Goto, IInv, ReviewTypeOK, RunVerdict
<1>2. /\ ReviewTypeOK /\ ReviewTypeOK' /\ RunOK(t) /\ JobOK(t) /\ r \in RunId /\ r # None
      /\ RunVerdict(t) \in Verdict
  BY <1>1, NoneIsApart, VerdictTyped DEF IInv, RunInv, JobInv, JobOK, RunId, RunVerdict
<1>3. Opened(r) /\ ~Judged(r) /\ ~Told(r) /\ ~Posted(r) /\ r \in 1 .. runs /\ r \notin died
  BY <1>1, <1>2 DEF RunOK
<1>4. x \in Review
  <2>1. Len(reviews) + 1 \in DOMAIN reviews' /\ reviews'[Len(reviews) + 1] = x
    BY <1>1, <1>2 DEF ReviewTypeOK
  <2> HIDE DEF x
  <2> QED BY <1>2, <2>1 DEF ReviewTypeOK
<1>5. x.run = r /\ x.verdict = RunVerdict(t)
  OBVIOUS
<1>6. /\ rows' = Append(rows, [run |-> r, verdict |-> RunVerdict(t)])
      /\ \A n : Judged(n)' <=> Judged(n) \/ n = r
  <2> HIDE DEF x
  <2> QED BY <1>1, <1>2, <1>4, <1>5, RowsAppended
<1>7. \A n : (Opened(n)' <=> Opened(n)) /\ (Told(n)' <=> Told(n)) /\ (Posted(n)' <=> Posted(n))
  BY <1>1 DEF Opened, Told, Posted
<1>8. RunOK(t)'
  BY <1>1, <1>2, <1>3, <1>6, <1>7 DEF RunOK
<1>9. RunInv'
  BY <1>1, <1>2, <1>6, <1>7, <1>8, OwnRun
<1>10. opened' = opened /\ told' = told
  BY <1>1 DEF opened, told
<1>11. r \in opened /\ \A j \in Lifecycle!Rows : j.run # r
  BY <1>2, <1>3, RunsRead
<1>12. Lifecycle!Judge(r, RunVerdict(t))
  BY <1>1, <1>3, <1>6, <1>10, <1>11 DEF Lifecycle!Judge
<1> QED BY <1>2, <1>9, <1>12 DEF Lifecycle!Next

LEMMA CompleteRun ==
  ASSUME IInv, IInv', RunInv, NEW t \in Thread, CompleteReview(t)
  PROVE  RunInv' /\ Lifecycle!Next
<1> DEFINE r == job[t].run
           v == RunVerdict(t)
           e == [type |-> "REVIEW_COMPLETED", run |-> r, verdict |-> v]
           j == [run |-> r, verdict |-> v]
<1>1. /\ UNCHANGED <<reviews, posted, died, runs>> /\ pc[t] = "complete"
      /\ ledger' = ledger \cup {e}
      /\ (pc'[t] = "post" /\ job' = job) \/ job'[t].run = None
      /\ \A u \in Thread \ {t} : pc'[u] = pc[u] /\ job'[u] = job[u]
  BY DEF CompleteReview, Emit, Goto, NoJob, IInv, ReviewTypeOK, RunVerdict
<1>2. ReviewTypeOK /\ ReviewTypeOK' /\ RunOK(t) /\ r \in RunId /\ r # None /\ v \in Verdict
  BY <1>1, NoneIsApart, VerdictTyped DEF IInv, RunInv, JobInv, JobOK, RunId, RunVerdict
<1>3. ~Told(r) /\ ~Posted(r) /\ r \in 1 .. runs /\ r \notin died /\ Stored(r, v)
  BY <1>1, <1>2 DEF RunOK, IInv, StoryInv, StoryOK
<1>4. \A n : Told(n)' <=> Told(n) \/ n = r
  <2>1. e.type = "REVIEW_COMPLETED" /\ e.run = r
    OBVIOUS
  <2> HIDE DEF e
  <2> QED BY <1>1, <2>1 DEF Told
<1>5. \A n : (Judged(n)' <=> Judged(n)) /\ (Opened(n)' <=> Opened(n)) /\ (Posted(n)' <=> Posted(n))
  BY <1>1 DEF Judged, Opened, Posted
<1>6. RunOK(t)'
  BY <1>1, <1>2, <1>3, <1>4, <1>5 DEF RunOK
<1>7. RunInv'
  BY <1>1, <1>2, <1>4, <1>5, <1>6, OwnRun
<1>8. told' = told \cup {j}
  <2>1. {f \in ledger' : f.type = "REVIEW_COMPLETED"} = {f \in ledger : f.type = "REVIEW_COMPLETED"} \cup {e}
    BY <1>1
  <2>2. e.run = r /\ e.verdict = v
    OBVIOUS
  <2> HIDE DEF e, v
  <2> QED BY <2>1, <2>2 DEF told
<1>9. opened' = opened /\ rows' = rows
  <2>1. {f \in ledger' : f.type = "REVIEW_STARTED"} = {f \in ledger : f.type = "REVIEW_STARTED"}
    BY <1>1
  <2> QED BY <1>1, <2>1 DEF opened, rows
<1>10. j \in Lifecycle!Rows \ told /\ j.run = r
  <2> HIDE DEF v
  <2> QED BY <1>2, <1>3, RunsRead
<1>11. j \in [run : RunId, verdict : Verdict]
  BY <1>2
<1> HIDE DEF j
<1>12. Lifecycle!Tell(j)
  BY <1>1, <1>3, <1>8, <1>9, <1>10 DEF Lifecycle!Tell
<1> QED BY <1>7, <1>11, <1>12 DEF Lifecycle!Next

LEMMA PostRun ==
  ASSUME IInv, IInv', RunInv, NEW t \in Thread, PostReview(t)
  PROVE  RunInv' /\ [Lifecycle!Next]_(Lifecycle!vars)
<1> DEFINE r == job[t].run
           v == RunVerdict(t)
           j == [run |-> r, verdict |-> v]
<1>1. /\ UNCHANGED <<reviews, ledger, died, runs>> /\ pc[t] = "post"
      /\ posted' = posted \cup {j} \/ posted' = posted
      /\ job'[t].run = None
      /\ \A u \in Thread \ {t} : pc'[u] = pc[u] /\ job'[u] = job[u]
  BY DEF PostReview, Goto, NoJob, IInv, ReviewTypeOK, RunVerdict
<1>2. ReviewTypeOK /\ ReviewTypeOK' /\ RunOK(t) /\ r \in RunId /\ r # None /\ v \in Verdict
  BY <1>1, NoneIsApart, VerdictTyped DEF IInv, RunInv, JobInv, JobOK, RunId, RunVerdict
<1>3. ~Posted(r) /\ r \in 1 .. runs /\ r \notin died /\ CompletedWith(r, v)
  BY <1>1, <1>2 DEF RunOK, IInv, StoryInv, StoryOK
<1>4. \A n : n # r => (Posted(n)' <=> Posted(n))
  <2> HIDE DEF v
  <2> QED BY <1>1 DEF Posted
<1>5. \A n : (Judged(n)' <=> Judged(n)) /\ (Opened(n)' <=> Opened(n)) /\ (Told(n)' <=> Told(n))
  BY <1>1 DEF Judged, Opened, Told
<1>6. RunOK(t)'
  BY <1>1 DEF RunOK
<1>7. RunInv'
  BY <1>1, <1>2, <1>4, <1>5, <1>6, OwnRun
<1>8. opened' = opened /\ rows' = rows /\ told' = told
  BY <1>1 DEF opened, rows, told
<1>9. j \in told \ posted /\ j.run = r
  <2>1. j.run = r
    OBVIOUS
  <2>2. j \in told
    BY <1>2, <1>3, RunsRead
  <2> HIDE DEF j
  <2> QED BY <1>3, <2>1, <2>2 DEF Posted
<1>10. j \in [run : RunId, verdict : Verdict]
  BY <1>2
<1> HIDE DEF j
<1>11. CASE posted' = posted \cup {j}
  <2>1. Lifecycle!Post(j)
    BY <1>1, <1>3, <1>8, <1>9, <1>11 DEF Lifecycle!Post
  <2> QED BY <1>7, <1>10, <2>1 DEF Lifecycle!Next
<1>12. CASE posted' = posted
  BY <1>1, <1>7, <1>8, <1>12 DEF Lifecycle!vars
<1> QED BY <1>1, <1>11, <1>12

LEMMA DieRun ==
  ASSUME IInv, IInv', RunInv, NEW t \in Thread, Die(t)
  PROVE  RunInv' /\ Lifecycle!Next
<1> DEFINE r == job[t].run
<1>1. /\ UNCHANGED <<reviews, ledger, posted, runs>> /\ died' = died \cup {r} /\ r # None
      /\ job'[t].run = None
      /\ \A u \in Thread \ {t} : pc'[u] = pc[u] /\ job'[u] = job[u]
  BY DEF Die, Goto, NoJob, storeVars, IInv, ReviewTypeOK
<1>2. /\ ReviewTypeOK /\ ReviewTypeOK' /\ ~Posted(r) /\ r \notin died /\ r \in RunId
  BY <1>1 DEF IInv, RunInv, RunOK, ReviewTypeOK, Job, Run
<1>3. \A n : /\ Opened(n)' <=> Opened(n)
             /\ Judged(n)' <=> Judged(n)
             /\ Told(n)' <=> Told(n)
             /\ Posted(n)' <=> Posted(n)
  BY <1>1 DEF Judged, Opened, Told, Posted
<1>4. RunOK(t)'
  BY <1>1 DEF RunOK
<1>5. RunInv'
  BY <1>1, <1>2, <1>3, <1>4, OwnRun
<1>6. opened' = opened /\ rows' = rows /\ told' = told
  BY <1>1 DEF opened, rows, told
<1>7. Lifecycle!Break(r)
  BY <1>1, <1>2, <1>6 DEF Lifecycle!Break, Posted
<1> QED BY <1>2, <1>5, <1>7 DEF Lifecycle!Next

\* A step of nobody's.
LEMMA NobodysRun ==
  ASSUME ReviewTypeOK, RunInv, SaysNothing, UNCHANGED <<runs, pc, job>>
  PROVE  RunInv' /\ UNCHANGED Lifecycle!vars
BY QuietStep DEF RunInv, RunOK

\* execute_review keeps the promises of ReviewLifecycle for every number of
\* threads, commits, runs and deaths.
THEOREM ImplementsReviewLifecycle == Spec => ReviewSpec
<1>1. Init => RunInv /\ Lifecycle!Init
  BY DEF Init, RunInv, RunOK, Opened, Judged, Told, Posted, NoJob, Lifecycle!Init, opened, rows, told
<1>2. IInv /\ IInv' /\ RunInv /\ [Next]_vars => RunInv' /\ [Lifecycle!Next]_(Lifecycle!vars)
  <2> SUFFICES ASSUME IInv, IInv', RunInv, [Next]_vars
               PROVE  RunInv' /\ [Lifecycle!Next]_(Lifecycle!vars)
    OBVIOUS
  <2>0. ReviewTypeOK
    BY DEF IInv
  <2>1. ASSUME NEW c \in Change, Push(c) PROVE SaysNothing /\ UNCHANGED <<runs, pc, job>>
    BY <2>1 DEF Push, storeVars, SaysNothing
  <2>2. ASSUME SaveHead \/ UNCHANGED vars PROVE SaysNothing /\ UNCHANGED <<runs, pc, job>>
    BY <2>2 DEF SaveHead, storeVars, SaysNothing, vars
  <2>3. ASSUME NEW t \in Thread, NEW i, EvaluateGate(t, i) PROVE SaysNothing /\ UNCHANGED <<runs, pc, job>>
    BY <2>3 DEF EvaluateGate, SaysNothing
  <2>4. ASSUME NEW t \in Thread, NEW focus, StartReview(t, focus)
        PROVE  RunInv' /\ [Lifecycle!Next]_(Lifecycle!vars)
    BY <2>4, NewRun
  <2>5. ASSUME NEW t \in Thread, StartTests(t) \/ FetchDiff(t) \/ Die(t) \/ RunStep(t)
        PROVE  RunInv' /\ [Lifecycle!Next]_(Lifecycle!vars)
    BY <2>5, NewRun, QuietRun, DieRun, AnnounceRun, ConcludeRun, CompleteRun, PostRun DEF RunStep
  <2> QED BY <2>0, <2>1, <2>2, <2>3, <2>4, <2>5, NobodysRun DEF Next
<1> QED BY <1>1, <1>2, Invariance, PTL DEF Spec, ReviewSpec, Lifecycle!Spec

=============================================================================
