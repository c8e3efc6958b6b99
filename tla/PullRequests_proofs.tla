------------------------- MODULE PullRequests_proofs -------------------------
(* Proofs about PullRequests, for every number of workers, threads, changes *)
(* and redeliveries.                                                         *)
EXTENDS PullRequests, TLAPS

Labels == {"idle", "record", "load", "save", "announce", "mark"}

-----------------------------------------------------------------------------
(* The inductive invariant *)

\* A commit is not newer than the change that shows it.
GithubInv == \A i \in 1 .. Newest : github[i].head <= i

\* Workers handle deliveries of changes there are, threads all the rest.
ProcOK(p) ==
  /\ p \in Ingest => /\ job[p].from = "webhook"
                     /\ pc[p] # "idle" => job[p].of \in 1 .. Newest
  /\ p \in Client => /\ pc[p] \in {"idle", "load", "save", "announce"}
                     /\ pc[p] # "idle" => /\ job[p].from # "webhook"
                                          /\ job[p].from = "baseline" \/ job[p].of \in 1 .. Newest
ProcInv == \A p \in Process : ProcOK(p)

\* p has recorded delivery d and is not done with it.
Holds(p, d) == pc[p] \notin {"idle", "record"} /\ job[p].of = d

\* Of a delivery at most one worker is in charge; it is recorded, and has been
\* announced if the worker is past that point.
DeliveryOK(d) ==
  /\ log[d] # "absent" => d <= Newest
  /\ log[d] = "absent" => events[d] = 0
  /\ events[d] <= 1
  /\ log[d] = "processed" => events[d] = IF Announces(d) THEN 1 ELSE 0
  /\ \A p \in Ingest : Holds(p, d) =>
       log[d] = "logged" /\ events[d] = IF pc[p] = "mark" /\ Announces(d) THEN 1 ELSE 0
  /\ \A p, q \in Ingest : Holds(p, d) /\ Holds(q, d) => p = q
  /\ log[d] = "logged" => d \in interrupted \/ \E p \in Ingest : Holds(p, d)
DeliveryInv == \A d \in Delivery : DeliveryOK(d)

\* What the row was last saved from is a change there is.
LastInv == last # NoJob => last.from = "baseline" \/ last.of \in 1 .. Newest

\* A row that a session has loaded is there.
ViewInv == \A p \in Process : view[p] # NoRow => row # NoRow

IInv == PullTypeOK /\ GithubInv /\ ProcInv /\ DeliveryInv /\ LastInv /\ ViewInv /\ RowIsLastPayload

-----------------------------------------------------------------------------
(* What the steps have in common *)

\* GitHub's history only grows.
Kept == Newest' >= Newest /\ \A i \in 1 .. Newest : github'[i] = github[i]

LEMMA NewestNat == ASSUME PullTypeOK PROVE Newest \in Nat
BY DEF PullTypeOK, Newest

LEMMA ProcKept ==
  ASSUME IInv, Kept, Newest' \in Nat, NEW p \in Process, pc'[p] = pc[p], job'[p] = job[p]
  PROVE  ProcOK(p)'
<1>1. ProcOK(p) /\ Newest \in Nat
  BY NewestNat DEF IInv, ProcInv
<1>2. \A n : n \in 1 .. Newest => n \in 1 .. Newest'
  BY <1>1 DEF Kept
<1> QED BY <1>1, <1>2 DEF ProcOK

\* A step that neither records, announces nor marks a delivery, and ends no
\* handler silently.
LEMMA DeliveriesKept ==
  ASSUME IInv, Kept, Newest' \in Nat, UNCHANGED <<log, events>>, interrupted \subseteq interrupted',
         \A p \in Ingest, d \in Delivery :
           /\ Holds(p, d)' => Holds(p, d) /\ (pc'[p] = "mark" <=> pc[p] = "mark")
           /\ Holds(p, d) => Holds(p, d)' \/ d \in interrupted'
  PROVE  DeliveryInv'
<1> SUFFICES ASSUME NEW d \in Delivery PROVE DeliveryOK(d)'
  BY DEF DeliveryInv
<1>1. DeliveryOK(d) /\ Newest \in Nat /\ d \in Nat \ {0}
  BY NewestNat, Bounds DEF IInv, DeliveryInv, Delivery
<1>2. Newest' \in Nat => (d <= Newest => d <= Newest')
  BY <1>1 DEF Kept
<1>3. log[d] # "absent" => (Announces(d)' <=> Announces(d))
  BY <1>1 DEF DeliveryOK, Kept, Announces
<1> QED BY <1>1, <1>2, <1>3 DEF DeliveryOK

LEMMA RowKept ==
  ASSUME IInv, Kept, Newest' \in Nat, UNCHANGED <<row, last>>,
         \A p \in Process : view'[p] \in {view[p], row, NoRow}
  PROVE  LastInv' /\ ViewInv' /\ RowIsLastPayload'
<1>1. Newest \in Nat
  BY NewestNat DEF IInv
<1>2. LastInv'
  BY <1>1 DEF IInv, LastInv, Kept
<1>3. last # NoJob /\ last.from # "baseline" => github'[last.of] = github[last.of]
  BY DEF IInv, LastInv, Kept
<1>4. RowIsLastPayload'
  BY <1>3 DEF IInv, RowIsLastPayload
<1>5. ViewInv'
  BY DEF IInv, ViewInv
<1> QED BY <1>2, <1>4, <1>5

-----------------------------------------------------------------------------
(* The steps *)

LEMMA BecomesStep ==
  ASSUME IInv, NEW h \in Nat, NEW s \in PRState, NEW a \in {"opened", "synchronize", "closed", "reopened"},
         h <= Newest + 1, Becomes(h, s, a)
  PROVE  IInv'
<1> USE DEF IInv
<1> DEFINE v == [head |-> h, state |-> s, action |-> a]
<1>1. /\ Newest < MaxVersions /\ github' = Append(github, v)
      /\ UNCHANGED <<row, events, pc, job, view, last, deaths, log, sent, resends, interrupted>>
  BY DEF Becomes, deliveryVars
<1>2. Newest \in Nat
  BY NewestNat
<1>3. v \in Version /\ v.head <= Newest + 1
  BY <1>1, <1>2, Bounds DEF Version, HeadSha
<1> HIDE DEF v
<1>4. /\ github' \in Seq(Version) /\ Newest' = Newest + 1 /\ github'[Newest + 1] = v
      /\ \A i \in 1 .. Newest : github'[i] = github[i]
  BY <1>1, <1>3 DEF PullTypeOK, Newest
<1>5. Kept /\ Newest' \in Nat
  BY <1>2, <1>4 DEF Kept
<1>6. PullTypeOK'
  BY <1>1, <1>2, <1>4, Bounds DEF PullTypeOK
<1>7. GithubInv'
  BY <1>2, <1>3, <1>4 DEF GithubInv
<1>8. ProcInv'
  BY <1>1, <1>5, ProcKept DEF ProcInv
<1>9. DeliveryInv'
  BY <1>1, <1>5, DeliveriesKept DEF Holds
<1> QED BY <1>1, <1>5, <1>6, <1>7, <1>8, <1>9, RowKept

LEMMA GitHubStepKeeps == ASSUME IInv, GitHubStep PROVE IInv'
<1>1. Newest \in Nat /\ github \in Seq(Version)
  BY NewestNat DEF IInv, PullTypeOK
<1>2. CASE github = <<>>
  <2>1. Newest = 0
    BY <1>2 DEF Newest
  <2> QED BY <1>2, <2>1, BecomesStep DEF GitHubStep, OpenPull, PushPull, ClosePull, ReopenPull, PRState
<1>3. CASE github # <<>>
  <2>1. Newest \in 1 .. Newest /\ github[Newest] \in Version
    BY <1>1, <1>3 DEF Newest
  <2>2. github[Newest].head \in Nat /\ github[Newest].head <= Newest
    BY <2>1, Bounds DEF IInv, GithubInv, Version, HeadSha
  <2>3. /\ github[Newest].head + 1 \in Nat /\ github[Newest].head + 1 <= Newest + 1
        /\ github[Newest].head <= Newest + 1
    BY <1>1, <2>2
  <2> QED BY <1>3, <2>2, <2>3, BecomesStep DEF GitHubStep, OpenPull, PushPull, ClosePull, ReopenPull, PRState
<1> QED BY <1>2, <1>3

LEMMA GithubKept ==
  ASSUME IInv, UNCHANGED github
  PROVE  Kept /\ Newest' \in Nat /\ Newest' = Newest /\ GithubInv'
BY NewestNat DEF IInv, Kept, Newest, GithubInv

\* The others, when one process moves.
LEMMA OthersKept ==
  ASSUME IInv, UNCHANGED github, NEW p \in Process, ProcOK(p)',
         \A q \in Process \ {p} : pc'[q] = pc[q] /\ job'[q] = job[q]
  PROVE  ProcInv'
<1>1. \A q \in Process \ {p} : ProcOK(q)'
  BY GithubKept, ProcKept
<1> QED BY <1>1 DEF ProcInv

LEMMA ReceiveStep ==
  ASSUME IInv, NEW p \in Ingest, NEW d \in Delivery, Receive(p, d)
  PROVE  IInv'
<1> USE DEF IInv
<1>1. /\ UNCHANGED <<github, row, log, events, view, last, interrupted, deaths>>
      /\ pc[p] = "idle" /\ d <= Newest
      /\ sent' \subseteq Delivery /\ resends' \in 0 .. MaxResends
  BY Bounds DEF Receive, PullTypeOK
<1>2. p \in Process /\ d \in 1 .. Newest /\ [from |-> "webhook", of |-> d] \in Job
  BY <1>1, NewestNat DEF Process, Delivery, Job, Source
<1>3. CASE UNCHANGED <<pc, job>>
  <2>1. PullTypeOK' /\ ProcInv' /\ DeliveryInv'
    BY <1>1, <1>3, ProcKept, DeliveriesKept, GithubKept DEF PullTypeOK, ProcInv, Holds
  <2> QED BY <1>1, <2>1, GithubKept, RowKept
<1>4. CASE Goto(p, "record") /\ job' = [job EXCEPT ![p] = [from |-> "webhook", of |-> d]]
  <2>1. /\ pc'[p] = "record" /\ job'[p].from = "webhook" /\ job'[p].of = d
        /\ pc' \in [Process -> Labels] /\ job' \in [Process -> Job]
        /\ \A q \in Process \ {p} : pc'[q] = pc[q] /\ job'[q] = job[q]
    BY <1>2, <1>4 DEF Goto, PullTypeOK, Labels
  <2>2. PullTypeOK'
    BY GithubKept, <1>1, <2>1 DEF PullTypeOK, Labels
  <2>3. ProcOK(p)'
    BY <1>1, <1>2, <2>1, ProcessesDistinct, GithubKept DEF ProcOK
  <2>4. DeliveryInv'
    BY <1>1, <2>1, DeliveriesKept, GithubKept DEF Holds, Process
  <2> QED BY <1>1, <1>2, <2>1, <2>2, <2>3, <2>4, OthersKept, GithubKept, RowKept
<1> QED BY <1>3, <1>4 DEF Receive

\* The end of a handler's work.
LEMMA IdleTyped ==
  ASSUME PullTypeOK, NEW p \in Process, Goto(p, "idle"), job' = [job EXCEPT ![p] = NoJob]
  PROVE  /\ pc' \in [Process -> Labels] /\ job' \in [Process -> Job]
         /\ pc'[p] = "idle" /\ job'[p] = NoJob /\ ProcOK(p)'
         /\ \A q \in Process \ {p} : pc'[q] = pc[q] /\ job'[q] = job[q]
<1>1. NoJob \in Job
  BY Bounds DEF NoJob, Job, Source
<1>2. /\ pc' \in [Process -> Labels] /\ job' \in [Process -> Job]
      /\ pc'[p] = "idle" /\ job'[p] = NoJob
      /\ \A q \in Process \ {p} : pc'[q] = pc[q] /\ job'[q] = job[q]
  BY <1>1 DEF Goto, PullTypeOK, Labels
<1>3. ProcOK(p)'
  BY <1>2 DEF ProcOK, NoJob
<1> QED BY <1>2, <1>3

LEMMA GotoTyped ==
  ASSUME PullTypeOK, NEW p \in Process, NEW label \in Labels, Goto(p, label), UNCHANGED job
  PROVE  /\ pc' \in [Process -> Labels] /\ job' \in [Process -> Job]
         /\ pc'[p] = label /\ job'[p] = job[p]
         /\ \A q \in Process \ {p} : pc'[q] = pc[q] /\ job'[q] = job[q]
BY DEF Goto, PullTypeOK, Labels

LEMMA RecordStep == ASSUME IInv, NEW p \in Ingest, Record(p) PROVE IInv'
<1> USE DEF IInv
<1> DEFINE d == job[p].of
<1>1. /\ UNCHANGED <<github, row, events, sent, resends, view, last, interrupted, deaths>>
      /\ pc[p] = "record" /\ p \in Process
  BY DEF Record, Process
<1>2. ProcOK(p) /\ job[p].from = "webhook" /\ d \in 1 .. Newest /\ d \in Delivery /\ Newest \in Nat
  BY <1>1, NewestNat, Bounds DEF ProcInv, ProcOK, Delivery, PullTypeOK
<1>3. CASE log[d] # "absent"
  <2>1. Goto(p, "idle") /\ job' = [job EXCEPT ![p] = NoJob] /\ UNCHANGED log
    BY <1>3 DEF Record
  <2>2. PullTypeOK'
    BY GithubKept, <1>1, <2>1, IdleTyped DEF PullTypeOK, Labels
  <2>3. DeliveryInv'
    BY <1>1, <2>1, IdleTyped, DeliveriesKept, GithubKept DEF Holds, Process
  <2> QED BY <1>1, <2>1, <2>2, <2>3, IdleTyped, OthersKept, GithubKept, RowKept
<1>4. CASE log[d] = "absent"
  <2>1. Goto(p, "load") /\ UNCHANGED job /\ log' = [log EXCEPT ![d] = "logged"]
    BY <1>4 DEF Record
  <2>2. /\ pc'[p] = "load" /\ job'[p] = job[p] /\ pc' \in [Process -> Labels]
        /\ \A q \in Process \ {p} : pc'[q] = pc[q] /\ job'[q] = job[q]
    BY <1>1, <2>1, GotoTyped DEF Labels
  <2>3. PullTypeOK'
    BY GithubKept, <1>1, <2>1, <2>2 DEF PullTypeOK, Labels
  <2>4. ProcOK(p)'
    BY <1>1, <1>2, <2>2, ProcessesDistinct, GithubKept DEF ProcOK
  <2>5. DeliveryInv'
    <3> SUFFICES ASSUME NEW c \in Delivery PROVE DeliveryOK(c)'
      BY DEF DeliveryInv
    <3>1. DeliveryOK(c) /\ Newest' = Newest /\ (Announces(c)' <=> Announces(c))
      BY <1>1, GithubKept DEF DeliveryInv, Announces
    <3>2. CASE c = d
      <4>1. \A q \in Ingest : ~Holds(q, c)
        BY <1>4, <3>1, <3>2 DEF DeliveryOK
      <4>2. log'[c] = "logged" /\ events'[c] = 0 /\ c <= Newest
        BY <1>1, <1>2, <1>4, <2>1, <3>1, <3>2 DEF DeliveryOK, PullTypeOK
      <4>3. Holds(p, c)' /\ \A q \in Ingest : Holds(q, c)' => q = p
        BY <2>2, <3>2, <4>1 DEF Holds, Process
      <4> QED BY <2>2, <3>1, <4>2, <4>3 DEF DeliveryOK
    <3>3. CASE c # d
      <4>1. log'[c] = log[c] /\ events'[c] = events[c]
        BY <1>1, <1>2, <2>1, <3>3 DEF PullTypeOK
      <4>2. \A q \in Ingest : (Holds(q, c)' <=> Holds(q, c)) /\ (Holds(q, c)' => pc'[q] = pc[q])
        BY <1>1, <2>2, <3>3 DEF Holds, Process
      <4> QED BY <1>1, <3>1, <4>1, <4>2 DEF DeliveryOK
    <3> QED BY <3>2, <3>3
  <2> QED BY <1>1, <2>2, <2>3, <2>4, <2>5, OthersKept, GithubKept, RowKept
<1> QED BY <1>3, <1>4

LEMMA LoadStep == ASSUME IInv, NEW p \in Process, LoadPull(p) PROVE IInv'
<1> USE DEF IInv
<1>1. /\ UNCHANGED <<github, row, events, job, last, deaths, log, sent, resends, interrupted>>
      /\ pc[p] = "load" /\ Goto(p, "save") /\ view' = [view EXCEPT ![p] = row]
  BY DEF LoadPull, deliveryVars
<1>2. /\ pc'[p] = "save" /\ job'[p] = job[p] /\ pc' \in [Process -> Labels]
      /\ \A q \in Process \ {p} : pc'[q] = pc[q] /\ job'[q] = job[q]
  BY <1>1, GotoTyped DEF Labels
<1>3. PullTypeOK'
  BY GithubKept, <1>1, <1>2 DEF PullTypeOK, Labels
<1>4. ProcOK(p)'
  BY <1>1, <1>2, GithubKept DEF ProcOK, ProcInv
<1>5. DeliveryInv'
  BY <1>1, <1>2, DeliveriesKept, GithubKept DEF Holds, Process
<1> QED BY <1>1, <1>2, <1>3, <1>4, <1>5, OthersKept, GithubKept, RowKept


\* What the row becomes when no other save came in between.
LEMMA PayloadTyped ==
  ASSUME IInv, NEW j \in Job, j.from = "baseline" \/ j.of \in 1 .. Newest
  PROVE  /\ Payload(j) \in Row
         /\ Payload(j).head = (IF j.from = "baseline" THEN Baseline ELSE github[j.of].head)
         /\ j.from = "baseline" => Payload(j).state = "OPEN"
         /\ j.from # "baseline" => (Payload(j).state = "OPEN" <=> github[j.of].state = "OPEN")
         /\ j.from \in {"webhook", "pull"} => Payload(j).state = github[j.of].state
<1>1. Baseline \in HeadSha
  BY Bounds DEF Baseline, HeadSha
<1>2. j.from # "baseline" => github[j.of] \in Version
  BY DEF IInv, PullTypeOK, Newest
<1>3. j.from \in Source
  BY DEF Job
<1> QED BY <1>1, <1>2, <1>3 DEF Payload, Row, Version, PRState, Source

LEMMA UpdatedRow ==
  ASSUME NEW loaded, NEW data \in Row, row \in Row
  PROVE  /\ Updated(loaded, data) \in Row
         /\ loaded = row => Updated(loaded, data) = data
BY DEF Updated, Row

LEMMA SaveStep == ASSUME IInv, NEW p \in Process, SavePull(p) PROVE IInv'
<1> USE DEF IInv
<1> DEFINE data == Payload(job[p])
<1>1. /\ UNCHANGED <<github, log, events, sent, resends, deaths>> /\ pc[p] = "save"
      /\ view' = [view EXCEPT ![p] = NoRow]
  BY DEF SavePull
<1>2. /\ job[p] \in Job /\ ProcOK(p) /\ job[p] # NoJob
      /\ job[p].from = "baseline" \/ job[p].of \in 1 .. Newest
  <2>1. job[p] \in Job /\ ProcOK(p)
    BY DEF PullTypeOK, ProcInv
  <2> QED BY <1>1, <2>1, NewestNat DEF ProcOK, Process, NoJob
<1>3. p \in Ingest <=> job[p].from = "webhook"
  BY <1>1, <1>2, ProcessesDistinct DEF ProcOK, Process
<1>4. /\ view' \in [Process -> Row \cup {NoRow}]
      /\ \A q \in Process : view'[q] \in {view[q], row, NoRow}
  BY <1>1 DEF PullTypeOK
<1>5. CASE view[p] = NoRow /\ row # NoRow
  <2>1. /\ Goto(p, "idle") /\ job' = [job EXCEPT ![p] = NoJob] /\ UNCHANGED <<row, last>>
        /\ interrupted' = IF job[p].from = "webhook" THEN interrupted \cup {job[p].of} ELSE interrupted
    BY <1>5 DEF SavePull
  <2>2. interrupted' \subseteq Delivery
    <3>1. job[p].from = "webhook" => job[p].of \in Delivery
      BY <1>2, NewestNat, Bounds DEF PullTypeOK, Delivery
    <3> QED BY <2>1, <3>1 DEF PullTypeOK
  <2>3. PullTypeOK'
    BY <1>1, <1>4, <2>1, <2>2, IdleTyped, GithubKept DEF PullTypeOK, Labels
  <2>4. DeliveryInv'
    <3>1. \A q \in Ingest, d \in Delivery :
            /\ Holds(q, d)' => Holds(q, d) /\ (pc'[q] = "mark" <=> pc[q] = "mark")
            /\ Holds(q, d) => Holds(q, d)' \/ d \in interrupted'
      BY <1>1, <1>3, <2>1, IdleTyped DEF Holds, Process
    <3> QED BY <1>1, <2>1, <3>1, DeliveriesKept, GithubKept
  <2> QED BY <1>1, <1>4, <2>1, <2>3, <2>4, IdleTyped, OthersKept, GithubKept, RowKept
<1>6. CASE ~(view[p] = NoRow /\ row # NoRow)
  <2>1. /\ row' = IF view[p] = NoRow THEN data ELSE Updated(view[p], data)
        /\ last' = IF view[p] = row THEN job[p] ELSE NoJob
        /\ IF job[p].from = "pull"
           THEN Goto(p, "idle") /\ job' = [job EXCEPT ![p] = NoJob]
           ELSE Goto(p, "announce") /\ UNCHANGED job
        /\ UNCHANGED interrupted
    BY <1>6 DEF SavePull
  <2>2. /\ pc' \in [Process -> Labels] /\ job' \in [Process -> Job]
        /\ \A q \in Process \ {p} : pc'[q] = pc[q] /\ job'[q] = job[q]
        /\ pc'[p] \in {"idle", "announce"} /\ (job[p].from # "pull" => pc'[p] = "announce" /\ job'[p] = job[p])
        /\ (pc'[p] = "announce" => job'[p] = job[p])
    BY <2>1, IdleTyped, GotoTyped DEF Labels
  <2>3. ProcOK(p)'
    <3>1. CASE job[p].from = "pull"
      BY <2>1, <3>1, IdleTyped
    <3>2. CASE job[p].from # "pull"
      BY <1>1, <1>2, <2>2, <3>2, GithubKept DEF ProcOK
    <3> QED BY <3>1, <3>2
  <2>4. data \in Row
    BY <1>2, PayloadTyped
  <2>5. row' \in Row /\ (last' # NoJob => row' = data /\ last' = job[p])
    <3> HIDE DEF data
    <3>0. last' # NoJob => view[p] = row /\ last' = job[p]
      BY <2>1
    <3>1. CASE view[p] = NoRow
      BY <1>6, <2>1, <2>4, <3>0, <3>1
    <3>2. CASE view[p] # NoRow
      <4>1. CASE row \in Row
        BY <2>1, <2>4, <3>0, <3>2, <4>1, UpdatedRow
      <4>2. row \in Row
        BY <3>2 DEF PullTypeOK, ViewInv
      <4> QED BY <4>1, <4>2
    <3> QED BY <3>1, <3>2
  <2>6. PullTypeOK'
    <3>1. last' \in Job
      BY <1>2, <2>1, Bounds DEF NoJob, Job, Source
    <3> QED BY <1>1, <1>4, <2>1, <2>2, <2>5, <3>1, GithubKept DEF PullTypeOK, Labels
  <2>7. DeliveryInv'
    <3>1. \A q \in Ingest, d \in Delivery :
            /\ Holds(q, d)' => Holds(q, d) /\ (pc'[q] = "mark" <=> pc[q] = "mark")
            /\ Holds(q, d) => Holds(q, d)' \/ d \in interrupted'
      BY <1>1, <1>3, <2>1, <2>2 DEF Holds, Process
    <3> QED BY <1>1, <2>1, <3>1, DeliveriesKept, GithubKept
  <2>8. ViewInv'
    BY <2>5 DEF ViewInv, Row, NoRow, HeadSha
  <2>9. LastInv' /\ RowIsLastPayload'
    <3> SUFFICES ASSUME last' # NoJob PROVE LastInv' /\ RowIsLastPayload'
      BY DEF LastInv, RowIsLastPayload
    <3>1. last' = job[p] /\ row' = data
      BY <2>5
    <3>2. LastInv'
      BY <1>1, <1>2, <3>1, GithubKept DEF LastInv
    <3>3. RowIsLastPayload'
      BY <1>1, <1>2, <3>1, PayloadTyped DEF RowIsLastPayload, Job, Source
    <3> QED BY <3>2, <3>3
  <2> QED BY <1>1, <2>2, <2>3, <2>6, <2>7, <2>8, <2>9, OthersKept, GithubKept
<1> QED BY <1>5, <1>6


LEMMA AnnounceStep == ASSUME IInv, NEW p \in Process, AnnouncePull(p) PROVE IInv'
<1> USE DEF IInv
<1> DEFINE d == job[p].of
<1>1. /\ UNCHANGED <<github, row, view, last, deaths, log, sent, resends, interrupted>> /\ pc[p] = "announce"
  BY DEF AnnouncePull, deliveryVars
<1>2. ProcOK(p) /\ (p \in Ingest <=> job[p].from = "webhook")
  BY <1>1, ProcessesDistinct DEF ProcInv, ProcOK, Process
<1>3. CASE p \notin Ingest
  <2>1. Goto(p, "idle") /\ job' = [job EXCEPT ![p] = NoJob] /\ UNCHANGED events
    BY <1>2, <1>3 DEF AnnouncePull
  <2>2. PullTypeOK'
    BY <1>1, <2>1, IdleTyped, GithubKept DEF PullTypeOK, Labels
  <2>3. \A q \in Ingest, c \in Delivery :
            /\ Holds(q, c)' => Holds(q, c) /\ (pc'[q] = "mark" <=> pc[q] = "mark")
            /\ Holds(q, c) => Holds(q, c)' \/ c \in interrupted'
    BY <1>1, <1>3, <2>1, IdleTyped DEF Holds, Process
  <2>4. DeliveryInv'
    BY <1>1, <2>1, <2>3, DeliveriesKept, GithubKept
  <2> QED BY <1>1, <2>1, <2>2, <2>4, IdleTyped, OthersKept, GithubKept, RowKept
<1>4. CASE p \in Ingest
  <2>1. /\ events' = IF Announces(d) THEN [events EXCEPT ![d] = @ + 1] ELSE events
        /\ Goto(p, "mark") /\ UNCHANGED job
    BY <1>2, <1>4 DEF AnnouncePull, Announces
  <2>2. d \in 1 .. Newest /\ d \in Delivery
    BY <1>1, <1>2, <1>4, NewestNat, Bounds DEF ProcOK, Delivery, PullTypeOK
  <2>3. /\ pc'[p] = "mark" /\ job'[p] = job[p] /\ pc' \in [Process -> Labels]
        /\ \A q \in Process \ {p} : pc'[q] = pc[q] /\ job'[q] = job[q]
    BY <2>1, GotoTyped DEF Labels
  <2>4. PullTypeOK'
    <3>1. events' \in [Delivery -> Nat]
      BY <2>1, <2>2 DEF PullTypeOK
    <3> QED BY <1>1, <2>1, <2>3, <3>1, GithubKept DEF PullTypeOK, Labels
  <2>5. ProcOK(p)'
    BY <1>1, <1>2, <1>4, <2>2, <2>3, ProcessesDistinct, GithubKept DEF ProcOK
  <2>6. \A q \in Ingest, c \in Delivery : Holds(q, c)' <=> Holds(q, c)
    BY <1>1, <2>3 DEF Holds, Process
  <2>7. DeliveryInv'
    <3> SUFFICES ASSUME NEW c \in Delivery PROVE DeliveryOK(c)'
      BY DEF DeliveryInv
    <3>1. DeliveryOK(c) /\ Newest' = Newest /\ (Announces(c)' <=> Announces(c))
      BY <1>1, GithubKept DEF DeliveryInv, Announces
    <3>2. CASE c = d
      <4>1. Holds(p, c) /\ \A q \in Ingest : Holds(q, c) => q = p
        BY <1>1, <1>4, <3>1, <3>2 DEF Holds, DeliveryOK
      <4>2. log[c] = "logged" /\ events[c] = 0
        BY <1>1, <1>4, <3>1, <4>1 DEF DeliveryOK
      <4>3. events'[c] = IF Announces(c) THEN 1 ELSE 0
        BY <2>1, <2>2, <3>2, <4>2 DEF PullTypeOK
      <4> QED BY <1>1, <1>4, <2>3, <2>6, <3>1, <4>1, <4>2, <4>3 DEF DeliveryOK
    <3>3. CASE c # d
      <4>1. events'[c] = events[c]
        BY <2>1, <2>2, <3>3 DEF PullTypeOK
      <4>2. \A q \in Ingest : Holds(q, c) => q # p /\ pc'[q] = pc[q]
        BY <2>3, <3>3 DEF Holds, Process
      <4> QED BY <1>1, <2>6, <3>1, <4>1, <4>2 DEF DeliveryOK
    <3> QED BY <3>2, <3>3
  <2> QED BY <1>1, <2>3, <2>4, <2>5, <2>7, OthersKept, GithubKept, RowKept
<1> QED BY <1>3, <1>4

LEMMA MarkStep == ASSUME IInv, NEW p \in Ingest, MarkProcessed(p) PROVE IInv'
<1> USE DEF IInv
<1> DEFINE d == job[p].of
<1>1. /\ UNCHANGED <<github, row, events, sent, resends, view, last, interrupted, deaths>>
      /\ pc[p] = "mark" /\ p \in Process
      /\ log' = [log EXCEPT ![d] = "processed"]
      /\ Goto(p, "idle") /\ job' = [job EXCEPT ![p] = NoJob]
  BY DEF MarkProcessed, Process
<1>2. ProcOK(p) /\ d \in 1 .. Newest /\ d \in Delivery
  BY <1>1, NewestNat, Bounds DEF ProcInv, ProcOK, Delivery, PullTypeOK
<1>3. PullTypeOK'
  BY <1>1, IdleTyped, GithubKept DEF PullTypeOK, Labels
<1>4. DeliveryInv'
  <2> SUFFICES ASSUME NEW c \in Delivery PROVE DeliveryOK(c)'
    BY DEF DeliveryInv
  <2>1. DeliveryOK(c) /\ Newest' = Newest /\ (Announces(c)' <=> Announces(c))
    BY <1>1, GithubKept DEF DeliveryInv, Announces
  <2>2. CASE c = d
    <3>1. Holds(p, c) /\ \A q \in Ingest : Holds(q, c) => q = p
      BY <1>1, <2>1, <2>2 DEF Holds, DeliveryOK
    <3>2. log'[c] = "processed" /\ log[c] = "logged" /\ events'[c] = IF Announces(c) THEN 1 ELSE 0
      BY <1>1, <1>2, <2>1, <2>2, <3>1 DEF DeliveryOK, PullTypeOK
    <3>3. \A q \in Ingest : ~Holds(q, c)'
      BY <1>1, <3>1, IdleTyped DEF Holds, Process
    <3> QED BY <2>1, <3>2, <3>3 DEF DeliveryOK
  <2>3. CASE c # d
    <3>1. log'[c] = log[c] /\ events'[c] = events[c]
      BY <1>1, <1>2, <2>3 DEF PullTypeOK
    <3>2. \A q \in Ingest : (Holds(q, c)' <=> Holds(q, c)) /\ (Holds(q, c) => pc'[q] = pc[q])
      BY <1>1, <2>3, IdleTyped DEF Holds, Process
    <3> QED BY <1>1, <2>1, <3>1, <3>2 DEF DeliveryOK
  <2> QED BY <2>2, <2>3
<1> QED BY <1>1, <1>3, <1>4, IdleTyped, OthersKept, GithubKept, RowKept

LEMMA FetchStep ==
  ASSUME IInv, NEW c \in Client, pc[c] = "idle", NEW from \in Source \ {"webhook"}, NEW of \in 0 .. MaxVersions,
         from = "baseline" \/ of \in 1 .. Newest, Fetch(c, from, of)
  PROVE  IInv'
<1> USE DEF IInv
<1>1. /\ UNCHANGED <<github, row, events, view, last, deaths, log, sent, resends, interrupted>>
      /\ Goto(c, "load") /\ job' = [job EXCEPT ![c] = [from |-> from, of |-> of]]
  BY DEF Fetch, deliveryVars
<1>2. c \in Process /\ c \notin Ingest /\ [from |-> from, of |-> of] \in Job
  BY ProcessesDistinct DEF Process, Job
<1>3. /\ pc'[c] = "load" /\ job'[c].from = from /\ job'[c].of = of
      /\ pc' \in [Process -> Labels] /\ job' \in [Process -> Job]
      /\ \A q \in Process \ {c} : pc'[q] = pc[q] /\ job'[q] = job[q]
  BY <1>1, <1>2 DEF Goto, PullTypeOK, Labels
<1>4. PullTypeOK'
  BY <1>1, <1>3, GithubKept DEF PullTypeOK, Labels
<1>5. ProcOK(c)'
  BY <1>1, <1>2, <1>3, GithubKept DEF ProcOK
<1>6. DeliveryInv'
  BY <1>1, <1>2, <1>3, DeliveriesKept, GithubKept DEF Holds, Process
<1> QED BY <1>1, <1>2, <1>3, <1>4, <1>5, <1>6, OthersKept, GithubKept, RowKept

LEMMA ReadStep == ASSUME IInv, NEW c \in Client, SyncPull(c) \/ ConnectRepository(c) PROVE IInv'
<1>1. github # <<>> => Newest \in 1 .. Newest /\ Newest \in 0 .. MaxVersions
  BY Bounds DEF IInv, PullTypeOK, Newest
<1>2. 0 \in 0 .. MaxVersions
  BY Bounds
<1> QED BY <1>1, <1>2, FetchStep DEF SyncPull, ConnectRepository, Source

LEMMA DieStep == ASSUME IInv, NEW p \in Process, Die(p) PROVE IInv'
<1> USE DEF IInv
<1>1. /\ UNCHANGED <<github, row, log, events, sent, resends, last>> /\ deaths' \in 0 .. MaxDeaths /\ pc[p] # "idle"
      /\ Goto(p, "idle") /\ job' = [job EXCEPT ![p] = NoJob] /\ view' = [view EXCEPT ![p] = NoRow]
      /\ interrupted' = IF job[p].from = "webhook" /\ pc[p] # "record"
                        THEN interrupted \cup {job[p].of} ELSE interrupted
  BY Bounds DEF Die, PullTypeOK
<1>2. ProcOK(p) /\ (p \in Ingest <=> job[p].from = "webhook")
  BY <1>1, ProcessesDistinct DEF ProcInv, ProcOK, Process
<1>3. p \in Ingest => job[p].of \in Delivery
  BY <1>1, <1>2, NewestNat, Bounds DEF PullTypeOK, ProcOK, Delivery
<1>4. /\ view' \in [Process -> Row \cup {NoRow}]
      /\ \A q \in Process : view'[q] \in {view[q], row, NoRow}
  BY <1>1 DEF PullTypeOK
<1>5. PullTypeOK'
  <2>1. interrupted' \subseteq Delivery
    BY <1>1, <1>2, <1>3 DEF PullTypeOK
  <2> QED BY <1>1, <1>4, <2>1, IdleTyped, GithubKept DEF PullTypeOK, Labels
<1>6. DeliveryInv'
  <2>1. \A q \in Ingest, c \in Delivery :
            /\ Holds(q, c)' => Holds(q, c) /\ (pc'[q] = "mark" <=> pc[q] = "mark")
            /\ Holds(q, c) => Holds(q, c)' \/ c \in interrupted'
    BY <1>1, <1>2, IdleTyped DEF Holds, Process
  <2> QED BY <1>1, <2>1, DeliveriesKept, GithubKept
<1> QED BY <1>1, <1>4, <1>5, <1>6, IdleTyped, OthersKept, GithubKept, RowKept

-----------------------------------------------------------------------------
(* The theorems *)

LEMMA InitIInv == Init => IInv
<1> SUFFICES ASSUME Init PROVE IInv
  OBVIOUS
<1>1. NoJob \in Job
  BY Bounds DEF NoJob, Job, Source
<1>2. Newest = 0
  BY DEF Init, Newest
<1>3. PullTypeOK
  BY <1>1, <1>2, Bounds DEF Init, PullTypeOK
<1>4. GithubInv /\ LastInv /\ ViewInv /\ RowIsLastPayload
  BY <1>2 DEF Init, GithubInv, LastInv, ViewInv, RowIsLastPayload
<1>5. ProcInv /\ DeliveryInv
  BY DEF Init, ProcInv, ProcOK, NoJob, DeliveryInv, DeliveryOK, Holds, Process
<1> QED BY <1>3, <1>4, <1>5 DEF IInv

LEMMA StutterStep == ASSUME IInv, UNCHANGED vars PROVE IInv'
<1> USE DEF vars, deliveryVars
<1>1. PullTypeOK'
  BY GithubKept DEF IInv, PullTypeOK
<1>2. ProcInv'
  BY GithubKept, ProcKept DEF ProcInv
<1>3. DeliveryInv'
  BY GithubKept, DeliveriesKept DEF Holds
<1> QED BY <1>1, <1>2, <1>3, GithubKept, RowKept DEF IInv

LEMMA StepIInv == ASSUME IInv, [Next]_vars PROVE IInv'
<1>1. CASE GitHubStep
  BY <1>1, GitHubStepKeeps
<1>2. ASSUME NEW p \in Ingest, IngestStep(p) PROVE IInv'
  BY <1>2, RecordStep, LoadStep, SaveStep, AnnounceStep, MarkStep DEF IngestStep, Process
<1>3. ASSUME NEW p \in Ingest, NEW d \in Delivery, Receive(p, d) PROVE IInv'
  BY <1>3, ReceiveStep
<1>4. ASSUME NEW c \in Client, ClientStep(c) PROVE IInv'
  BY <1>4, ReadStep, LoadStep, SaveStep, AnnounceStep DEF ClientStep, Process
<1>5. ASSUME NEW p \in Process, Die(p) PROVE IInv'
  BY <1>5, DieStep
<1>6. CASE UNCHANGED vars
  BY <1>6, StutterStep
<1> QED BY <1>1, <1>2, <1>3, <1>4, <1>5, <1>6 DEF Next

THEOREM Invariance == Spec => []IInv
BY InitIInv, StepIInv, PTL DEF Spec

\* Every state of a pull request is of its type.
THEOREM PullTypeCorrect == Spec => []PullTypeOK
<1>1. IInv => PullTypeOK
  BY DEF IInv
<1> QED BY <1>1, Invariance, PTL

\* However often, in what order and to how many workers a delivery is sent, it
\* is announced at most once, and as it should be once its record says so.
THEOREM DeliveryAnnouncedOnce == Spec => []AnnouncedOnce
<1>1. IInv => AnnouncedOnce
  BY DEF IInv, DeliveryInv, DeliveryOK, AnnouncedOnce
<1> QED BY <1>1, Invariance, PTL

\* A recorded delivery is processed, being processed, or its handler died or
\* lost the race for the row.
THEOREM NoDeliveryDropped == Spec => []NothingDroppedSilently
<1>1. IInv => NothingDroppedSilently
  BY DEF IInv, DeliveryInv, DeliveryOK, NothingDroppedSilently, Working, Holds
<1> QED BY <1>1, Invariance, PTL

\* A save that no other overlapped leaves the row as its payload says,
\* although it writes the changed columns only.
THEOREM RowSavedWhole == Spec => []RowIsLastPayload
<1>1. IInv => RowIsLastPayload
  BY DEF IInv
<1> QED BY <1>1, Invariance, PTL

-----------------------------------------------------------------------------
(* The service implements DeliveryLifecycle *)

\* A delivery whose handler broke off is in nobody's hands, and recorded.
BrokenInv ==
  \A d \in interrupted : log[d] = "logged" /\ \A p \in Ingest : ~Holds(p, d)

stages == [d \in Delivery |-> Stage(d)]
loud   == {d \in 1 .. Newest : Announces(d)}

\* Being taken is being recorded, without a handler that broke off.
LEMMA StageIs ==
  ASSUME PullTypeOK, NEW d \in Delivery
  PROVE  /\ stages[d] \in {"unseen", "taken", "settled", "broken"}
         /\ stages[d] = "unseen" <=> log[d] = "absent"
         /\ stages[d] = "settled" <=> log[d] = "processed"
         /\ stages[d] = "taken" <=> log[d] = "logged" /\ d \notin interrupted
         /\ stages[d] = "broken" <=> log[d] = "logged" /\ d \in interrupted
BY DEF stages, Stage, PullTypeOK

\* A step that leaves the records and the handlers' ends alone moves no stage.
LEMMA StagesKept ==
  ASSUME UNCHANGED <<log, interrupted>>
  PROVE  stages' = stages
BY DEF stages, Stage

LEMMA LoudKept == ASSUME UNCHANGED github PROVE UNCHANGED <<1 .. Newest, loud>>
BY DEF loud, Announces, Newest

\* One stage moves.
LEMMA StageMoves ==
  ASSUME NEW d \in Delivery, NEW s, Stage(d)' = s,
         \A c \in Delivery \ {d} : log'[c] = log[c] /\ (c \in interrupted' <=> c \in interrupted)
  PROVE  stages' = [stages EXCEPT ![d] = s]
<1>1. \A c \in Delivery \ {d} : Stage(c)' = Stage(c)
  BY DEF Stage
<1> QED BY <1>1 DEF stages

LEMMA ArisesRefines ==
  ASSUME IInv, BrokenInv, GitHubStep
  PROVE  BrokenInv' /\ \E d \in Delivery : Lifecycle!Arise(d)
<1> DEFINE d == Newest + 1
<1>1. PICK h, s, a : Becomes(h, s, a)
  BY DEF GitHubStep, OpenPull, PushPull, ClosePull, ReopenPull
<1>2. /\ Newest \in Nat /\ d \in Delivery /\ github \in Seq(Version)
      /\ UNCHANGED <<log, events, interrupted, pc, job>>
      /\ github' = Append(github, [head |-> h, state |-> s, action |-> a])
  BY <1>1, NewestNat, Bounds DEF IInv, Becomes, deliveryVars, Delivery, PullTypeOK
<1>3. /\ 1 .. Newest' = (1 .. Newest) \cup {d} /\ d \notin 1 .. Newest
      /\ \A i \in 1 .. Newest : github'[i] = github[i]
  <2>1. Newest' = Newest + 1 /\ \A i \in 1 .. Newest : github'[i] = github[i]
    BY <1>2 DEF Newest
  <2>2. 1 .. Newest + 1 = (1 .. Newest) \cup {d} /\ d \notin 1 .. Newest
    BY <1>2
  <2> QED BY <2>1, <2>2
<1>4. loud' \in {loud, loud \cup {d}}
  BY <1>3 DEF loud, Announces
<1>5. BrokenInv'
  BY <1>2 DEF BrokenInv, Holds
<1>6. stages' = stages
  BY <1>2, StagesKept
<1> QED BY <1>2, <1>3, <1>4, <1>5, <1>6 DEF Lifecycle!Arise, loud, stages

\* A step that takes, announces, settles and breaks nothing.
LEMMA QuietRefines ==
  ASSUME BrokenInv, UNCHANGED <<github, log, events, interrupted>>,
         \A p \in Ingest, d \in Delivery : Holds(p, d)' => Holds(p, d),
         interrupted \subseteq Delivery
  PROVE  BrokenInv' /\ UNCHANGED Lifecycle!vars
<1>1. UNCHANGED <<1 .. Newest, loud, stages>>
  BY StagesKept, LoudKept
<1> QED BY <1>1 DEF BrokenInv, Lifecycle!vars, loud, stages

LEMMA RecordRefines ==
  ASSUME IInv, BrokenInv, NEW p \in Ingest, Record(p)
  PROVE  BrokenInv' /\ ((\E d \in Delivery : Lifecycle!Take(d)) \/ UNCHANGED Lifecycle!vars)
<1> USE DEF IInv
<1> DEFINE d == job[p].of
<1>1. /\ UNCHANGED <<github, events, interrupted>> /\ pc[p] = "record" /\ p \in Process
  BY DEF Record, Process
<1>2. d \in 1 .. Newest /\ d \in Delivery
  BY <1>1, NewestNat, Bounds DEF ProcInv, ProcOK, Delivery, PullTypeOK
<1>3. CASE log[d] # "absent"
  <2>1. Goto(p, "idle") /\ job' = [job EXCEPT ![p] = NoJob] /\ UNCHANGED log
    BY <1>3 DEF Record
  <2>2. \A q \in Ingest, c \in Delivery : Holds(q, c)' => Holds(q, c)
    BY <1>1, <2>1, IdleTyped DEF Holds, Process
  <2> QED BY <1>1, <2>1, <2>2, QuietRefines DEF PullTypeOK
<1>4. CASE log[d] = "absent"
  <2>1. Goto(p, "load") /\ UNCHANGED job /\ log' = [log EXCEPT ![d] = "logged"]
    BY <1>4 DEF Record
  <2>2. d \notin interrupted
    BY <1>4 DEF BrokenInv
  <2>3. BrokenInv'
    <3>1. \A q \in Ingest, c \in Delivery \ {d} : Holds(q, c)' => Holds(q, c)
      BY <1>1, <2>1, GotoTyped DEF Holds, Process, Labels
    <3>2. \A c \in interrupted : log'[c] = log[c] /\ c \in Delivery \ {d}
      BY <2>1, <2>2 DEF PullTypeOK
    <3> QED BY <1>1, <3>1, <3>2 DEF BrokenInv
  <2>4. stages[d] = "unseen" /\ Stage(d)' = "taken"
    BY <1>1, <1>2, <1>4, <2>1, <2>2, StageIs DEF Stage, PullTypeOK
  <2>5. stages' = [stages EXCEPT ![d] = "taken"]
    BY <1>1, <1>2, <2>1, <2>4, StageMoves DEF PullTypeOK
  <2> QED BY <1>1, <1>2, <2>3, <2>4, <2>5, LoudKept
          DEF Lifecycle!Take, Lifecycle!Move, stages, loud
<1> QED BY <1>3, <1>4

LEMMA AnnounceRefines ==
  ASSUME IInv, BrokenInv, NEW p \in Process, AnnouncePull(p)
  PROVE  BrokenInv' /\ ((\E d \in Delivery : Lifecycle!Announce(d)) \/ UNCHANGED Lifecycle!vars)
<1> USE DEF IInv
<1> DEFINE d == job[p].of
<1>1. /\ UNCHANGED <<github, log, interrupted>> /\ pc[p] = "announce"
      /\ (p \in Ingest <=> job[p].from = "webhook")
  BY ProcessesDistinct DEF AnnouncePull, deliveryVars, ProcInv, ProcOK, Process
<1>2. \A q \in Ingest, c \in Delivery : Holds(q, c)' => Holds(q, c)
  BY <1>1, IdleTyped, GotoTyped DEF AnnouncePull, Holds, Process, Labels
<1>3. CASE UNCHANGED events
  BY <1>1, <1>2, <1>3, QuietRefines DEF PullTypeOK
<1>4. CASE events' # events
  <2>1. p \in Ingest /\ events' = [events EXCEPT ![d] = @ + 1] /\ Announces(d)
    BY <1>1, <1>4 DEF AnnouncePull, Announces
  <2>2. d \in 1 .. Newest /\ d \in Delivery
    BY <1>1, <2>1, NewestNat, Bounds DEF ProcInv, ProcOK, Delivery, PullTypeOK
  <2>3. Holds(p, d) /\ log[d] = "logged" /\ events[d] = 0
    BY <1>1, <2>1, <2>2 DEF Holds, DeliveryInv, DeliveryOK
  <2>4. stages[d] = "taken" /\ d \in loud
    BY <2>1, <2>2, <2>3, StageIs DEF BrokenInv, loud
  <2>5. events' = [events EXCEPT ![d] = 1]
    BY <2>1, <2>3
  <2>6. BrokenInv'
    BY <1>1, <1>2 DEF BrokenInv, PullTypeOK
  <2>7. stages' = stages
    BY <1>1, StagesKept
  <2> QED BY <1>1, <2>2, <2>3, <2>4, <2>5, <2>6, <2>7, LoudKept
          DEF Lifecycle!Announce, stages, loud
<1> QED BY <1>3, <1>4

LEMMA MarkRefines ==
  ASSUME IInv, BrokenInv, NEW p \in Ingest, MarkProcessed(p)
  PROVE  BrokenInv' /\ \E d \in Delivery : Lifecycle!Settle(d)
<1> USE DEF IInv
<1>0. job[p].of \in 1 .. Newest /\ job[p].of \in Delivery
  BY NewestNat, Bounds DEF MarkProcessed, ProcInv, ProcOK, Delivery, PullTypeOK, Process
<1> PICK d \in Delivery : d = job[p].of
  BY <1>0
<1>1. /\ UNCHANGED <<github, events, interrupted>> /\ pc[p] = "mark" /\ p \in Process
      /\ log' = [log EXCEPT ![d] = "processed"]
      /\ Goto(p, "idle") /\ job' = [job EXCEPT ![p] = NoJob]
  BY DEF MarkProcessed, Process
<1>2. d \in 1 .. Newest
  BY <1>0
<1>3. Holds(p, d) /\ d \notin interrupted
  BY <1>1 DEF Holds, BrokenInv
<1>4. log[d] = "logged" /\ events[d] = IF d \in loud THEN 1 ELSE 0
  BY <1>1, <1>2, <1>3 DEF DeliveryInv, DeliveryOK, loud
<1>5. BrokenInv'
  <2>1. \A q \in Ingest, c \in Delivery : Holds(q, c)' => Holds(q, c)
    BY <1>1, IdleTyped DEF Holds, Process
  <2>2. \A c \in interrupted : log'[c] = log[c] /\ c \in Delivery
    BY <1>1, <1>3 DEF PullTypeOK
  <2> QED BY <1>1, <2>1, <2>2 DEF BrokenInv
<1>6. stages[d] = "taken" /\ Stage(d)' = "settled"
  <2>1. log'[d] = "processed"
    BY <1>1, <1>2 DEF PullTypeOK
  <2> QED BY <1>2, <1>3, <1>4, <2>1, StageIs DEF Stage
<1>7. stages' = [stages EXCEPT ![d] = "settled"]
  <2>1. \A c \in Delivery \ {d} : log'[c] = log[c] /\ (c \in interrupted' <=> c \in interrupted)
    BY <1>1 DEF PullTypeOK
  <2> QED BY <1>2, <1>6, <2>1, StageMoves
<1> QED BY <1>1, <1>2, <1>4, <1>5, <1>6, <1>7, LoudKept
        DEF Lifecycle!Settle, Lifecycle!Move, stages, loud

\* A worker that holds a delivery breaks off: no other holds it, nor will.
LEMMA BreakRefines ==
  ASSUME IInv, BrokenInv, NEW p \in Ingest, NEW d \in Delivery, Holds(p, d),
         UNCHANGED <<github, log, events>>, interrupted' = interrupted \cup {d},
         Goto(p, "idle"), job' = [job EXCEPT ![p] = NoJob]
  PROVE  BrokenInv' /\ Lifecycle!Break(d)
<1> USE DEF IInv
<1>1. log[d] = "logged" /\ \A q \in Ingest : Holds(q, d) => q = p
  BY DEF DeliveryInv, DeliveryOK
<1>2. \A q \in Ingest, c \in Delivery : Holds(q, c)' => Holds(q, c) /\ q # p
  BY IdleTyped DEF Holds, Process
<1>3. BrokenInv'
  BY <1>1, <1>2 DEF BrokenInv, PullTypeOK
<1>4. stages[d] = "taken" /\ Stage(d)' = "broken"
  BY <1>1, StageIs DEF Stage, BrokenInv
<1>5. stages' = [stages EXCEPT ![d] = "broken"]
  BY <1>4, StageMoves
<1> QED BY <1>3, <1>4, <1>5, LoudKept DEF Lifecycle!Break, Lifecycle!Move, stages, loud

LEMMA EndRefines ==
  ASSUME IInv, BrokenInv, NEW p \in Process, Die(p) \/ SavePull(p)
  PROVE  BrokenInv' /\ ((\E d \in Delivery : Lifecycle!Break(d)) \/ UNCHANGED Lifecycle!vars)
<1> USE DEF IInv
<1> DEFINE d == job[p].of
<1>1. /\ UNCHANGED <<github, log, events>> /\ pc[p] # "idle"
      /\ (p \in Ingest <=> job[p].from = "webhook")
  BY ProcessesDistinct DEF Die, SavePull, ProcInv, ProcOK, Process
<1>2. \A q \in Ingest, c \in Delivery : Holds(q, c)' => Holds(q, c)
  BY IdleTyped, GotoTyped DEF Die, SavePull, Holds, Process, Labels
<1>3. CASE interrupted' = interrupted
  BY <1>1, <1>2, <1>3, QuietRefines DEF PullTypeOK
<1>4. CASE interrupted' # interrupted
  <2>1. /\ p \in Ingest /\ pc[p] # "record" /\ interrupted' = interrupted \cup {d}
        /\ Goto(p, "idle") /\ job' = [job EXCEPT ![p] = NoJob]
    BY <1>1, <1>4 DEF Die, SavePull
  <2>2. d \in Delivery /\ Holds(p, d)
    BY <1>1, <2>1, NewestNat, Bounds DEF ProcInv, ProcOK, Delivery, PullTypeOK, Holds, Process
  <2> QED BY <1>1, <2>1, <2>2, BreakRefines
<1> QED BY <1>3, <1>4

LEMMA OtherRefines ==
  ASSUME IInv, BrokenInv,
         \/ UNCHANGED vars
         \/ \E p \in Ingest, d \in Delivery : Receive(p, d)
         \/ \E p \in Process : LoadPull(p)
         \/ \E c \in Client : SyncPull(c) \/ ConnectRepository(c)
  PROVE  BrokenInv' /\ UNCHANGED Lifecycle!vars
<1> USE DEF IInv
<1>1. UNCHANGED <<github, log, events, interrupted>>
  BY DEF vars, Receive, LoadPull, SyncPull, ConnectRepository, Fetch, deliveryVars
<1>2. \A q \in Ingest, c \in Delivery : Holds(q, c)' => Holds(q, c)
  <2>1. CASE UNCHANGED vars
    BY <2>1 DEF vars, Holds
  <2>2. ASSUME NEW p \in Ingest, NEW d \in Delivery, Receive(p, d)
        PROVE  \A q \in Ingest, c \in Delivery : Holds(q, c)' => Holds(q, c)
    BY <2>2 DEF Receive, Goto, Holds, PullTypeOK, Process
  <2>3. ASSUME NEW p \in Process, LoadPull(p)
        PROVE  \A q \in Ingest, c \in Delivery : Holds(q, c)' => Holds(q, c)
    BY <2>3, GotoTyped DEF LoadPull, Holds, Labels, Process
  <2>4. ASSUME NEW k \in Client, SyncPull(k) \/ ConnectRepository(k)
        PROVE  \A q \in Ingest, c \in Delivery : Holds(q, c)' => Holds(q, c)
    BY <2>4, ProcessesDistinct DEF SyncPull, ConnectRepository, Fetch, Goto, Holds, PullTypeOK, Process
  <2> QED BY <2>1, <2>2, <2>3, <2>4
<1> QED BY <1>1, <1>2, QuietRefines DEF PullTypeOK

\* GitHubService.process_webhook keeps the promises of DeliveryLifecycle for
\* every number of workers, changes, redeliveries and deaths.
THEOREM ImplementsLifecycle == Spec => DeliverySpec
<1>1. Init => BrokenInv /\ Lifecycle!Init
  <2> SUFFICES ASSUME Init PROVE BrokenInv /\ Lifecycle!Init
    OBVIOUS
  <2>1. 1 .. Newest = {} /\ loud = {}
    BY DEF Init, Newest, loud
  <2>2. \A d \in Delivery : Stage(d) = "unseen"
    BY DEF Init, Stage
  <2> QED BY <2>1, <2>2 DEF Init, BrokenInv, Lifecycle!Init, loud
<1>2. IInv /\ BrokenInv /\ [Next]_vars => BrokenInv' /\ [Lifecycle!Next]_(Lifecycle!vars)
  <2> SUFFICES ASSUME IInv, BrokenInv, [Next]_vars
               PROVE  BrokenInv' /\ [Lifecycle!Next]_(Lifecycle!vars)
    OBVIOUS
  <2> USE DEF Lifecycle!Next
  <2>1. CASE GitHubStep
    BY <2>1, ArisesRefines
  <2>2. ASSUME NEW p \in Ingest, IngestStep(p)
        PROVE  BrokenInv' /\ [Lifecycle!Next]_(Lifecycle!vars)
    BY <2>2, RecordRefines, OtherRefines, EndRefines, AnnounceRefines, MarkRefines
       DEF IngestStep, Process
  <2>3. ASSUME NEW c \in Client, ClientStep(c)
        PROVE  BrokenInv' /\ [Lifecycle!Next]_(Lifecycle!vars)
    BY <2>3, OtherRefines, EndRefines, AnnounceRefines DEF ClientStep, Process
  <2>4. ASSUME NEW p \in Process, Die(p)
        PROVE  BrokenInv' /\ [Lifecycle!Next]_(Lifecycle!vars)
    BY <2>4, EndRefines
  <2>5. CASE UNCHANGED vars \/ \E p \in Ingest, d \in Delivery : Receive(p, d)
    BY <2>5, OtherRefines
  <2> QED BY <2>1, <2>2, <2>3, <2>4, <2>5 DEF Next
<1> QED BY <1>1, <1>2, Invariance, PTL DEF Spec, DeliverySpec, Lifecycle!Spec
-----------------------------------------------------------------------------
(* What mixes versions in a row *)

\* At most one handler is between its look at the row and its save.
SaversTakeTurns ==
  \A p, q \in Process : pc[p] = "save" /\ pc[q] = "save" => p = q

\* The row is, in every column, what the last save said.
RowIsWhole == row # NoRow => last # NoJob

\* Only a handler that dies leaves its delivery unfinished.
OnlyDeathInterrupts == [][interrupted' = interrupted \/ deaths' = deaths + 1]_vars

ViewIsFresh == \A p \in Process : pc[p] = "save" => view[p] = row

LEMMA TurnsStep ==
  ASSUME IInv, SaversTakeTurns, ViewIsFresh, RowIsWhole, [Next]_vars
  PROVE  ViewIsFresh' /\ RowIsWhole' /\ (interrupted' = interrupted \/ deaths' = deaths + 1)
<1> USE DEF deliveryVars
<1>1. PullTypeOK
  BY DEF IInv
<1>2. CASE GitHubStep
  <2>1. UNCHANGED <<row, last, pc, view, interrupted>>
    BY <1>2 DEF GitHubStep, OpenPull, PushPull, ClosePull, ReopenPull, Becomes
  <2> QED BY <2>1 DEF ViewIsFresh, RowIsWhole
<1>3. ASSUME NEW p \in Process,
             \/ \E d \in Delivery : Receive(p, d)
             \/ Record(p) \/ AnnouncePull(p) \/ MarkProcessed(p)
             \/ SyncPull(p) \/ ConnectRepository(p)
      PROVE  ViewIsFresh' /\ RowIsWhole' /\ interrupted' = interrupted
  <2>1. /\ UNCHANGED <<row, last, view, interrupted>>
        /\ \A q \in Process : pc'[q] = "save" => pc[q] = "save"
    BY <1>1, <1>3 DEF PullTypeOK, Receive, Record, AnnouncePull, MarkProcessed, SyncPull, ConnectRepository, Fetch, Goto
  <2> QED BY <2>1 DEF ViewIsFresh, RowIsWhole
<1>4. ASSUME NEW p \in Process, LoadPull(p) PROVE ViewIsFresh' /\ RowIsWhole' /\ interrupted' = interrupted
  <2>1. /\ UNCHANGED <<row, last, interrupted>> /\ view'[p] = row
        /\ \A q \in Process \ {p} : pc'[q] = pc[q] /\ view'[q] = view[q]
    BY <1>1, <1>4 DEF PullTypeOK, LoadPull, Goto
  <2> QED BY <2>1 DEF ViewIsFresh, RowIsWhole
<1>5. ASSUME NEW p \in Process, SavePull(p) PROVE ViewIsFresh' /\ RowIsWhole' /\ interrupted' = interrupted
  <2>1. /\ pc[p] = "save" /\ view[p] = row /\ pc'[p] # "save"
        /\ \A q \in Process \ {p} : pc'[q] = pc[q] /\ pc[q] # "save"
    BY <1>1, <1>5 DEF PullTypeOK, SavePull, Goto, ViewIsFresh, SaversTakeTurns
  <2>2. ViewIsFresh'
    BY <2>1 DEF ViewIsFresh
  <2>3. last' = job[p] /\ interrupted' = interrupted
    BY <1>5, <2>1 DEF SavePull
  <2>4. job[p] # NoJob
    <3>1. ProcOK(p)
      BY DEF IInv, ProcInv
    <3> QED BY <2>1, <3>1 DEF ProcOK, Process, NoJob
  <2> QED BY <2>2, <2>3, <2>4 DEF RowIsWhole
<1>6. ASSUME NEW p \in Process, Die(p) PROVE ViewIsFresh' /\ RowIsWhole' /\ deaths' = deaths + 1
  <2>1. /\ UNCHANGED <<row, last>> /\ pc'[p] # "save" /\ deaths' = deaths + 1
        /\ \A q \in Process \ {p} : pc'[q] = pc[q] /\ view'[q] = view[q]
    BY <1>1, <1>6 DEF PullTypeOK, Die, Goto
  <2> QED BY <2>1 DEF ViewIsFresh, RowIsWhole
<1>7. CASE UNCHANGED vars
  BY <1>7 DEF vars, ViewIsFresh, RowIsWhole
<1> QED BY <1>2, <1>3, <1>4, <1>5, <1>6, <1>7 DEF Next, IngestStep, ClientStep, Process

\* A row that mixes two versions of its pull request, and a delivery that is
\* dropped though its handler lives, come of two savers that overlap, and of
\* nothing else: not of redelivery, reordering, or handlers that die.
THEOREM TurnsKeepRowsWhole ==
  Spec /\ []SaversTakeTurns => [](RowIsWhole /\ RowIsLastPayload) /\ OnlyDeathInterrupts
<1>1. Init => ViewIsFresh /\ RowIsWhole
  BY DEF Init, ViewIsFresh, RowIsWhole
<1>2. IInv /\ SaversTakeTurns /\ ViewIsFresh /\ RowIsWhole /\ [Next]_vars
        => ViewIsFresh' /\ RowIsWhole'
  BY TurnsStep
<1>3. IInv /\ SaversTakeTurns /\ ViewIsFresh /\ RowIsWhole /\ [Next]_vars
        => [interrupted' = interrupted \/ deaths' = deaths + 1]_vars
  BY TurnsStep
<1>4. IInv => RowIsLastPayload
  BY DEF IInv
<1> QED BY <1>1, <1>2, <1>3, <1>4, Invariance, PTL DEF Spec, OnlyDeathInterrupts

=============================================================================
