-------------------------- MODULE Workspace_proofs --------------------------
(* Proofs about Membership, for every number of users and requests and for  *)
(* whatever roles they ask for, and about Accounts (A! here), for every     *)
(* number of logins, keys and accesses.                                      *)
EXTENDS MCWorkspace, FiniteSetTheorems, TLAPS

Labels  == {"new", "inspect", "count", "write", "audit", "done"}
Outcome == {"nothing", "SUCCESS", "DENIED"}

-----------------------------------------------------------------------------
(* The inductive invariant *)

\* Who asks for an owner to be made has been one, or is a superuser.
GrantOK(r) ==
  (pc[r] \in {"inspect", "count", "write"}
     /\ (job[r].op = "role" \/ (job[r].op = "add" /\ job[r].role = "OWNER")))
    => job[r].actor \in everOwner \cup Superuser

\* Whom a request may demote or remove: its target was no owner when the project
\* was loaded, if the row then loaded says so.
SeenOK(r) ==
  (pc[r] = "inspect" /\ job[r].op \in {"role", "remove"} /\ job[r].found # None)
    => (job[r].found = "OWNER" <=> job[r].target \in job[r].basis)

\* A request that is to take an owner has counted others besides, at its last
\* look at the owners.
CountOK(r) ==
  (pc[r] = "write" /\ (job[r].op = "remove" \/ (job[r].op = "role" /\ job[r].role # "OWNER"))
     /\ job[r].target \in job[r].basis)
    => ~(Cardinality(job[r].basis) <= 1)

JobInv == \A r \in Request : GrantOK(r) /\ SeenOK(r) /\ CountOK(r)

IInv ==
  /\ MemberTypeOK
  /\ Owners \subseteq everOwner
  /\ JobInv
  /\ OwnerLeftUnlessRaced

-----------------------------------------------------------------------------
(* Facts about roles and about counting *)

LEMMA RankTyped ==
  ASSUME MemberTypeOK, NEW a \in User
  PROVE  RankOf(a) \in Role \cup {None}
BY DEF MemberTypeOK, RankOf, Role

\* To act as OWNER is to be one or a superuser.
LEMMA RankOwner ==
  ASSUME Owners \subseteq everOwner, NEW a \in User, RankOf(a) = "OWNER"
  PROVE  a \in everOwner \cup Superuser
BY DEF RankOf, Owners

\* Only an OWNER or a superuser is allowed what an OWNER may do.
LEMMA AllowedOwner ==
  ASSUME NEW a \in User, NEW rank \in Role \cup {None}, Allowed(a, rank, "role")
  PROVE  a \in Superuser \/ rank = "OWNER"
BY RolesGiven DEF Allowed, Required, Level, Role

\* A set counted as more than one has another member.
LEMMA AnotherOne ==
  ASSUME NEW S, NEW x, ~(Cardinality(S) <= 1)
  PROVE  S \ {x} # {}
<1> SUFFICES ASSUME S \subseteq {x} PROVE FALSE
  OBVIOUS
<1>1. S = {} \/ S = {x}
  OBVIOUS
<1>2. Cardinality({}) = 0 /\ Cardinality({x}) = 1
  BY FS_EmptySet, FS_Singleton
<1> QED BY <1>1, <1>2

-----------------------------------------------------------------------------
(* The steps *)

\* A step that leaves the members alone, and of the other requests all.
LEMMA OthersKept ==
  ASSUME IInv, NEW r \in Request, everOwner \subseteq everOwner',
         \A q \in Request \ {r} : pc'[q] = pc[q] /\ job'[q] = job[q],
         GrantOK(r)', SeenOK(r)', CountOK(r)'
  PROVE  JobInv'
<1>1. \A q \in Request \ {r} : GrantOK(q)' /\ SeenOK(q)' /\ CountOK(q)'
  BY DEF IInv, JobInv, GrantOK, SeenOK, CountOK
<1> QED BY <1>1 DEF JobInv

LEMMA MembersAlone ==
  ASSUME IInv, UNCHANGED <<members, creation, everOwner, stale>>
  PROVE  (Owners \subseteq everOwner)' /\ OwnerLeftUnlessRaced'
BY DEF IInv, Owners, OwnerLeftUnlessRaced

LEMMA CreationStep ==
  ASSUME IInv, CreateProject \/ EnrolOwner \/ AuditCreation \/ DieCreating
  PROVE  IInv'
<1> USE DEF IInv
<1>1. UNCHANGED <<pc, job>> /\ everOwner \subseteq everOwner'
  BY DEF CreateProject, EnrolOwner, AuditCreation, DieCreating, history
<1>2. JobInv'
  BY <1>1 DEF JobInv, GrantOK, SeenOK, CountOK
<1>3. CASE EnrolOwner
  <2>1. MemberTypeOK'
    BY <1>3, PeopleGiven DEF EnrolOwner, MemberTypeOK, Role
  <2>2. CASE members[Creator] = None
    <3>1. Creator \in Owners' /\ Owners' \subseteq Owners \cup {Creator}
      BY <1>3, <2>2, PeopleGiven DEF EnrolOwner, MemberTypeOK, Owners
    <3>2. everOwner' = everOwner \cup {Creator}
      BY <1>3, <2>2 DEF EnrolOwner
    <3> QED BY <1>2, <2>1, <3>1, <3>2 DEF OwnerLeftUnlessRaced
  <2>3. CASE members[Creator] # None
    <3>1. UNCHANGED <<members, everOwner, stale>> /\ creation' = "failed"
      BY <1>3, <2>3 DEF EnrolOwner
    <3> QED BY <1>2, <2>1, <3>1 DEF Owners, OwnerLeftUnlessRaced
  <2> QED BY <2>2, <2>3
<1>4. CASE CreateProject
  <2>1. MemberTypeOK'
    BY <1>4 DEF CreateProject, MemberTypeOK, history
  <2>2. (Owners \subseteq everOwner)' /\ OwnerLeftUnlessRaced'
    BY <1>4 DEF CreateProject, Owners, OwnerLeftUnlessRaced, history
  <2> QED BY <1>2, <2>1, <2>2
<1>5. CASE AuditCreation \/ DieCreating
  <2>1. MemberTypeOK'
    BY <1>5 DEF AuditCreation, DieCreating, MemberTypeOK, history
  <2> QED BY <1>2, <1>5, <2>1, MembersAlone DEF AuditCreation, DieCreating, history
<1> QED BY <1>3, <1>4, <1>5

LEMMA QuitTyped ==
  ASSUME MemberTypeOK, NEW r \in Request, Quit(r)
  PROVE  /\ pc' \in [Request -> Labels] /\ job' \in [Request -> Job] /\ pc'[r] = "done"
         /\ \A q \in Request \ {r} : pc'[q] = pc[q] /\ job'[q] = job[q]
<1>1. NoJob \in Job
  BY PeopleGiven DEF NoJob, Job, Operation
<1> QED BY <1>1 DEF Quit, Goto, MemberTypeOK, Labels

LEMMA AuthorizeStep ==
  ASSUME IInv, NEW r \in Request, NEW op \in Operation, NEW a \in User, NEW u \in User,
         NEW role \in Role \cup {None}, Authorize(r, op, a, u, role)
  PROVE  IInv'
<1> USE DEF IInv
<1>1. UNCHANGED <<project, members, key, creation, died, everOwner, stale>>
  BY DEF Authorize, history
<1>2. CASE UNCHANGED audited /\ Quit(r)
  <2>1. MemberTypeOK'
    BY <1>1, <1>2, QuitTyped DEF MemberTypeOK, Labels
  <2>2. GrantOK(r)' /\ SeenOK(r)' /\ CountOK(r)'
    BY <1>2, QuitTyped DEF GrantOK, SeenOK, CountOK
  <2> QED BY <1>1, <1>2, <2>1, <2>2, QuitTyped, OthersKept, MembersAlone
<1>3. CASE Deny(r)
  <2>1. MemberTypeOK'
    BY <1>1, <1>3, QuitTyped DEF Deny, MemberTypeOK, Labels
  <2>2. GrantOK(r)' /\ SeenOK(r)' /\ CountOK(r)'
    BY <1>3, QuitTyped DEF Deny, GrantOK, SeenOK, CountOK
  <2> QED BY <1>1, <1>3, <2>1, <2>2, QuitTyped, OthersKept, MembersAlone DEF Deny
<1>4. ASSUME /\ Allowed(a, RankOf(a), op) /\ MayGrant(a, RankOf(a), op, role)
             /\ Goto(r, IF op \in {"add", "role", "remove"} THEN "inspect" ELSE "write")
             /\ job' = [job EXCEPT ![r] = [op |-> op, actor |-> a, target |-> u, role |-> role,
                                           rank |-> RankOf(a), found |-> members[u],
                                           basis |-> IF op \in {"role", "remove"} THEN Owners ELSE {}]]
             /\ UNCHANGED audited
      PROVE  IInv'
  <2>1. RankOf(a) \in Role \cup {None} /\ members[u] \in Role \cup {None} /\ Owners \in SUBSET User
    BY RankTyped DEF MemberTypeOK, Owners
  <2>2. /\ pc' \in [Request -> Labels] /\ job' \in [Request -> Job]
    BY <1>4, <2>1 DEF Goto, MemberTypeOK, Labels, Job
  <2>3. MemberTypeOK'
    BY <1>1, <1>4, <2>2 DEF MemberTypeOK, Labels
  <2>4. /\ job'[r].op = op /\ job'[r].actor = a /\ job'[r].role = role
        /\ job'[r].target = u /\ job'[r].found = members[u]
        /\ op \in {"role", "remove"} => job'[r].basis = Owners
        /\ op \in {"role", "remove"} => pc'[r] = "inspect"
        /\ \A q \in Request \ {r} : pc'[q] = pc[q] /\ job'[q] = job[q]
    BY <1>4 DEF Goto, MemberTypeOK
  <2>5. GrantOK(r)'
    <3>1. ASSUME op = "role" PROVE a \in everOwner \cup Superuser
      BY <1>4, <2>1, <3>1, AllowedOwner, RankOwner
    <3>2. ASSUME op = "add", role = "OWNER" PROVE a \in everOwner \cup Superuser
      BY <1>4, <3>2, RankOwner DEF MayGrant
    <3> QED BY <1>1, <2>4, <3>1, <3>2 DEF GrantOK
  <2>6. SeenOK(r)' /\ CountOK(r)'
    BY <2>4 DEF SeenOK, CountOK, Owners
  <2> QED BY <1>1, <2>3, <2>4, <2>5, <2>6, OthersKept, MembersAlone
<1> QED BY <1>2, <1>3, <1>4 DEF Authorize

LEMMA InspectStep == ASSUME IInv, NEW r \in Request, Inspect(r) PROVE IInv'
<1> USE DEF IInv
<1> DEFINE found == Answer(job[r].found, job[r].target)
           basis == IF job[r].found = None THEN Owners ELSE job[r].basis
<1>1. UNCHANGED <<project, members, key, creation, died, everOwner, stale>> /\ pc[r] = "inspect"
  BY DEF Inspect, history
<1>2. CASE Quit(r) /\ (UNCHANGED audited \/ Deny(r))
  <2>1. MemberTypeOK'
    BY <1>1, <1>2, QuitTyped DEF Deny, MemberTypeOK, Labels
  <2>2. GrantOK(r)' /\ SeenOK(r)' /\ CountOK(r)'
    BY <1>2, QuitTyped DEF GrantOK, SeenOK, CountOK
  <2> QED BY <1>1, <1>2, <2>1, <2>2, QuitTyped, OthersKept, MembersAlone
<1>3. ASSUME /\ job' = [job EXCEPT ![r].found = found,
                                  ![r].basis = IF job[r].found = None THEN Owners ELSE @]
             /\ Goto(r, IF AtStake(r, found) THEN "count" ELSE "write")
             /\ UNCHANGED audited
      PROVE  IInv'
  <2>1. job[r] \in Job /\ found \in Role \cup {None} /\ basis \in SUBSET User
    BY DEF MemberTypeOK, Job, Owners, Answer
  <2>2. job' = [job EXCEPT ![r] = [job[r] EXCEPT !.found = found, !.basis = basis]]
    BY <1>3, <2>1 DEF Job, MemberTypeOK
  <2>3. job[r].op \in {"role", "remove"} => (found = "OWNER" <=> job[r].target \in basis)
    BY <1>1, <2>1 DEF Answer, JobInv, SeenOK, Owners, Job
  <2> HIDE DEF found, basis
  <2>4. /\ pc' \in [Request -> Labels] /\ job' \in [Request -> Job]
    <3>1. [job[r] EXCEPT !.found = found, !.basis = basis] \in Job
      BY <2>1 DEF Job
    <3>2. job' \in [Request -> Job]
      BY <2>2, <3>1 DEF MemberTypeOK
    <3>3. pc' \in [Request -> Labels]
      BY <1>3 DEF Goto, MemberTypeOK, Labels
    <3> QED BY <3>2, <3>3
  <2>5. MemberTypeOK'
    BY <1>1, <1>3, <2>4 DEF MemberTypeOK, Labels
  <2>6. /\ job'[r].op = job[r].op /\ job'[r].actor = job[r].actor /\ job'[r].role = job[r].role
        /\ job'[r].target = job[r].target /\ job'[r].basis = basis
        /\ pc'[r] = (IF AtStake(r, found) THEN "count" ELSE "write")
        /\ \A q \in Request \ {r} : pc'[q] = pc[q] /\ job'[q] = job[q]
    <3>1. job'[r] = [job[r] EXCEPT !.found = found, !.basis = basis]
          /\ \A q \in Request \ {r} : job'[q] = job[q]
      BY <2>2 DEF MemberTypeOK
    <3>2. /\ pc'[r] = (IF AtStake(r, found) THEN "count" ELSE "write")
          /\ \A q \in Request \ {r} : pc'[q] = pc[q]
      BY <1>3 DEF Goto, MemberTypeOK
    <3> QED BY <2>1, <3>1, <3>2 DEF Job
  <2>7. GrantOK(r)'
    BY <1>1, <2>6 DEF GrantOK, JobInv
  <2>8. SeenOK(r)' /\ CountOK(r)'
    BY <2>3, <2>6 DEF SeenOK, CountOK, AtStake
  <2> QED BY <1>1, <2>5, <2>6, <2>7, <2>8, OthersKept, MembersAlone
<1> QED BY <1>2, <1>3 DEF Inspect, Deny

LEMMA CountOwnersStep == ASSUME IInv, NEW r \in Request, CountOwners(r) PROVE IInv'
<1> USE DEF IInv
<1>1. UNCHANGED <<project, members, key, audited, creation, died, everOwner, stale>> /\ pc[r] = "count"
  BY DEF CountOwners, history
<1>2. CASE Quit(r)
  <2>1. MemberTypeOK'
    BY <1>1, <1>2, QuitTyped DEF MemberTypeOK, Labels
  <2>2. GrantOK(r)' /\ SeenOK(r)' /\ CountOK(r)'
    BY <1>2, QuitTyped DEF GrantOK, SeenOK, CountOK
  <2> QED BY <1>1, <1>2, <2>1, <2>2, QuitTyped, OthersKept, MembersAlone
<1>3. ASSUME ~(Cardinality(Owners) <= 1), Goto(r, "write"), job' = [job EXCEPT ![r].basis = Owners]
      PROVE  IInv'
  <2>1. job[r] \in Job /\ Owners \in SUBSET User
    BY DEF MemberTypeOK, Owners
  <2>2. job' = [job EXCEPT ![r] = [job[r] EXCEPT !.basis = Owners]]
    BY <1>3
  <2>3. /\ pc' \in [Request -> Labels] /\ job' \in [Request -> Job]
    BY <1>3, <2>1, <2>2 DEF Goto, MemberTypeOK, Labels, Job
  <2>4. MemberTypeOK'
    BY <1>1, <2>3 DEF MemberTypeOK, Labels
  <2>5. /\ job'[r].op = job[r].op /\ job'[r].actor = job[r].actor /\ job'[r].role = job[r].role
        /\ job'[r].basis = Owners /\ pc'[r] = "write"
        /\ \A q \in Request \ {r} : pc'[q] = pc[q] /\ job'[q] = job[q]
    BY <1>3, <2>1, <2>2 DEF Goto, MemberTypeOK, Job
  <2>6. GrantOK(r)'
    BY <1>1, <2>5 DEF GrantOK, JobInv
  <2>7. SeenOK(r)' /\ CountOK(r)'
    BY <1>3, <2>5 DEF SeenOK, CountOK
  <2> QED BY <1>1, <2>4, <2>5, <2>6, <2>7, OthersKept, MembersAlone
<1> QED BY <1>2, <1>3 DEF CountOwners

\* What a session forgets with a row changes nothing that the invariant says of
\* its request.
LEMMA ForgottenKept ==
  ASSUME IInv, NEW r \in Request, NEW m \in [User -> Role \cup {None}],
         job' = [Forgotten(m) EXCEPT ![r] = NoJob], pc' = [pc EXCEPT ![r] = "audit"],
         everOwner \subseteq everOwner'
  PROVE  /\ job' \in [Request -> Job] /\ pc' \in [Request -> Labels] /\ pc'[r] = "audit"
         /\ \A q \in Request \ {r} :
              /\ pc'[q] = pc[q] /\ job'[q].op = job[q].op /\ job'[q].role = job[q].role
              /\ job'[q].basis = job[q].basis
         /\ JobInv'
<1> USE DEF IInv
<1>1. NoJob \in Job
  BY PeopleGiven DEF NoJob, Job, Operation
<1>2. pc' \in [Request -> Labels] /\ pc'[r] = "audit" /\ \A q \in Request \ {r} : pc'[q] = pc[q]
  BY DEF MemberTypeOK, Labels
<1>3. ASSUME NEW q \in Request \ {r}
      PROVE  /\ job'[q] \in Job /\ job'[q].op = job[q].op /\ job'[q].role = job[q].role
             /\ job'[q].actor = job[q].actor /\ job'[q].target = job[q].target
             /\ job'[q].basis = job[q].basis /\ job'[q].found \in {job[q].found, None}
  <2>1. job[q] \in Job
    BY DEF MemberTypeOK
  <2> DEFINE found == IF m[job[q].target] = None THEN None ELSE job[q].found
             rank  == IF m[job[q].actor] = None THEN None ELSE job[q].rank
  <2>2. job'[q] = [job[q] EXCEPT !.found = found, !.rank = rank]
    BY DEF Forgotten
  <2>3. found \in {job[q].found, None} /\ rank \in {job[q].rank, None}
    OBVIOUS
  <2>4. job[q].found \in Role \cup {None} /\ job[q].rank \in Role \cup {None}
    BY <2>1 DEF Job
  <2> HIDE DEF found, rank
  <2>5. found \in Role \cup {None} /\ rank \in Role \cup {None}
    BY <2>3, <2>4
  <2>6. PICK j, x : j = job[q] /\ x = job'[q]
    OBVIOUS
  <2>7. j \in Job /\ x = [j EXCEPT !.found = found, !.rank = rank]
    BY <2>1, <2>2, <2>6
  <2>8. /\ x \in Job /\ x.op = j.op /\ x.role = j.role /\ x.actor = j.actor
        /\ x.target = j.target /\ x.basis = j.basis /\ x.found = found
    BY <2>5, <2>7 DEF Job
  <2> QED BY <2>3, <2>6, <2>8
<1>4. job' \in [Request -> Job]
  <2>1. DOMAIN job' = Request /\ job' = [q \in Request |-> job'[q]] /\ job'[r] = NoJob
    BY DEF Forgotten
  <2> QED BY <1>1, <1>3, <2>1
<1>5. ASSUME NEW q \in Request PROVE GrantOK(q)' /\ SeenOK(q)' /\ CountOK(q)'
  <2>1. CASE q = r
    BY <1>2, <2>1 DEF GrantOK, SeenOK, CountOK
  <2>2. CASE q # r
    BY <1>2, <1>3, <2>2 DEF JobInv, GrantOK, SeenOK, CountOK
  <2> QED BY <2>1, <2>2
<1>6. JobInv'
  BY <1>5 DEF JobInv
<1> QED BY <1>2, <1>3, <1>4, <1>6

\* What a write does to the owners.
LEMMA WrittenOwners ==
  ASSUME IInv, NEW r \in Request, NEW m \in [User -> Role \cup {None}], Written(r, m),
         pc[r] = "write",
         \A u \in User \ {job[r].target} : m[u] = members[u],
         UNCHANGED creation,
         \/ Owners \subseteq {u \in User : m[u] = "OWNER"}
         \/ job[r].op = "remove"
         \/ job[r].op = "role" /\ job[r].role # "OWNER"
  PROVE  (Owners \subseteq everOwner)' /\ OwnerLeftUnlessRaced'
<1> USE DEF IInv
<1>1. members' = m /\ Owners' = {u \in User : m[u] = "OWNER"} /\ everOwner' = everOwner \cup Owners'
      /\ stale' = (stale \/ (Owners \ Owners' # {} /\ Owners # job[r].basis))
  BY DEF Written, Owners
<1>2. SUFFICES ASSUME creation' = "owner", ~stale'
               PROVE  Owners' # {}
  BY <1>1 DEF OwnerLeftUnlessRaced
<1>3. Owners # {}
  BY <1>1, <1>2 DEF OwnerLeftUnlessRaced, MemberTypeOK
<1>4. CASE Owners \subseteq Owners'
  BY <1>3, <1>4
<1>5. CASE Owners \ Owners' # {}
  <2>1. Owners = job[r].basis
    BY <1>1, <1>2, <1>5 DEF MemberTypeOK
  <2>2. Owners \ {job[r].target} \subseteq Owners' /\ job[r].target \in Owners
    BY <1>1, <1>5 DEF Owners
  <2>3. job[r].op = "remove" \/ (job[r].op = "role" /\ job[r].role # "OWNER")
    BY <1>1, <1>5
  <2>4. ~(Cardinality(Owners) <= 1)
    BY <2>1, <2>2, <2>3 DEF JobInv, CountOK
  <2> QED BY <2>2, <2>4, AnotherOne
<1> QED BY <1>4, <1>5

LEMMA WriteMemberStep == ASSUME IInv, NEW r \in Request, WriteMember(r) PROVE IInv'
<1> USE DEF IInv
<1> DEFINE u == job[r].target
<1>1. pc[r] = "write" /\ UNCHANGED <<audited, creation, died>> /\ job[r] \in Job
  BY DEF WriteMember, MemberTypeOK
<1>2. u \in User /\ job[r].role \in Role \cup {None}
  BY <1>1 DEF Job
<1>3. ASSUME NEW m \in [User -> Role \cup {None}], Written(r, m),
             \A v \in User \ {u} : m[v] = members[v],
             \/ Owners \subseteq {v \in User : m[v] = "OWNER"}
             \/ job[r].op = "remove"
             \/ job[r].op = "role" /\ job[r].role # "OWNER"
      PROVE  IInv'
  <2>1. /\ UNCHANGED <<project, key>> /\ pc' = [pc EXCEPT ![r] = "audit"] /\ members' = m
        /\ job' = [Forgotten(m) EXCEPT ![r] = NoJob]
        /\ everOwner' = everOwner \cup {v \in User : m[v] = "OWNER"} /\ stale' \in BOOLEAN
    BY <1>3 DEF Written, Goto, MemberTypeOK
  <2>2. job' \in [Request -> Job] /\ pc' \in [Request -> Labels] /\ JobInv'
    BY <2>1, ForgottenKept
  <2>3. MemberTypeOK'
    BY <1>1, <1>3, <2>1, <2>2 DEF MemberTypeOK, Labels
  <2> QED BY <1>1, <1>3, <2>2, <2>3, WrittenOwners
<1>4. ASSUME Quit(r), UNCHANGED <<project, members, key, everOwner, stale>> PROVE IInv'
  <2>1. MemberTypeOK'
    BY <1>1, <1>4, QuitTyped DEF MemberTypeOK, Labels
  <2>2. GrantOK(r)' /\ SeenOK(r)' /\ CountOK(r)'
    BY <1>4, QuitTyped DEF GrantOK, SeenOK, CountOK
  <2> QED BY <1>1, <1>4, <2>1, <2>2, QuitTyped, OthersKept, MembersAlone
<1>5. CASE job[r].op = "add" /\ members[u] = None /\ Written(r, [members EXCEPT ![u] = job[r].role])
  <2> DEFINE m == [members EXCEPT ![u] = job[r].role]
  <2>1. m \in [User -> Role \cup {None}] /\ \A v \in User \ {u} : m[v] = members[v]
    BY <1>2 DEF MemberTypeOK
  <2>2. u \notin Owners
    BY <1>5, RolesGiven DEF Owners, Role
  <2>3. Owners \subseteq {v \in User : m[v] = "OWNER"}
    BY <2>1, <2>2 DEF Owners
  <2> HIDE DEF m
  <2> QED BY <1>3, <1>5, <2>1, <2>3 DEF m
<1>6. CASE /\ job[r].op = "role"
           /\ Written(r, IF job[r].role = job[r].found THEN members ELSE [members EXCEPT ![u] = job[r].role])
  <2> DEFINE m == IF job[r].role = job[r].found THEN members ELSE [members EXCEPT ![u] = job[r].role]
  <2>1. m \in [User -> Role \cup {None}] /\ \A v \in User \ {u} : m[v] = members[v]
    BY <1>2 DEF MemberTypeOK
  <2>2. job[r].role = "OWNER" => Owners \subseteq {v \in User : m[v] = "OWNER"}
    BY DEF Owners, MemberTypeOK
  <2> HIDE DEF m
  <2> QED BY <1>3, <1>6, <2>1, <2>2 DEF m
<1>7. CASE job[r].op = "remove" /\ Written(r, [members EXCEPT ![u] = None])
  <2> DEFINE m == [members EXCEPT ![u] = None]
  <2>1. m \in [User -> Role \cup {None}] /\ \A v \in User \ {u} : m[v] = members[v]
    BY <1>2 DEF MemberTypeOK
  <2> HIDE DEF m
  <2> QED BY <1>3, <1>7, <2>1 DEF m
<1> QED BY <1>4, <1>5, <1>6, <1>7 DEF WriteMember, history

LEMMA WriteProjectStep == ASSUME IInv, NEW r \in Request, WriteProject(r) PROVE IInv'
<1> USE DEF IInv
<1>1. /\ UNCHANGED <<members, audited, creation, died, everOwner, stale>>
      /\ project' \in {"absent", "active", "archived"} /\ key' \in {"absent", "active", "revoked"}
  BY DEF WriteProject, history, MemberTypeOK
<1>2. CASE Quit(r)
  <2>1. MemberTypeOK'
    BY <1>1, <1>2, QuitTyped DEF MemberTypeOK, Labels
  <2>2. GrantOK(r)' /\ SeenOK(r)' /\ CountOK(r)'
    BY <1>2, QuitTyped DEF GrantOK, SeenOK, CountOK
  <2> QED BY <1>1, <1>2, <2>1, <2>2, QuitTyped, OthersKept, MembersAlone
<1>3. CASE Goto(r, "audit") /\ job' = [job EXCEPT ![r] = NoJob]
  <2>1. NoJob \in Job
    BY PeopleGiven DEF NoJob, Job, Operation
  <2>2. MemberTypeOK' /\ pc'[r] = "audit"
        /\ \A q \in Request \ {r} : pc'[q] = pc[q] /\ job'[q] = job[q]
    BY <1>1, <1>3, <2>1 DEF Goto, MemberTypeOK
  <2>3. GrantOK(r)' /\ SeenOK(r)' /\ CountOK(r)'
    BY <2>2 DEF GrantOK, SeenOK, CountOK
  <2> QED BY <1>1, <2>2, <2>3, OthersKept, MembersAlone
<1> QED BY <1>2, <1>3 DEF WriteProject

LEMMA LastStep == ASSUME IInv, NEW r \in Request, Audit(r) \/ Die(r) PROVE IInv'
<1> USE DEF IInv
<1>1. UNCHANGED <<project, members, key, creation, everOwner, stale>> /\ Quit(r)
  BY DEF Audit, Die, history
<1>2. audited' \in [Request \cup {Creator} -> Outcome] /\ died' \subseteq Request \cup {Creator}
  BY DEF Audit, Die, MemberTypeOK, Outcome
<1>3. MemberTypeOK'
  BY <1>1, <1>2, QuitTyped DEF MemberTypeOK, Labels, Outcome
<1>4. GrantOK(r)' /\ SeenOK(r)' /\ CountOK(r)'
  BY <1>1, QuitTyped DEF GrantOK, SeenOK, CountOK
<1> QED BY <1>1, <1>3, <1>4, QuitTyped, OthersKept, MembersAlone

-----------------------------------------------------------------------------
(* The theorems *)

LEMMA InitIInv == Init => IInv
<1> SUFFICES ASSUME Init PROVE IInv
  OBVIOUS
<1>1. NoJob \in Job
  BY PeopleGiven DEF NoJob, Job, Operation
<1>2. MemberTypeOK
  BY <1>1 DEF Init, MemberTypeOK
<1>3. Owners = {}
  BY RolesGiven DEF Init, Owners, Role
<1>4. JobInv /\ OwnerLeftUnlessRaced
  BY DEF Init, JobInv, GrantOK, SeenOK, CountOK, OwnerLeftUnlessRaced
<1> QED BY <1>2, <1>3, <1>4 DEF IInv

LEMMA TeamInitIInv == TeamInit => IInv
<1> SUFFICES ASSUME TeamInit PROVE IInv
  OBVIOUS
<1>1. NoJob \in Job
  BY PeopleGiven DEF NoJob, Job, Operation
<1>2. members \in [User -> Role \cup {None}]
  BY DEF TeamInit, Role
<1>3. MemberTypeOK
  BY <1>1, <1>2, PeopleGiven DEF TeamInit, MemberTypeOK
<1>4. Owners = {Creator}
  BY PeopleGiven, RolesGiven DEF TeamInit, Owners, Role
<1>5. JobInv /\ OwnerLeftUnlessRaced
  BY <1>4 DEF TeamInit, JobInv, GrantOK, SeenOK, CountOK, OwnerLeftUnlessRaced
<1> QED BY <1>3, <1>4, <1>5 DEF TeamInit, IInv

LEMMA BeginStep == ASSUME IInv, NEW r \in Request, Begin(r) PROVE IInv'
<1>1. Asked \subseteq Role \cup {None} /\ None \in Role \cup {None}
  BY RolesGiven
<1> QED BY <1>1, AuthorizeStep DEF Begin, Operation

LEMMA StepIInv == ASSUME IInv, [Next]_vars PROVE IInv'
<1>1. CASE CreateProject \/ EnrolOwner \/ AuditCreation \/ DieCreating
  BY <1>1, CreationStep
<1>2. ASSUME NEW r \in Request, Begin(r) PROVE IInv'
  BY <1>2, BeginStep
<1>3. ASSUME NEW r \in Request, Inspect(r) \/ CountOwners(r) PROVE IInv'
  BY <1>3, InspectStep, CountOwnersStep
<1>4. ASSUME NEW r \in Request, WriteMember(r) \/ WriteProject(r) PROVE IInv'
  BY <1>4, WriteMemberStep, WriteProjectStep
<1>5. ASSUME NEW r \in Request, Audit(r) \/ Die(r) PROVE IInv'
  BY <1>5, LastStep
<1>6. CASE UNCHANGED vars
  BY <1>6 DEF vars, IInv, MemberTypeOK, Owners, JobInv, GrantOK, SeenOK, CountOK, OwnerLeftUnlessRaced
<1> QED BY <1>1, <1>2, <1>3, <1>4, <1>5, <1>6 DEF Next

THEOREM Invariance == Spec => []IInv
BY InitIInv, StepIInv, PTL DEF Spec

\* Every state of a project is of its type.
THEOREM MemberTypeCorrect == Spec => []MemberTypeOK
<1>1. IInv => MemberTypeOK
  BY DEF IInv
<1> QED BY <1>1, Invariance, PTL

\* However many requests there are, a project that has had its owner has one
\* still, unless a write took an owner on an outdated look: the owners had changed
\* since it counted them, or since it loaded its target as no owner.
THEOREM OwnerLeft == Spec => []OwnerLeftUnlessRaced
<1>1. IInv => OwnerLeftUnlessRaced
  BY DEF IInv
<1> QED BY <1>1, Invariance, PTL

-----------------------------------------------------------------------------
(* What it takes to keep the last owner: only the requests that may take an
   owner have to wait for each other, from loading the project to their write.
   From the count on would be too late: a target that was promoted since the
   members were loaded is not counted.  Additions and promotions may run at any
   time. *)

Taking(r) ==
  /\ pc[r] \in {"inspect", "count", "write"}
  /\ job[r].op = "remove" \/ (job[r].op = "role" /\ job[r].role # "OWNER")

\* At most one of them is at it, and none while the project is being created.
TakersTakeTurns ==
  /\ \A r, q \in Request : Taking(r) /\ Taking(q) => r = q
  /\ \A r \in Request : Taking(r) => creation \in {"owner", "failed"} \/ Creator \in died

HasOwner == creation = "owner" => Owners # {}

\* The owners that a taker saw when it loaded the project are owners still.
TurnInv ==
  /\ HasOwner
  /\ creation = "owner" =>
       \A r \in Request : Taking(r) => job[r].basis # {} /\ job[r].basis \subseteq Owners

\* A step that takes no owner and leaves the requests but r alone.
LEMMA TurnKept ==
  ASSUME TurnInv, NEW r \in Request, UNCHANGED creation, Owners \subseteq Owners',
         \A q \in Request \ {r} :
           /\ pc'[q] = pc[q] /\ job'[q].op = job[q].op /\ job'[q].role = job[q].role
           /\ job'[q].basis = job[q].basis,
         Taking(r)' => job'[r].basis = Owners \/ (Taking(r) /\ job'[r].basis = job[r].basis)
  PROVE  TurnInv'
<1>1. HasOwner'
  BY DEF TurnInv, HasOwner
<1>2. ASSUME creation' = "owner", NEW q \in Request, Taking(q)'
      PROVE  job'[q].basis # {} /\ job'[q].basis \subseteq Owners'
  <2>1. Owners # {}
    BY <1>2 DEF TurnInv, HasOwner
  <2>2. CASE q = r
    BY <1>2, <2>1, <2>2 DEF TurnInv
  <2>3. CASE q # r
    BY <1>2, <2>3 DEF TurnInv, Taking
  <2> QED BY <2>2, <2>3
<1> QED BY <1>1, <1>2 DEF TurnInv

\* After its write a request takes no owner any more.
LEMMA WriteEndsTurn ==
  ASSUME IInv, NEW r \in Request, WriteMember(r)
  PROVE  /\ ~Taking(r)'
         /\ \A q \in Request \ {r} :
              /\ pc'[q] = pc[q] /\ job'[q].op = job[q].op /\ job'[q].role = job[q].role
              /\ job'[q].basis = job[q].basis
<1> DEFINE Kept == /\ pc'[r] \in {"audit", "done"}
                   /\ \A q \in Request \ {r} :
                        /\ pc'[q] = pc[q] /\ job'[q].op = job[q].op /\ job'[q].role = job[q].role
                        /\ job'[q].basis = job[q].basis
<1>1. ASSUME NEW m \in [User -> Role \cup {None}], Written(r, m) PROVE Kept
  <2>1. /\ job' = [Forgotten(m) EXCEPT ![r] = NoJob] /\ pc' = [pc EXCEPT ![r] = "audit"]
        /\ everOwner \subseteq everOwner'
    BY <1>1 DEF Written, Goto
  <2> QED BY <2>1, ForgottenKept
<1>2. ASSUME Quit(r) PROVE Kept
  BY <1>2, QuitTyped DEF IInv
<1>3. job[r].target \in User /\ job[r].role \in Role \cup {None} /\ members \in [User -> Role \cup {None}]
  BY DEF IInv, MemberTypeOK, Job
<1>4. /\ [members EXCEPT ![job[r].target] = job[r].role] \in [User -> Role \cup {None}]
      /\ [members EXCEPT ![job[r].target] = None] \in [User -> Role \cup {None}]
  BY <1>3
<1>5. Kept
  <2> HIDE DEF Kept
  <2> QED BY <1>1, <1>2, <1>3, <1>4 DEF WriteMember
<1> QED BY <1>5 DEF Taking

\* The one taker, at its write.
LEMMA TakerLeavesOne ==
  ASSUME IInv, TurnInv, TakersTakeTurns, NEW r \in Request, WriteMember(r), Taking(r)
  PROVE  TurnInv'
<1>1. pc[r] = "write" /\ UNCHANGED creation /\ job[r] \in Job
  BY DEF WriteMember, IInv, MemberTypeOK
<1>2. /\ ~Taking(r)'
      /\ \A q \in Request \ {r} : pc'[q] = pc[q] /\ job'[q].op = job[q].op /\ job'[q].role = job[q].role
  BY WriteEndsTurn
<1>3. \A q \in Request : ~Taking(q)'
  BY <1>2 DEF TakersTakeTurns, Taking
<1>4. HasOwner'
  <2> SUFFICES ASSUME creation' = "owner" PROVE Owners' # {}
    BY DEF HasOwner
  <2>1. job[r].basis # {} /\ job[r].basis \subseteq Owners
    BY <1>1 DEF TurnInv
  <2>2. Owners \ {job[r].target} \subseteq Owners'
    BY DEF WriteMember, Written, Owners, IInv, MemberTypeOK
  <2>3. CASE job[r].target \notin job[r].basis
    BY <2>1, <2>2, <2>3
  <2>4. CASE job[r].target \in job[r].basis
    <3>1. ~(Cardinality(job[r].basis) <= 1)
      BY <1>1, <2>4 DEF IInv, JobInv, CountOK, Taking
    <3> QED BY <2>1, <2>2, <3>1, AnotherOne
  <2> QED BY <2>3, <2>4
<1> QED BY <1>3, <1>4 DEF TurnInv

LEMMA TurnStep ==
  ASSUME IInv, TurnInv, TakersTakeTurns, [Next]_vars
  PROVE  TurnInv'
<1> USE DEF IInv
<1>1. CASE UNCHANGED vars
  BY <1>1 DEF vars, TurnInv, HasOwner, Owners, Taking
<1>2. CASE CreateProject \/ AuditCreation \/ DieCreating
  <2>1. UNCHANGED <<members, pc, job>> /\ (creation' = creation \/ creation' = "project")
    BY <1>2 DEF CreateProject, AuditCreation, DieCreating, history
  <2> QED BY <2>1 DEF TurnInv, HasOwner, Owners, Taking
<1>3. CASE EnrolOwner
  <2>1. \A r \in Request : ~Taking(r)
    BY <1>3 DEF EnrolOwner, TakersTakeTurns
  <2>2. \A r \in Request : ~Taking(r)'
    BY <1>3, <2>1 DEF EnrolOwner, Taking
  <2>3. creation' = "owner" => Creator \in Owners'
    BY <1>3, PeopleGiven DEF EnrolOwner, MemberTypeOK, Owners
  <2> QED BY <2>2, <2>3 DEF TurnInv, HasOwner
<1>4. ASSUME NEW r \in Request, Begin(r) PROVE TurnInv'
  <2>1. PICK op \in Operation, a \in User, u \in User, role \in Role \cup {None} : Authorize(r, op, a, u, role)
    <3>1. Asked \subseteq Role \cup {None} /\ None \in Role \cup {None}
      BY RolesGiven
    <3> QED BY <1>4, <3>1 DEF Begin, Operation
  <2>2. UNCHANGED <<members, creation>>
    BY <2>1 DEF Authorize
  <2>3. CASE Quit(r)
    BY <2>2, <2>3, QuitTyped, TurnKept DEF Owners, Taking
  <2>4. CASE /\ Goto(r, IF op \in {"add", "role", "remove"} THEN "inspect" ELSE "write")
             /\ job' = [job EXCEPT ![r] = [op |-> op, actor |-> a, target |-> u, role |-> role,
                                           rank |-> RankOf(a), found |-> members[u],
                                           basis |-> IF op \in {"role", "remove"} THEN Owners ELSE {}]]
    <3>1. /\ Taking(r)' => job'[r].basis = Owners
          /\ \A q \in Request \ {r} : pc'[q] = pc[q] /\ job'[q] = job[q]
      BY <2>4 DEF Goto, MemberTypeOK, Taking
    <3> QED BY <2>2, <3>1, TurnKept DEF Owners
  <2> QED BY <2>1, <2>3, <2>4 DEF Authorize, Deny
<1>5. ASSUME NEW r \in Request, Inspect(r) \/ CountOwners(r) PROVE TurnInv'
  <2>1. UNCHANGED <<members, creation>>
    BY <1>5 DEF Inspect, CountOwners
  <2>2. CASE Quit(r)
    BY <2>1, <2>2, QuitTyped, TurnKept DEF Owners, Taking
  <2>3. ASSUME NEW found, NEW label, Goto(r, label),
               \/ job' = [job EXCEPT ![r].found = found,
                                    ![r].basis = IF job[r].found = None THEN Owners ELSE @]
               \/ job' = [job EXCEPT ![r].basis = Owners]
        PROVE  TurnInv'
    <3>1. job[r] \in Job /\ pc[r] \in {"inspect", "count"}
      BY <1>5 DEF MemberTypeOK, Inspect, CountOwners
    <3>2. /\ job'[r].basis \in {Owners, job[r].basis}
          /\ job'[r].op = job[r].op /\ job'[r].role = job[r].role
          /\ \A q \in Request \ {r} : pc'[q] = pc[q] /\ job'[q] = job[q]
      BY <2>3, <3>1 DEF Goto, MemberTypeOK, Job
    <3>3. Taking(r)' => Taking(r)
      BY <3>1, <3>2 DEF Taking
    <3> QED BY <2>1, <3>2, <3>3, TurnKept DEF Owners
  <2> QED BY <1>5, <2>2, <2>3 DEF Inspect, CountOwners, Deny
<1>6. ASSUME NEW r \in Request, WriteMember(r) PROVE TurnInv'
  <2>1. CASE Taking(r)
    BY <1>6, <2>1, TakerLeavesOne
  <2>2. CASE ~Taking(r)
    <3>1. pc[r] = "write" /\ UNCHANGED creation /\ job[r] \in Job
      BY <1>6 DEF WriteMember, MemberTypeOK
    <3>2. /\ ~Taking(r)'
          /\ \A q \in Request \ {r} :
               /\ pc'[q] = pc[q] /\ job'[q].op = job[q].op /\ job'[q].role = job[q].role
               /\ job'[q].basis = job[q].basis
      BY <1>6, WriteEndsTurn
    <3>3. Owners \subseteq Owners'
      <4>1. job[r].op # "remove" /\ (job[r].op = "role" => job[r].role = "OWNER")
        BY <2>2, <3>1 DEF Taking
      <4> QED BY <1>6, <4>1, RolesGiven DEF WriteMember, Written, Owners, MemberTypeOK, Role
    <3> QED BY <3>1, <3>2, <3>3, TurnKept
  <2> QED BY <2>1, <2>2
<1>7. ASSUME NEW r \in Request, WriteProject(r) \/ Audit(r) \/ Die(r) PROVE TurnInv'
  <2>1. UNCHANGED <<members, creation>>
    BY <1>7 DEF WriteProject, Audit, Die
  <2>2. Quit(r) \/ (Goto(r, "audit") /\ job' = [job EXCEPT ![r] = NoJob])
    BY <1>7 DEF WriteProject, Audit, Die
  <2>3. ~Taking(r)' /\ \A q \in Request \ {r} : pc'[q] = pc[q] /\ job'[q] = job[q]
    BY <2>2, QuitTyped DEF Goto, MemberTypeOK, Taking
  <2> QED BY <2>1, <2>3, TurnKept DEF Owners
<1> QED BY <1>1, <1>2, <1>3, <1>4, <1>5, <1>6, <1>7 DEF Next

\* project_service.py: "Guard: Cannot demote the last OWNER".  Without any
\* exception, and whatever else runs concurrently, a project that has had its
\* owner has one, if the requests that demote or remove take turns from
\* loading the members to their write: nothing else has to wait for a lock.
THEOREM TurnsKeepAnOwner == Spec /\ []TakersTakeTurns => []HasOwner
<1>1. Init => TurnInv
  BY DEF Init, TurnInv, HasOwner
<1>2. TurnInv => HasOwner
  BY DEF TurnInv
<1>3. IInv /\ TurnInv /\ TakersTakeTurns /\ [Next]_vars => TurnInv'
  BY TurnStep
<1> QED BY <1>1, <1>2, <1>3, Invariance, PTL DEF Spec

\* Nobody becomes OWNER but by somebody who is or was one, or a superuser.
THEOREM OnlyOwnersMakeOwners == Spec => OwnersMakeOwners
<1> DEFINE Made == \A u \in Owners' \ Owners :
                     \/ u = Creator /\ creation = "project"
                     \/ \E r \in Request : pc[r] = "write" /\ job[r].target = u
                                           /\ job[r].actor \in everOwner \cup Superuser
<1>1. ASSUME IInv, [Next]_vars PROVE [Made]_vars
  <2>1. CASE UNCHANGED members
    BY <2>1 DEF Owners
  <2>2. CASE EnrolOwner
    <3>1. creation = "project" /\ \A u \in User \ {Creator} : members'[u] = members[u]
      BY <1>1, <2>2 DEF EnrolOwner, IInv, MemberTypeOK
    <3> QED BY <3>1 DEF Owners
  <2>3. ASSUME NEW r \in Request, WriteMember(r) PROVE Made
    <3> SUFFICES ASSUME NEW u \in Owners' \ Owners
                 PROVE  pc[r] = "write" /\ job[r].target = u /\ job[r].actor \in everOwner \cup Superuser
      OBVIOUS
    <3>1. pc[r] = "write"
      BY <2>3 DEF WriteMember
    <3>2. members'[u] = "OWNER" /\ members[u] # "OWNER" /\ u \in User
      BY DEF Owners
    <3>3. job[r].target = u /\ job[r].role = "OWNER" /\ job[r].op \in {"add", "role"}
      BY <1>1, <2>3, <3>2, RolesGiven DEF WriteMember, Written, IInv, MemberTypeOK, Role
    <3> QED BY <1>1, <3>1, <3>3 DEF IInv, JobInv, GrantOK
  <2>4. [Next]_vars => \/ UNCHANGED members \/ EnrolOwner \/ \E r \in Request : WriteMember(r)
    <3>1. CreateProject \/ AuditCreation \/ DieCreating => UNCHANGED members
      BY DEF CreateProject, AuditCreation, DieCreating
    <3>2. \A r \in Request : Begin(r) => UNCHANGED members
      BY DEF Begin, Authorize
    <3>3. \A r \in Request : Inspect(r) \/ CountOwners(r) \/ WriteProject(r) => UNCHANGED members
      BY DEF Inspect, CountOwners, WriteProject
    <3>4. \A r \in Request : Audit(r) \/ Die(r) => UNCHANGED members
      BY DEF Audit, Die
    <3> QED BY <3>1, <3>2, <3>3, <3>4 DEF Next, vars
  <2> HIDE DEF Made
  <2> QED BY <1>1, <2>1, <2>2, <2>3, <2>4
<1>2. Spec => [][Made]_vars
  <2> HIDE DEF Made
  <2> QED BY <1>1, Invariance, PTL DEF Spec
<1> QED BY <1>2 DEF OwnersMakeOwners

-----------------------------------------------------------------------------
(* Accounts *)

\* Only a registration or GitHub makes a user; who died makes nothing more; a
\* login that has not come to its token has none.
LoginOK(r) ==
  /\ login[r] = "account" => way[r] # "password"
  /\ login[r] = "user" => way[r] # "password"
  /\ login[r] \in {"new", "user", "account", "session"} => token[r] = "absent"
  /\ r \in lost => login[r] = "refused"

\* A token dead on arrival is dead when it is looked up, and what it was
\* denied stays denied.
AccessOK(a) ==
  /\ access[a].state = "arrived" /\ access[a].dead =>
       access[a].token \in A!Token /\ token[access[a].token] \in {"expired", "revoked"}
  /\ access[a].dead => access[a].state # "accepted"

AccountInv ==
  /\ A!AccountTypeOK
  /\ \A r \in Login : LoginOK(r)
  /\ \A a \in Access : AccessOK(a)
  /\ A!UserHasAccount

\* A token that is dead does not come to life.
LEMMA DeadIsDead ==
  ASSUME AccountInv, A!Next
  PROVE  \A k \in A!Token : token[k] \in {"expired", "revoked"} => token'[k] \in {"expired", "revoked"}
<1> SUFFICES ASSUME NEW k \in A!Token, token[k] \in {"expired", "revoked"}
             PROVE  token'[k] \in {"expired", "revoked"}
  OBVIOUS
<1> USE DEF AccountInv, A!AccountTypeOK
<1>1. ASSUME NEW r \in Login, A!CreateSession(r) PROVE token'[k] \in {"expired", "revoked"}
  BY <1>1 DEF A!CreateSession, LoginOK
<1>2. ASSUME NEW j \in ApiKey, A!IssueKey(j) PROVE token'[k] \in {"expired", "revoked"}
  BY <1>2 DEF A!IssueKey
<1>3. ASSUME NEW j \in A!Token, A!Expire(j) \/ A!Revoke(j) PROVE token'[k] \in {"expired", "revoked"}
  BY <1>3 DEF A!Expire, A!Revoke
<1>4. CASE UNCHANGED token
  BY <1>4
<1>5. ASSUME NEW r \in Login, (\E w \in A!Way : A!Enter(r, w)) \/ A!CreateUser(r) \/ A!CreateAccount(r) \/ A!Die(r)
      PROVE  UNCHANGED token
  BY <1>5 DEF A!Enter, A!CreateUser, A!CreateAccount, A!Die
<1>6. ASSUME NEW a \in Access, A!Authenticate(a) \/ \E j \in A!Token : A!Present(a, j) PROVE UNCHANGED token
  BY <1>6 DEF A!Authenticate, A!Present
<1> QED BY <1>1, <1>2, <1>3, <1>4, <1>5, <1>6 DEF A!Next

LEMMA AccessesKept ==
  ASSUME AccountInv, A!Next, UNCHANGED access
  PROVE  \A a \in Access : AccessOK(a)'
BY DeadIsDead DEF AccountInv, AccessOK

LEMMA AccountStep == AccountInv /\ [A!Next]_accountVars => AccountInv'
<1> SUFFICES ASSUME AccountInv, [A!Next]_accountVars PROVE AccountInv'
  OBVIOUS
<1> USE DEF A!AccountTypeOK
<1>1. ASSUME NEW r \in Login, NEW w \in A!Way, A!Enter(r, w) PROVE AccountInv'
  <2>1. A!AccountTypeOK' /\ \A q \in Login : LoginOK(q)'
    BY <1>1 DEF A!Enter, A!Goto, AccountInv, LoginOK, A!Way
  <2>2. A!UserHasAccount'
    BY <1>1 DEF A!Enter, A!Goto, AccountInv, LoginOK, A!UserHasAccount
  <2>3. A!Next /\ UNCHANGED access
    BY <1>1 DEF A!Next, A!Enter
  <2> QED BY <2>1, <2>2, <2>3, AccessesKept DEF AccountInv
<1>2. ASSUME NEW r \in Login, A!CreateUser(r) PROVE AccountInv'
  <2>1. A!AccountTypeOK' /\ \A q \in Login : LoginOK(q)'
    BY <1>2 DEF A!CreateUser, A!Goto, AccountInv, LoginOK
  <2>2. A!UserHasAccount'
    BY <1>2 DEF A!CreateUser, A!Goto, AccountInv, LoginOK, A!UserHasAccount
  <2>3. A!Next /\ UNCHANGED access
    BY <1>2 DEF A!Next, A!CreateUser
  <2> QED BY <2>1, <2>2, <2>3, AccessesKept DEF AccountInv
<1>3. ASSUME NEW r \in Login, A!CreateAccount(r) PROVE AccountInv'
  <2>1. A!AccountTypeOK' /\ \A q \in Login : LoginOK(q)'
    BY <1>3 DEF A!CreateAccount, A!Provider, A!Goto, AccountInv, LoginOK
  <2>2. A!UserHasAccount'
    BY <1>3 DEF A!CreateAccount, A!Provider, A!UserHasAccount
  <2>3. A!Next /\ UNCHANGED access
    BY <1>3 DEF A!Next, A!CreateAccount
  <2> QED BY <2>1, <2>2, <2>3, AccessesKept DEF AccountInv
<1>4. ASSUME NEW r \in Login, A!CreateSession(r) PROVE AccountInv'
  <2>1. A!AccountTypeOK' /\ \A q \in Login : LoginOK(q)'
    BY <1>4 DEF A!CreateSession, A!Goto, AccountInv, LoginOK, A!Token
  <2>2. A!UserHasAccount'
    BY <1>4 DEF A!CreateSession, A!Goto, AccountInv, A!UserHasAccount
  <2>3. A!Next /\ UNCHANGED access
    BY <1>4 DEF A!Next, A!CreateSession
  <2> QED BY <2>1, <2>2, <2>3, AccessesKept DEF AccountInv
<1>5. ASSUME NEW r \in Login, A!Die(r) PROVE AccountInv'
  <2>1. A!AccountTypeOK' /\ \A q \in Login : LoginOK(q)'
    BY <1>5 DEF A!Die, A!Goto, AccountInv, LoginOK
  <2>2. A!UserHasAccount'
    BY <1>5 DEF A!Die, A!Goto, AccountInv, LoginOK, A!UserHasAccount
  <2>3. A!Next /\ UNCHANGED access
    BY <1>5 DEF A!Next, A!Die
  <2> QED BY <2>1, <2>2, <2>3, AccessesKept DEF AccountInv
<1>6. ASSUME NEW k \in A!Token,
             \/ k \in ApiKey /\ A!IssueKey(k)
             \/ A!Expire(k) \/ A!Revoke(k)
      PROVE  AccountInv'
  <2>0. UNCHANGED <<user, accounts, login, way, access, lost>>
    BY <1>6 DEF A!IssueKey, A!Expire, A!Revoke
  <2>1. A!AccountTypeOK' /\ \A q \in Login : LoginOK(q)'
    BY <1>6, TokensGiven DEF A!IssueKey, A!Expire, A!Revoke, AccountInv, LoginOK, A!Token
  <2>2. A!UserHasAccount'
    BY <2>0 DEF AccountInv, A!UserHasAccount
  <2>3. A!Next
    BY <1>6 DEF A!Next
  <2> QED BY <2>0, <2>1, <2>2, <2>3, AccessesKept DEF AccountInv
<1>7. ASSUME NEW a \in Access, NEW k \in A!Token, A!Present(a, k) PROVE AccountInv'
  <2>1. A!AccountTypeOK' /\ \A q \in Login : LoginOK(q)'
    BY <1>7 DEF A!Present, AccountInv, LoginOK
  <2>2. A!UserHasAccount'
    BY <1>7 DEF A!Present, AccountInv, A!UserHasAccount
  <2>3. \A b \in Access : AccessOK(b)'
    BY <1>7 DEF A!Present, AccountInv, AccessOK
  <2> QED BY <2>1, <2>2, <2>3 DEF AccountInv
<1>8. ASSUME NEW a \in Access, A!Authenticate(a) PROVE AccountInv'
  <2>1. A!AccountTypeOK' /\ \A q \in Login : LoginOK(q)'
    BY <1>8 DEF A!Authenticate, AccountInv, LoginOK
  <2>2. A!UserHasAccount'
    BY <1>8 DEF A!Authenticate, AccountInv, A!UserHasAccount
  <2>3. \A b \in Access : AccessOK(b)'
    BY <1>8 DEF A!Authenticate, A!Live, AccountInv, AccessOK
  <2> QED BY <2>1, <2>2, <2>3 DEF AccountInv
<1>9. CASE UNCHANGED accountVars
  BY <1>9 DEF accountVars, AccountInv, LoginOK, AccessOK, A!UserHasAccount, A!Token
<1>10. ApiKey \subseteq A!Token
  BY DEF A!Token
<1> QED BY <1>1, <1>2, <1>3, <1>4, <1>5, <1>6, <1>7, <1>8, <1>9, <1>10 DEF A!Next

LEMMA AccountInit == A!Init => AccountInv
<1> SUFFICES ASSUME A!Init PROVE AccountInv
  OBVIOUS
<1>1. A!AccountTypeOK
  BY DEF A!Init, A!AccountTypeOK, A!Way
<1>2. \A r \in Login : LoginOK(r)
  BY DEF A!Init, LoginOK, A!Token
<1>3. \A a \in Access : AccessOK(a)
  <2>1. \A a \in Access : access[a].state = "new" /\ access[a].dead = FALSE
    BY DEF A!Init
  <2> QED BY <2>1 DEF AccessOK
<1>4. A!UserHasAccount
  BY DEF A!Init, A!UserHasAccount
<1> QED BY <1>1, <1>2, <1>3, <1>4 DEF AccountInv

LEMMA AccountsHold == WorkspaceSpec => []AccountInv
<1>1. WorkspaceInit => AccountInv
  BY AccountInit DEF WorkspaceInit
<1>2. AccountInv /\ [WorkspaceNext]_<<vars, side, accountVars>> => AccountInv'
  <2>1. [WorkspaceNext]_<<vars, side, accountVars>> => [A!Next]_accountVars
    BY DEF WorkspaceNext
  <2> QED BY <2>1, AccountStep
<1> QED BY <1>1, <1>2, PTL DEF WorkspaceSpec

\* Whoever registers, or comes from GitHub, at the same time as others: a user
\* without an account is one whose request goes on, or died.
THEOREM AccountForUser == WorkspaceSpec => []UserHasAccount
<1>1. AccountInv => UserHasAccount
  BY DEF AccountInv, UserHasAccount
<1> QED BY <1>1, AccountsHold, PTL

\* A token that is dead when a request arrives opens nothing to it.
THEOREM DeadTokensOpenNothing == WorkspaceSpec => []DeadTokensStayDead
<1>1. AccountInv => DeadTokensStayDead
  BY DEF AccountInv, AccessOK, DeadTokensStayDead, A!DeadTokensStayDead
<1> QED BY <1>1, AccountsHold, PTL

\* The types of both components, of any number of requests and logins.
THEOREM WorkspaceTypeCorrect == WorkspaceSpec => []WorkspaceTypeOK
<1>1. WorkspaceInit => IInv
  BY InitIInv, TeamInitIInv DEF WorkspaceInit
<1>2. [WorkspaceNext]_<<vars, side, accountVars>> => [Next]_vars
  BY DEF WorkspaceNext
<1>3. IInv /\ [Next]_vars => IInv'
  BY StepIInv
<1>4. IInv /\ AccountInv => WorkspaceTypeOK
  BY DEF IInv, AccountInv, WorkspaceTypeOK
<1> QED BY <1>1, <1>2, <1>3, <1>4, AccountsHold, PTL DEF WorkspaceSpec

=============================================================================
