----------------------------- MODULE Membership -----------------------------
(***************************************************************************)
(* A project, its members and its API keys: ProjectService in              *)
(* backend/app/services/project_service.py.  Its endpoints run on threads; *)
(* a request reads who asks, reads whom it concerns, counts the owners,    *)
(* writes and audits, with statements of other requests in between (READ   *)
(* COMMITTED, no locks), and its write and its audit entry are commits of  *)
(* their own.  Loading the project loads all its members, and a loaded row  *)
(* answers every later look-up of its member in that session with the role *)
(* it was loaded with: only whether the row is there still is read anew.   *)
(***************************************************************************)
EXTENDS Integers, FiniteSets

CONSTANTS
  User,       \* registered users
  Superuser,  \* those of them with is_superuser
  Creator,    \* the user who creates the project
  Request,    \* requests about the project, each made at most once
  Asked,      \* the roles that requests ask for
  MaxDeaths,  \* bound: requests that die under way
  None        \* no membership, nobody

ASSUME PeopleGiven == Superuser \subseteq User /\ Creator \in User
ASSUME DeathsBounded == MaxDeaths \in Nat

Role == {"OWNER", "MAINTAINER", "DEVELOPER", "VIEWER"}
ASSUME RolesGiven == Asked \subseteq Role /\ None \notin Role \cup User

Level == [OWNER |-> 4, MAINTAINER |-> 3, DEVELOPER |-> 2, VIEWER |-> 1]

VARIABLES
  project,    \* "absent", "active" or "archived"
  members,    \* project_members: each user's role, None without a row
  key,        \* api_keys, for the first key issued: "absent", "active" or "revoked"
  audited,    \* audit_logs: what is recorded of a request, and of create_project under Creator
  creation,   \* how far create_project is
  pc, job,
  everOwner,  \* history: the users who have been OWNER
  stale,      \* history: an owner was lost to a write resting on an outdated look at the
              \* owners, at the roles loaded with the project or at the count
  died        \* requests that died, Creator for create_project

vars == <<project, members, key, audited, creation, pc, job, everOwner, stale, died>>
history == <<everOwner, stale>>

Operation == {"add", "role", "remove", "delete", "issue", "revoke"}
Owners    == {u \in User : members[u] = "OWNER"}
Goto(r, label) == pc' = [pc EXCEPT ![r] = label]

\* rank, found: the roles of the asker and of the target in the rows that the
\* session holds, None for a row it has not loaded; basis: the owners when the
\* target's role, or the count, was read.
Job   == [op : Operation, actor : User, target : User, role : Role \cup {None},
          rank : Role \cup {None}, found : Role \cup {None}, basis : SUBSET User]
NoJob == [op |-> "add", actor |-> Creator, target |-> Creator, role |-> None,
          rank |-> None, found |-> None, basis |-> {}]

Init ==
  /\ project = "absent" /\ members = [u \in User |-> None] /\ key = "absent"
  /\ audited = [x \in Request \cup {Creator} |-> "nothing"] /\ creation = "none"
  /\ pc = [r \in Request |-> "new"] /\ job = [r \in Request |-> NoJob]
  /\ everOwner = {} /\ stale = FALSE /\ died = {}

-----------------------------------------------------------------------------
(* create_project: the project, its owner's membership, the audit entry *)

CreateProject ==
  /\ creation = "none" /\ project = "absent"
  /\ project' = "active" /\ creation' = "project"
  /\ UNCHANGED <<members, key, audited, pc, job, died>> /\ UNCHANGED history

\* A superuser may have added the creator by then: the unique constraint.
EnrolOwner ==
  /\ creation = "project" /\ Creator \notin died
  /\ \/ /\ members[Creator] = None
        /\ members' = [members EXCEPT ![Creator] = "OWNER"]
        /\ everOwner' = everOwner \cup {Creator}
        /\ creation' = "owner"
     \/ /\ members[Creator] # None
        /\ creation' = "failed" /\ UNCHANGED <<members, everOwner>>
  /\ UNCHANGED <<project, key, audited, pc, job, stale, died>>

AuditCreation ==
  /\ creation = "owner" /\ audited[Creator] = "nothing" /\ Creator \notin died
  /\ audited' = [audited EXCEPT ![Creator] = "SUCCESS"]
  /\ UNCHANGED <<project, members, key, creation, pc, job, died>> /\ UNCHANGED history

-----------------------------------------------------------------------------
(* A request: who asks *)

Required == [add |-> "MAINTAINER", role |-> "OWNER", delete |-> "OWNER",
             issue |-> "MAINTAINER", revoke |-> "MAINTAINER", remove |-> "VIEWER"]

\* _require_role: a superuser passes with whatever membership there is.
Allowed(actor, rank, op) ==
  actor \in Superuser \/ (rank # None /\ Level[rank] >= Level[Required[op]])

\* What _require_role returns: a superuser without a membership acts as OWNER.
RankOf(actor) == IF actor \in Superuser /\ members[actor] = None THEN "OWNER" ELSE members[actor]

\* MUTANT: the role asked for is not looked at.
MayGrantAny(actor, rank, op, role) == TRUE

\* Only an OWNER adds an OWNER.
MayGrant(actor, rank, op, role) == op = "add" /\ role = "OWNER" => rank = "OWNER" \/ actor \in Superuser

Quit(r) == Goto(r, "done") /\ job' = [job EXCEPT ![r] = NoJob]

\* MUTANT: a denial goes on record as a failure of the server.
DenyAsFailure(r) == Quit(r) /\ audited' = [audited EXCEPT ![r] = "FAILURE"]

\* _require_role puts a denial on record.
Deny(r) == Quit(r) /\ audited' = [audited EXCEPT ![r] = "DENIED"]

\* get_project_for_user and the role check that follows it.  What a later
\* look-up will find in the session is read here.
Authorize(r, op, actor, target, role) ==
  /\ pc[r] = "new"
  /\ LET rank == RankOf(actor) IN
     \/ /\ project = "active" /\ Allowed(actor, rank, op) /\ MayGrant(actor, rank, op, role)
        /\ Goto(r, IF op \in {"add", "role", "remove"} THEN "inspect" ELSE "write")
        /\ job' = [job EXCEPT ![r] = [op |-> op, actor |-> actor, target |-> target, role |-> role,
                                      rank |-> rank, found |-> members[target],
                                      basis |-> IF op \in {"role", "remove"} THEN Owners ELSE {}]]
        /\ UNCHANGED audited
     \/ /\ project = "active" /\ ~Allowed(actor, rank, op)
        /\ Deny(r)
     \/ /\ project # "active" \/ (Allowed(actor, rank, op) /\ ~MayGrant(actor, rank, op, role))
        /\ Quit(r) /\ UNCHANGED audited
  /\ UNCHANGED <<project, members, key, creation, died>> /\ UNCHANGED history

-----------------------------------------------------------------------------
(* A request: whom it concerns *)

\* An owner is at stake: the owners are counted before the write.
AtStake(r, found) ==
  found = "OWNER" /\ (job[r].op = "remove" \/ (job[r].op = "role" /\ job[r].role # "OWNER"))

OfAnother(r) == job[r].op = "remove" /\ job[r].actor # job[r].target /\ job[r].actor \notin Superuser

\* What get_member answers: of a row that the session holds the role as loaded.
Answer(loaded, u) == IF loaded # None THEN loaded ELSE members[u]

\* Removing others takes a MAINTAINER still in the project, removing another
\* owner an OWNER.
TooLow(r, rank)               == OfAnother(r) /\ (rank = None \/ Level[rank] < Level["MAINTAINER"])
OwnerOutranks(r, rank, found) == OfAnother(r) /\ found = "OWNER" /\ rank # "OWNER"

Inspect(r) ==
  /\ pc[r] = "inspect"
  /\ LET rank  == Answer(job[r].rank, job[r].actor)
         found == Answer(job[r].found, job[r].target) IN
     IF (found = None) # (job[r].op = "add") THEN Quit(r) /\ UNCHANGED audited
     ELSE IF TooLow(r, rank) THEN Deny(r)
     ELSE IF OwnerOutranks(r, rank, found) THEN Quit(r) /\ UNCHANGED audited
     ELSE /\ job' = [job EXCEPT ![r].found = found,
                               ![r].basis = IF job[r].found = None THEN Owners ELSE @]
          /\ Goto(r, IF AtStake(r, found) THEN "count" ELSE "write")
          /\ UNCHANGED audited
  /\ UNCHANGED <<project, members, key, creation, died>> /\ UNCHANGED history

\* MUTANT: the last owner is not counted as one.
CountOwnersOffByOne(r) ==
  /\ pc[r] = "count"
  /\ IF Cardinality(Owners) < 1 THEN Quit(r)
     ELSE Goto(r, "write") /\ job' = [job EXCEPT ![r].basis = Owners]
  /\ UNCHANGED <<project, members, key, audited, creation, died>> /\ UNCHANGED history

\* count_owners: the last owner is neither removed nor demoted.
CountOwners(r) ==
  /\ pc[r] = "count"
  /\ IF Cardinality(Owners) <= 1 THEN Quit(r)
     ELSE Goto(r, "write") /\ job' = [job EXCEPT ![r].basis = Owners]
  /\ UNCHANGED <<project, members, key, audited, creation, died>> /\ UNCHANGED history

-----------------------------------------------------------------------------
(* A request: the write.  A second row for one member breaks the unique
   constraint, an UPDATE that finds no row fails; a role equal to the one the
   session loaded is not written.  A member found gone by remove_member, and a
   key found revoked, leave nothing to write; only the latter is told. *)

\* The row of somebody who was removed answers no session any more, and the one
\* of somebody added again is another row.
Forgotten(newMembers) ==
  [q \in Request |->
     [job[q] EXCEPT !.found = IF newMembers[job[q].target] = None THEN None ELSE @,
                    !.rank  = IF newMembers[job[q].actor] = None THEN None ELSE @]]

Written(r, newMembers) ==
  /\ members' = newMembers
  /\ job' = [Forgotten(newMembers) EXCEPT ![r] = NoJob]
  /\ everOwner' = everOwner \cup {u \in User : newMembers[u] = "OWNER"}
  /\ stale' = (stale \/ (Owners \ {u \in User : newMembers[u] = "OWNER"} # {} /\ Owners # job[r].basis))
  /\ Goto(r, "audit")
  /\ UNCHANGED <<project, key>>

WriteMember(r) ==
  LET u == job[r].target IN
  /\ pc[r] = "write"
  /\ \/ /\ job[r].op = "add" /\ members[u] = None
        /\ Written(r, [members EXCEPT ![u] = job[r].role])
     \/ /\ job[r].op = "role" /\ members[u] # None
        /\ Written(r, IF job[r].role = job[r].found THEN members ELSE [members EXCEPT ![u] = job[r].role])
     \/ /\ job[r].op = "remove"
        /\ Written(r, [members EXCEPT ![u] = None])
     \/ /\ \/ job[r].op = "add" /\ members[u] # None
           \/ job[r].op = "role" /\ members[u] = None
        /\ Quit(r) /\ UNCHANGED <<project, members, key>> /\ UNCHANGED history
  /\ UNCHANGED <<audited, creation, died>>

WriteProject(r) ==
  /\ pc[r] = "write"
  /\ \/ /\ job[r].op = "delete" /\ project' = "archived" /\ UNCHANGED key
        /\ Goto(r, "audit") /\ job' = [job EXCEPT ![r] = NoJob]
     \/ /\ job[r].op = "issue" /\ key' = (IF key = "absent" THEN "active" ELSE key) /\ UNCHANGED project
        /\ Goto(r, "audit") /\ job' = [job EXCEPT ![r] = NoJob]
     \/ /\ job[r].op = "revoke" /\ key = "active" /\ key' = "revoked" /\ UNCHANGED project
        /\ Goto(r, "audit") /\ job' = [job EXCEPT ![r] = NoJob]
     \/ /\ job[r].op = "revoke" /\ key # "active" /\ Quit(r)
        /\ UNCHANGED <<project, key>>
  /\ UNCHANGED <<members, audited, creation, died>> /\ UNCHANGED history

Audit(r) ==
  /\ pc[r] = "audit"
  /\ audited' = [audited EXCEPT ![r] = "SUCCESS"]
  /\ Quit(r)
  /\ UNCHANGED <<project, members, key, creation, died>> /\ UNCHANGED history

-----------------------------------------------------------------------------
Die(r) ==
  /\ pc[r] \notin {"new", "done"} /\ Cardinality(died) < MaxDeaths
  /\ died' = died \cup {r} /\ Quit(r)
  /\ UNCHANGED <<project, members, key, audited, creation>> /\ UNCHANGED history

DieCreating ==
  /\ creation \in {"project", "owner"} /\ audited[Creator] = "nothing"
  /\ Creator \notin died /\ Cardinality(died) < MaxDeaths
  /\ died' = died \cup {Creator}
  /\ UNCHANGED <<project, members, key, audited, creation, pc, job>> /\ UNCHANGED history

Begin(r) ==
  \/ \E op \in {"add", "role"}, a \in User, u \in User, role \in Asked : Authorize(r, op, a, u, role)
  \/ \E a \in User, u \in User : Authorize(r, "remove", a, u, None)
  \/ \E op \in {"delete", "issue", "revoke"}, a \in User : Authorize(r, op, a, a, None)

Next ==
  \/ CreateProject \/ EnrolOwner \/ AuditCreation \/ DieCreating
  \/ \E r \in Request :
       \/ Begin(r) \/ Inspect(r) \/ CountOwners(r) \/ WriteMember(r) \/ WriteProject(r) \/ Audit(r)
       \/ Die(r)

Spec == Init /\ [][Next]_vars

-----------------------------------------------------------------------------
(* Properties *)

MemberTypeOK ==
  /\ project \in {"absent", "active", "archived"}
  /\ members \in [User -> Role \cup {None}]
  /\ key \in {"absent", "active", "revoked"}
  /\ audited \in [Request \cup {Creator} -> {"nothing", "SUCCESS", "DENIED"}]
  /\ creation \in {"none", "project", "owner", "failed"}
  /\ pc \in [Request -> {"new", "inspect", "count", "write", "audit", "done"}]
  /\ job \in [Request -> Job]
  /\ everOwner \subseteq User /\ stale \in BOOLEAN
  /\ died \subseteq Request \cup {Creator}

\* project_service.py: "Guard: Cannot demote the last OWNER".  Whatever was
\* added, promoted and removed since, a project that has had its owner has one
\* still, unless a write took an owner on an outdated look: the owners had
\* changed since it counted them, or since it loaded its target as no owner.
OwnerLeftUnlessRaced == (creation = "owner" /\ ~stale) => Owners # {}

\* Nobody becomes OWNER but by somebody who is or was one, or a superuser:
\* no sequence of additions, promotions and removals leads around it.
OwnersMakeOwners ==
  [][\A u \in Owners' \ Owners :
       \/ u = Creator /\ creation = "project"
       \/ \E r \in Request : pc[r] = "write" /\ job[r].target = u
                             /\ job[r].actor \in everOwner \cup Superuser]_vars

=============================================================================
