---------------------------- MODULE MCWorkspace ----------------------------
(***************************************************************************)
(* Instances of Membership and Accounts for TLC.  The two have no state in *)
(* common, so a behaviour of this module is one of either: "side" says     *)
(* which, and the other component stays in its initial state.              *)
(***************************************************************************)
EXTENDS Membership, TLC

CONSTANTS u1, u2, s1, r1, r2, r3, Login, ApiKey, Access

ASSUME TokensGiven == Login \cap ApiKey = {}

VARIABLES side, user, accounts, token, login, way, access, lost

A == INSTANCE Accounts WITH pc <- login, died <- lost
accountVars == <<user, accounts, token, login, way, access, lost>>

Symmetry == Permutations(Request) \cup Permutations(Login)

\* A project that was created, and to which a maintainer was added, before: with
\* it the bound on requests leaves room for a member promoted or demoted after
\* somebody else loaded the members.
TeamInit ==
  /\ project = "active" /\ key = "absent" /\ creation = "owner"
  /\ \E u \in User \ (Superuser \cup {Creator}) :
       members = [v \in User |-> IF v = Creator THEN "OWNER" ELSE IF v = u THEN "MAINTAINER" ELSE None]
  /\ audited = [x \in Request \cup {Creator} |-> IF x = Creator THEN "SUCCESS" ELSE "nothing"]
  /\ pc = [r \in Request |-> "new"] /\ job = [r \in Request |-> NoJob]
  /\ everOwner = {Creator} /\ stale = FALSE /\ died = {}

WorkspaceInit ==
  /\ A!Init
  /\ \/ Init /\ side \in {"members", "accounts"}
     \/ TeamInit /\ side = "members"
WorkspaceNext ==
  \/ side = "members"  /\ Next   /\ UNCHANGED side /\ UNCHANGED accountVars
  \/ side = "accounts" /\ A!Next /\ UNCHANGED side /\ UNCHANGED vars
WorkspaceSpec == WorkspaceInit /\ [][WorkspaceNext]_<<vars, side, accountVars>>

\* The types of both components.
WorkspaceTypeOK == MemberTypeOK /\ A!AccountTypeOK

\* UserHasAccount and DeadTokensStayDead of Accounts.
UserHasAccount     == A!UserHasAccount
DeadTokensStayDead == A!DeadTokensStayDead
=============================================================================
