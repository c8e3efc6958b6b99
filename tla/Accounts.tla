------------------------------ MODULE Accounts ------------------------------
(***************************************************************************)
(* How one person's user, accounts and tokens come to be and cease to      *)
(* work: AuthService (backend/app/services/auth_service.py), get_current_  *)
(* user (api/deps.py) and the repositories below them.  The person has one *)
(* e-mail address, which GitHub knows, too.  Requests run on threads; the  *)
(* user row, the account row and the session row are a commit each.  The   *)
(* audit entries that logins and logouts leave, and what GitHub tells of a *)
(* name or a picture, are left out: nothing here reads them.               *)
(***************************************************************************)
EXTENDS Integers, FiniteSets

CONSTANTS
  Login,     \* requests that register or log in, each made once and each good for a token
  ApiKey,    \* API keys issued to the person
  Access,    \* requests that present a token
  MaxDeaths, \* bound: requests that die under way
  None       \* no token

Token == Login \cup ApiKey

VARIABLES
  user,       \* whether the users row exists
  accounts,   \* auth_accounts of the person: subset of {"password", "github"}
  token,      \* each token's row: "absent", "active", "expired" or "revoked"
  pc, way,    \* of logins; way: "password" or "github", or "register"
  access,     \* of accesses: [state, token, dead]
  died        \* logins that died under way

vars == <<user, accounts, token, pc, way, access, died>>

Way == {"register", "password", "github"}
Provider(r) == IF way[r] = "github" THEN "github" ELSE "password"
Goto(r, label) == pc' = [pc EXCEPT ![r] = label]

Init ==
  /\ user = FALSE /\ accounts = {}
  /\ token = [k \in Token |-> "absent"]
  /\ pc = [r \in Login |-> "new"] /\ way = [r \in Login |-> "register"]
  /\ access = [a \in Access |-> [state |-> "new", token |-> None, dead |-> FALSE]]
  /\ died = {}

-----------------------------------------------------------------------------
(* register, login, authenticate_github *)

\* register looks for the e-mail, login and GitHub for their account; a new
\* GitHub identity is given to the user of the same e-mail, if there is one.
Enter(r, w) ==
  /\ pc[r] = "new"
  /\ way' = [way EXCEPT ![r] = w]
  /\ Goto(r, CASE w = "register"                         -> IF user THEN "refused" ELSE "user"
               [] w = "password"                         -> IF "password" \in accounts THEN "session" ELSE "refused"
               [] w = "github" /\ "github" \in accounts  -> "session"
               [] w = "github" /\ "github" \notin accounts -> IF user THEN "account" ELSE "user")
  /\ UNCHANGED <<user, accounts, token, access, died>>

\* users.email is unique: the second of two that found no user fails.
CreateUser(r) ==
  /\ pc[r] = "user"
  /\ user' = TRUE
  /\ Goto(r, IF user THEN "refused" ELSE "account")
  /\ UNCHANGED <<accounts, token, way, access, died>>

\* MUTANT: the account is left for the first login.
CreateAccountLater(r) ==
  /\ pc[r] = "account"
  /\ Goto(r, "session")
  /\ UNCHANGED <<user, accounts, token, way, access, died>>

\* (provider, provider_user_id) is unique.
CreateAccount(r) ==
  /\ pc[r] = "account"
  /\ accounts' = accounts \cup {Provider(r)}
  /\ Goto(r, IF Provider(r) \in accounts THEN "refused" ELSE "session")
  /\ UNCHANGED <<user, token, way, access, died>>

CreateSession(r) ==
  /\ pc[r] = "session"
  /\ token' = [token EXCEPT ![r] = "active"]
  /\ Goto(r, "done")
  /\ UNCHANGED <<user, accounts, way, access, died>>

Die(r) ==
  /\ pc[r] \in {"user", "account", "session"} /\ Cardinality(died) < MaxDeaths
  /\ died' = died \cup {r} /\ Goto(r, "refused")
  /\ UNCHANGED <<user, accounts, token, way, access>>

-----------------------------------------------------------------------------
(* Tokens: sessions and API keys.  A key is issued to a user. *)

IssueKey(k) ==
  /\ user /\ accounts # {} /\ token[k] = "absent"
  /\ token' = [token EXCEPT ![k] = "active"]
  /\ UNCHANGED <<user, accounts, pc, way, access, died>>

\* Thirty days, or what the key was given.
Expire(k) ==
  /\ token[k] = "active" /\ token' = [token EXCEPT ![k] = "expired"]
  /\ UNCHANGED <<user, accounts, pc, way, access, died>>

\* MUTANT: of an expired key only the revocation is looked at.
LiveUnlessRevoked(k) == token[k] \in {"active", "expired"}

\* get_active_session and get_active_by_raw_key: neither revoked nor expired.
Live(k) == token[k] = "active"

\* logout, or the revocation of a key: an active row only.
Revoke(k) ==
  /\ token[k] = "active" /\ token' = [token EXCEPT ![k] = "revoked"]
  /\ UNCHANGED <<user, accounts, pc, way, access, died>>

-----------------------------------------------------------------------------
(* get_current_user: a request arrives, its token is looked up, and the user
   it stands for is what the rest of the request goes by. *)

Present(a, k) ==
  /\ access[a].state = "new" /\ token[k] # "absent"
  /\ access' = [access EXCEPT ![a] = [state |-> "arrived", token |-> k, dead |-> token[k] # "active"]]
  /\ UNCHANGED <<user, accounts, token, pc, way, died>>

Authenticate(a) ==
  /\ access[a].state = "arrived"
  /\ access' = [access EXCEPT ![a].state = IF Live(access[a].token) THEN "accepted" ELSE "denied"]
  /\ UNCHANGED <<user, accounts, token, pc, way, died>>

Next ==
  \/ \E r \in Login :
       \/ \E w \in Way : Enter(r, w)
       \/ CreateUser(r) \/ CreateAccount(r) \/ CreateSession(r) \/ Die(r)
  \/ \E k \in ApiKey : IssueKey(k)
  \/ \E k \in Token : Expire(k) \/ Revoke(k)
  \/ \E a \in Access : Authenticate(a) \/ \E k \in Token : Present(a, k)

Spec == Init /\ [][Next]_vars

-----------------------------------------------------------------------------
(* Properties *)

AccountTypeOK ==
  /\ user \in BOOLEAN
  /\ accounts \subseteq {"password", "github"}
  /\ token \in [Token -> {"absent", "active", "expired", "revoked"}]
  /\ pc \in [Login -> {"new", "user", "account", "session", "done", "refused"}]
  /\ way \in [Login -> Way]
  /\ access \in [Access -> [state : {"new", "arrived", "accepted", "denied"},
                            token : Token \cup {None}, dead : BOOLEAN]]
  /\ died \subseteq Login

\* A user without an account cannot log in, and the e-mail is taken: that
\* happens only while the request that made the user goes on, or if it died.
UserHasAccount ==
  user /\ accounts = {} =>
    \/ \E r \in Login : pc[r] = "account"
    \/ \E r \in died : way[r] # "password"

\* A token that was revoked or had expired when a request arrived opens
\* nothing to it, whatever was revoked, issued or expired meanwhile.
DeadTokensStayDead == \A a \in Access : access[a].dead => access[a].state # "accepted"

=============================================================================
