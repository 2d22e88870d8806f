------------------------------ MODULE Accounts ------------------------------
(***************************************************************************)
(* Accounts, sessions and the setup of a Server (backend/auth.py, and the  *)
(* middleware and endpoints of backend/main.py that call it).              *)
(*                                                                         *)
(* The methods of AuthService await nothing.  A request is authenticated   *)
(* by the middleware, which remembers who its user is; the endpoint runs   *)
(* later, when the body has been read, and acts in that user's name.       *)
(***************************************************************************)
CONSTANTS
    Users,        \* user names, each standing for the account it may name
    Passwords,    \* passwords
    Secrets,      \* setup tokens
    Browsers,     \* cookie jars, each with one request in flight at most
    None,         \* no file, no row, no cookie
    Empty         \* what a setup secret file holds before it is written

ASSUME AccountsAssumption ==
    /\ None \notin Secrets /\ Empty \notin Secrets /\ Empty # None
    /\ Passwords # {}

VARIABLES
    users,        \* the table users
    digest,       \* setup_state: the setup token it was made for, or None
    consumed,     \* setup_state.consumed_at is set
    file,         \* the setup secret file
    up,           \* whether the Server is running
    session,      \* the session whose cookie a browser holds, while valid
    request       \* the requests in flight

storage == <<users, digest, consumed, file>>
accountVars == <<users, digest, consumed, file, up, session, request>>

-----------------------------------------------------------------------------
Roles == {"admin", "member"}

User == [present : BOOLEAN, role : Roles, enabled : BOOLEAN,
         password : Passwords]

NewUser(role, p) ==
    [present |-> TRUE, role |-> role, enabled |-> TRUE, password |-> p]

NoUser == [NewUser("member", CHOOSE p \in Passwords : TRUE)
              EXCEPT !.present = FALSE, !.enabled = FALSE]

(* A session, with the role and the password it was opened under (history). *)
Session == [user : Users, role : Roles, password : Passwords]

(* Whether an endpoint is one of /api/admin, and by whom the middleware    *)
(* took its request to come.                                               *)
Request == [admin : BOOLEAN, actor : Users]

AnyUser == \E u \in Users : users[u].present
Exists(u) == users[u].present

(* Mutant: enabled = 1 is left out of the queries. *)
MutantActiveAdmin(u) == users[u].present /\ users[u].role = "admin"

ActiveAdmin(u) ==
    users[u].present /\ users[u].role = "admin" /\ users[u].enabled

AccountsInit ==
    /\ users = [u \in Users |-> NoUser]
    /\ digest = None /\ consumed = FALSE /\ file = None
    /\ up = FALSE
    /\ session = [b \in Browsers |-> None]
    /\ request = [b \in Browsers |-> None]

-----------------------------------------------------------------------------
(* Starting, and the first administrator.                                  *)

(* ensure_setup_secret(): run before the Server, it makes a missing file.  *)
EnsureSetupSecret(s) ==
    /\ ~up /\ file = None
    /\ file' = s
    /\ UNCHANGED <<users, digest, consumed, up, session, request>>

(* It creates the file and writes it afterwards.  Cut off in between, it   *)
(* leaves an empty file, which no later run of it replaces.                *)
TornSecret ==
    /\ ~up /\ file = None
    /\ file' = Empty
    /\ UNCHANGED <<users, digest, consumed, up, session, request>>

(* initialize_setup_secret(): anything else is a RuntimeError, that the    *)
(* secret is missing, that it is too short or that it is another one.      *)
MayStart == \/ AnyUser
            \/ consumed
            \/ file \in Secrets /\ digest \in {None, file}

Start ==
    /\ ~up /\ MayStart
    /\ up' = TRUE
    /\ digest' = IF AnyUser \/ digest # None THEN digest ELSE file
    /\ UNCHANGED <<users, consumed, file, session, request>>

SetupAvailable(s) ==
    /\ digest # None /\ ~consumed /\ s = digest
    /\ \A u \in Users : ~(users[u].present /\ users[u].role = "admin")

(* The transaction of create_first_admin(). *)
InsertFirstAdmin(u, s, p) ==
    /\ up /\ SetupAvailable(s) /\ ~Exists(u)
    /\ users' = [users EXCEPT ![u] = NewUser("admin", p)]
    /\ consumed' = TRUE

CreateFirstAdmin(u, s, p) ==
    /\ InsertFirstAdmin(u, s, p)
    /\ file' = None
    /\ UNCHANGED <<digest, up, session, request>>

Stopped == /\ up' = FALSE
           /\ request' = [b \in Browsers |-> None]

(* Mutant: the secret file is removed before the account is stored. *)
MutantTornSetup(u, s, p) ==
    /\ up /\ SetupAvailable(s) /\ ~Exists(u)
    /\ file' = None
    /\ Stopped
    /\ UNCHANGED <<users, digest, consumed, session>>

(* The process ends between the commit and the removal of the file. *)
TornSetup(u, s, p) ==
    /\ InsertFirstAdmin(u, s, p)
    /\ Stopped
    /\ UNCHANGED <<digest, file, session>>

Crash == up /\ Stopped /\ UNCHANGED <<users, digest, consumed, file, session>>

-----------------------------------------------------------------------------
(* Sessions.                                                               *)

Login(b, u, p) ==
    /\ up /\ Exists(u) /\ users[u].enabled /\ users[u].password = p
    /\ session' = [session EXCEPT ![b] = [user |-> u, role |-> users[u].role,
                                          password |-> p]]
    /\ UNCHANGED <<storage, up, request>>

SessionExpires(b) ==
    /\ session[b] # None
    /\ session' = [session EXCEPT ![b] = None]
    /\ UNCHANGED <<storage, up, request>>

(* authenticate(): whom the cookie of b stands for now. *)
Authentic(b) == session[b] # None /\ users[session[b].user].enabled

(* The middleware lets a request through to its endpoint. *)
Arrive(b, admin) ==
    /\ up /\ request[b] = None
    /\ Authentic(b)
    /\ admin => users[session[b].user].role = "admin"
    /\ request' = [request EXCEPT ![b] = [admin |-> admin,
                                          actor |-> session[b].user]]
    /\ UNCHANGED <<storage, up, session>>

(* The endpoint of a request runs. *)
Serve(b, admin) ==
    /\ request[b] # None /\ request[b].admin = admin
    /\ request' = [request EXCEPT ![b] = None]
    /\ UNCHANGED <<digest, consumed, file, up>>

(* It refuses, which is audited, or the client has gone away. *)
Refused(b) ==
    /\ request[b] # None
    /\ Serve(b, request[b].admin)
    /\ UNCHANGED <<users, session>>

(* Mutant: nothing is revoked. *)
MutantWithoutSessionsOf(u) == session

(* _revoke_user_sessions(). *)
WithoutSessionsOf(u) ==
    [b \in Browsers |->
        IF session[b] # None /\ session[b].user = u THEN None ELSE session[b]]

Logout(b) ==
    /\ Serve(b, FALSE)
    /\ session' = [session EXCEPT ![b] = None]
    /\ UNCHANGED users

(* change_password(): the account, which need not be enabled any more.     *)
ChangePassword(b, old, new) ==
    /\ Serve(b, FALSE)
    /\ LET u == request[b].actor
       IN  /\ users[u].password = old
           /\ users' = [users EXCEPT ![u].password = new]
           /\ session' = WithoutSessionsOf(u)

-----------------------------------------------------------------------------
(* The administrators' operations look at their actor again.               *)

Manage(b) == Serve(b, TRUE) /\ ActiveAdmin(request[b].actor)

CreateUser(b, u, role, p) ==
    /\ Manage(b)
    /\ ~Exists(u)
    /\ users' = [users EXCEPT ![u] = NewUser(role, p)]
    /\ UNCHANGED session

EnableUser(b, u) ==
    /\ Manage(b)
    /\ Exists(u)
    /\ users' = [users EXCEPT ![u].enabled = TRUE]
    /\ UNCHANGED session

(* u may stop being an active administrator. *)
MayLose(b, u) ==
    /\ u # request[b].actor
    /\ ActiveAdmin(u) => \E v \in Users \ {u} : ActiveAdmin(v)

DisableUser(b, u) ==
    /\ Manage(b)
    /\ Exists(u) /\ MayLose(b, u)
    /\ users' = [users EXCEPT ![u].enabled = FALSE]
    /\ session' = WithoutSessionsOf(u)

(* set_user_role(), where the role is a new one. *)
SetRole(b, u, role) ==
    /\ Manage(b)
    /\ Exists(u) /\ users[u].role # role
    /\ u # request[b].actor
    /\ role = "member" => MayLose(b, u)
    /\ users' = [users EXCEPT ![u].role = role]
    /\ session' = WithoutSessionsOf(u)

ResetPassword(b, u, p) ==
    /\ Manage(b)
    /\ Exists(u) /\ u # request[b].actor
    /\ users' = [users EXCEPT ![u].password = p]
    /\ session' = WithoutSessionsOf(u)

-----------------------------------------------------------------------------
(* The steps that revoke no capability, and those that do.                 *)

HarmlessStep ==
    \/ \E s \in Secrets : EnsureSetupSecret(s)
    \/ TornSecret \/ Start \/ Crash
    \/ \E u \in Users, s \in Secrets, p \in Passwords :
          CreateFirstAdmin(u, s, p) \/ TornSetup(u, s, p)
    \/ \E b \in Browsers :
          \/ \E u \in Users, p \in Passwords : Login(b, u, p)
          \/ SessionExpires(b) \/ Refused(b) \/ Logout(b)
          \/ \E admin \in BOOLEAN : Arrive(b, admin)
          \/ \E old, new \in Passwords : ChangePassword(b, old, new)
          \/ \E u \in Users, role \in Roles, p \in Passwords :
                CreateUser(b, u, role, p)
          \/ \E u \in Users : EnableUser(b, u) \/ SetRole(b, u, "admin")
          \/ \E u \in Users, p \in Passwords : ResetPassword(b, u, p)

Demotion(u) == \E b \in Browsers : DisableUser(b, u) \/ SetRole(b, u, "member")

AccountStep == HarmlessStep \/ \E u \in Users : Demotion(u)

-----------------------------------------------------------------------------
(* Properties.                                                             *)

(* Every table keeps its shape. *)
AccountsTyped ==
    /\ users \in [Users -> User]
    /\ digest \in Secrets \cup {None} /\ file \in Secrets \cup {None, Empty}
    /\ consumed \in BOOLEAN /\ up \in BOOLEAN
    /\ session \in [Browsers -> Session \cup {None}]
    /\ request \in [Browsers -> Request \cup {None}]

(* Once somebody has set the Server up, an enabled administrator remains,  *)
(* whatever administrators do to one another at the same time.             *)
AdminRemains ==
    consumed => \E u \in Users : /\ users[u].present /\ users[u].enabled
                                 /\ users[u].role = "admin"

(* From the moment a setup token is in its file, the Server can be started *)
(* wherever it or the setup ends: an announced token that was not used is  *)
(* still the one in the file.  (Before that moment an interrupted          *)
(* preparation, TornSecret, leaves a Server that cannot be started.)       *)
StartsAgain == digest # None \/ file \in Secrets => MayStart

(* A session is worth what its user's account is now: nobody keeps one     *)
(* that was opened under a role or a password since taken away.            *)
SessionsAreEntitled ==
    \A b \in Browsers : session[b] # None =>
        LET s == session[b]
        IN  /\ users[s.user].enabled
            /\ users[s.user].role = s.role
            /\ users[s.user].password = s.password

=============================================================================
