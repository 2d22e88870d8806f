------------------------- MODULE CapabilitiesProofs -------------------------
(***************************************************************************)
(* What Accounts and Capabilities promise, for any users, browsers, tasks, *)
(* tokens, calls and any number of uses.                                   *)
(***************************************************************************)
EXTENDS Capabilities, TLAPS

(* An account that may log in exists. *)
EnabledExist == \A u \in Users : users[u].enabled => users[u].present

(* A setup token that was announced and not used is still in its file. *)
SecretKept == digest # None => AnyUser \/ consumed \/ file = digest

(* A session s may be kept when its user's row becomes q. *)
Suits(s, q) == q.enabled /\ q.role = s.role /\ q.password = s.password

AccountsInv == /\ AccountsTyped
               /\ EnabledExist
               /\ SecretKept
               /\ AdminRemains
               /\ SessionsAreEntitled

-----------------------------------------------------------------------------
(* Accounts.                                                               *)

LEMMA NoUserType == NoUser \in User /\ ~NoUser.enabled
<1>1. (CHOOSE p \in Passwords : TRUE) \in Passwords
  BY AccountsAssumption
<1> QED
  BY <1>1 DEF NoUser, NewUser, User, Roles

LEMMA AccountsInitially == ASSUME AccountsInit PROVE AccountsInv
  BY NoUserType
     DEF AccountsInit, AccountsInv, AccountsTyped, EnabledExist, SecretKept,
         AdminRemains, SessionsAreEntitled, Session

(* Sessions may end and requests come and go. *)
LEMMA SessionsEnd ==
  ASSUME AccountsInv, UNCHANGED storage, up' \in BOOLEAN,
         session' \in [Browsers -> Session \cup {None}],
         \A b \in Browsers : session'[b] \in {session[b], None},
         request' \in [Browsers -> Request \cup {None}]
  PROVE  AccountsInv'
  BY DEF AccountsInv, AccountsTyped, EnabledExist, SecretKept, AnyUser,
         AdminRemains, SessionsAreEntitled, storage

(* The row of u becomes q, and its sessions are revoked unless they agree  *)
(* with q; the last active administrator stays one.                        *)
LEMMA UserChanges ==
  ASSUME AccountsInv, NEW u \in Users, NEW q \in User,
         q.present,
         users' = [users EXCEPT ![u] = q],
         UNCHANGED <<digest, file, up>>,
         consumed' \in BOOLEAN, consumed => consumed',
         request' \in [Browsers -> Request \cup {None}],
         session' \in [Browsers -> Session \cup {None}],
         \A b \in Browsers : session'[b] \in {session[b], None},
         \A b \in Browsers : session'[b] # None /\ session'[b].user = u =>
             Suits(session'[b], q),
         \/ q.role = "admin" /\ q.enabled
         \/ ~consumed'
         \/ \E v \in Users \ {u} : ActiveAdmin(v)
         \/ q.role = users[u].role /\ q.enabled = users[u].enabled /\ consumed
  PROVE  AccountsInv'
<1>1. users \in [Users -> User] /\ users' \in [Users -> User]
  BY DEF AccountsInv, AccountsTyped
<1>2. AccountsTyped'
  BY <1>1 DEF AccountsInv, AccountsTyped
<1>3. EnabledExist'
  BY <1>1 DEF AccountsInv, EnabledExist
<1>4. SecretKept'
  BY <1>1 DEF AccountsInv, SecretKept, AnyUser
<1>5. AdminRemains'
  <2>1. CASE q.role = "admin" /\ q.enabled
    BY <1>1, <2>1 DEF AdminRemains
  <2>2. CASE ~consumed'
    BY <2>2 DEF AdminRemains
  <2>3. CASE \E v \in Users \ {u} : ActiveAdmin(v)
    BY <1>1, <2>3 DEF AdminRemains, ActiveAdmin
  <2>4. CASE q.role = users[u].role /\ q.enabled = users[u].enabled /\ consumed
    <3>1. PICK v \in Users : users[v].present /\ users[v].enabled
                             /\ users[v].role = "admin"
      BY <2>4 DEF AccountsInv, AdminRemains
    <3> QED
      BY <1>1, <2>4, <3>1 DEF AdminRemains
  <2> QED
    BY <2>1, <2>2, <2>3, <2>4
<1>6. SessionsAreEntitled'
  <2> SUFFICES ASSUME NEW b \in Browsers, session'[b] # None
               PROVE  /\ users'[session'[b].user].enabled
                      /\ users'[session'[b].user].role = session'[b].role
                      /\ users'[session'[b].user].password = session'[b].password
    BY DEF SessionsAreEntitled
  <2>1. session'[b] = session[b] /\ session[b].user \in Users
    BY DEF AccountsInv, AccountsTyped, Session
  <2>2. CASE session'[b].user = u
    BY <1>1, <2>1, <2>2 DEF Suits
  <2>3. CASE session'[b].user # u
    BY <1>1, <2>1, <2>3 DEF AccountsInv, SessionsAreEntitled
  <2> QED
    BY <2>2, <2>3
<1> QED
  BY <1>2, <1>3, <1>4, <1>5, <1>6 DEF AccountsInv

(* The end of a request that leaves the tables alone. *)
LEMMA ServeKeeps ==
  ASSUME AccountsInv, NEW b \in Browsers, NEW admin \in BOOLEAN,
         Serve(b, admin), UNCHANGED <<users, session>>
  PROVE  AccountsInv'
<1>1. /\ UNCHANGED storage /\ up' \in BOOLEAN
      /\ request' \in [Browsers -> Request \cup {None}]
      /\ session' = session /\ session \in [Browsers -> Session \cup {None}]
  BY DEF Serve, storage, AccountsInv, AccountsTyped
<1> QED
  BY <1>1, SessionsEnd

(* What an endpoint finds: its actor is a user. *)
LEMMA ServeType ==
  ASSUME AccountsInv, NEW b \in Browsers, NEW admin \in BOOLEAN,
         Serve(b, admin)
  PROVE  /\ request[b].actor \in Users
         /\ request' \in [Browsers -> Request \cup {None}]
         /\ UNCHANGED <<digest, consumed, file, up>>
  BY DEF Serve, AccountsInv, AccountsTyped, Request

LEMMA RevokedSessions ==
  ASSUME AccountsInv, NEW u \in Users
  PROVE  /\ WithoutSessionsOf(u) \in [Browsers -> Session \cup {None}]
         /\ \A b \in Browsers :
               /\ WithoutSessionsOf(u)[b] \in {session[b], None}
               /\ WithoutSessionsOf(u)[b] # None
                     => WithoutSessionsOf(u)[b].user # u
  BY DEF WithoutSessionsOf, AccountsInv, AccountsTyped

(* An update of the account of u, with its sessions revoked. *)
LEMMA UserRevoked ==
  ASSUME AccountsInv, NEW b \in Browsers, NEW admin \in BOOLEAN,
         Serve(b, admin),
         NEW u \in Users, NEW q \in User, q.present,
         users' = [users EXCEPT ![u] = q], session' = WithoutSessionsOf(u),
         \/ q.role = "admin" /\ q.enabled
         \/ ~consumed
         \/ \E v \in Users \ {u} : ActiveAdmin(v)
         \/ q.role = users[u].role /\ q.enabled = users[u].enabled
  PROVE  AccountsInv'
<1>1. /\ UNCHANGED <<digest, file, up>>
      /\ consumed' \in BOOLEAN /\ consumed' = consumed
      /\ request' \in [Browsers -> Request \cup {None}]
  BY ServeType DEF AccountsInv, AccountsTyped
<1>2. /\ session' \in [Browsers -> Session \cup {None}]
      /\ \A c \in Browsers : session'[c] \in {session[c], None}
      /\ \A c \in Browsers : session'[c] # None => session'[c].user # u
  BY RevokedSessions
<1> QED
  BY <1>1, <1>2, UserChanges

(* An update whose session, if any, is left. *)
LEMMA UserUpdated ==
  ASSUME AccountsInv, NEW b \in Browsers, NEW admin \in BOOLEAN,
         Serve(b, admin), session' = session,
         NEW u \in Users, NEW q \in User, q.present, q.enabled,
         users' = [users EXCEPT ![u] = q],
         \/ ~users[u].enabled
         \/ q.role = users[u].role /\ q.password = users[u].password,
         \/ q.role = "admin"
         \/ \E v \in Users \ {u} : ActiveAdmin(v)
  PROVE  AccountsInv'
<1>1. /\ UNCHANGED <<digest, file, up>>
      /\ consumed' \in BOOLEAN /\ consumed' = consumed
      /\ request' \in [Browsers -> Request \cup {None}]
      /\ session' \in [Browsers -> Session \cup {None}]
      /\ \A c \in Browsers : session'[c] \in {session[c], None}
  BY ServeType DEF AccountsInv, AccountsTyped
<1>2. \A c \in Browsers : session'[c] # None /\ session'[c].user = u =>
             Suits(session'[c], q)
  BY DEF AccountsInv, SessionsAreEntitled, Suits
<1>3. CASE q.role = "admin"
  BY <1>1, <1>2, <1>3, UserChanges
<1>4. CASE \E v \in Users \ {u} : ActiveAdmin(v)
  BY <1>1, <1>2, <1>4, UserChanges
<1> QED
  BY <1>3, <1>4

-----------------------------------------------------------------------------
(* Each operation of the accounts. *)

LEMMA NewUserType ==
  ASSUME NEW role \in Roles, NEW p \in Passwords
  PROVE  /\ NewUser(role, p) \in User
         /\ NewUser(role, p).present /\ NewUser(role, p).enabled
         /\ NewUser(role, p).role = role
  BY DEF NewUser, User

LEMMA UserType ==
  ASSUME AccountsInv, NEW u \in Users
  PROVE  users[u] \in User /\ users[u].role \in Roles
  BY DEF AccountsInv, AccountsTyped, User

LEMMA FirstAdminInv ==
  ASSUME AccountsInv, NEW u \in Users, NEW s \in Secrets, NEW p \in Passwords,
         InsertFirstAdmin(u, s, p), UNCHANGED <<digest, session>>,
         up' \in BOOLEAN, request' \in [Browsers -> Request \cup {None}],
         file' \in {file, None}
  PROVE  AccountsInv'
<1>1. /\ NewUser("admin", p) \in User /\ NewUser("admin", p).enabled
      /\ NewUser("admin", p).present /\ NewUser("admin", p).role = "admin"
  BY NewUserType DEF Roles
<1>2. /\ users \in [Users -> User] /\ ~users[u].enabled
      /\ users' = [users EXCEPT ![u] = NewUser("admin", p)] /\ consumed'
  BY DEF InsertFirstAdmin, Exists, AccountsInv, AccountsTyped, EnabledExist
<1>3. AccountsTyped'
  BY <1>1, <1>2 DEF AccountsInv, AccountsTyped, InsertFirstAdmin
<1>4. EnabledExist' /\ SecretKept' /\ AdminRemains'
  BY <1>1, <1>2 DEF AccountsInv, EnabledExist, SecretKept, AdminRemains
<1>5. SessionsAreEntitled'
  BY <1>1, <1>2 DEF AccountsInv, AccountsTyped, SessionsAreEntitled, Session
<1> QED
  BY <1>3, <1>4, <1>5 DEF AccountsInv

LEMMA StartInv == ASSUME AccountsInv, Start PROVE AccountsInv'
  BY DEF Start, MayStart, AccountsInv, AccountsTyped, EnabledExist,
         SecretKept, AnyUser, AdminRemains, SessionsAreEntitled

LEMMA EnsureInv ==
  ASSUME AccountsInv, NEW s \in Secrets, EnsureSetupSecret(s)
  PROVE  AccountsInv'
  BY AccountsAssumption
     DEF EnsureSetupSecret, AccountsInv, AccountsTyped, EnabledExist,
         SecretKept, AnyUser, AdminRemains, SessionsAreEntitled

LEMMA TornSecretInv == ASSUME AccountsInv, TornSecret PROVE AccountsInv'
  BY AccountsAssumption
     DEF TornSecret, AccountsInv, AccountsTyped, EnabledExist,
         SecretKept, AnyUser, AdminRemains, SessionsAreEntitled

LEMMA LoginInv ==
  ASSUME AccountsInv, NEW b \in Browsers, NEW u \in Users,
         NEW p \in Passwords, Login(b, u, p)
  PROVE  AccountsInv'
<1>1. /\ UNCHANGED <<users, digest, consumed, file, up, request>>
      /\ session' = [session EXCEPT ![b] = [user |-> u, role |-> users[u].role,
                                            password |-> p]]
      /\ users[u].enabled /\ users[u].password = p
  BY DEF Login, storage
<1>2. session \in [Browsers -> Session \cup {None}]
  BY DEF AccountsInv, AccountsTyped
<1>3. [user |-> u, role |-> users[u].role, password |-> p] \in Session
  BY UserType DEF Session
<1>4. AccountsTyped'
  BY <1>1, <1>2, <1>3 DEF AccountsInv, AccountsTyped
<1>5. SessionsAreEntitled'
  BY <1>1, <1>2 DEF AccountsInv, SessionsAreEntitled
<1>6. EnabledExist' /\ SecretKept' /\ AdminRemains'
  BY <1>1 DEF AccountsInv, EnabledExist, SecretKept, AnyUser, AdminRemains
<1> QED
  BY <1>4, <1>5, <1>6 DEF AccountsInv

LEMMA ArriveInv ==
  ASSUME AccountsInv, NEW b \in Browsers, NEW admin \in BOOLEAN,
         Arrive(b, admin)
  PROVE  AccountsInv'
<1>1. [admin |-> admin, actor |-> session[b].user] \in Request
  BY DEF Arrive, Authentic, AccountsInv, AccountsTyped, Session, Request
<1>2. /\ UNCHANGED storage /\ up' \in BOOLEAN /\ session' = session
      /\ session \in [Browsers -> Session \cup {None}]
      /\ request' \in [Browsers -> Request \cup {None}]
  BY <1>1 DEF Arrive, AccountsInv, AccountsTyped
<1> QED
  BY <1>2, SessionsEnd

LEMMA StoppedInv ==
  ASSUME AccountsInv, Stopped, UNCHANGED <<users, digest, consumed, file, session>>
  PROVE  AccountsInv'
<1>1. /\ UNCHANGED storage /\ up' \in BOOLEAN /\ session' = session
      /\ session \in [Browsers -> Session \cup {None}]
      /\ request' \in [Browsers -> Request \cup {None}]
  BY DEF Stopped, storage, AccountsInv, AccountsTyped
<1> QED
  BY <1>1, SessionsEnd

LEMMA SessionGone ==
  ASSUME AccountsInv, NEW b \in Browsers, UNCHANGED <<storage, up>>,
         session' = [session EXCEPT ![b] = None],
         request' \in [Browsers -> Request \cup {None}]
  PROVE  AccountsInv'
<1>1. /\ up' \in BOOLEAN
      /\ session' \in [Browsers -> Session \cup {None}]
      /\ \A c \in Browsers : session'[c] \in {session[c], None}
  BY DEF AccountsInv, AccountsTyped
<1> QED
  BY <1>1, SessionsEnd

LEMMA LogoutInv ==
  ASSUME AccountsInv, NEW b \in Browsers, Logout(b) PROVE AccountsInv'
<1>1. /\ UNCHANGED <<storage, up>>
      /\ session' = [session EXCEPT ![b] = None]
      /\ request' \in [Browsers -> Request \cup {None}]
  BY ServeType DEF Logout, storage
<1> QED
  BY <1>1, SessionGone

LEMMA SessionExpiresInv ==
  ASSUME AccountsInv, NEW b \in Browsers, SessionExpires(b) PROVE AccountsInv'
<1>1. /\ UNCHANGED <<storage, up>>
      /\ session' = [session EXCEPT ![b] = None]
      /\ request' \in [Browsers -> Request \cup {None}]
  BY DEF SessionExpires, AccountsInv, AccountsTyped
<1> QED
  BY <1>1, SessionGone

LEMMA RefusedInv ==
  ASSUME AccountsInv, NEW b \in Browsers, Refused(b) PROVE AccountsInv'
<1>1. request[b].admin \in BOOLEAN
  BY DEF Refused, AccountsInv, AccountsTyped, Request
<1> QED
  BY <1>1, ServeKeeps DEF Refused

LEMMA ChangePasswordInv ==
  ASSUME AccountsInv, NEW b \in Browsers,
         NEW old \in Passwords, NEW new \in Passwords,
         ChangePassword(b, old, new)
  PROVE  AccountsInv'
<1> DEFINE u == request[b].actor
           q == [users[u] EXCEPT !.password = new]
<1>1. u \in Users /\ Serve(b, FALSE)
  BY ServeType DEF ChangePassword
<1>2. users[u] \in User
  BY <1>1, UserType
<1>3. /\ users' = [users EXCEPT ![u] = q]
      /\ session' = WithoutSessionsOf(u)
  BY DEF ChangePassword
<1>4. CASE users[u].present
  <2>1. /\ q \in User /\ q.present
        /\ q.role = users[u].role /\ q.enabled = users[u].enabled
    BY <1>2, <1>4 DEF User
  <2> QED
    BY <1>1, <1>3, <2>1, UserRevoked
<1>5. CASE ~users[u].present
  <2>1. /\ users \in [Users -> User] /\ q \in User
        /\ q.present = users[u].present
        /\ q.role = users[u].role /\ q.enabled = users[u].enabled
    BY <1>2 DEF User, AccountsInv, AccountsTyped
  <2>2. ~users[u].enabled
    BY <1>1, <1>5 DEF AccountsInv, EnabledExist
  <2>3. /\ UNCHANGED <<digest, consumed, file, up>>
        /\ request' \in [Browsers -> Request \cup {None}]
        /\ session' \in [Browsers -> Session \cup {None}]
        /\ \A c \in Browsers : session'[c] \in {session[c], None}
    BY <1>1, <1>3, ServeType, RevokedSessions
  <2>4. AccountsTyped'
    BY <1>1, <1>3, <2>1, <2>3 DEF AccountsInv, AccountsTyped
  <2>5. \A v \in Users : /\ users'[v].present = users[v].present
                         /\ users'[v].role = users[v].role
                         /\ users'[v].enabled = users[v].enabled
                         /\ v # u => users'[v] = users[v]
    BY <1>1, <1>3, <2>1
  <2>6. EnabledExist' /\ SecretKept' /\ AdminRemains'
    BY <2>3, <2>5
       DEF AccountsInv, EnabledExist, SecretKept, AnyUser, AdminRemains
  <2>7. SessionsAreEntitled'
    <3> SUFFICES ASSUME NEW c \in Browsers, session'[c] # None
                 PROVE  Suits(session'[c], users'[session'[c].user])
      BY DEF SessionsAreEntitled, Suits
    <3>1. session'[c] = session[c] /\ session[c].user \in Users
      BY <2>3 DEF AccountsInv, AccountsTyped, Session
    <3>2. Suits(session[c], users[session[c].user])
      BY <3>1 DEF AccountsInv, SessionsAreEntitled, Suits
    <3>3. session[c].user # u
      BY <2>2, <3>2 DEF Suits
    <3> QED
      BY <2>5, <3>1, <3>2, <3>3
  <2> QED
    BY <2>4, <2>6, <2>7 DEF AccountsInv
<1> QED
  BY <1>4, <1>5

LEMMA ManageType ==
  ASSUME AccountsInv, NEW b \in Browsers, Manage(b)
  PROVE  /\ Serve(b, TRUE)
         /\ request[b].actor \in Users /\ ActiveAdmin(request[b].actor)
  BY ServeType DEF Manage

LEMMA CreateUserInv ==
  ASSUME AccountsInv, NEW b \in Browsers, NEW u \in Users,
         NEW role \in Roles, NEW p \in Passwords, CreateUser(b, u, role, p)
  PROVE  AccountsInv'
<1> DEFINE q == NewUser(role, p)
<1>1. q \in User /\ q.present /\ q.enabled
  BY NewUserType
<1>2. ~users[u].enabled
  BY DEF CreateUser, Exists, AccountsInv, EnabledExist
<1>3. Serve(b, TRUE) /\ session' = session /\ users' = [users EXCEPT ![u] = q]
  BY ManageType DEF CreateUser
<1>4. \E v \in Users \ {u} : ActiveAdmin(v)
  BY <1>2, ManageType DEF CreateUser, ActiveAdmin
<1> HIDE DEF q
<1> QED
  BY <1>1, <1>2, <1>3, <1>4, UserUpdated

LEMMA EnableUserInv ==
  ASSUME AccountsInv, NEW b \in Browsers, NEW u \in Users, EnableUser(b, u)
  PROVE  AccountsInv'
<1> DEFINE q == [users[u] EXCEPT !.enabled = TRUE]
<1>1. q \in User /\ q.present /\ q.enabled
  BY UserType DEF EnableUser, Exists, User
<1>2. q.role = users[u].role /\ q.password = users[u].password
  BY UserType DEF User
<1>3. Serve(b, TRUE) /\ session' = session /\ users' = [users EXCEPT ![u] = q]
  BY ManageType DEF EnableUser
<1>4. q.role = "admin" \/ \E v \in Users \ {u} : ActiveAdmin(v)
  BY <1>2, ManageType DEF EnableUser, ActiveAdmin
<1> HIDE DEF q
<1> QED
  BY <1>1, <1>2, <1>3, <1>4, UserUpdated

LEMMA DisableUserInv ==
  ASSUME AccountsInv, NEW b \in Browsers, NEW u \in Users, DisableUser(b, u)
  PROVE  AccountsInv'
<1> DEFINE q == [users[u] EXCEPT !.enabled = FALSE]
<1>1. q \in User /\ q.present
  BY UserType DEF DisableUser, Exists, User
<1>2. /\ Serve(b, TRUE) /\ users' = [users EXCEPT ![u] = q]
      /\ session' = WithoutSessionsOf(u)
  BY ManageType DEF DisableUser
<1>3. \E v \in Users \ {u} : ActiveAdmin(v)
  BY ManageType DEF DisableUser, MayLose
<1> HIDE DEF q
<1> QED
  BY <1>1, <1>2, <1>3, UserRevoked

LEMMA SetRoleInv ==
  ASSUME AccountsInv, NEW b \in Browsers, NEW u \in Users,
         NEW role \in Roles, SetRole(b, u, role)
  PROVE  AccountsInv'
<1> DEFINE q == [users[u] EXCEPT !.role = role]
<1>1. q \in User /\ q.present
  BY UserType DEF SetRole, Exists, User
<1>2. /\ Serve(b, TRUE) /\ users' = [users EXCEPT ![u] = q]
      /\ session' = WithoutSessionsOf(u)
  BY ManageType DEF SetRole
<1>3. \E v \in Users \ {u} : ActiveAdmin(v)
  BY ManageType DEF SetRole
<1> HIDE DEF q
<1> QED
  BY <1>1, <1>2, <1>3, UserRevoked

LEMMA ResetPasswordInv ==
  ASSUME AccountsInv, NEW b \in Browsers, NEW u \in Users,
         NEW p \in Passwords, ResetPassword(b, u, p)
  PROVE  AccountsInv'
<1> DEFINE q == [users[u] EXCEPT !.password = p]
<1>1. q \in User /\ q.present
  BY UserType DEF ResetPassword, Exists, User
<1>2. /\ Serve(b, TRUE) /\ users' = [users EXCEPT ![u] = q]
      /\ session' = WithoutSessionsOf(u)
  BY ManageType DEF ResetPassword
<1>3. \E v \in Users \ {u} : ActiveAdmin(v)
  BY ManageType DEF ResetPassword
<1> HIDE DEF q
<1> QED
  BY <1>1, <1>2, <1>3, UserRevoked

LEMMA HarmlessInv == ASSUME AccountsInv, HarmlessStep PROVE AccountsInv'
<1>1. ASSUME NEW s \in Secrets, EnsureSetupSecret(s) PROVE AccountsInv'
  BY <1>1, EnsureInv
<1>2. CASE Start \/ TornSecret
  BY <1>2, StartInv, TornSecretInv
<1>3. CASE Crash
  BY <1>3, StoppedInv DEF Crash
<1>4. ASSUME NEW u \in Users, NEW s \in Secrets, NEW p \in Passwords,
             CreateFirstAdmin(u, s, p) \/ TornSetup(u, s, p)
      PROVE  AccountsInv'
  <2>1. /\ up' \in BOOLEAN /\ request' \in [Browsers -> Request \cup {None}]
        /\ file' \in {file, None} /\ UNCHANGED <<digest, session>>
        /\ InsertFirstAdmin(u, s, p)
    BY <1>4 DEF CreateFirstAdmin, TornSetup, Stopped, AccountsInv, AccountsTyped
  <2> QED
    BY <2>1, FirstAdminInv
<1>5. ASSUME NEW b \in Browsers, NEW u \in Users, NEW p \in Passwords,
             Login(b, u, p) \/ ResetPassword(b, u, p)
      PROVE  AccountsInv'
  BY <1>5, LoginInv, ResetPasswordInv
<1>6. ASSUME NEW b \in Browsers, SessionExpires(b) \/ Refused(b) \/ Logout(b)
      PROVE  AccountsInv'
  BY <1>6, SessionExpiresInv, RefusedInv, LogoutInv
<1>7. ASSUME NEW b \in Browsers, NEW admin \in BOOLEAN, Arrive(b, admin)
      PROVE  AccountsInv'
  BY <1>7, ArriveInv
<1>8. ASSUME NEW b \in Browsers, NEW old \in Passwords, NEW new \in Passwords,
             ChangePassword(b, old, new)
      PROVE  AccountsInv'
  BY <1>8, ChangePasswordInv
<1>9. ASSUME NEW b \in Browsers, NEW u \in Users, NEW role \in Roles,
             NEW p \in Passwords, CreateUser(b, u, role, p)
      PROVE  AccountsInv'
  BY <1>9, CreateUserInv
<1>10. ASSUME NEW b \in Browsers, NEW u \in Users,
              EnableUser(b, u) \/ SetRole(b, u, "admin")
       PROVE  AccountsInv'
  BY <1>10, EnableUserInv, SetRoleInv DEF Roles
<1> QED
  BY <1>1, <1>2, <1>3, <1>4, <1>5, <1>6, <1>7, <1>8, <1>9, <1>10
     DEF HarmlessStep

LEMMA DemotionInv ==
  ASSUME AccountsInv, NEW u \in Users, Demotion(u) PROVE AccountsInv'
  BY DisableUserInv, SetRoleInv DEF Demotion, Roles

-----------------------------------------------------------------------------
(* Capabilities.                                                           *)

(* A token is used as often as it may be at most, and one that is forfeit  *)
(* was drawn, and so is never drawn again.                                 *)
CapabilitiesInv ==
    /\ task \in [Tasks -> Task]
    /\ token \in [Tokens -> Token]
    /\ forfeit \subseteq Tokens
    /\ call \in [Calls -> Call]
    /\ ServedIsBounded
    /\ \A t \in forfeit : Drawn(t) /\ ~token[t].live

(* What every operation but Consume does to the tokens: none comes alive,  *)
(* but for one that is drawn now, and none is used.                        *)
Unused ==
    \A t \in Tokens :
        /\ token'[t] \in Token
        /\ token'[t].uses \in {0, token[t].uses}
        /\ Drawn(t) => /\ token'[t].task = token[t].task
                       /\ token'[t].live => token[t].live

LEMMA RevokedUnused ==
  ASSUME CapabilitiesInv, NEW S, token' = Revoked(S)
  PROVE  /\ token' \in [Tokens -> Token] /\ Unused
         /\ \A t \in Tokens : t \in S => ~token'[t].live
  BY DEF CapabilitiesInv, Revoked, Unused, Token

LEMMA IssueUnused ==
  ASSUME CapabilitiesInv, NEW k \in Tasks, NEW t \in Tokens, Issue(k, t)
  PROVE  token' \in [Tokens -> Token] /\ Unused
<1> DEFINE q == [task |-> k, live |-> TRUE, uses |-> 0]
<1>1. Revoked(Issued(k)) \in [Tokens -> Token]
  BY DEF CapabilitiesInv, Revoked, Token
<1>2. q \in Token /\ q.uses = 0
  BY DEF Token
<1>3. token' = [Revoked(Issued(k)) EXCEPT ![t] = q] /\ ~Drawn(t)
  BY DEF Issue
<1>4. \A v \in Tokens : v # t => token'[v] = Revoked(Issued(k))[v]
  BY <1>1, <1>3
<1>5. \A v \in Tokens : /\ Revoked(Issued(k))[v].uses = token[v].uses
                        /\ Revoked(Issued(k))[v].task = token[v].task
                        /\ Revoked(Issued(k))[v].live => token[v].live
  BY DEF CapabilitiesInv, Revoked, Token
<1>6. token'[t] = q /\ token' \in [Tokens -> Token]
  BY <1>1, <1>2, <1>3
<1> HIDE DEF q
<1> QED
  BY <1>2, <1>3, <1>4, <1>5, <1>6 DEF Unused

(* Only tokens that were drawn and are dead become forfeit. *)
NewlyForfeit ==
    \A t \in forfeit' : t \in forfeit \/ (Drawn(t) /\ ~token'[t].live)

(* The invariant after a step that uses no token. *)
LEMMA UnusedInv ==
  ASSUME CapabilitiesInv, token' \in [Tokens -> Token], Unused,
         task' \in [Tasks -> Task], call' \in [Calls -> Call],
         forfeit' \subseteq Tokens,
         NewlyForfeit
  PROVE  CapabilitiesInv'
<1>1. ServedIsBounded'
  BY CapabilitiesAssumption DEF CapabilitiesInv, ServedIsBounded, Unused, Token
<1>2. \A t \in forfeit' : Drawn(t)' /\ ~token'[t].live
  BY DEF CapabilitiesInv, Unused, Drawn, NewlyForfeit
<1> QED
  BY <1>1, <1>2 DEF CapabilitiesInv

(* The same where no token is newly forfeit. *)
LEMMA UnforfeitedInv ==
  ASSUME CapabilitiesInv, token' \in [Tokens -> Token], Unused,
         task' \in [Tasks -> Task], call' \in [Calls -> Call],
         forfeit' = forfeit
  PROVE  CapabilitiesInv'
<1>1. forfeit' \subseteq Tokens /\ NewlyForfeit
  BY DEF CapabilitiesInv, NewlyForfeit
<1> QED
  BY <1>1, UnusedInv

Inv == AccountsInv /\ CapabilitiesInv

LEMMA TokensKept ==
  ASSUME CapabilitiesInv, token' = token
  PROVE  token' \in [Tokens -> Token] /\ Unused
  BY DEF CapabilitiesInv, Unused, Token

LEMMA OtherAccountInv ==
  ASSUME Inv, OtherAccountStep PROVE Inv'
<1>1. AccountsInv'
  BY HarmlessInv DEF Inv, OtherAccountStep
<1>2. token' \in [Tokens -> Token] /\ Unused
  BY TokensKept DEF Inv, OtherAccountStep
<1>3. /\ task' \in [Tasks -> Task] /\ call' \in [Calls -> Call]
      /\ forfeit' = forfeit
  BY DEF Inv, CapabilitiesInv, OtherAccountStep, Call
<1> QED
  BY <1>1, <1>2, <1>3, UnforfeitedInv DEF Inv

LEMMA DemotedInv ==
  ASSUME Inv, NEW u \in Users, Demotion(u), LoseStanding(u)
  PROVE  Inv'
<1>1. AccountsInv'
  BY DemotionInv DEF Inv
<1>2. /\ token' \in [Tokens -> Token] /\ Unused
      /\ \A t \in TokensOf(u) : t \in Tokens /\ ~token'[t].live /\ Drawn(t)
  BY RevokedUnused DEF Inv, LoseStanding, TokensOf
<1>3. /\ task' \in [Tasks -> Task] /\ call' \in [Calls -> Call]
      /\ forfeit' \subseteq Tokens
      /\ NewlyForfeit
  BY <1>2 DEF Inv, CapabilitiesInv, LoseStanding, NewlyForfeit
<1>4. CapabilitiesInv
  BY DEF Inv
<1>5. CapabilitiesInv'
  BY <1>2, <1>3, <1>4, UnusedInv
<1> QED
  BY <1>1, <1>2, <1>4, <1>5 DEF Inv

(* The steps of tasks and calls leave the accounts as they are, but for    *)
(* the request that is served.                                             *)
LEMMA ServedAccounts ==
  ASSUME AccountsInv,
         \/ UNCHANGED accountVars
         \/ \E b \in Browsers : Serve(b, FALSE) /\ UNCHANGED <<users, session>>
  PROVE  AccountsInv'
<1>1. CASE UNCHANGED accountVars
  BY <1>1 DEF accountVars, AccountsInv, AccountsTyped, EnabledExist, SecretKept,
              AnyUser, AdminRemains, SessionsAreEntitled
<1>2. ASSUME NEW b \in Browsers, Serve(b, FALSE), UNCHANGED <<users, session>>
      PROVE  AccountsInv'
  BY <1>2, ServeKeeps
<1> QED
  BY <1>1, <1>2

LEMMA TaskInv ==
  ASSUME Inv, NEW k \in Tasks, TaskStep(k) PROVE Inv'
<1>1. AccountsInv'
  BY ServedAccounts
     DEF Inv, TaskStep, CreateTask, Resubmit, EndTask, SyncTask, Disconnect
<1>2. token' \in [Tokens -> Token] /\ Unused
  <2>1. ASSUME NEW b \in Browsers, NEW t \in Tokens,
               CreateTask(b, k, t) \/ Resubmit(b, k, t)
        PROVE  token' \in [Tokens -> Token] /\ Unused
    BY <2>1, IssueUnused DEF Inv, CreateTask, Resubmit
  <2>2. ASSUME EndTask(k) \/ Disconnect(k)
        PROVE  token' \in [Tokens -> Token] /\ Unused
    BY <2>2, RevokedUnused DEF Inv, EndTask, Disconnect
  <2>3. ASSUME SyncTask(k)
        PROVE  token' \in [Tokens -> Token] /\ Unused
    BY <2>3, TokensKept DEF Inv, SyncTask
  <2> QED
    BY <2>1, <2>2, <2>3 DEF TaskStep
<1>3. task' \in [Tasks -> Task]
  <2>1. task \in [Tasks -> Task] /\ task[k] \in Task
    BY DEF Inv, CapabilitiesInv
  <2>2. ASSUME NEW b \in Browsers, NEW t \in Tokens, CreateTask(b, k, t)
        PROVE  task' \in [Tasks -> Task]
    <3>1. request[b].actor \in Users
      BY <2>2, ServeType DEF CreateTask, Inv
    <3>2. NewTask(request[b].actor) \in Task
      BY <3>1 DEF NewTask, Task
    <3> QED
      BY <2>1, <2>2, <3>2 DEF CreateTask
  <2>3. ASSUME EndTask(k) PROVE task' \in [Tasks -> Task]
    BY <2>1, <2>3 DEF EndTask, Task
  <2>4. ASSUME SyncTask(k) PROVE task' \in [Tasks -> Task]
    BY <2>1, <2>4 DEF SyncTask, Task
  <2>5. ASSUME Disconnect(k) PROVE task' \in [Tasks -> Task]
    <3>1. [task[k] EXCEPT !.current = @ /\ task[k].ended] \in Task
      BY <2>1 DEF Task
    <3> QED
      BY <2>1, <2>5, <3>1 DEF Disconnect
  <2> QED
    BY <2>1, <2>2, <2>3, <2>4, <2>5 DEF TaskStep, Resubmit
<1>4. forfeit' = forfeit /\ call' \in [Calls -> Call]
  BY DEF TaskStep, CreateTask, Resubmit, EndTask, SyncTask, Disconnect,
         Inv, CapabilitiesInv
<1> QED
  BY <1>1, <1>2, <1>3, <1>4, UnforfeitedInv DEF Inv

LEMMA ExpireInv ==
  ASSUME Inv, NEW t \in Tokens, Expire(t) PROVE Inv'
<1>1. AccountsInv'
  BY ServedAccounts DEF Inv, Expire
<1>2. token' \in [Tokens -> Token] /\ Unused
  BY RevokedUnused DEF Inv, Expire
<1>3. /\ task' \in [Tasks -> Task] /\ call' \in [Calls -> Call]
      /\ forfeit' = forfeit
  BY DEF Inv, CapabilitiesInv, Expire
<1> QED
  BY <1>1, <1>2, <1>3, UnforfeitedInv DEF Inv

(* The transaction looks at the uses again before it takes one.            *)
LEMMA ConsumeInv ==
  ASSUME Inv, NEW c \in Calls, Consume(c) PROVE Inv'
<1> DEFINE t == call[c]
           q == [token[t] EXCEPT !.uses = @ + 1]
<1>1. t \in Tokens /\ Consumable(t)
  BY DEF Consume, Inv, CapabilitiesInv, Call
<1>2. /\ token \in [Tokens -> Token] /\ token[t] \in Token
      /\ task \in [Tasks -> Task]
  BY <1>1 DEF Inv, CapabilitiesInv
<1>3. /\ q \in Token /\ q.uses = token[t].uses + 1
      /\ q.task = token[t].task /\ q.live = token[t].live
  BY <1>2 DEF Token
<1>4. token' = [token EXCEPT ![t] = q] /\ token' \in [Tokens -> Token]
  BY <1>1, <1>2, <1>3 DEF Consume
<1>5. \A v \in Tokens : token'[v] = IF v = t THEN q ELSE token[v]
  BY <1>2, <1>4
<1>6. token[t].uses \in Nat /\ token[t].uses < MaxUses
  BY <1>1, <1>2 DEF Consumable, Token
<1> HIDE DEF q
<1>7. ServedIsBounded'
  BY <1>3, <1>5, <1>6, CapabilitiesAssumption
     DEF ServedIsBounded, Inv, CapabilitiesInv
<1>9. AccountsInv'
  BY ServedAccounts DEF Inv, Consume
<1>10. /\ task' = task /\ forfeit' = forfeit
       /\ call' \in [Calls -> Call]
  BY DEF Consume, Become, Inv, CapabilitiesInv, Call
<1>11. \A v \in forfeit' : Drawn(v)' /\ ~token'[v].live
  BY <1>1, <1>3, <1>5, <1>10 DEF Inv, CapabilitiesInv, Drawn
<1> QED
  BY <1>4, <1>7, <1>9, <1>10, <1>11 DEF Inv, CapabilitiesInv

LEMMA CallInv ==
  ASSUME Inv, NEW c \in Calls, CallStep(c) PROVE Inv'
<1>1. CASE Consume(c)
  BY <1>1, ConsumeInv
<1>2. ASSUME CallRefused(c) \/ \E t \in Tokens : Preflight(c, t)
      PROVE  Inv'
  <2>1. /\ UNCHANGED accountVars /\ task' = task /\ token' = token
        /\ forfeit' = forfeit
    BY <1>2 DEF CallRefused, Preflight
  <2>2. call' \in [Calls -> Call]
    BY <1>2 DEF CallRefused, Preflight, Become, Inv, CapabilitiesInv, Call
  <2>3. task' \in [Tasks -> Task] /\ token' \in [Tokens -> Token] /\ Unused
    BY <2>1, TokensKept DEF Inv, CapabilitiesInv
  <2> QED
    BY <2>1, <2>2, <2>3, ServedAccounts, UnforfeitedInv DEF Inv
<1> QED
  BY <1>1, <1>2 DEF CallStep

-----------------------------------------------------------------------------

LEMMA Initially == ASSUME Init PROVE Inv
<1>1. AccountsInv
  BY AccountsInitially DEF Init
<1>2. /\ [NewTask(None) EXCEPT !.ended = TRUE] \in Task
      /\ [task |-> None, live |-> FALSE, uses |-> 0] \in Token
  BY DEF Task, NewTask, Token
<1>3. CapabilitiesInv
  BY <1>2, CapabilitiesAssumption
     DEF Init, CapabilitiesInv, Call, ServedIsBounded
<1> QED
  BY <1>1, <1>3 DEF Inv

LEMMA Stepwise == ASSUME Inv, [Next]_vars PROVE Inv'
<1>1. CASE UNCHANGED vars
  <2>1. /\ UNCHANGED accountVars /\ task' = task /\ token' = token
        /\ forfeit' = forfeit /\ call' = call
    BY <1>1 DEF vars, capabilityVars
  <2>2. /\ task' \in [Tasks -> Task] /\ call' \in [Calls -> Call]
        /\ token' \in [Tokens -> Token] /\ Unused
    BY <2>1, TokensKept DEF Inv, CapabilitiesInv
  <2> QED
    BY <1>1, <2>1, <2>2, ServedAccounts, UnforfeitedInv DEF Inv
<1>2. CASE Next
  BY <1>2, OtherAccountInv, DemotedInv, TaskInv, ExpireInv, CallInv DEF Next
<1> QED
  BY <1>1, <1>2

LEMMA Invariant == Spec => []Inv
  BY Initially, Stepwise, PTL DEF Spec

(* The tables and the requests and calls in flight keep their types.       *)
THEOREM TypeCorrect == Spec => []TypeOK
<1>1. Inv => TypeOK
  BY DEF Inv, AccountsInv, CapabilitiesInv, TypeOK
<1> QED
  BY <1>1, Invariant, PTL

(* However administrators disable and demote one another, one who is       *)
(* enabled remains (enable_user, set_user_role).                           *)
THEOREM AnAdminRemains == Spec => []AdminRemains
<1>1. Inv => AdminRemains
  BY DEF Inv, AccountsInv
<1> QED
  BY <1>1, Invariant, PTL

(* A Server whose setup token was written can be started after a crash at  *)
(* any later point of its setup (initialize_setup_secret,                  *)
(* create_first_admin); what an interrupted ensure_setup_secret leaves is  *)
(* an empty file, and outside of it.                                       *)
THEOREM ServerStartsAgain == Spec => []StartsAgain
<1>1. Inv => StartsAgain
  BY AccountsAssumption
     DEF Inv, AccountsInv, AccountsTyped, SecretKept, StartsAgain, MayStart
<1> QED
  BY <1>1, Invariant, PTL

(* A session carries no more than its account allows now: every change of  *)
(* role or password, and every disabling, revokes the sessions.            *)
THEOREM SessionsStayEntitled == Spec => []SessionsAreEntitled
<1>1. Inv => SessionsAreEntitled
  BY DEF Inv, AccountsInv
<1> QED
  BY <1>1, Invariant, PTL

(* However many calls are past their preflight, a token is used no more    *)
(* often than it may be (_consume_capability).                             *)
THEOREM UsesAreBounded == Spec => []ServedIsBounded
<1>1. Inv => ServedIsBounded
  BY DEF Inv, CapabilitiesInv
<1> QED
  BY <1>1, Invariant, PTL

(* A token of an account that was disabled or demoted stays dead whatever  *)
(* becomes of the account (_revoke_user_capabilities).                     *)
THEOREM ForfeitIsFinal == Spec => []ForfeitedStaysDead
<1>1. Inv => ForfeitedStaysDead
  BY DEF Inv, CapabilitiesInv, ForfeitedStaysDead
<1> QED
  BY <1>1, Invariant, PTL

=============================================================================
