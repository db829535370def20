------------------------------ MODULE Sessions ------------------------------
(***************************************************************************)
(* services/auth_service.go, services/token_denylist_service.go,           *)
(* utils/token.go, middleware/auth.go and middleware/admin_auth.go, with   *)
(* the handlers that issue and revoke tokens: users register and log in, a *)
(* token carries the role its owner had, lives for 72 hours and is revoked *)
(* by an entry of the denylist, and every request is let in by three       *)
(* lookups, one after the other: the denylist, the token, the user.        *)
(*                                                                         *)
(* Time is kept relative to now, in units of the cache's hour: a token,    *)
(* an entry of the denylist and a cached copy have a time left, and a tick *)
(* takes one unit off all of them.  Keys of Redis without time are gone.   *)
(***************************************************************************)
EXTENDS Integers, FiniteSets

CONSTANTS
    Names,        \* user names
    AdminName,    \* the name of the administrator that main creates
    Requests,     \* the goroutines that serve a request
    Life,         \* how long a token lives: 72 hours
    CacheLife,    \* how long a cached user lives: one hour
    NoUser,       \* no such row, no such copy, or no user in the context
    Failures,     \* whether the database, Redis or a request may fail
    Scenarios,    \* bound: the sets of operations that are called together
    MaxUsers      \* bound: users that are ever created

ASSUME LivesAssumption == Life \in Nat \ {0} /\ CacheLife \in Nat \ {0}
ASSUME FailuresAssumption == Failures \in BOOLEAN
ASSUME ScenariosAssumption ==
    Scenarios \subseteq SUBSET {"register", "login", "enter", "current",
                               "logout", "role", "delete"}
ASSUME MaxUsersAssumption == MaxUsers \in Nat \ {0}
ASSUME AdminAssumption == AdminName \in Names

Ids == 1..MaxUsers
Roles == {"admin", "user"}

\* An age of Ages or more is not told apart from one that is.
Ages == Life + CacheLife + 2

User == [name : Names, role : Roles]

\* The claims, with what is left until exp.  The signed text is a function of
\* them, so two tokens issued to a user at the same time are the same token.
Token == [user : Ids, role : Roles, left : 0..Life]

ASSUME NoUserIsNoRow == NoUser \notin User \union Roles

VARIABLES
    users,        \* users[i]: the committed row with id i, or NoUser
    created,      \* how many ids are used up
    cache,        \* cache[i]: [role, left] under user:<i>, or NoUser
    denylist,     \* the entries of the denylist: [token, left]
    issued,       \* the token that is followed, until it expires
    req,          \* req[r]: where goroutine r is, and what it holds
    slow,         \* the requests that began before the last tick
    loggedOut,    \* the tokens of logouts that were answered
    adminAge,     \* adminAge[i]: how long ago row i last said admin
    operations    \* the scenario: what the environment calls

sessionVars == <<users, created, cache, denylist, issued, req, slow,
                 loggedOut, adminAge, operations>>

Idle == [step |-> "idle"]

\* late: the token had been logged out when the request began.
Request ==
    {Idle}
    \union [step : {"count"}, name : Names]
    \union [step : {"create"}, name : Names, role : Roles]
    \union [step : {"issue"}, user : Ids, role : Roles]
    \union [step : {"denylist", "token", "find", "row"}, token : Token,
            admin : BOOLEAN, late : BOOLEAN]
    \union [step : {"fill"}, token : Token, admin : BOOLEAN,
            late : BOOLEAN, copy : Roles]
    \union [step : {"in"}, token : Token, admin : BOOLEAN,
            late : BOOLEAN, copy : Roles \union {NoUser}]
    \union [step : {"invalidate"}, user : Ids]

\* The steps at which a request holds a token.
WithToken == {"denylist", "token", "find", "row", "fill", "in"}

\* Before the server starts, main creates an administrator in an empty table.
SessionsInit ==
    /\ users = [i \in Ids |-> IF i = 1 THEN [name |-> AdminName, role |-> "admin"]
                              ELSE NoUser]
    /\ created = 1
    /\ cache = [i \in Ids |-> NoUser]
    /\ denylist = {}
    /\ issued = {}
    /\ req = [r \in Requests |-> Idle]
    /\ slow = {}
    /\ loggedOut = {}
    /\ adminAge = [i \in Ids |-> IF i = 1 THEN 0 ELSE Ages]
    /\ operations \in Scenarios

Goto(r, state) ==
    /\ req' = [req EXCEPT ![r] = state]
    /\ slow' = IF state = Idle THEN slow \ {r} ELSE slow

\* What adminAge becomes when row i says role.
Says(i, role) ==
    adminAge' = [adminAge EXCEPT ![i] = IF role = "admin" THEN 0 ELSE @]

-----------------------------------------------------------------------------
(* RegisterUser: three statements, each seeing what is committed by then.  *)

Rows == {i \in Ids : users[i] # NoUser}
NameTaken(name) == \E i \in Rows : users[i].name = name

\* The name is looked up, and is not there.
BeginRegister(r, name) ==
    /\ req[r] = Idle /\ created < MaxUsers
    /\ ~ NameTaken(name)
    /\ Goto(r, [step |-> "count", name |-> name])
    /\ UNCHANGED <<users, created, cache, denylist, issued, loggedOut,
                   adminAge>>

RoleOfNew(count) == IF count = 0 THEN "admin" ELSE "user"

\* A count that fails is taken for zero.
CountUsers(r) ==
    /\ req[r].step = "count"
    /\ \E count \in {Cardinality(Rows)} \union (IF Failures THEN {0} ELSE {}) :
          Goto(r, [step |-> "create", name |-> req[r].name,
                   role |-> RoleOfNew(count)])
    /\ UNCHANGED <<users, created, cache, denylist, issued, loggedOut,
                   adminAge>>

\* The unique index lets one row of a name in.
CreateUser(r) ==
    LET q == req[r]
        i == created + 1 IN
    /\ q.step = "create" /\ created < MaxUsers
    /\ IF NameTaken(q.name)
       THEN Goto(r, Idle) /\ UNCHANGED <<users, created, adminAge>>
       ELSE /\ users' = [users EXCEPT ![i] = [name |-> q.name, role |-> q.role]]
            /\ created' = i
            /\ Says(i, q.role)
            /\ Goto(r, [step |-> "issue", user |-> i, role |-> q.role])
    /\ UNCHANGED <<cache, denylist, issued, loggedOut>>

-----------------------------------------------------------------------------
(* LoginUser, and GenerateToken at the end of every handler that issues.   *)

\* The row is read; its password is right.
Login(r, i) ==
    /\ req[r] = Idle /\ users[i] # NoUser
    /\ Goto(r, [step |-> "issue", user |-> i, role |-> users[i].role])
    /\ UNCHANGED <<users, created, cache, denylist, issued, loggedOut,
                   adminAge>>

\* Tokens are many and one is followed at a time, so the owner may go on with
\* the new one or with the one before.
GenerateToken(r) ==
    LET token == [user |-> req[r].user, role |-> req[r].role, left |-> Life] IN
    /\ req[r].step = "issue"
    /\ issued' \in {issued, {token}}
    /\ Goto(r, Idle)
    /\ UNCHANGED <<users, created, cache, denylist, loggedOut, adminAge>>

-----------------------------------------------------------------------------
(* AuthMiddleware and AdminAuthMiddleware.                                 *)

\* A plausible slip: the cheap check of the signature comes first.
TokenFirst == [enter |-> "token", token |-> "denylist", denylist |-> "find"]

\* Which lookup follows which.
CheckOrder == [enter |-> "denylist", denylist |-> "token", token |-> "find"]

Enter(r, token, isAdmin) ==
    /\ req[r] = Idle
    /\ Goto(r, [step |-> CheckOrder["enter"], token |-> token,
                admin |-> isAdmin, late |-> token \in loggedOut])
    /\ UNCHANGED <<users, created, cache, denylist, issued, loggedOut,
                   adminAge>>

Denied(token) == \E d \in denylist : d.token = token

\* On to the next lookup, or the request is refused.
Checked(r, passes) ==
    /\ Goto(r, IF passes THEN [req[r] EXCEPT !.step = CheckOrder[req[r].step]]
               ELSE Idle)
    /\ UNCHANGED <<users, created, cache, denylist, issued, loggedOut,
                   adminAge>>

CheckDenylist(r) ==
    /\ req[r].step = "denylist"
    /\ Checked(r, ~ Denied(req[r].token))

Valid(token) == token.left > 0

\* The administrators' middleware goes by the role in the claims.
CheckToken(r) ==
    LET token == req[r].token IN
    /\ req[r].step = "token"
    /\ Checked(r, Valid(token) /\ (req[r].admin => token.role = "admin"))

\* The request goes on with this copy of a user, or NoUser, in its hands.
Holding(r, step, copy) ==
    Goto(r, [step |-> step, token |-> req[r].token, admin |-> req[r].admin,
             late |-> req[r].late, copy |-> copy])

\* A plausible slip: a cached user that is used is kept for another hour.
FindCachedAndKeep(r) ==
    LET i == req[r].token.user IN
    /\ req[r].step = "find" /\ cache[i] # NoUser
    /\ Holding(r, "in", cache[i].role)
    /\ cache' = [cache EXCEPT ![i].left = CacheLife]
    /\ UNCHANGED <<users, created, denylist, issued, loggedOut, adminAge>>

\* FindUserByID, a hit.
FindCached(r) ==
    LET i == req[r].token.user IN
    /\ req[r].step = "find" /\ cache[i] # NoUser
    /\ Holding(r, "in", cache[i].role)
    /\ UNCHANGED <<users, created, cache, denylist, issued, loggedOut,
                   adminAge>>

\* There is no copy, or the GET fails.
FindMiss(r) ==
    /\ req[r].step = "find"
    /\ Failures \/ cache[req[r].token.user] = NoUser
    /\ Goto(r, [req[r] EXCEPT !.step = "row"])
    /\ UNCHANGED <<users, created, cache, denylist, issued, loggedOut,
                   adminAge>>

\* A plausible slip: an error of the lookup lets everybody through.
FindRowUnchecked(r) ==
    LET i == req[r].token.user IN
    /\ req[r].step = "row"
    /\ IF users[i] # NoUser THEN Holding(r, "fill", users[i].role)
       ELSE Holding(r, "in", NoUser)
    /\ UNCHANGED <<users, created, cache, denylist, issued, loggedOut,
                   adminAge>>

\* Without a row, or when the query fails, the administrators' middleware
\* goes on and the other refuses.
FindRow(r) ==
    LET i == req[r].token.user IN
    /\ req[r].step = "row"
    /\ \/ users[i] # NoUser /\ Holding(r, "fill", users[i].role)
       \/ /\ Failures \/ users[i] = NoUser
          /\ IF req[r].admin THEN Holding(r, "in", NoUser) ELSE Goto(r, Idle)
    /\ UNCHANGED <<users, created, cache, denylist, issued, loggedOut,
                   adminAge>>

FillUser(r) ==
    LET i == req[r].token.user IN
    /\ req[r].step = "fill"
    /\ cache' = [cache EXCEPT ![i] =
          [role |-> req[r].copy, left |-> CacheLife]]
    /\ Holding(r, "in", req[r].copy)
    /\ UNCHANGED <<users, created, denylist, issued, loggedOut, adminAge>>

-----------------------------------------------------------------------------
(* What a request that was let in may do.                                  *)

LetIn(r, isAdmin) == req[r].step = "in" /\ req[r].admin = isAdmin

\* A plausible slip: the new token repeats the claims of the old one.
RenewAsBefore(r) ==
    /\ LetIn(r, FALSE)
    /\ Goto(r, [step |-> "issue", user |-> req[r].token.user,
                role |-> req[r].token.role])
    /\ UNCHANGED <<users, created, cache, denylist, issued, loggedOut,
                   adminAge>>

\* CurrentUser answers with a new token, for the user as the database has it
\* or, if it has not, as the middleware found it.
CurrentUser(r) ==
    LET i == req[r].token.user
        role == IF users[i] # NoUser THEN users[i].role ELSE req[r].copy IN
    /\ LetIn(r, FALSE)
    /\ Goto(r, [step |-> "issue", user |-> i, role |-> role])
    /\ UNCHANGED <<users, created, cache, denylist, issued, loggedOut,
                   adminAge>>

\* Logout: an entry for what is left of the token's life, or for 72 hours if
\* it has just expired.
Logout(r) ==
    LET token == req[r].token
        left == IF Valid(token) THEN token.left ELSE Life IN
    /\ LetIn(r, FALSE)
    /\ denylist' = {d \in denylist : d.token # token}
                      \union {[token |-> token, left |-> left]}
    /\ loggedOut' = loggedOut \union {token}
    /\ Goto(r, Idle)
    /\ UNCHANGED <<users, created, cache, issued, adminAge>>

\* An administrator gives a user a role (UpdateUser), or deletes the user.
\* Wallet takes the read, the checked write and the commit apart, and the
\* administrator's own way through the middleware is not followed here.
SetRole(r, i, role) ==
    /\ req[r] = Idle /\ users[i] # NoUser
    /\ users' = [users EXCEPT ![i].role = role]
    /\ Says(i, role)
    /\ Goto(r, [step |-> "invalidate", user |-> i])
    /\ UNCHANGED <<created, cache, denylist, issued, loggedOut>>

RemoveUser(r, i) ==
    /\ req[r] = Idle /\ users[i] # NoUser
    /\ users' = [users EXCEPT ![i] = NoUser]
    /\ Goto(r, [step |-> "invalidate", user |-> i])
    /\ UNCHANGED <<created, cache, denylist, issued, loggedOut, adminAge>>

InvalidateUser(r) ==
    /\ req[r].step = "invalidate"
    /\ cache' = [cache EXCEPT ![req[r].user] = NoUser]
    /\ Goto(r, Idle)
    /\ UNCHANGED <<users, created, denylist, issued, loggedOut, adminAge>>

\* Any other handler, a failed call, or a client that has gone.
Leave(r) ==
    /\ req[r] # Idle /\ (Failures \/ req[r].step = "in")
    /\ Goto(r, Idle)
    /\ UNCHANGED <<users, created, cache, denylist, issued, loggedOut,
                   adminAge>>

-----------------------------------------------------------------------------

\* Time passes.  A request spans one tick at most: this model's bound on how
\* long a request takes.  Owners throw expired tokens away.
Aged(token) == [token EXCEPT !.left = IF @ > 0 THEN @ - 1 ELSE 0]

Tick ==
    /\ slow = {}
    /\ slow' = {r \in Requests : req[r] # Idle}
    /\ req' = [r \in Requests |->
          IF req[r].step \in WithToken THEN [req[r] EXCEPT !.token = Aged(@)]
          ELSE req[r]]
    /\ cache' = [i \in Ids |->
          IF cache[i] = NoUser \/ cache[i].left = 1 THEN NoUser
          ELSE [cache[i] EXCEPT !.left = @ - 1]]
    /\ denylist' = {[token |-> Aged(d.token), left |-> d.left - 1] :
                       d \in {d \in denylist : d.left > 1}}
    /\ issued' = {Aged(token) : token \in {t \in issued : t.left > 1}}
    /\ loggedOut' = {Aged(token) : token \in {t \in loggedOut : t.left > 1}}
    /\ adminAge' = [i \in Ids |->
          IF i \in Rows /\ users[i].role = "admin" THEN 0
          ELSE IF adminAge[i] < Ages THEN adminAge[i] + 1 ELSE Ages]
    /\ UNCHANGED <<users, created>>

BeginRequest(r) ==
    \/ "register" \in operations /\ \E name \in Names : BeginRegister(r, name)
    \/ "login" \in operations /\ \E i \in Ids : Login(r, i)
    \/ /\ "enter" \in operations
       /\ \E token \in issued, isAdmin \in BOOLEAN : Enter(r, token, isAdmin)
    \/ /\ "role" \in operations
       /\ \E i \in Ids, role \in Roles : SetRole(r, i, role)
    \/ "delete" \in operations /\ \E i \in Ids : RemoveUser(r, i)

ContinueRequest(r) ==
    \/ CountUsers(r)
    \/ CreateUser(r)
    \/ GenerateToken(r)
    \/ CheckDenylist(r)
    \/ CheckToken(r)
    \/ FindCached(r)
    \/ FindMiss(r)
    \/ FindRow(r)
    \/ FillUser(r)
    \/ "current" \in operations /\ CurrentUser(r)
    \/ "logout" \in operations /\ Logout(r)
    \/ InvalidateUser(r)
    \/ Leave(r)

SessionsNext ==
    /\ Tick \/ \E r \in Requests : BeginRequest(r) \/ ContinueRequest(r)
    /\ UNCHANGED operations

SessionsSpec == SessionsInit /\ [][SessionsNext]_sessionVars

-----------------------------------------------------------------------------
(* Properties.                                                             *)

\* Every variable stays in its set: in particular AuthMiddleware never
\* lets a request in without a user (middleware/auth.go:47-52).
SessionsTypeOK ==
    /\ users \in [Ids -> User \union {NoUser}]
    /\ created \in 0..MaxUsers
    /\ cache \in [Ids -> [role : Roles, left : 1..CacheLife] \union {NoUser}]
    /\ denylist \subseteq [token : Token, left : 1..Life]
    /\ issued \subseteq Token /\ loggedOut \subseteq Token
    /\ req \in [Requests -> Request]
    /\ slow \subseteq {r \in Requests : req[r] # Idle}
    /\ \A r \in Requests : LetIn(r, FALSE) => req[r].copy # NoUser

\* A request that begins after the logout of its token was answered is not
\* let in, although the entry on the denylist ends with the token and the
\* two are looked up at different times (middleware/auth.go:20-36,
\* auth/handler.go:131-140).
RevokedStaysOut ==
    \A r \in Requests : req[r].step \in {"fill", "in"} => ~ req[r].late

\* A request that acts for an administrator by the copy it holds does so at
\* most CacheLife and one request after the row said so, although readers
\* fill the cache with what was changed or deleted meanwhile, and deletions of
\* the copy fail (user_service.go:127-153).
CopyIsRecent ==
    \A r \in Requests :
       req[r].step = "in" /\ req[r].copy = "admin" =>
          adminAge[req[r].token.user] <= CacheLife + 1

\* Who is let in as an administrator was one in the database at most a life
\* of a token, one of a cached user and one request ago, although tokens
\* carry the role, are renewed for as long as they are used, and a renewal
\* falls back on the cached user (middleware/admin_auth.go:41-67,
\* api/v1/user/handler.go:31-38).
AdminRightsEnd ==
    \A r \in Requests :
       LetIn(r, TRUE) =>
          adminAge[req[r].token.user] <= Life + CacheLife + 1

=============================================================================
