--------------------------- MODULE SessionsProofs ---------------------------
(***************************************************************************)
(* Proofs about Sessions, for any names, requests, users and lives.        *)
(***************************************************************************)
EXTENDS Sessions, TLAPS

-----------------------------------------------------------------------------
(* Types.                                                                  *)

\* What SessionsTypeOK says of a state of a request.
Proper(state) ==
    /\ state \in Request
    /\ state.step = "in" /\ state.admin = FALSE => state.copy # NoUser

\* Requests keep their types when one of them goes to a proper state.
LEMMA GotoType ==
    ASSUME SessionsTypeOK, NEW r \in Requests, NEW state, Proper(state),
           Goto(r, state)
    PROVE  /\ req' \in [Requests -> Request]
           /\ slow' \subseteq {q \in Requests : req'[q] # Idle}
           /\ \A q \in Requests : Proper(req'[q])
BY DEF SessionsTypeOK, Goto, Proper, LetIn

\* A request that is not being served is in a proper state.
LEMMA IdleIsProper == Proper(Idle)
BY DEF Proper, Idle, Request

\* What a request holds at each of its steps.
LEMMA ReqShape ==
    ASSUME NEW q \in Request
    PROVE  /\ q.step = "count" => q.name \in Names
           /\ q.step = "create" => q.name \in Names /\ q.role \in Roles
           /\ q.step = "issue" => q.user \in Ids /\ q.role \in Roles
           /\ q.step \in WithToken =>
                 /\ q.token \in Token /\ q.admin \in BOOLEAN
                 /\ q.late \in BOOLEAN
           /\ q.step = "fill" => q.copy \in Roles
           /\ q.step = "in" => q.copy \in Roles \union {NoUser}
           /\ q.step = "invalidate" => q.user \in Ids
           /\ q.step = "idle" => q = Idle
BY DEF Request, Idle, WithToken

\* An action that moves one request and no clock keeps the types, if it keeps
\* them of the tables.
Tables ==
    /\ users \in [Ids -> User \union {NoUser}]
    /\ created \in 0..MaxUsers
    /\ cache \in [Ids -> [role : Roles, left : 1..CacheLife] \union {NoUser}]
    /\ denylist \subseteq [token : Token, left : 1..Life]
    /\ issued \subseteq Token /\ loggedOut \subseteq Token

\* A request that moves and tables that keep their types keep the invariant.
LEMMA MoveType ==
    ASSUME SessionsTypeOK, NEW r \in Requests, NEW state, Proper(state),
           Goto(r, state), Tables'
    PROVE  SessionsTypeOK'
BY GotoType DEF SessionsTypeOK, Tables, Proper, LetIn

\* Registration, login and the issue of a token keep the types.
LEMMA RegisterTypes ==
    ASSUME SessionsTypeOK, NEW r \in Requests,
           \/ \E name \in Names : BeginRegister(r, name)
           \/ CountUsers(r)
           \/ CreateUser(r)
           \/ \E i \in Ids : Login(r, i)
           \/ GenerateToken(r)
    PROVE  SessionsTypeOK'
<1> USE DEF Tables
<1>q. req[r] \in Request
  BY DEF SessionsTypeOK
<1>1. ASSUME NEW name \in Names, BeginRegister(r, name)
      PROVE  SessionsTypeOK'
  <2>1. Proper([step |-> "count", name |-> name])
    BY DEF Proper, Request
  <2> QED BY <1>1, <2>1, MoveType DEF BeginRegister, SessionsTypeOK
<1>2. ASSUME CountUsers(r) PROVE SessionsTypeOK'
  <2>1. PICK count \in {Cardinality(Rows)} \union (IF Failures THEN {0} ELSE {}) :
           Goto(r, [step |-> "create", name |-> req[r].name,
                    role |-> RoleOfNew(count)])
    BY <1>2 DEF CountUsers
  <2>2. Proper([step |-> "create", name |-> req[r].name, role |-> RoleOfNew(count)])
    BY <1>q, <1>2, ReqShape DEF Proper, Request, CountUsers, RoleOfNew, Roles
  <2> QED BY <1>2, <2>1, <2>2, MoveType DEF CountUsers, SessionsTypeOK
<1>3. ASSUME CreateUser(r) PROVE SessionsTypeOK'
  <2>1. req[r].name \in Names /\ req[r].role \in Roles
    BY <1>q, <1>3, ReqShape DEF CreateUser
  <2>2. CASE NameTaken(req[r].name)
    <3>1. Goto(r, Idle) /\ Tables'
      BY <1>3, <2>2 DEF CreateUser, SessionsTypeOK
    <3> QED BY <3>1, IdleIsProper, MoveType
  <2>3. CASE ~ NameTaken(req[r].name)
    <3> DEFINE i == created + 1
    <3>1. i \in Ids /\ i \in 0..MaxUsers
      BY <1>3, MaxUsersAssumption DEF CreateUser, SessionsTypeOK, Ids
    <3>2. Goto(r, [step |-> "issue", user |-> i, role |-> req[r].role])
      BY <1>3, <2>3 DEF CreateUser
    <3>3. Proper([step |-> "issue", user |-> i, role |-> req[r].role])
      BY <2>1, <3>1 DEF Proper, Request
    <3>4. [name |-> req[r].name, role |-> req[r].role] \in User
      BY <2>1 DEF User
    <3>5. /\ users' = [users EXCEPT ![i] = [name |-> req[r].name, role |-> req[r].role]]
          /\ created' = i
          /\ UNCHANGED <<cache, denylist, issued, loggedOut>>
      BY <1>3, <2>3 DEF CreateUser
    <3> HIDE DEF i
    <3>6. Tables'
      BY <3>1, <3>4, <3>5 DEF SessionsTypeOK
    <3> QED BY <3>2, <3>3, <3>6, MoveType
  <2> QED BY <2>2, <2>3
<1>4. ASSUME NEW i \in Ids, Login(r, i) PROVE SessionsTypeOK'
  <2>1. users[i].role \in Roles
    BY <1>4 DEF Login, SessionsTypeOK, User
  <2>2. Proper([step |-> "issue", user |-> i, role |-> users[i].role])
    BY <2>1 DEF Proper, Request
  <2> QED BY <1>4, <2>2, MoveType DEF Login, SessionsTypeOK
<1>5. ASSUME GenerateToken(r) PROVE SessionsTypeOK'
  <2>1. [user |-> req[r].user, role |-> req[r].role, left |-> Life] \in Token
    BY <1>q, <1>5, ReqShape, LivesAssumption DEF GenerateToken, Token
  <2>2. issued' \subseteq Token
    BY <1>5, <2>1 DEF GenerateToken, SessionsTypeOK
  <2> QED
    BY <1>5, <2>2, IdleIsProper, MoveType DEF GenerateToken, SessionsTypeOK
<1> QED BY <1>1, <1>2, <1>3, <1>4, <1>5

\* The lookups of the middlewares keep the types.
LEMMA EnterTypes ==
    ASSUME SessionsTypeOK, NEW r \in Requests,
           \/ \E token \in issued, isAdmin \in BOOLEAN : Enter(r, token, isAdmin)
           \/ CheckDenylist(r)
           \/ CheckToken(r)
           \/ FindCached(r)
           \/ FindMiss(r)
           \/ FindRow(r)
           \/ FillUser(r)
    PROVE  SessionsTypeOK'
<1> USE DEF Tables
<1>q. req[r] \in Request
  BY DEF SessionsTypeOK
<1>1. ASSUME NEW token \in issued, NEW isAdmin \in BOOLEAN, Enter(r, token, isAdmin)
      PROVE  SessionsTypeOK'
  <2>1. token \in Token
    BY DEF SessionsTypeOK
  <2>2. Proper([step |-> "denylist", token |-> token, admin |-> isAdmin,
                late |-> token \in loggedOut])
    BY <2>1 DEF Proper, Request
  <2>3. Goto(r, [step |-> "denylist", token |-> token, admin |-> isAdmin,
                 late |-> token \in loggedOut])
    BY <1>1 DEF Enter, CheckOrder
  <2> QED BY <1>1, <2>2, <2>3, MoveType DEF Enter, SessionsTypeOK
<1>2. ASSUME NEW passes, Checked(r, passes), req[r].step \in {"denylist", "token"}
      PROVE  SessionsTypeOK'
  <2> DEFINE next == [req[r] EXCEPT !.step = CheckOrder[req[r].step]]
  <2>1. Proper(next)
    BY <1>q, <1>2 DEF Proper, Request, Idle, CheckOrder
  <2>2. Goto(r, IF passes THEN next ELSE Idle)
    BY <1>2 DEF Checked
  <2>3. Tables'
    BY <1>2 DEF Checked, SessionsTypeOK
  <2> HIDE DEF next
  <2>4. Proper(IF passes THEN next ELSE Idle)
    BY <2>1, IdleIsProper
  <2> QED BY <2>2, <2>3, <2>4, MoveType
<1>3. ASSUME NEW step \in {"fill", "in"}, NEW copy \in Roles, Holding(r, step, copy),
             req[r].step \in WithToken, Tables'
      PROVE  SessionsTypeOK'
  <2>1. Proper([step |-> step, token |-> req[r].token, admin |-> req[r].admin,
                late |-> req[r].late, copy |-> copy])
    BY <1>q, <1>3, ReqShape, NoUserIsNoRow DEF Proper, Request
  <2> QED BY <1>3, <2>1, MoveType DEF Holding
<1>4. ASSUME FindCached(r) PROVE SessionsTypeOK'
  <2>1. req[r].token.user \in Ids
    BY <1>q, <1>4, ReqShape DEF FindCached, WithToken, Token
  <2>2. cache[req[r].token.user].role \in Roles
    BY <1>4, <2>1 DEF FindCached, SessionsTypeOK
  <2> QED BY <1>3, <1>4, <2>2 DEF FindCached, WithToken, SessionsTypeOK
<1>5. ASSUME FindRow(r) PROVE SessionsTypeOK'
  <2> DEFINE i == req[r].token.user
  <2>1. i \in Ids
    BY <1>q, <1>5, ReqShape DEF FindRow, WithToken, Token
  <2>2. Tables'
    BY <1>5 DEF FindRow, SessionsTypeOK
  <2>3. CASE users[i] # NoUser /\ Holding(r, "fill", users[i].role)
    <3>1. users[i].role \in Roles
      BY <2>1, <2>3 DEF SessionsTypeOK, User
    <3>2. req[r].step \in WithToken
      BY <1>5 DEF FindRow, WithToken
    <3> QED BY <1>3, <2>2, <2>3, <3>1, <3>2
  <2>4. CASE req[r].admin /\ Holding(r, "in", NoUser)
    <3>1. Proper([step |-> "in", token |-> req[r].token, admin |-> req[r].admin,
                  late |-> req[r].late, copy |-> NoUser])
      BY <1>q, <1>5, <2>4, ReqShape DEF FindRow, WithToken, Proper, Request
    <3> QED BY <2>2, <2>4, <3>1, MoveType DEF Holding
  <2>5. CASE Goto(r, Idle)
    BY <2>2, <2>5, IdleIsProper, MoveType
  <2> QED BY <1>5, <2>3, <2>4, <2>5 DEF FindRow
<1>6. ASSUME FillUser(r) PROVE SessionsTypeOK'
  <2>1. req[r].token.user \in Ids /\ req[r].copy \in Roles
    BY <1>q, <1>6, ReqShape DEF FillUser, WithToken, Token
  <2>2. [role |-> req[r].copy, left |-> CacheLife]
           \in [role : Roles, left : 1..CacheLife]
    BY <2>1, LivesAssumption
  <2>3. Tables'
    BY <1>6, <2>1, <2>2 DEF FillUser, SessionsTypeOK
  <2> QED BY <1>3, <1>6, <2>1, <2>3 DEF FillUser, WithToken
<1>7. ASSUME FindMiss(r) PROVE SessionsTypeOK'
  <2> DEFINE next == [req[r] EXCEPT !.step = "row"]
  <2>1. Proper(next)
    BY <1>q, <1>7 DEF FindMiss, Proper, Request, Idle
  <2>2. Goto(r, next) /\ Tables'
    BY <1>7 DEF FindMiss, SessionsTypeOK
  <2> HIDE DEF next
  <2> QED BY <2>1, <2>2, MoveType
<1> QED BY <1>1, <1>2, <1>4, <1>5, <1>6, <1>7 DEF CheckDenylist, CheckToken

\* What a request does once it is let in keeps the types.
LEMMA InsideTypes ==
    ASSUME SessionsTypeOK, NEW r \in Requests,
           \/ CurrentUser(r)
           \/ Logout(r)
           \/ \E i \in Ids, role \in Roles : SetRole(r, i, role)
           \/ \E i \in Ids : RemoveUser(r, i)
           \/ InvalidateUser(r)
           \/ Leave(r)
    PROVE  SessionsTypeOK'
<1> USE DEF Tables
<1>q. req[r] \in Request
  BY DEF SessionsTypeOK
<1>1. ASSUME CurrentUser(r) PROVE SessionsTypeOK'
  <2> DEFINE i == req[r].token.user
             role == IF users[i] # NoUser THEN users[i].role ELSE req[r].copy
  <2>1. i \in Ids /\ req[r].copy \in Roles
    BY <1>q, <1>1, ReqShape DEF CurrentUser, LetIn, WithToken, Token, SessionsTypeOK
  <2>2. role \in Roles
    BY <2>1 DEF SessionsTypeOK, User
  <2>3. Goto(r, [step |-> "issue", user |-> i, role |-> role])
    BY <1>1 DEF CurrentUser
  <2>4. Tables'
    BY <1>1 DEF CurrentUser, SessionsTypeOK
  <2> HIDE DEF i, role
  <2>5. Proper([step |-> "issue", user |-> i, role |-> role])
    BY <2>1, <2>2 DEF Proper, Request
  <2> QED BY <2>3, <2>4, <2>5, MoveType
<1>2. ASSUME Logout(r) PROVE SessionsTypeOK'
  <2> DEFINE token == req[r].token
             left == IF Valid(token) THEN token.left ELSE Life
  <2>1. token \in Token
    BY <1>q, <1>2, ReqShape DEF Logout, LetIn, WithToken
  <2>2. left \in 1..Life
    BY <2>1, LivesAssumption DEF Valid, Token
  <2>3. /\ Goto(r, Idle)
        /\ denylist' = {d \in denylist : d.token # token}
                          \union {[token |-> token, left |-> left]}
        /\ loggedOut' = loggedOut \union {token}
        /\ UNCHANGED <<users, created, cache, issued>>
    BY <1>2 DEF Logout
  <2> HIDE DEF token, left
  <2>4. Tables'
    BY <2>1, <2>2, <2>3 DEF SessionsTypeOK
  <2> QED BY <2>3, <2>4, IdleIsProper, MoveType
<1>3. ASSUME NEW i \in Ids, NEW role \in Roles, SetRole(r, i, role)
      PROVE  SessionsTypeOK'
  <2>1. Proper([step |-> "invalidate", user |-> i])
    BY DEF Proper, Request
  <2>2. [users[i] EXCEPT !.role = role] \in User
    BY <1>3 DEF SetRole, SessionsTypeOK, User
  <2>3. Tables'
    BY <1>3, <2>2 DEF SetRole, SessionsTypeOK
  <2> QED BY <1>3, <2>1, <2>3, MoveType DEF SetRole
<1>4. ASSUME NEW i \in Ids, RemoveUser(r, i) PROVE SessionsTypeOK'
  <2>1. Proper([step |-> "invalidate", user |-> i])
    BY DEF Proper, Request
  <2>2. Tables'
    BY <1>4 DEF RemoveUser, SessionsTypeOK
  <2> QED BY <1>4, <2>1, <2>2, MoveType DEF RemoveUser
<1>5. ASSUME InvalidateUser(r) PROVE SessionsTypeOK'
  BY <1>5, IdleIsProper, MoveType DEF InvalidateUser, SessionsTypeOK
<1>6. ASSUME Leave(r) PROVE SessionsTypeOK'
  BY <1>6, IdleIsProper, MoveType DEF Leave, SessionsTypeOK
<1> QED BY <1>1, <1>2, <1>3, <1>4, <1>5, <1>6

\* Ageing keeps a token a token.
LEMMA AgedType ==
    ASSUME NEW token \in Token
    PROVE  /\ Aged(token) \in Token
           /\ token.left > 0 => Aged(token).left = token.left - 1
           /\ token.left = 0 => Aged(token).left = 0
BY LivesAssumption DEF Aged, Token

\* The passing of time keeps the types.
LEMMA TickTypes ==
    ASSUME SessionsTypeOK, Tick
    PROVE  SessionsTypeOK'
<1>1. req' \in [Requests -> Request]
  <2>1. ASSUME NEW r \in Requests, req[r].step \in WithToken
        PROVE  [req[r] EXCEPT !.token = Aged(@)] \in Request
    <3>1. req[r] \in Request /\ req[r].token \in Token
      BY <2>1, ReqShape DEF SessionsTypeOK
    <3>2. Aged(req[r].token) \in Token
      BY <3>1, AgedType
    <3> QED BY <2>1, <3>1, <3>2 DEF Request, Idle, WithToken
  <2> QED BY <2>1 DEF Tick, SessionsTypeOK
<1>2. cache' \in [Ids -> [role : Roles, left : 1..CacheLife] \union {NoUser}]
  <2>1. ASSUME NEW i \in Ids, cache[i] # NoUser, cache[i].left # 1
        PROVE  [cache[i] EXCEPT !.left = @ - 1] \in [role : Roles, left : 1..CacheLife]
    BY <2>1, LivesAssumption DEF SessionsTypeOK
  <2> QED BY <2>1 DEF Tick, SessionsTypeOK
<1>3. denylist' \subseteq [token : Token, left : 1..Life]
  <2>1. ASSUME NEW d \in denylist, d.left > 1
        PROVE  [token |-> Aged(d.token), left |-> d.left - 1]
                  \in [token : Token, left : 1..Life]
    <3>1. d.token \in Token /\ d.left \in 1..Life
      BY DEF SessionsTypeOK
    <3> QED BY <2>1, <3>1, AgedType, LivesAssumption
  <2> QED BY <2>1 DEF Tick
<1>4. issued' \subseteq Token /\ loggedOut' \subseteq Token
  BY AgedType DEF Tick, SessionsTypeOK
<1>5. users' \in [Ids -> User \union {NoUser}] /\ created' \in 0..MaxUsers
  BY DEF Tick, SessionsTypeOK
<1>6. ASSUME NEW r \in Requests
      PROVE  /\ req'[r].step = req[r].step
             /\ req[r].step = "in" => /\ req'[r].admin = req[r].admin
                                      /\ req'[r].copy = req[r].copy
  BY DEF Tick, SessionsTypeOK, Request, Idle, WithToken
<1>7. slow' \subseteq {r \in Requests : req'[r] # Idle}
  <2>1. ASSUME NEW r \in Requests, req[r] # Idle
        PROVE  req'[r].step # "idle"
    BY <1>6, <2>1, ReqShape DEF SessionsTypeOK
  <2> QED BY <2>1 DEF Tick, Idle
<1>8. \A r \in Requests : LetIn(r, FALSE)' => req'[r].copy # NoUser
  BY <1>6 DEF LetIn, SessionsTypeOK
<1> QED BY <1>1, <1>2, <1>3, <1>4, <1>5, <1>7, <1>8 DEF SessionsTypeOK

\* Every variable of Sessions stays in its set.
THEOREM SessionsTypes == SessionsSpec => []SessionsTypeOK
<1>1. SessionsInit => SessionsTypeOK
  <2> SUFFICES ASSUME SessionsInit PROVE SessionsTypeOK
    OBVIOUS
  <2>1. users \in [Ids -> User \union {NoUser}]
    BY AdminAssumption DEF SessionsInit, User, Roles
  <2>2. created \in 0..MaxUsers
    BY MaxUsersAssumption DEF SessionsInit
  <2> QED BY <2>1, <2>2 DEF SessionsInit, SessionsTypeOK, Request, Idle, LetIn
<1>2. SessionsTypeOK /\ [SessionsNext]_sessionVars => SessionsTypeOK'
  <2> SUFFICES ASSUME SessionsTypeOK, [SessionsNext]_sessionVars
               PROVE  SessionsTypeOK'
    OBVIOUS
  <2>1. CASE UNCHANGED sessionVars
    BY <2>1 DEF sessionVars, SessionsTypeOK, LetIn
  <2>2. CASE Tick
    BY <2>2, TickTypes
  <2>3. ASSUME NEW r \in Requests, BeginRequest(r) \/ ContinueRequest(r)
        PROVE  SessionsTypeOK'
    BY <2>3, RegisterTypes, EnterTypes, InsideTypes
       DEF BeginRequest, ContinueRequest
  <2> QED BY <2>1, <2>2, <2>3 DEF SessionsNext
<1> QED BY <1>1, <1>2, PTL DEF SessionsSpec

-----------------------------------------------------------------------------
(* A revoked token stays out.                                              *)

\* A request that moves leaves the others where they are.
LEMMA GotoOther ==
    ASSUME SessionsTypeOK, NEW r \in Requests, NEW state, Goto(r, state)
    PROVE  /\ req'[r] = state
           /\ \A q \in Requests : q # r => req'[q] = req[q]
BY DEF Goto, SessionsTypeOK

\* A token that has not expired is on the denylist for as long as it lives.
Covered(token) ==
    token.left > 0 =>
       \E d \in denylist : d.token = token /\ d.left >= token.left

\* Whether a request with a token that was logged out before it began can
\* still be where it is.
Refusable(state) ==
    state.step \in WithToken /\ state.late =>
       /\ state.step = "denylist" => Covered(state.token)
       /\ state.step = "token" => state.token.left = 0
       /\ state.step \in {"denylist", "token"}

RevokedInv ==
    /\ \A token \in loggedOut : Covered(token)
    /\ \A r \in Requests : Refusable(req[r])

\* One request moves, and denylist and logouts stay.
LEMMA RevokedFrame ==
    ASSUME SessionsTypeOK, RevokedInv, NEW r \in Requests, NEW state,
           Goto(r, state), Refusable(state),
           UNCHANGED <<denylist, loggedOut>>
    PROVE  RevokedInv'
BY GotoOther DEF RevokedInv, Refusable, Covered

\* Time takes as much from an entry of the denylist as from its token.
LEMMA RevokedTick ==
    ASSUME SessionsTypeOK, RevokedInv, Tick
    PROVE  RevokedInv'
<1>1. ASSUME NEW token \in Token, Covered(token)
      PROVE  Covered(Aged(token))'
  <2> SUFFICES ASSUME Aged(token).left > 0
               PROVE  \E d \in denylist' : d.token = Aged(token)
                                           /\ d.left >= Aged(token).left
    BY DEF Covered
  <2>1. token.left \in Nat /\ token.left > 1 /\ Aged(token).left = token.left - 1
    BY AgedType, LivesAssumption DEF Token
  <2>2. PICK d \in denylist : d.token = token /\ d.left >= token.left
    BY <1>1, <2>1 DEF Covered
  <2>3. d.left \in Int
    BY LivesAssumption DEF SessionsTypeOK
  <2>4. [token |-> Aged(d.token), left |-> d.left - 1] \in denylist'
    BY <2>1, <2>2, <2>3 DEF Tick
  <2> QED BY <2>1, <2>2, <2>3, <2>4
<1>2. ASSUME NEW token \in loggedOut'
      PROVE  Covered(token)'
  <2>1. PICK t \in loggedOut : token = Aged(t)
    BY <1>2 DEF Tick
  <2>2. t \in Token /\ Covered(t)
    BY DEF SessionsTypeOK, RevokedInv
  <2> QED BY <1>1, <2>1, <2>2
<1>3. ASSUME NEW r \in Requests
      PROVE  Refusable(req[r])'
  <2>1. CASE req[r].step \in WithToken
    <3>1. PICK token \in Token : token = req[r].token
      BY <2>1, ReqShape DEF SessionsTypeOK
    <3>2. /\ req'[r].step = req[r].step
          /\ req'[r].late = req[r].late
          /\ req'[r].token = Aged(token)
      BY <1>3, <2>1, <3>1 DEF Tick, SessionsTypeOK, Request, Idle, WithToken
    <3>3. Refusable(req[r])
      BY DEF RevokedInv
    <3>4. req[r].step = "denylist" /\ req[r].late => Covered(Aged(token))'
      BY <1>1, <3>1, <3>3 DEF Refusable, WithToken
    <3>5. req[r].step = "token" /\ req[r].late => Aged(token).left = 0
      BY <3>1, <3>3, AgedType DEF Refusable, WithToken
    <3> QED BY <2>1, <3>2, <3>3, <3>4, <3>5 DEF Refusable, Covered
  <2>2. CASE req[r].step \notin WithToken
    BY <2>2 DEF Tick, Refusable
  <2> QED BY <2>1, <2>2
<1> QED BY <1>2, <1>3 DEF RevokedInv

\* Every step keeps the invariant of revoked tokens.
LEMMA RevokedStep ==
    ASSUME SessionsTypeOK, RevokedInv, [SessionsNext]_sessionVars
    PROVE  RevokedInv'
<1>1. CASE UNCHANGED sessionVars
  BY <1>1 DEF sessionVars, RevokedInv, Refusable, Covered
<1>2. CASE Tick
  BY <1>2, RevokedTick
<1>3. ASSUME NEW r \in Requests, NEW token \in issued, NEW isAdmin \in BOOLEAN,
             Enter(r, token, isAdmin)
      PROVE  RevokedInv'
  <2>1. token \in loggedOut => Covered(token)
    BY DEF RevokedInv
  <2> QED BY <1>3, <2>1, RevokedFrame DEF Enter, CheckOrder, Refusable
<1>4. ASSUME NEW r \in Requests, CheckDenylist(r)
      PROVE  RevokedInv'
  <2> DEFINE next == [req[r] EXCEPT !.step = CheckOrder[req[r].step]]
             passes == ~ Denied(req[r].token)
  <2>1. /\ next.step = "token"
        /\ next.token = req[r].token /\ next.late = req[r].late
        /\ req[r].token \in Token
    BY <1>4, ReqShape DEF CheckDenylist, CheckOrder, SessionsTypeOK, Request,
       Idle, WithToken
  <2>2. passes /\ req[r].late => req[r].token.left = 0
    <3>1. req[r].late => Covered(req[r].token)
      BY <1>4 DEF CheckDenylist, RevokedInv, Refusable, WithToken
    <3>2. req[r].token.left \in Nat
      BY <2>1, LivesAssumption DEF Token
    <3> QED BY <3>1, <3>2 DEF Covered, Denied
  <2>3. Goto(r, IF passes THEN next ELSE Idle) /\ UNCHANGED <<denylist, loggedOut>>
    BY <1>4 DEF CheckDenylist, Checked
  <2> HIDE DEF next, passes
  <2>4. Refusable(IF passes THEN next ELSE Idle)
    BY <2>1, <2>2 DEF Refusable, Idle, WithToken
  <2> QED BY <2>3, <2>4, RevokedFrame
<1>5. ASSUME NEW r \in Requests, CheckToken(r)
      PROVE  RevokedInv'
  <2> DEFINE next == [req[r] EXCEPT !.step = CheckOrder[req[r].step]]
             passes == /\ Valid(req[r].token)
                       /\ req[r].admin => req[r].token.role = "admin"
  <2>1. next.late = req[r].late
    BY <1>5 DEF CheckToken, SessionsTypeOK, Request, Idle
  <2>2. passes => ~ req[r].late
    BY <1>5 DEF CheckToken, RevokedInv, Refusable, Valid, WithToken
  <2>3. Goto(r, IF passes THEN next ELSE Idle) /\ UNCHANGED <<denylist, loggedOut>>
    BY <1>5 DEF CheckToken, Checked
  <2> HIDE DEF next, passes
  <2>4. Refusable(IF passes THEN next ELSE Idle)
    BY <2>1, <2>2 DEF Refusable, Idle, WithToken
  <2> QED BY <2>3, <2>4, RevokedFrame
<1>6. ASSUME NEW r \in Requests, NEW step, NEW copy, Holding(r, step, copy),
             req[r].step \in {"find", "row", "fill"}, UNCHANGED <<denylist, loggedOut>>
      PROVE  RevokedInv'
  <2>1. ~ req[r].late
    BY <1>6 DEF RevokedInv, Refusable, WithToken
  <2>2. Refusable([step |-> step, token |-> req[r].token, admin |-> req[r].admin,
                   late |-> req[r].late, copy |-> copy])
    BY <2>1 DEF Refusable
  <2> QED BY <1>6, <2>2, RevokedFrame DEF Holding
<1>7. ASSUME NEW r \in Requests, FindCached(r) \/ FindRow(r) \/ FillUser(r)
      PROVE  RevokedInv'
  BY <1>6, <1>7, RevokedFrame
     DEF FindCached, FindRow, FillUser, Refusable, Idle, WithToken
<1>8. ASSUME NEW r \in Requests, Logout(r)
      PROVE  RevokedInv'
  <2>1. PICK token \in Token : token = req[r].token
    BY <1>8, ReqShape DEF Logout, LetIn, WithToken, SessionsTypeOK
  <2> DEFINE entry == [token |-> token,
                       left |-> IF Valid(token) THEN token.left ELSE Life]
  <2>2. /\ denylist' = {d \in denylist : d.token # token} \union {entry}
        /\ loggedOut' = loggedOut \union {token}
        /\ Goto(r, Idle)
    BY <1>8, <2>1 DEF Logout
  <2>3. token.left > 0 => entry.token = token /\ entry.left >= token.left
    BY LivesAssumption DEF Valid, Token
  <2> HIDE DEF entry
  <2>4. Covered(token)'
    BY <2>2, <2>3 DEF Covered
  <2>5. ASSUME NEW t, Covered(t)
        PROVE  Covered(t)'
    <3>1. CASE t = token
      BY <2>4, <3>1 DEF Covered
    <3>2. CASE t # token
      BY <2>2, <2>5, <3>2 DEF Covered
    <3> QED BY <3>1, <3>2
  <2>6. \A t \in loggedOut' : Covered(t)'
    BY <2>2, <2>4, <2>5 DEF RevokedInv
  <2>7. ASSUME NEW q \in Requests
        PROVE  Refusable(req[q])'
    <3>1. CASE q = r
      BY <2>2, <3>1, GotoOther DEF Refusable, Idle, WithToken
    <3>2. CASE q # r
      <4>1. req'[q] = req[q] /\ Refusable(req[q])
        BY <2>2, <3>2, GotoOther DEF RevokedInv
      <4> QED BY <4>1, <2>5 DEF Refusable
    <3> QED BY <3>1, <3>2
  <2> QED BY <2>6, <2>7 DEF RevokedInv
<1>9. ASSUME NEW r \in Requests,
             \/ \E name \in Names : BeginRegister(r, name)
             \/ CountUsers(r)
             \/ CreateUser(r)
             \/ \E i \in Ids : Login(r, i)
             \/ GenerateToken(r)
             \/ CurrentUser(r)
             \/ \E i \in Ids, role \in Roles : SetRole(r, i, role)
             \/ \E i \in Ids : RemoveUser(r, i)
             \/ InvalidateUser(r)
             \/ Leave(r)
      PROVE  RevokedInv'
  BY <1>9, RevokedFrame
     DEF BeginRegister, CountUsers, CreateUser, Login, GenerateToken,
         CurrentUser, SetRole, RemoveUser, InvalidateUser, Leave, Refusable,
         Idle, WithToken
<1>10. ASSUME NEW r \in Requests, FindMiss(r)
       PROVE  RevokedInv'
  <2> DEFINE next == [req[r] EXCEPT !.step = "row"]
  <2>1. next.late = req[r].late /\ ~ req[r].late
    BY <1>10 DEF FindMiss, RevokedInv, Refusable, WithToken, SessionsTypeOK, Request, Idle
  <2>2. Goto(r, next) /\ UNCHANGED <<denylist, loggedOut>>
    BY <1>10 DEF FindMiss
  <2> HIDE DEF next
  <2>3. Refusable(next)
    BY <2>1 DEF Refusable
  <2> QED BY <2>2, <2>3, RevokedFrame
<1> QED
  BY <1>1, <1>2, <1>3, <1>4, <1>5, <1>7, <1>8, <1>9, <1>10
     DEF SessionsNext, BeginRequest, ContinueRequest

\* A token that was logged out lets no later request in, for any lives of
\* tokens and copies.
THEOREM SessionsRevoked == SessionsSpec => []RevokedStaysOut
<1>1. SessionsInit => RevokedInv
  BY DEF SessionsInit, RevokedInv, Refusable, Idle, WithToken
<1>2. SessionsTypeOK /\ RevokedInv /\ [SessionsNext]_sessionVars => RevokedInv'
  BY RevokedStep
<1>3. SessionsTypeOK /\ RevokedInv => RevokedStaysOut
  BY DEF RevokedInv, Refusable, RevokedStaysOut, WithToken
<1> QED BY <1>1, <1>2, <1>3, SessionsTypes, PTL DEF SessionsSpec

-----------------------------------------------------------------------------
(* An administrator's rights end.                                          *)

Bound == Life + CacheLife + 1

\* One tick passes at most between what a request reads and what it does.
Late(isSlow) == IF isSlow THEN 1 ELSE 0

\* How old the rights may be that a request holds: the cached ones, and those
\* of the token, which lose by ageing what the row's age gains.
Rights(ages, isSlow, q) ==
    /\ q.step = "issue" /\ q.role = "admin" =>
          ages[q.user] =< CacheLife + Late(isSlow)
    /\ q.step = "fill" /\ q.copy = "admin" => ages[q.token.user] =< Late(isSlow)
    /\ q.step = "in" /\ q.copy = "admin" =>
          ages[q.token.user] =< CacheLife + Late(isSlow)
    /\ q.step \in WithToken =>
          /\ q.token.role = "admin" => ages[q.token.user] + q.token.left =< Bound
          /\ ~ isSlow => q.token.left > 0
          /\ q.step \in {"find", "row", "fill", "in"} /\ q.admin => q.token.role = "admin"

RowRights ==
    /\ adminAge \in [Ids -> 0..Ages]
    /\ \A i \in Rows : users[i].role = "admin" => adminAge[i] = 0

CachedRights ==
    \A i \in Ids :
       cache[i] # NoUser /\ cache[i].role = "admin" =>
          adminAge[i] + cache[i].left =< CacheLife + 1

IssuedRights ==
    \A token \in issued :
       /\ token.left > 0
       /\ token.role = "admin" => adminAge[token.user] + token.left =< Bound

HeldRights == \A r \in Requests : Rights(adminAge, r \in slow, req[r])

RightsInv == RowRights /\ CachedRights /\ IssuedRights /\ HeldRights

\* Rights that are younger are still recent enough.
LEMMA RightsYounger ==
    ASSUME NEW ages \in [Ids -> Nat], NEW younger \in [Ids -> Nat],
           \A i \in Ids : younger[i] =< ages[i],
           NEW isSlow, NEW q \in Request, Rights(ages, isSlow, q)
    PROVE  Rights(younger, isSlow, q)
<1>1. q.step = "issue" => q.user \in Ids
  BY ReqShape
<1>2. q.step \in WithToken => q.token.user \in Ids /\ q.token.left \in Nat
  BY ReqShape, LivesAssumption DEF Token
<1>3. CacheLife \in Nat /\ Late(isSlow) \in Nat /\ Bound \in Nat
  BY LivesAssumption DEF Late, Bound
<1>4. q.step = "issue" /\ q.role = "admin" =>
         younger[q.user] =< CacheLife + Late(isSlow)
  BY <1>1, <1>3 DEF Rights
<1>5. q.step = "fill" /\ q.copy = "admin" => younger[q.token.user] =< Late(isSlow)
  BY <1>2, <1>3 DEF Rights, WithToken
<1>6. q.step = "in" /\ q.copy = "admin" =>
         younger[q.token.user] =< CacheLife + Late(isSlow)
  BY <1>2, <1>3 DEF Rights, WithToken
<1>7. q.step \in WithToken /\ q.token.role = "admin" =>
         younger[q.token.user] + q.token.left =< Bound
  BY <1>2, <1>3 DEF Rights
<1> QED BY <1>4, <1>5, <1>6, <1>7 DEF Rights

\* One request moves while rows get younger or stay.
LEMMA HeldMove ==
    ASSUME SessionsTypeOK, RowRights, HeldRights, RowRights',
           \A i \in Ids : adminAge'[i] =< adminAge[i],
           NEW r \in Requests, NEW state, Goto(r, state),
           Rights(adminAge', r \in slow, state)
    PROVE  HeldRights'
<1>1. ASSUME NEW q \in Requests
      PROVE  Rights(adminAge', q \in slow', req'[q])
  <2>1. CASE q = r
    <3>1. req'[q] = state
      BY <2>1, GotoOther
    <3>2. CASE state = Idle
      BY <3>1, <3>2 DEF Rights, Idle, WithToken
    <3>3. CASE state # Idle
      <4>1. slow' = slow
        BY <3>3 DEF Goto
      <4>2. Rights(adminAge', q \in slow, state)
        BY <2>1
      <4> QED BY <3>1, <4>1, <4>2
    <3> QED BY <3>2, <3>3
  <2>2. CASE q # r
    <3>1. req'[q] = req[q] /\ (q \in slow') = (q \in slow)
      BY <2>2, GotoOther DEF Goto
    <3>2. Rights(adminAge, q \in slow, req[q]) /\ req[q] \in Request
      BY DEF HeldRights, SessionsTypeOK
    <3>3. adminAge \in [Ids -> Nat] /\ adminAge' \in [Ids -> Nat]
      BY LivesAssumption DEF RowRights, Ages
    <3>4. Rights(adminAge', q \in slow, req[q])
      BY <3>2, <3>3, RightsYounger
    <3> QED BY <3>1, <3>4
  <2> QED BY <2>1, <2>2
<1> QED BY <1>1 DEF HeldRights

\* One request moves and no row changes.
LEMMA RightsMove ==
    ASSUME SessionsTypeOK, RightsInv, NEW r \in Requests, NEW state,
           Goto(r, state), Rights(adminAge, r \in slow, state),
           UNCHANGED <<users, adminAge>>, CachedRights', IssuedRights'
    PROVE  RightsInv'
<1>1. RowRights'
  BY DEF RightsInv, RowRights, Rows
<1>2. \A i \in Ids : adminAge'[i] =< adminAge[i]
  BY LivesAssumption DEF RightsInv, RowRights, Ages
<1>3. HeldRights'
  BY <1>1, <1>2, HeldMove DEF RightsInv
<1> QED BY <1>1, <1>3 DEF RightsInv

\* Nor do the cache and the tokens.
LEMMA RightsStay ==
    ASSUME SessionsTypeOK, RightsInv, NEW r \in Requests, NEW state,
           Goto(r, state), Rights(adminAge, r \in slow, state),
           UNCHANGED <<users, adminAge, cache, issued>>
    PROVE  RightsInv'
<1>1. CachedRights' /\ IssuedRights'
  BY DEF RightsInv, CachedRights, IssuedRights
<1> QED BY <1>1, RightsMove

\* A request that is not being served holds no right of an administrator.
LEMMA IdleHasNoRights ==
    ASSUME NEW ages, NEW isSlow PROVE Rights(ages, isSlow, Idle)
BY DEF Rights, Idle, WithToken

\* What the rights of a request with a token come to.
LEMMA TokenRights ==
    ASSUME SessionsTypeOK, RightsInv, NEW r \in Requests,
           req[r].step \in WithToken
    PROVE  /\ req[r].token \in Token
           /\ req[r].token.user \in Ids
           /\ req[r].token.left \in 0..Life
           /\ adminAge[req[r].token.user] \in Nat
           /\ req[r].token.role = "admin" =>
                 adminAge[req[r].token.user] + req[r].token.left =< Bound
           /\ ~ (r \in slow) => req[r].token.left > 0
           /\ req[r].step \in {"find", "row", "fill", "in"} /\ req[r].admin =>
                 req[r].token.role = "admin"
<1>1. req[r].token \in Token
  BY ReqShape DEF SessionsTypeOK
<1>2. Rights(adminAge, r \in slow, req[r])
  BY DEF RightsInv, HeldRights
<1>3. req[r].token.user \in Ids /\ req[r].token.left \in 0..Life
  BY <1>1 DEF Token
<1>4. adminAge[req[r].token.user] \in Nat
  BY <1>3, LivesAssumption DEF RightsInv, RowRights, Ages
<1> QED BY <1>1, <1>2, <1>3, <1>4 DEF Rights

\* A request goes on with its token, and with a copy that is recent.
LEMMA HoldRights ==
    ASSUME SessionsTypeOK, RightsInv, NEW r \in Requests, NEW step, NEW copy,
           req[r].step \in {"find", "row", "fill"},
           \/ step = "fill" /\ (copy = "admin" =>
                 adminAge[req[r].token.user] =< Late(r \in slow))
           \/ step = "in" /\ (copy = "admin" =>
                 adminAge[req[r].token.user] =< CacheLife + Late(r \in slow))
    PROVE  Rights(adminAge, r \in slow,
                  [step |-> step, token |-> req[r].token, admin |-> req[r].admin,
                   late |-> req[r].late, copy |-> copy])
<1>1. req[r].step \in WithToken
  BY DEF WithToken
<1> QED BY <1>1, TokenRights DEF Rights, WithToken

\* The lookups of the middlewares keep the bounds on rights.
LEMMA EnterRights ==
    ASSUME SessionsTypeOK, RightsInv, NEW r \in Requests,
           \/ \E token \in issued, isAdmin \in BOOLEAN : Enter(r, token, isAdmin)
           \/ CheckDenylist(r)
           \/ CheckToken(r)
           \/ FindCached(r)
           \/ FindMiss(r)
           \/ FindRow(r)
    PROVE  RightsInv'
<1>i. Rights(adminAge, r \in slow, Idle)
  BY IdleHasNoRights
<1>1. ASSUME NEW token \in issued, NEW isAdmin \in BOOLEAN, Enter(r, token, isAdmin)
      PROVE  RightsInv'
  <2> DEFINE next == [step |-> "denylist", token |-> token, admin |-> isAdmin,
                      late |-> token \in loggedOut]
  <2>1. Rights(adminAge, r \in slow, next)
    BY DEF RightsInv, IssuedRights, Rights, WithToken
  <2>2. Goto(r, next)
    BY <1>1 DEF Enter, CheckOrder
  <2> HIDE DEF next
  <2> QED BY <1>1, <2>1, <2>2, RightsStay DEF Enter
<1>2. ASSUME NEW passes, Checked(r, passes), req[r].step \in {"denylist", "token"},
             passes /\ req[r].step = "token" /\ req[r].admin =>
                req[r].token.role = "admin"
      PROVE  RightsInv'
  <2> DEFINE next == [req[r] EXCEPT !.step = CheckOrder[req[r].step]]
  <2>1. req[r] \in Request /\ req[r].step \in WithToken
    BY <1>2 DEF SessionsTypeOK, WithToken
  <2>2. passes => Rights(adminAge, r \in slow, next)
    <3>1. /\ next.token = req[r].token /\ next.admin = req[r].admin
          /\ req[r].step = "denylist" => next.step = "token"
          /\ req[r].step = "token" => next.step = "find"
      BY <1>2, <2>1 DEF Request, Idle, CheckOrder
    <3> HIDE DEF next
    <3> QED BY <1>2, <2>1, <3>1, TokenRights DEF Rights, WithToken
  <2>3. Goto(r, IF passes THEN next ELSE Idle) /\ UNCHANGED <<users, adminAge, cache, issued>>
    BY <1>2 DEF Checked
  <2> HIDE DEF next
  <2>4. Rights(adminAge, r \in slow, IF passes THEN next ELSE Idle)
    BY <1>i, <2>2
  <2> QED BY <2>3, <2>4, RightsStay
<1>3. ASSUME CheckDenylist(r) PROVE RightsInv'
  BY <1>2, <1>3 DEF CheckDenylist
<1>4. ASSUME CheckToken(r) PROVE RightsInv'
  BY <1>2, <1>4 DEF CheckToken
<1>5. ASSUME FindCached(r) PROVE RightsInv'
  <2> DEFINE i == req[r].token.user
  <2>1. i \in Ids /\ adminAge[i] \in Nat
    BY <1>5, TokenRights DEF FindCached, WithToken
  <2>2. cache[i] # NoUser /\ cache[i].left \in 1..CacheLife
    BY <1>5, <2>1 DEF FindCached, SessionsTypeOK
  <2>3. cache[i].role = "admin" => adminAge[i] =< CacheLife + Late(r \in slow)
    BY <2>1, <2>2, LivesAssumption DEF RightsInv, CachedRights, Late
  <2>4. Rights(adminAge, r \in slow,
               [step |-> "in", token |-> req[r].token, admin |-> req[r].admin,
                late |-> req[r].late, copy |-> cache[i].role])
    BY <1>5, <2>3, HoldRights DEF FindCached
  <2> QED BY <1>5, <2>4, RightsStay DEF FindCached, Holding
<1>6. ASSUME FindRow(r) PROVE RightsInv'
  <2> DEFINE i == req[r].token.user
             next(step, copy) ==
                [step |-> step, token |-> req[r].token, admin |-> req[r].admin,
                 late |-> req[r].late, copy |-> copy]
  <2>1. i \in Ids
    BY <1>6, TokenRights DEF FindRow, WithToken
  <2>2. CASE users[i] # NoUser /\ Holding(r, "fill", users[i].role)
    <3>1. users[i].role = "admin" => adminAge[i] =< Late(r \in slow)
      BY <2>1, <2>2 DEF RightsInv, RowRights, Rows, Late
    <3>2. Rights(adminAge, r \in slow, next("fill", users[i].role))
      BY <1>6, <3>1, HoldRights DEF FindRow
    <3> QED BY <1>6, <2>2, <3>2, RightsStay DEF FindRow, Holding
  <2>3. CASE Holding(r, "in", NoUser)
    <3>1. NoUser # "admin"
      BY NoUserIsNoRow DEF Roles
    <3>2. Rights(adminAge, r \in slow, next("in", NoUser))
      BY <1>6, <3>1, HoldRights DEF FindRow
    <3> QED BY <1>6, <2>3, <3>2, RightsStay DEF FindRow, Holding
  <2>4. CASE Goto(r, Idle)
    BY <1>6, <1>i, <2>4, RightsStay DEF FindRow
  <2> QED BY <1>6, <2>2, <2>3, <2>4 DEF FindRow
<1>7. ASSUME FindMiss(r) PROVE RightsInv'
  <2> DEFINE next == [req[r] EXCEPT !.step = "row"]
  <2>1. /\ next.token = req[r].token /\ next.admin = req[r].admin
        /\ next.step = "row" /\ req[r].step = "find"
    BY <1>7 DEF FindMiss, SessionsTypeOK, Request, Idle
  <2>2. Goto(r, next) /\ UNCHANGED <<users, adminAge, cache, issued>>
    BY <1>7 DEF FindMiss
  <2> HIDE DEF next
  <2>3. Rights(adminAge, r \in slow, next)
    BY <2>1, TokenRights DEF Rights, WithToken
  <2> QED BY <2>2, <2>3, RightsStay
<1> QED BY <1>1, <1>3, <1>4, <1>5, <1>6, <1>7

\* A tick ages the rows, and the token of every request.
LEMMA RightsAge ==
    ASSUME NEW ages \in [Ids -> Nat], NEW older \in [Ids -> Nat],
           \A i \in Ids : older[i] =< ages[i] + 1,
           NEW q \in Request, Rights(ages, FALSE, q)
    PROVE  Rights(older, TRUE, IF q.step \in WithToken
                               THEN [q EXCEPT !.token = Aged(@)] ELSE q)
<1>1. CacheLife \in Nat /\ Life \in Nat /\ Bound \in Nat
  BY LivesAssumption DEF Bound
<1>2. CASE q.step \notin WithToken
  <2>1. q.step = "issue" => q.user \in Ids
    BY ReqShape
  <2>2. q.step = "issue" /\ q.role = "admin" => older[q.user] =< CacheLife + 1
    BY <1>1, <2>1 DEF Rights, Late
  <2> QED BY <1>2, <2>2 DEF Rights, WithToken, Late
<1>3. CASE q.step \in WithToken
  <2> DEFINE next == [q EXCEPT !.token = Aged(@)]
             i == q.token.user
  <2>1. q.token \in Token /\ i \in Ids /\ q.token.left \in Nat
    BY <1>3, ReqShape, LivesAssumption DEF Token
  <2>2. /\ Aged(q.token).user = i /\ Aged(q.token).role = q.token.role
        /\ q.token.left > 0 => Aged(q.token).left = q.token.left - 1
    BY <2>1, AgedType DEF Aged, Token
  <2>3. /\ next.step = q.step /\ next.token = Aged(q.token)
        /\ q.step \in {"fill", "in"} => next.copy = q.copy
        /\ next.admin = q.admin
    BY <1>3 DEF Request, Idle, WithToken
  <2>4. ages[i] \in Nat /\ older[i] \in Nat /\ older[i] =< ages[i] + 1
    BY <2>1
  <2>5. /\ q.token.left > 0
        /\ q.token.role = "admin" => ages[i] + q.token.left =< Bound
        /\ q.step = "fill" /\ q.copy = "admin" => ages[i] =< 0
        /\ q.step = "in" /\ q.copy = "admin" => ages[i] =< CacheLife
        /\ q.step \in {"find", "row", "fill", "in"} /\ q.admin => q.token.role = "admin"
    BY <1>1, <1>3, <2>4 DEF Rights, Late
  <2>6. /\ q.token.role = "admin" => older[i] + Aged(q.token).left =< Bound
        /\ q.step = "fill" /\ q.copy = "admin" => older[i] =< 1
        /\ q.step = "in" /\ q.copy = "admin" => older[i] =< CacheLife + 1
    BY <1>1, <2>1, <2>2, <2>4, <2>5
  <2> HIDE DEF next
  <2>7. Rights(older, TRUE, next)
    BY <1>3, <2>2, <2>3, <2>5, <2>6 DEF Rights, Late, WithToken
  <2> QED BY <1>3, <2>7 DEF next
<1> QED BY <1>2, <1>3

\* The passing of time keeps the bounds: ages grow as lives shrink.
LEMMA TickRights ==
    ASSUME SessionsTypeOK, RightsInv, Tick
    PROVE  RightsInv'
<1>1. adminAge' \in [Ids -> 0..Ages] /\ \A i \in Ids : adminAge'[i] =< adminAge[i] + 1
  BY LivesAssumption DEF Tick, RightsInv, RowRights, Ages
<1>2. adminAge \in [Ids -> Nat] /\ adminAge' \in [Ids -> Nat]
  BY <1>1, LivesAssumption DEF RightsInv, RowRights, Ages
<1>3. RowRights'
  BY <1>1 DEF Tick, RowRights, Rows
<1>4. CachedRights'
  <2>1. ASSUME NEW i \in Ids, cache'[i] # NoUser, cache'[i].role = "admin"
        PROVE  adminAge'[i] + cache'[i].left =< CacheLife + 1
    <3>1. /\ cache[i] \in [role : Roles, left : 1..CacheLife]
          /\ cache'[i] = [cache[i] EXCEPT !.left = @ - 1]
      BY <2>1 DEF Tick, SessionsTypeOK
    <3>2. cache[i].role = "admin" /\ cache'[i].left = cache[i].left - 1
      BY <2>1, <3>1
    <3>3. adminAge[i] + cache[i].left =< CacheLife + 1
      BY <2>1, <3>2 DEF RightsInv, CachedRights, Tick
    <3>4. cache[i].left \in Int /\ adminAge[i] \in Int /\ adminAge'[i] \in Int
      BY <1>2, <3>1
    <3> QED BY <1>1, <3>2, <3>3, <3>4, LivesAssumption
  <2> QED BY <2>1 DEF CachedRights
<1>5. IssuedRights'
  <2>1. ASSUME NEW token \in issued'
        PROVE  /\ token.left > 0
               /\ token.role = "admin" => adminAge'[token.user] + token.left =< Bound
    <3>1. PICK t \in issued : t.left > 1 /\ token = Aged(t)
      BY DEF Tick
    <3>2. t \in Token /\ t.user \in Ids /\ t.left \in Nat
      BY LivesAssumption DEF SessionsTypeOK, Token
    <3>3. token.user = t.user /\ token.role = t.role /\ token.left = t.left - 1
      BY <3>1, <3>2, AgedType DEF Aged, Token
    <3>4. t.role = "admin" => adminAge[t.user] + t.left =< Bound
      BY DEF RightsInv, IssuedRights
    <3>5. Bound \in Nat
      BY LivesAssumption DEF Bound
    <3> QED BY <1>1, <1>2, <3>1, <3>2, <3>3, <3>4, <3>5
  <2> QED BY <2>1 DEF IssuedRights
<1>6. HeldRights'
  <2>1. ASSUME NEW q \in Requests PROVE Rights(adminAge', q \in slow', req'[q])
    <3>1. req'[q] = IF req[q].step \in WithToken
                    THEN [req[q] EXCEPT !.token = Aged(@)] ELSE req[q]
      BY DEF Tick
    <3>2. CASE req[q] = Idle
      <4>1. req'[q] = Idle
        BY <3>1, <3>2 DEF Idle, WithToken
      <4> QED BY <4>1 DEF Rights, Idle, WithToken
    <3>3. CASE req[q] # Idle
      <4>1. req[q] \in Request
        BY DEF SessionsTypeOK
      <4>2. (q \in slow) = FALSE /\ (q \in slow') = TRUE
        BY <3>3 DEF Tick
      <4>3. Rights(adminAge, q \in slow, req[q])
        BY DEF RightsInv, HeldRights
      <4>4. Rights(adminAge, FALSE, req[q])
        BY <4>2, <4>3
      <4>5. Rights(adminAge', TRUE, req'[q])
        BY <1>1, <1>2, <3>1, <4>1, <4>4, RightsAge
      <4> QED BY <4>2, <4>5
    <3> QED BY <3>2, <3>3
  <2> QED BY <2>1 DEF HeldRights
<1> QED BY <1>3, <1>4, <1>5, <1>6 DEF RightsInv

\* A row that says admin is of this moment.
LEMMA SaysRights ==
    ASSUME SessionsTypeOK, RightsInv, NEW i \in Ids, NEW role \in Roles,
           Says(i, role)
    PROVE  /\ adminAge' \in [Ids -> 0..Ages]
           /\ \A j \in Ids : adminAge'[j] =< adminAge[j]
           /\ role = "admin" => adminAge'[i] = 0
           /\ \A j \in Ids : j # i => adminAge'[j] = adminAge[j]
           /\ role # "admin" => adminAge' = adminAge
BY LivesAssumption DEF RightsInv, RowRights, Says, Ages

\* Copies and tokens stay, and no row gets older.
LEMMA YoungerRights ==
    ASSUME SessionsTypeOK, RightsInv, RowRights',
           \A i \in Ids : adminAge'[i] =< adminAge[i],
           UNCHANGED <<cache, issued>>
    PROVE  CachedRights' /\ IssuedRights'
<1>1. adminAge \in [Ids -> Int] /\ adminAge' \in [Ids -> Int]
  BY LivesAssumption DEF RightsInv, RowRights, Ages
<1>2. ASSUME NEW i \in Ids, cache[i] # NoUser, cache[i].role = "admin"
      PROVE  adminAge'[i] + cache[i].left =< CacheLife + 1
  <2>1. adminAge[i] + cache[i].left =< CacheLife + 1
    BY <1>2 DEF RightsInv, CachedRights
  <2>2. cache[i].left \in Int
    BY <1>2 DEF SessionsTypeOK
  <2> QED BY <1>1, <2>1, <2>2, LivesAssumption
<1>3. ASSUME NEW token \in issued, token.role = "admin"
      PROVE  adminAge'[token.user] + token.left =< Bound
  <2>1. adminAge[token.user] + token.left =< Bound
    BY <1>3 DEF RightsInv, IssuedRights
  <2>2. token.user \in Ids /\ token.left \in Int /\ Bound \in Int
    BY LivesAssumption DEF SessionsTypeOK, Token, Bound
  <2> QED BY <1>1, <2>1, <2>2
<1>4. CachedRights'
  BY <1>2 DEF CachedRights
<1>5. IssuedRights'
  BY <1>3 DEF IssuedRights, RightsInv
<1> QED BY <1>4, <1>5

\* Registration, login and the issue of a token keep the bounds on rights.
LEMMA RegisterRights ==
    ASSUME SessionsTypeOK, RightsInv, NEW r \in Requests,
           \/ \E name \in Names : BeginRegister(r, name)
           \/ CountUsers(r)
           \/ CreateUser(r)
           \/ \E i \in Ids : Login(r, i)
           \/ GenerateToken(r)
    PROVE  RightsInv'
<1>i. Rights(adminAge, r \in slow, Idle)
  BY IdleHasNoRights
<1>c. CacheLife \in Nat /\ Life \in Nat \ {0} /\ Late(r \in slow) \in Nat
  BY LivesAssumption DEF Late
<1>1. ASSUME NEW name \in Names, BeginRegister(r, name) PROVE RightsInv'
  <2>1. Rights(adminAge, r \in slow, [step |-> "count", name |-> name])
    BY DEF Rights, WithToken
  <2> QED BY <1>1, <2>1, RightsStay DEF BeginRegister
<1>2. ASSUME CountUsers(r) PROVE RightsInv'
  <2>1. PICK count \in {Cardinality(Rows)} \union (IF Failures THEN {0} ELSE {}) :
           Goto(r, [step |-> "create", name |-> req[r].name,
                    role |-> RoleOfNew(count)])
    BY <1>2 DEF CountUsers
  <2>2. Rights(adminAge, r \in slow,
               [step |-> "create", name |-> req[r].name, role |-> RoleOfNew(count)])
    BY DEF Rights, WithToken
  <2> QED BY <1>2, <2>1, <2>2, RightsStay DEF CountUsers
<1>3. ASSUME CreateUser(r) PROVE RightsInv'
  <2>1. req[r].role \in Roles
    BY <1>3, ReqShape DEF CreateUser, SessionsTypeOK
  <2>2. CASE NameTaken(req[r].name)
    <3>1. Goto(r, Idle) /\ UNCHANGED <<users, adminAge, cache, issued>>
      BY <1>3, <2>2 DEF CreateUser
    <3> QED BY <1>i, <3>1, RightsStay
  <2>3. CASE ~ NameTaken(req[r].name)
    <3> DEFINE i == created + 1
               next == [step |-> "issue", user |-> i, role |-> req[r].role]
    <3>1. i \in Ids
      BY <1>3, MaxUsersAssumption DEF CreateUser, SessionsTypeOK, Ids
    <3>2. /\ users' = [users EXCEPT ![i] = [name |-> req[r].name, role |-> req[r].role]]
          /\ Says(i, req[r].role) /\ Goto(r, next) /\ UNCHANGED <<cache, issued>>
      BY <1>3, <2>3 DEF CreateUser
    <3> HIDE DEF i
    <3>3. /\ adminAge' \in [Ids -> 0..Ages]
          /\ \A j \in Ids : adminAge'[j] =< adminAge[j]
          /\ req[r].role = "admin" => adminAge'[i] = 0
          /\ \A j \in Ids : j # i => adminAge'[j] = adminAge[j]
      BY <2>1, <3>1, <3>2, SaysRights
    <3>4. RowRights'
      BY <3>1, <3>2, <3>3 DEF RightsInv, RowRights, Rows, SessionsTypeOK
    <3>5. Rights(adminAge', r \in slow, next)
      BY <1>c, <3>3 DEF Rights, WithToken
    <3> HIDE DEF next
    <3>6. HeldRights'
      BY <3>2, <3>3, <3>4, <3>5, HeldMove DEF RightsInv
    <3> QED BY <3>2, <3>3, <3>4, <3>6, YoungerRights DEF RightsInv
  <2> QED BY <2>2, <2>3
<1>4. ASSUME NEW i \in Ids, Login(r, i) PROVE RightsInv'
  <2>1. users[i].role = "admin" => adminAge[i] = 0
    BY <1>4 DEF Login, RightsInv, RowRights, Rows
  <2>2. Rights(adminAge, r \in slow,
               [step |-> "issue", user |-> i, role |-> users[i].role])
    BY <1>c, <2>1 DEF Rights, WithToken
  <2> QED BY <1>4, <2>2, RightsStay DEF Login
<1>5. ASSUME GenerateToken(r) PROVE RightsInv'
  <2> DEFINE token == [user |-> req[r].user, role |-> req[r].role, left |-> Life]
  <2>1. req[r].user \in Ids /\ req[r].step = "issue"
    BY <1>5, ReqShape DEF GenerateToken, SessionsTypeOK
  <2>2. Rights(adminAge, r \in slow, req[r]) /\ Late(r \in slow) =< 1
    BY DEF RightsInv, HeldRights, Late
  <2>3. req[r].role = "admin" =>
           adminAge[req[r].user] =< CacheLife + Late(r \in slow)
    BY <2>1, <2>2 DEF Rights
  <2>4. adminAge[req[r].user] \in Nat
    BY <2>1, LivesAssumption DEF RightsInv, RowRights, Ages
  <2>5. /\ token.left > 0
        /\ token.role = "admin" => adminAge[token.user] + token.left =< Bound
    BY <1>c, <2>2, <2>3, <2>4 DEF Bound
  <2>6. /\ issued' \in {issued, {token}} /\ Goto(r, Idle)
        /\ UNCHANGED <<users, cache, adminAge>>
    BY <1>5 DEF GenerateToken
  <2> HIDE DEF token
  <2>7. CachedRights' /\ IssuedRights'
    BY <2>5, <2>6 DEF RightsInv, CachedRights, IssuedRights
  <2> QED BY <1>i, <2>6, <2>7, RightsMove
<1> QED BY <1>1, <1>2, <1>3, <1>4, <1>5

\* What a request does once it is let in keeps the bounds on rights.
LEMMA InsideRights ==
    ASSUME SessionsTypeOK, RightsInv, NEW r \in Requests,
           \/ FillUser(r)
           \/ CurrentUser(r)
           \/ Logout(r)
           \/ \E i \in Ids, role \in Roles : SetRole(r, i, role)
           \/ \E i \in Ids : RemoveUser(r, i)
           \/ InvalidateUser(r)
           \/ Leave(r)
    PROVE  RightsInv'
<1>i. Rights(adminAge, r \in slow, Idle)
  BY IdleHasNoRights
<1>c. CacheLife \in Nat \ {0} /\ Late(r \in slow) \in 0..1
  BY LivesAssumption DEF Late
<1>h. Rights(adminAge, r \in slow, req[r])
  BY DEF RightsInv, HeldRights
<1>1. ASSUME FillUser(r) PROVE RightsInv'
  <2> DEFINE i == req[r].token.user
             copy == [role |-> req[r].copy, left |-> CacheLife]
  <2>1. i \in Ids /\ adminAge[i] \in Nat
    BY <1>1, TokenRights DEF FillUser, WithToken
  <2>2. req[r].copy = "admin" => adminAge[i] =< Late(r \in slow)
    BY <1>1, <1>h DEF FillUser, Rights
  <2>3. req[r].copy = "admin" => adminAge[i] + copy.left =< CacheLife + 1
    BY <1>c, <2>1, <2>2
  <2>4. /\ cache' = [cache EXCEPT ![i] = copy] /\ Holding(r, "in", req[r].copy)
        /\ UNCHANGED <<users, issued, adminAge>> /\ req[r].step = "fill"
    BY <1>1 DEF FillUser
  <2>5. copy.role = req[r].copy
    OBVIOUS
  <2>6. Rights(adminAge, r \in slow,
               [step |-> "in", token |-> req[r].token, admin |-> req[r].admin,
                late |-> req[r].late, copy |-> req[r].copy])
    BY <1>c, <2>1, <2>2, <2>4, HoldRights
  <2> HIDE DEF i, copy
  <2>7. CachedRights' /\ IssuedRights'
    BY <2>1, <2>3, <2>4, <2>5
       DEF RightsInv, CachedRights, IssuedRights, SessionsTypeOK
  <2> QED BY <2>4, <2>6, <2>7, RightsMove DEF Holding
<1>2. ASSUME CurrentUser(r) PROVE RightsInv'
  <2> DEFINE i == req[r].token.user
             role == IF users[i] # NoUser THEN users[i].role ELSE req[r].copy
  <2>1. i \in Ids /\ adminAge[i] \in Nat
    BY <1>2, TokenRights DEF CurrentUser, LetIn, WithToken
  <2>2. users[i] # NoUser /\ users[i].role = "admin" => adminAge[i] = 0
    BY <2>1 DEF RightsInv, RowRights, Rows
  <2>3. req[r].copy = "admin" => adminAge[i] =< CacheLife + Late(r \in slow)
    BY <1>2, <1>h DEF CurrentUser, LetIn, Rights
  <2>4. role = "admin" => adminAge[i] =< CacheLife + Late(r \in slow)
    BY <1>c, <2>2, <2>3
  <2>5. /\ Goto(r, [step |-> "issue", user |-> i, role |-> role])
        /\ UNCHANGED <<users, cache, issued, adminAge>>
    BY <1>2 DEF CurrentUser
  <2> HIDE DEF i, role
  <2>6. Rights(adminAge, r \in slow, [step |-> "issue", user |-> i, role |-> role])
    BY <2>4 DEF Rights, WithToken
  <2> QED BY <2>5, <2>6, RightsStay
<1>3. ASSUME Logout(r) PROVE RightsInv'
  BY <1>3, <1>i, RightsStay DEF Logout
<1>4. ASSUME NEW i \in Ids, NEW role \in Roles, SetRole(r, i, role)
      PROVE  RightsInv'
  <2>1. /\ users' = [users EXCEPT ![i].role = role] /\ Says(i, role)
        /\ Goto(r, [step |-> "invalidate", user |-> i]) /\ UNCHANGED <<cache, issued>>
        /\ users[i] # NoUser
    BY <1>4 DEF SetRole
  <2>2. /\ adminAge' \in [Ids -> 0..Ages]
        /\ \A j \in Ids : adminAge'[j] =< adminAge[j]
        /\ role = "admin" => adminAge'[i] = 0
        /\ \A j \in Ids : j # i => adminAge'[j] = adminAge[j]
    BY <2>1, SaysRights
  <2>3. users'[i].role = role /\ \A j \in Ids : j # i => users'[j] = users[j]
    BY <2>1 DEF SessionsTypeOK, User
  <2>4. RowRights'
    BY <2>2, <2>3 DEF RightsInv, RowRights, Rows
  <2>5. Rights(adminAge', r \in slow, [step |-> "invalidate", user |-> i])
    BY DEF Rights, WithToken
  <2>6. HeldRights'
    BY <2>1, <2>2, <2>4, <2>5, HeldMove DEF RightsInv
  <2> QED BY <2>1, <2>2, <2>4, <2>6, YoungerRights DEF RightsInv
<1>5. ASSUME NEW i \in Ids, RemoveUser(r, i) PROVE RightsInv'
  <2>1. RowRights' /\ \A j \in Ids : adminAge'[j] =< adminAge[j]
    BY <1>5, LivesAssumption DEF RemoveUser, RightsInv, RowRights, Rows, SessionsTypeOK, Ages
  <2>2. Rights(adminAge', r \in slow, [step |-> "invalidate", user |-> i])
    BY DEF Rights, WithToken
  <2>3. HeldRights'
    BY <1>5, <2>1, <2>2, HeldMove DEF RemoveUser, RightsInv
  <2> QED BY <1>5, <2>1, <2>3, YoungerRights DEF RemoveUser, RightsInv
<1>6. ASSUME InvalidateUser(r) PROVE RightsInv'
  <2>1. CachedRights' /\ IssuedRights'
    BY <1>6 DEF InvalidateUser, RightsInv, CachedRights, IssuedRights, SessionsTypeOK
  <2> QED BY <1>6, <1>i, <2>1, RightsMove DEF InvalidateUser
<1>7. ASSUME Leave(r) PROVE RightsInv'
  BY <1>7, <1>i, RightsStay DEF Leave
<1> QED BY <1>1, <1>2, <1>3, <1>4, <1>5, <1>6, <1>7

\* Every step keeps the bounds on rights.
LEMMA RightsStep ==
    ASSUME SessionsTypeOK, RightsInv, [SessionsNext]_sessionVars
    PROVE  RightsInv'
<1>1. CASE UNCHANGED sessionVars
  BY <1>1 DEF sessionVars, RightsInv, RowRights, Rows, CachedRights, IssuedRights,
              HeldRights
<1>2. CASE Tick
  BY <1>2, TickRights
<1>3. ASSUME NEW r \in Requests, BeginRequest(r) PROVE RightsInv'
  BY <1>3, RegisterRights, EnterRights, InsideRights DEF BeginRequest
<1>4. ASSUME NEW r \in Requests, ContinueRequest(r) PROVE RightsInv'
  BY <1>4, RegisterRights, EnterRights, InsideRights DEF ContinueRequest
<1> QED BY <1>1, <1>2, <1>3, <1>4 DEF SessionsNext

\* The rights of every copy, token and request are bounded by the age of the
\* row's last word for them.
THEOREM SessionsRightsAreBounded == SessionsSpec => []RightsInv
<1>1. SessionsInit => RightsInv
  BY LivesAssumption
     DEF SessionsInit, RightsInv, RowRights, Rows, CachedRights, IssuedRights,
         HeldRights, Rights, Idle, WithToken, Ages
<1>2. SessionsTypeOK /\ RightsInv /\ [SessionsNext]_sessionVars => RightsInv'
  BY RightsStep
<1> QED BY <1>1, <1>2, SessionsTypes, PTL DEF SessionsSpec

\* A request that spans a tick adds one to an age, and no more.
LEMMA LateIsAtMostOne == ASSUME NEW b PROVE Late(b) \in 0..1
BY DEF Late

\* A request that acts for an administrator by its copy does so soon after the
\* row said so, whatever the readers cached (user_service.go:127-153).
THEOREM SessionsCopies == SessionsSpec => []CopyIsRecent
<1>1. ASSUME SessionsTypeOK, RightsInv, NEW r \in Requests,
             req[r].step = "in", req[r].copy = "admin"
      PROVE  adminAge[req[r].token.user] <= CacheLife + 1
  <2>1. Rights(adminAge, r \in slow, req[r])
    BY <1>1 DEF RightsInv, HeldRights
  <2>2. adminAge[req[r].token.user] \in Nat
    BY <1>1, TokenRights DEF WithToken
  <2>3. adminAge[req[r].token.user] =< CacheLife + Late(r \in slow)
    BY <1>1, <2>1 DEF Rights
  <2>4. Late(r \in slow) \in 0..1
    BY LateIsAtMostOne
  <2> QED BY <2>2, <2>3, <2>4, LivesAssumption
<1>2. SessionsTypeOK /\ RightsInv => CopyIsRecent
  BY <1>1 DEF CopyIsRecent
<1> QED BY <1>2, SessionsTypes, SessionsRightsAreBounded, PTL

\* Who is let in as an administrator was one recently, although tokens carry
\* the role and are renewed (middleware/admin_auth.go:41-67).
THEOREM SessionsRights == SessionsSpec => []AdminRightsEnd
<1>1. ASSUME SessionsTypeOK, RightsInv, NEW r \in Requests, LetIn(r, TRUE)
      PROVE  adminAge[req[r].token.user] <= Life + CacheLife + 1
  <2>1. req[r].step = "in" /\ req[r].admin
    BY <1>1 DEF LetIn
  <2>2. /\ req[r].token.left \in 0..Life /\ adminAge[req[r].token.user] \in Nat
        /\ adminAge[req[r].token.user] + req[r].token.left =< Bound
    BY <1>1, <2>1, TokenRights DEF WithToken
  <2> QED BY <2>2, LivesAssumption DEF Bound
<1>2. SessionsTypeOK /\ RightsInv => AdminRightsEnd
  BY <1>1 DEF AdminRightsEnd
<1> QED BY <1>2, SessionsTypes, SessionsRightsAreBounded, PTL

=============================================================================
