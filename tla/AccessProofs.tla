------------------------------ MODULE AccessProofs -----------------------------
(***************************************************************************)
(* Machine-checked proofs about AccessControl: who gets to the handlers,   *)
(* for any users, sessions, clients and configuration.                     *)
(***************************************************************************)
EXTENDS AccessProperties, AccountProofs

USE AccessAssumption, RolesAssumption

Responses == {None, Unauthorized, Forbidden} \cup {Handling(u, q) : u \in Users, q \in Asked}

AccessTypes ==
    /\ signed \in [Sessions -> 0 .. ExpiresIn] /\ fresh \in [Users -> 0 .. ExpiresIn]
    /\ held \subseteq Jwts /\ response \in [Clients -> Responses]

(* What a login has signed is no younger than its checks.                   *)
Backed(s) == signed[s] # 0 => pc[s] = "token" /\ signed[s] <= fresh[user[s]]

AccessInv ==
    /\ AccessTypes
    /\ \A s \in Sessions : Backed(s)
    /\ \A t \in held : t.life <= fresh[t.sub]

--------------------------------------------------------------------------------
(* JWTs and the middlewares *)

LEMMA JwtFields ==
    ASSUME NEW t \in Jwts
    PROVE  /\ t.sub \in Users /\ t.life \in 0 .. ExpiresIn /\ t.role = RoleOf(t.sub)
           /\ t.permissions = ROLE_DEFINITIONS[RoleOf(t.sub)]
           /\ t.key = Secret /\ t.iss = Issuer /\ t.aud = RoleAudience[RoleOf(t.sub)]
<1>1. PICK u \in Users, n \in 0 .. ExpiresIn : t = Jwt(u, n)
  BY DEF Jwts
<1> QED
  BY <1>1 DEF Jwt

(* The JWTs of others stop at the first middleware, each at one of its      *)
(* tests.                                                                   *)
LEMMA OthersStop ==
    ASSUME NEW t \in OtherJwts
    PROVE  ~authentication(t)
<1>1. PICK u \in Users :
        t \in {[Jwt(u, ExpiresIn) EXCEPT !.key = Foreign],
               [Jwt(u, ExpiresIn) EXCEPT !.iss = Foreign],
               [Jwt(u, ExpiresIn) EXCEPT !.aud = {Foreign}],
               [Jwt(u, ExpiresIn) EXCEPT !.role = None],
               [Jwt(u, ExpiresIn) EXCEPT !.permissions = None]}
  BY DEF OtherJwts
<1>2. \/ t.key = Foreign \/ t.iss = Foreign \/ t.aud = {Foreign}
      \/ t.role = None \/ t.permissions = None
  BY <1>1 DEF Jwt
<1> QED
  BY <1>2 DEF authentication, verify

(* What the permission of a route says of who may use it.                   *)
LEMMA RoutesOfRoles ==
    ASSUME NEW route \in DOMAIN RequiredPermission
    PROVE  /\ RequiredPermission[route] \in ROLE_DEFINITIONS["admin"]
           /\ RequiredPermission[route] \in ROLE_DEFINITIONS["user"]
                <=> route = "queryUserCoupons"
  BY DEF RequiredPermission, ROLE_DEFINITIONS, COUPON_BOOK_PERMISSIONS, COUPON_PERMISSIONS

(* The chain of a route lets through those the role is meant for, and       *)
(* nobody else.                                                             *)
LEMMA AuthorizedPermitted ==
    ASSUME NEW t \in Jwts, NEW q \in Asked
    PROVE  Authorized(t, q) <=> Permitted(t.sub, q)
<1>1. q.route \in DOMAIN RequiredPermission
  BY DEF Asked, RequiredPermission
<1>2. t.permissions = ROLE_DEFINITIONS[RoleOf(t.sub)]
  BY JwtFields
<1>3. CASE t.sub \in Admins
  BY <1>1, <1>2, <1>3, RoutesOfRoles DEF RoleOf, Authorized, Permitted, authorize, ownerShip
<1>4. CASE t.sub \notin Admins
  BY <1>1, <1>2, <1>4, RoutesOfRoles DEF RoleOf, Authorized, Permitted, authorize, ownerShip
<1> QED
  BY <1>3, <1>4

--------------------------------------------------------------------------------
(* The accounts, underneath *)

LEMMA StepOfAccounts == AccessNext => Next \/ UNCHANGED vars
  BY DEF AccessNext, Next, Sign, AnswerLogin, FailLogin, AskWithout, Ask, Respond, Take, Tick

(* The routes and their middlewares leave the accounts alone: what holds of *)
(* UserAccount holds under AccessControl.                                   *)
THEOREM AccountsUndisturbed == AccessSpec => Spec
<1>1. AccessInit => Init
  BY DEF AccessInit
<1>2. [AccessNext]_accessVars => [Next]_vars
  BY StepOfAccounts DEF accessVars
<1> QED
  BY <1>1, <1>2, PTL DEF AccessSpec, Spec

(* A session that has a JWT to answer with keeps to it, while others move.  *)
LEMMA TokenStays ==
    ASSUME IInv, NEW s \in Sessions, pc[s] = "token", OtherStep
    PROVE  pc'[s] = "token" /\ user'[s] = user[s]
<1>1. ASSUME NEW r \in Sessions, NEW step, NEW u, NEW d, NEW p, Begin(r, step, u, d, p)
      PROVE  pc'[s] = "token" /\ user'[s] = user[s]
  BY <1>1 DEF Begin, IInv, Collection
<1>2. ASSUME NEW r \in Sessions, pc[r] # "token", End(r)
      PROVE  pc'[s] = "token" /\ user'[s] = user[s]
  BY <1>2 DEF End, IInv, Collection
<1>3. ASSUME UNCHANGED session
      PROVE  pc'[s] = "token" /\ user'[s] = user[s]
  BY <1>3 DEF session
<1>4. ASSUME NEW r \in Sessions,
             \/ \E u \in Users, p \in Passwords : BeginLogin(r, u, p)
             \/ \E u \in Users : BeginRefresh(r, u)
             \/ \E c \in Codes : BeginVerify(r, c) \/ \E p \in Passwords : BeginReset(r, c, p)
      PROVE  pc'[s] = "token" /\ user'[s] = user[s]
  BY <1>1, <1>4 DEF BeginLogin, BeginRefresh, BeginVerify, BeginReset
<1>5. ASSUME NEW r \in Sessions, Spend(r) \/ SaveReset(r) \/ SaveVerify(r)
      PROVE  pc'[s] = "token" /\ user'[s] = user[s]
  BY <1>2, <1>5 DEF Spend, SaveReset, SaveVerify
<1> QED
  BY <1>3, <1>4, <1>5 DEF OtherStep, Create, GenerateCode, Age

--------------------------------------------------------------------------------
(* The invariant *)

LEMMA AccessInitInv == AccessInit => AccessInv
  BY DEF AccessInit, AccessInv, AccessTypes, Responses, Backed

LEMMA SignInv ==
    ASSUME IInv, AccessInv, NEW s \in Sessions, Sign(s)
    PROVE  AccessInv'
<1>1. pc[s] = "check" /\ user[s] \in Users
  BY Busy DEF Sign, CheckPassword
<1>2. AccessTypes'
  BY <1>1 DEF AccessInv, AccessTypes, Sign
<1>3. \A u \in Users : fresh[u] <= fresh'[u]
  BY <1>1 DEF AccessInv, AccessTypes, Sign
<1>4. Backed(s)'
  <2>1. CASE pc'[s] = "token"
    <3>1. InOrder(s) /\ user'[s] = user[s]
      BY <1>1, <2>1 DEF Sign, CheckPassword, End, IsLocked, InOrder, IInv, Collection
    <3>2. fresh'[user[s]] = ExpiresIn /\ signed'[s] = ExpiresIn
      BY <1>1, <2>1, <3>1 DEF Sign, AccessInv, AccessTypes
    <3> QED
      BY <2>1, <3>1, <3>2 DEF Backed
  <2>2. CASE pc'[s] # "token"
    BY <2>2 DEF Sign, AccessInv, AccessTypes, Backed
  <2> QED
    BY <2>1, <2>2
<1>5. ASSUME NEW r \in Sessions, r # s
      PROVE  Backed(r)'
  <2>1. pc'[r] = pc[r] /\ user'[r] = user[r] /\ signed'[r] = signed[r]
    BY <1>5 DEF Sign, CheckPassword, End, IInv, Collection, AccessInv, AccessTypes
  <2>2. pc[r] = "token" => user[r] \in Users
    BY Busy
  <2>3. signed[r] \in Nat /\ \A u \in Users : fresh[u] \in Nat /\ fresh'[u] \in Nat
    BY <1>2 DEF AccessInv, AccessTypes
  <2>4. Backed(r)
    BY DEF AccessInv
  <2> QED
    BY <1>3, <2>1, <2>2, <2>3, <2>4 DEF Backed
<1>6. ASSUME NEW t \in held'
      PROVE  t.life <= fresh'[t.sub]
  <2>1. t \in held /\ t \in Jwts /\ t.life <= fresh[t.sub]
    BY <1>6 DEF Sign, AccessInv, AccessTypes
  <2>2. t.sub \in Users /\ t.life \in Nat
    BY <2>1, JwtFields
  <2>3. fresh[t.sub] \in Nat /\ fresh'[t.sub] \in Nat
    BY <1>2, <2>2 DEF AccessInv, AccessTypes
  <2> QED
    BY <1>3, <2>1, <2>2, <2>3
<1> QED
  BY <1>2, <1>4, <1>5, <1>6 DEF AccessInv

(* A login that ends has nothing signed, and no other is touched.           *)
LEMMA EndBacked ==
    ASSUME IInv, AccessInv, NEW s \in Sessions, End(s), fresh' = fresh,
           signed' = [signed EXCEPT ![s] = 0]
    PROVE  signed' \in [Sessions -> 0 .. ExpiresIn] /\ \A r \in Sessions : Backed(r)'
<1>1. signed' \in [Sessions -> 0 .. ExpiresIn]
  BY DEF AccessInv, AccessTypes
<1>2. Backed(s)'
  BY DEF Backed, AccessInv, AccessTypes
<1>3. ASSUME NEW r \in Sessions, r # s
      PROVE  Backed(r)'
  <2>1. pc'[r] = pc[r] /\ user'[r] = user[r] /\ signed'[r] = signed[r]
    BY <1>3 DEF End, IInv, Collection, AccessInv, AccessTypes
  <2> QED
    BY <2>1 DEF Backed, AccessInv
<1> QED
  BY <1>1, <1>2, <1>3

LEMMA AnswerInv ==
    ASSUME IInv, AccessInv, NEW s \in Sessions, AnswerLogin(s)
    PROVE  AccessInv'
<1> DEFINE t == Jwt(user[s], signed[s])
<1>1. /\ End(s) /\ pc[s] = "token" /\ fresh' = fresh /\ response' = response
      /\ signed' = [signed EXCEPT ![s] = 0] /\ held' = held \cup {t}
  BY DEF AnswerLogin, IssueToken
<1>2. user[s] \in Users /\ signed[s] \in 0 .. ExpiresIn
  BY <1>1, Busy DEF AccessInv, AccessTypes
<1>3. t \in Jwts
  BY <1>2 DEF Jwts
<1>4. t.life <= fresh[t.sub]
  <2>1. t.life = signed[s] /\ t.sub = user[s]
    BY DEF Jwt
  <2>2. fresh[user[s]] \in Nat /\ Backed(s)
    BY <1>2 DEF AccessInv, AccessTypes
  <2> QED
    BY <1>2, <2>1, <2>2 DEF Backed
<1> HIDE DEF t
<1> QED
  BY <1>1, <1>3, <1>4, EndBacked DEF AccessInv, AccessTypes

LEMMA RespondInv ==
    ASSUME AccessInv, NEW c \in Clients, NEW r \in Responses,
           response' = [response EXCEPT ![c] = r], UNCHANGED <<vars, signed, held, fresh>>
    PROVE  AccessInv'
<1>1. AccessTypes'
  BY DEF AccessInv, AccessTypes
<1>2. pc' = pc /\ user' = user
  BY DEF vars, session
<1> QED
  BY <1>1, <1>2 DEF AccessInv, Backed

(* Everything ages by the same tick.                                        *)
LEMMA TickInv ==
    ASSUME IInv, AccessInv, Tick
    PROVE  AccessInv'
<1>1. /\ signed' = [s \in Sessions |-> Less(signed[s])]
      /\ fresh' = [u \in Users |-> Less(fresh[u])] /\ response' = response
      /\ pc' = pc /\ user' = user
  BY DEF Tick, vars, session
<1>2. \A n \in 0 .. ExpiresIn : Less(n) \in 0 .. ExpiresIn
  BY DEF Less
<1>3. \A m, n \in 0 .. ExpiresIn : m <= n => Less(m) <= Less(n)
  BY DEF Less
<1>4. ASSUME NEW t \in held'
      PROVE  t \in Jwts /\ t.life <= fresh'[t.sub]
  <2>1. PICK o \in held : t = [o EXCEPT !.life = Less(@)]
    BY <1>4 DEF Tick
  <2>2. PICK u \in Users, n \in 0 .. ExpiresIn : o = Jwt(u, n)
    BY DEF AccessInv, AccessTypes, Jwts
  <2>3. t = Jwt(u, Less(n))
    BY <2>1, <2>2 DEF Jwt
  <2>4. n <= fresh[u] /\ fresh[u] \in 0 .. ExpiresIn
    <3>1. o.life = n /\ o.sub = u
      BY <2>2 DEF Jwt
    <3> QED
      BY <3>1 DEF AccessInv, AccessTypes
  <2>5. t.life = Less(n) /\ t.sub = u
    BY <2>3 DEF Jwt
  <2> QED
    BY <1>1, <1>2, <1>3, <2>3, <2>4, <2>5 DEF Jwts
<1>5. ASSUME NEW s \in Sessions
      PROVE  Backed(s)'
  <2>1. signed'[s] = Less(signed[s]) /\ signed[s] \in 0 .. ExpiresIn
    BY <1>1 DEF AccessInv, AccessTypes
  <2>2. CASE signed[s] = 0
    BY <1>1, <2>1, <2>2 DEF Backed, Less
  <2>3. CASE signed[s] # 0
    <3>1. pc[s] = "token" /\ signed[s] <= fresh[user[s]]
      BY <2>3 DEF AccessInv, Backed
    <3>2. user[s] \in Users
      BY <3>1, Busy
    <3>3. fresh[user[s]] \in 0 .. ExpiresIn /\ fresh'[user[s]] = Less(fresh[user[s]])
      BY <1>1, <3>2 DEF AccessInv, AccessTypes
    <3> QED
      BY <1>1, <1>3, <2>1, <3>1, <3>3 DEF Backed
  <2> QED
    BY <2>2, <2>3
<1>6. AccessTypes'
  BY <1>1, <1>2, <1>4 DEF AccessInv, AccessTypes
<1> QED
  BY <1>4, <1>5, <1>6 DEF AccessInv

(* What a request is answered, and that a handler is behind the chain.      *)
LEMMA AskAnswers ==
    ASSUME AccessInv, NEW c \in Clients, NEW t \in held \cup OtherJwts, Ask(c, t)
    PROVE  \E r \in Responses :
             /\ Respond(c, r)
             /\ \/ r \in {Unauthorized, Forbidden}
                \/ \E q \in Asked :
                     t \in held /\ authentication(t) /\ Authorized(t, q) /\ r = Handling(t.sub, q)
<1>1. CASE ~authentication(t)
  BY <1>1 DEF Ask, Responses
<1>2. CASE authentication(t)
  <2>1. t \in held /\ t \in Jwts
    BY <1>2, OthersStop DEF AccessInv, AccessTypes
  <2>2. t.sub \in Users
    BY <2>1, JwtFields
  <2> QED
    BY <1>2, <2>1, <2>2 DEF Ask, Responses
<1> QED
  BY <1>1, <1>2

LEMMA AccessStepInv ==
    ASSUME IInv, AccessInv, [AccessNext]_accessVars
    PROVE  AccessInv'
<1>1. ASSUME OtherStep, UNCHANGED access
      PROVE  AccessInv'
  <2>1. \A s \in Sessions : Backed(s)'
    BY <1>1, TokenStays DEF AccessInv, Backed, access
  <2> QED
    BY <1>1, <2>1 DEF AccessInv, AccessTypes, access
<1>2. ASSUME NEW s \in Sessions, Sign(s)
      PROVE  AccessInv'
  BY <1>2, SignInv
<1>3. ASSUME NEW s \in Sessions, AnswerLogin(s)
      PROVE  AccessInv'
  BY <1>3, AnswerInv
<1>4. ASSUME NEW s \in Sessions, FailLogin(s)
      PROVE  AccessInv'
  <2>1. End(s) /\ signed' = [signed EXCEPT ![s] = 0] /\ UNCHANGED <<held, response, fresh>>
    BY <1>4 DEF FailLogin, Fail
  <2> QED
    BY <2>1, EndBacked DEF AccessInv, AccessTypes
<1>5. ASSUME NEW c \in Clients, AskWithout(c) \/ Take(c)
      PROVE  AccessInv'
  <2>1. None \in Responses /\ Unauthorized \in Responses
    BY DEF Responses
  <2> QED
    BY <1>5, <2>1, RespondInv DEF AskWithout, Respond, Take
<1>6. ASSUME NEW c \in Clients, NEW t \in held \cup OtherJwts, Ask(c, t)
      PROVE  AccessInv'
  <2>1. PICK r \in Responses : Respond(c, r)
    BY <1>6, AskAnswers
  <2> QED
    BY <2>1, RespondInv DEF Respond
<1>7. CASE Tick
  BY <1>7, TickInv
<1>8. CASE UNCHANGED accessVars
  BY <1>8 DEF accessVars, access, vars, session, AccessInv, AccessTypes, Backed
<1> QED
  BY <1>1, <1>2, <1>3, <1>4, <1>5, <1>6, <1>7, <1>8 DEF AccessNext

LEMMA AlwaysAccessInv == AccessSpec => []IInv /\ []AccessInv
<1>1. AccessSpec => []IInv
  BY AccountsUndisturbed, AlwaysIInv
<1> QED
  BY <1>1, AccessInitInv, AccessStepInv, PTL DEF AccessSpec

--------------------------------------------------------------------------------
(* Theorems *)

(* The types of AccessControl: only a login whose checks have passed and    *)
(* that has yet to answer has a JWT signed (auth.jwt.ts).                   *)
THEOREM AccessTypesHold == AccessSpec => []AccessTypeOK
<1>1. AccessInv => AccessTypeOK
  BY DEF AccessInv, AccessTypes, Backed, Responses, AccessTypeOK
<1> QED
  BY <1>1, AlwaysAccessInv, PTL

(* A handler runs only for a user whose login passed its checks less than   *)
(* ExpiresIn ago, and whose role it is meant for (authentication.ts,        *)
(* authorization.ts, coupon.route.ts), for any number of overlapping        *)
(* logins, however late they answer, and any JWT of another service.        *)
THEOREM HandlersAreBehindLogins == AccessSpec => HandlersFollowLogins
<1>1. ASSUME AccessInv, [AccessNext]_accessVars, NEW c \in Clients, NEW u \in Users, Enters(c, u)
      PROVE  fresh[u] > 0 /\ Permitted(u, response'[c].asked)
  <2>1. PICK d \in Clients, t \in held \cup OtherJwts, r \in Responses :
          /\ Respond(d, r)
          /\ \/ r \in {Unauthorized, Forbidden}
             \/ \E q \in Asked :
                  t \in held /\ authentication(t) /\ Authorized(t, q) /\ r = Handling(t.sub, q)
    <3>1. response' # response
      BY <1>1 DEF Enters
    <3>2. ASSUME NEW d \in Clients, AskWithout(d) \/ Take(d)
          PROVE  FALSE
      <4>1. response'[c] = response[c] \/ response'[c] \in {None, Unauthorized}
        BY <1>1, <3>2 DEF AskWithout, Take, Respond, AccessInv, AccessTypes
      <4> QED
        BY <1>1, <4>1 DEF Enters, Unauthorized
    <3>3. PICK d \in Clients, t \in held \cup OtherJwts : Ask(d, t)
      BY <1>1, <3>1, <3>2
      DEF AccessNext, accessVars, access, Sign, AnswerLogin, FailLogin, Tick
    <3> QED
      BY <1>1, <3>3, AskAnswers
  <2>2. c = d /\ response'[c] = r
    BY <1>1, <2>1 DEF Respond, Enters, AccessInv, AccessTypes
  <2>3. PICK q \in Asked :
          t \in held /\ authentication(t) /\ Authorized(t, q) /\ r = Handling(t.sub, q)
    BY <1>1, <2>1, <2>2 DEF Enters, Unauthorized, Forbidden
  <2>4. t.sub = u /\ response'[c].asked = q
    BY <1>1, <2>2, <2>3 DEF Enters, Handling
  <2>5. t \in Jwts /\ t.life > 0 /\ t.life <= fresh[u]
    BY <1>1, <2>3, <2>4 DEF AccessInv, AccessTypes, authentication, verify
  <2>6. t.life \in Nat /\ fresh[u] \in Nat
    BY <1>1, <2>5, JwtFields DEF AccessInv, AccessTypes
  <2>7. Permitted(u, q)
    BY <2>3, <2>4, <2>5, AuthorizedPermitted
  <2> QED
    BY <2>4, <2>5, <2>6, <2>7
<1>2. AccessInv /\ [AccessNext]_accessVars =>
        [\A c \in Clients, u \in Users :
           Enters(c, u) => fresh[u] > 0 /\ Permitted(u, response'[c].asked)]_accessVars
  BY <1>1
<1> QED
  BY <1>2, AlwaysAccessInv, PTL DEF AccessSpec, HandlersFollowLogins

(* Where both ends agree, on the key and on an audience of each role, a JWT *)
(* that has not expired opens all its role is meant for.  The two take the  *)
(* key from different places: config auth.token.secret in auth.jwt.ts, a    *)
(* literal in authentication.ts.                                            *)
THEOREM JwtsOpenTheirRoutes ==
    ASSUME Secret = VerifyKey,
           \A role \in DOMAIN ROLE_DEFINITIONS : RoleAudience[role] \cap Audience # {}
    PROVE  AccessSpec => []JwtsAreAccepted
<1>1. ASSUME AccessInv, NEW t \in held, NEW q \in Asked, t.life > 0, Permitted(t.sub, q)
      PROVE  authentication(t) /\ Authorized(t, q)
  <2>1. t \in Jwts
    BY <1>1 DEF AccessInv, AccessTypes
  <2>2. RoleOf(t.sub) \in DOMAIN ROLE_DEFINITIONS
    BY DEF RoleOf, ROLE_DEFINITIONS
  <2>3. t.role # None /\ t.permissions # None
    BY <2>1, <2>2, JwtFields
  <2>4. verify(t)
    BY <1>1, <2>1, <2>2, JwtFields DEF verify
  <2> QED
    BY <1>1, <2>1, <2>3, <2>4, AuthorizedPermitted DEF authentication
<1>2. AccessInv => JwtsAreAccepted
  BY <1>1 DEF JwtsAreAccepted
<1> QED
  BY <1>2, AlwaysAccessInv, PTL
================================================================================
