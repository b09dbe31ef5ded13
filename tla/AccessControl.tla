----------------------------- MODULE AccessControl -----------------------------
(***************************************************************************)
(* Who gets to the handlers: the roles of seeders/roles.ts, the JWT that a *)
(* login signs (auth.jwt.ts), and the middlewares authentication,          *)
(* authorize and ownerShip in front of the routes of coupon.route.ts.      *)
(*                                                                         *)
(* A JWT is signed while the login still saves, and from then on its time  *)
(* runs; the middlewares look at the JWT alone and never at the account,   *)
(* which may have changed since.                                           *)
(***************************************************************************)
EXTENDS UserAccount

CONSTANTS
    Admins,         \* those whose account has the role admin
    Clients,        \* each waits for one response at a time
    Secret,         \* config auth.token.secret
    Issuer,         \* config auth.token.issuer
    Audience,       \* config auth.token.audience
    RoleAudience,   \* RoleAudience[role]: the audience of its document
    ExpiresIn,      \* config auth.token.expiresIn, in ticks
    Foreign         \* a key, issuer or audience that is none of these

VerifyKey == "secret"       \* the literal in authenticationMiddleware

ASSUME AccessAssumption ==
    /\ Admins \subseteq Seeded /\ None \notin Clients
    /\ ExpiresIn \in Nat \ {0}
    /\ Foreign # VerifyKey /\ Foreign # Issuer /\ Foreign \notin Audience

VARIABLES
    signed,         \* signed[s]: ticks to live of the JWT that login s has signed
    held,           \* the JWTs that logins have answered
    response,       \* response[c]: what became of the request of client c
    fresh           \* history: ticks since login found u in order, from ExpiresIn down

access == <<signed, held, response, fresh>>
accessVars == <<vars, access>>

--------------------------------------------------------------------------------
(* Roles and JWTs *)

COUPON_BOOK_PERMISSIONS ==
    {"coupon-book:create", "coupon-book:read", "coupon-book:update", "coupon-book:delete",
     "coupon-book:generate-codes", "coupon-book:upload-codes"}
COUPON_PERMISSIONS ==
    {"coupon:assign", "coupon:assign-specific", "coupon:lock", "coupon:redeem", "coupon:read"}

ROLE_DEFINITIONS ==
    [admin |-> COUPON_BOOK_PERMISSIONS \cup COUPON_PERMISSIONS, user |-> {"coupon:read"}]

ASSUME RolesAssumption ==
    \A role \in DOMAIN ROLE_DEFINITIONS : None \notin {role, ROLE_DEFINITIONS[role]}

RoleOf(u) == IF u \in Admins THEN "admin" ELSE "user"

(* createToken, n ticks before the JWT expires.  Its key stands for the     *)
(* algorithm too, which both ends take from one entry of the configuration. *)
Jwt(u, n) ==
    [sub |-> u, role |-> RoleOf(u), permissions |-> ROLE_DEFINITIONS[RoleOf(u)],
     key |-> Secret, iss |-> Issuer, aud |-> RoleAudience[RoleOf(u)], life |-> n]

Jwts == {Jwt(u, n) : u \in Users, n \in 0 .. ExpiresIn}

(* JWTs of other services, each with one claim that is not ours.            *)
OtherJwts == UNION {
    {[Jwt(u, ExpiresIn) EXCEPT !.key = Foreign], [Jwt(u, ExpiresIn) EXCEPT !.iss = Foreign],
     [Jwt(u, ExpiresIn) EXCEPT !.aud = {Foreign}], [Jwt(u, ExpiresIn) EXCEPT !.role = None],
     [Jwt(u, ExpiresIn) EXCEPT !.permissions = None]} : u \in Users}

--------------------------------------------------------------------------------
(* The middlewares *)

(* Mutant: verify is told to ignore the expiry.                             *)
verifyIgnoresExpiry(t) ==
    t.key = VerifyKey /\ t.iss = Issuer /\ t.aud \cap Audience # {}

(* jwt.verify throws unless the JWT is signed with the key, of the issuer,  *)
(* for one of the audiences, and not expired.                               *)
verify(t) ==
    t.key = VerifyKey /\ t.life > 0 /\ t.iss = Issuer /\ t.aud \cap Audience # {}

authentication(t) == verify(t) /\ t.role # None /\ t.permissions # None

authorize(requiredPermission, t) == requiredPermission \in t.permissions

(* Mutant: the id of the path is compared with an ObjectId, and equals none. *)
ownerShipOfObjectId(t, id) == FALSE

ownerShip(t, id) == t.sub = id

(* The permission each handler is behind; the two assignment routes have    *)
(* each other's.                                                            *)
RequiredPermission ==
    [queryUserCoupons |-> "coupon:read",
     create           |-> "coupon-book:create",
     uploadCodes      |-> "coupon-book:upload-codes",
     generateCodes    |-> "coupon-book:generate-codes",
     assignRandom     |-> "coupon:assign-specific",
     assign           |-> "coupon:assign",
     lock             |-> "coupon:lock",
     redeem           |-> "coupon:redeem"]

(* What a request may ask for: a route, and for one of them the user in its *)
(* path.                                                                    *)
Asked ==
    [route : {"queryUserCoupons"}, id : Users]
        \cup [route : DOMAIN RequiredPermission \ {"queryUserCoupons"}, id : {None}]

(* The middlewares after authentication call next, up to the handler.       *)
Authorized(t, q) ==
    /\ authorize(RequiredPermission[q.route], t)
    /\ q.route = "queryUserCoupons" => ownerShip(t, q.id)

--------------------------------------------------------------------------------
(* Logins and requests *)

(* 401, 403, and the handler of what user u has asked for.                  *)
Unauthorized == [outcome |-> "unauthorized"]
Forbidden == [outcome |-> "forbidden"]
Handling(u, q) == [outcome |-> "handler", sub |-> u, asked |-> q]

AccessInit ==
    /\ Init
    /\ signed = [s \in Sessions |-> 0] /\ held = {}
    /\ response = [c \in Clients |-> None]
    /\ fresh = [u \in Users |-> 0]

(* The document s found was in order, and the password it was given right.  *)
InOrder(s) == Matches(s) /\ ~doc[s].locked /\ ~doc[s].passwordOld

(* Mutant: the JWT is signed before login looks at isLocked and isExpired.  *)
SignEarly(s) ==
    /\ CheckPassword(s)
    /\ signed' = [signed EXCEPT ![s] = IF Matches(s) THEN ExpiresIn ELSE 0]
    /\ fresh' = [fresh EXCEPT ![user[s]] = IF InOrder(s) THEN ExpiresIn ELSE @]
    /\ UNCHANGED <<held, response>>

(* createToken signs when checkPassword has answered and before the refresh *)
(* token is saved.                                                          *)
Sign(s) ==
    /\ CheckPassword(s)
    /\ signed' = [signed EXCEPT ![s] = IF pc'[s] = "token" THEN ExpiresIn ELSE 0]
    /\ fresh' = [fresh EXCEPT ![user[s]] = IF InOrder(s) THEN ExpiresIn ELSE @]
    /\ UNCHANGED <<held, response>>

(* The login answers with what it has signed.                               *)
AnswerLogin(s) ==
    /\ IssueToken(s)
    /\ held' = held \cup {Jwt(user[s], signed[s])}
    /\ signed' = [signed EXCEPT ![s] = 0]
    /\ UNCHANGED <<response, fresh>>

FailLogin(s) ==
    /\ Fail(s)
    /\ signed' = [signed EXCEPT ![s] = 0]
    /\ UNCHANGED <<held, response, fresh>>

Respond(c, r) ==
    /\ response[c] = None
    /\ response' = [response EXCEPT ![c] = r]
    /\ UNCHANGED <<vars, signed, held, fresh>>

(* No authorization header, or none that getToken finds a token in.         *)
AskWithout(c) == Respond(c, Unauthorized)

(* The first middleware that does not call next answers, 401 for a JWT that *)
(* is not accepted and 403 for one that does not reach so far.              *)
Ask(c, t) ==
    \/ ~authentication(t) /\ Respond(c, Unauthorized)
    \/ /\ authentication(t)
       /\ \E q \in Asked :
            \/ ~Authorized(t, q) /\ Respond(c, Forbidden)
            \/ Authorized(t, q) /\ Respond(c, Handling(t.sub, q))

(* The client has its response.                                             *)
Take(c) ==
    /\ response[c] # None
    /\ response' = [response EXCEPT ![c] = None]
    /\ UNCHANGED <<vars, signed, held, fresh>>

Less(n) == IF n = 0 THEN 0 ELSE n - 1

(* JWTs grow old, those that a login has yet to answer with too.            *)
Tick ==
    /\ signed' = [s \in Sessions |-> Less(signed[s])]
    /\ held' = {[t EXCEPT !.life = Less(@)] : t \in held}
    /\ fresh' = [u \in Users |-> Less(fresh[u])]
    /\ UNCHANGED <<vars, response>>

AccessNext ==
    \/ OtherStep /\ UNCHANGED access
    \/ \E s \in Sessions : Sign(s) \/ AnswerLogin(s) \/ FailLogin(s)
    \/ \E c \in Clients :
         \/ AskWithout(c) \/ Take(c)
         \/ \E t \in held \cup OtherJwts : Ask(c, t)
    \/ Tick

(* Time does not stop.                                                      *)
AccessSpec == AccessInit /\ [][AccessNext]_accessVars /\ WF_accessVars(Tick)
================================================================================
