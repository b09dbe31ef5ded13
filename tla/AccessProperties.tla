--------------------------- MODULE AccessProperties ----------------------------
(***************************************************************************)
(* What a JWT is good for, and for how long.                               *)
(***************************************************************************)
EXTENDS AccessControl

AccessTypeOK ==
    /\ \A s \in Sessions :
         signed[s] \in 0 .. ExpiresIn /\ (signed[s] # 0 => pc[s] = "token")
    /\ held \subseteq Jwts
    /\ \A c \in Clients :
         \/ response[c] \in {None, Unauthorized, Forbidden}
         \/ \E u \in Users, q \in Asked : response[c] = Handling(u, q)
    /\ fresh \in [Users -> 0 .. ExpiresIn]

(* What the roles are meant for: an admin works on all coupons and books, a *)
(* user reads coupons, and both see the coupons of nobody else.             *)
Permitted(u, q) ==
    IF q.route = "queryUserCoupons" THEN q.id = u ELSE u \in Admins

(* A request of client c gets to a handler, for user u.                     *)
Enters(c, u) ==
    /\ response[c] = None /\ response'[c] # None
    /\ response'[c].outcome = "handler" /\ response'[c].sub = u

(* A handler runs only for a user for whom, less than ExpiresIn ago, a      *)
(* login has passed its checks, on an account it had found unlocked and     *)
(* with the password it had found, not too old, and the handler is one of   *)
(* those their role is meant for (auth.service.ts, auth.jwt.ts,             *)
(* authentication.ts, authorization.ts): however long the login took to     *)
(* answer, however many overlapped, and whatever JWT a client presents.     *)
HandlersFollowLogins ==
    [][\A c \in Clients, u \in Users :
         Enters(c, u) => fresh[u] > 0 /\ Permitted(u, response'[c].asked)]_accessVars

(* A JWT that a login has answered is refused on none of the routes its     *)
(* user's role is meant for, until it expires: the key, the audiences and   *)
(* the permissions that auth.jwt.ts takes from the configuration and the    *)
(* roles are those that authentication.ts and coupon.route.ts ask for.      *)
JwtsAreAccepted ==
    \A t \in held, q \in Asked :
        t.life > 0 /\ Permitted(t.sub, q) => authentication(t) /\ Authorized(t, q)

(* The middlewares never look at an account, but one that is locked has     *)
(* nobody in the handlers in the end: of the logins that found it unlocked  *)
(* (auth.service.ts) each signs one JWT at most, no other login signs any,  *)
(* and those that were signed expire.                                       *)
LockEndsAccess ==
    \A u \in Users :
        <>(Exists(u) /\ accounts[u].locked)
            => <>[][\A c \in Clients : ~Enters(c, u)]_accessVars
================================================================================
