------------------------------- MODULE RedisLock -------------------------------
(***************************************************************************)
(* The Redis keys coupon:lock:<code> as lib/redis.ts uses them.  A key     *)
(* holds a user id and, once EXPIRE has run, an expiry time.  Each command *)
(* is one operator on lock'; each may fail, and the client then swallows   *)
(* the error and answers undefined.                                        *)
(***************************************************************************)
EXTENDS CouponRules

CONSTANTS
    NoUser,         \* undefined or null, where a user id is expected
    NumericIds,     \* the ids that JSON.parse reads as a number
    Faults          \* the kinds of failure a run allows

FaultKinds == {"redis", "mongo", "crash"}

ASSUME RedisAssumption ==
    /\ NoUser \notin Users
    /\ NumericIds \subseteq Users
    /\ Faults \subseteq FaultKinds

VARIABLES
    lock,           \* lock[c]: the key of code c
    now             \* the clock all processes and servers share

Keys == Codes \cup {NoCode}
Key  == [owner : Users \cup {NoUser}, expires : Date]
Free == [owner |-> NoUser, expires |-> NoDate]    \* no such key

Held(c) == lock[c].owner # NoUser

(* SET key value NX: nothing happens to a key that exists.                  *)
SetNX(c, u) ==
    lock' = IF Held(c) THEN lock
            ELSE [lock EXCEPT ![c] = [owner |-> u, expires |-> NoDate]]

(* EXPIRE key: sets the expiry of whatever key is there, whoever owns it.   *)
Expire(c) ==
    lock' = IF Held(c) THEN [lock EXCEPT ![c].expires = now + LockDuration]
            ELSE lock

(* DEL key, whoever owns it; del swallows an error.                         *)
Del(c) ==
    \/ lock' = [lock EXCEPT ![c] = Free]
    \/ "redis" \in Faults /\ UNCHANGED lock

(* What get answers: JSON.parse turns some ids into a number, which equals  *)
(* no string; a missing key or an error gives undefined.                    *)
GetAnswers(c) ==
    {IF lock[c].owner \in NumericIds THEN NoUser ELSE lock[c].owner}
        \cup (IF "redis" \in Faults THEN {NoUser} ELSE {})

(* The clock moves and Redis drops the keys whose time has come.            *)
Advance ==
    /\ now' = now + 1
    /\ lock' = [c \in Keys |->
                  IF lock[c].expires # NoDate /\ lock[c].expires <= now + 1
                  THEN Free ELSE lock[c]]

RedisTypeOK == lock \in [Keys -> Key] /\ now \in Nat
RedisInit   == lock = [c \in Keys |-> Free] /\ now = 1
================================================================================
