----------------------------- MODULE CouponService -----------------------------
(***************************************************************************)
(* The four state-changing operations of components/coupon/                *)
(* coupon.service.ts: assign a random coupon, assign a given coupon, lock  *)
(* a coupon, redeem a coupon.  Each request is a process that runs one of  *)
(* them, with one step per call it awaits; the steps of all requests       *)
(* interleave over the same MongoDB collections and Redis keys.            *)
(*                                                                         *)
(* The reads of a MongoDB transaction all see its snapshot, so they and    *)
(* the checks on them are one step with the next call that leaves the      *)
(* process; the writes of a transaction are private until it commits, so   *)
(* the first of them, the one that can conflict, stands for them all.      *)
(***************************************************************************)
EXTENDS RedisLock, MongoStore

CONSTANTS
    Kind,           \* the operation each request runs
    MaxTime         \* requests run while the clock shows at most MaxTime

Operations == {"assignRandom", "assignSpecific", "lock", "redeem"}

ASSUME ServiceAssumption ==
    /\ Kind \in [Requests -> Operations]
    /\ MaxTime \in Nat \ {0}

VARIABLES
    pc,             \* the call a request is about to make
    user,           \* its userId, from the request body
    target,         \* its code: from the path, or the coupon it picked
    book,           \* its couponBookId (assignRandom)
    until,          \* the lockedUntil a lock request computed
    reply,          \* the HTTP status it answers, 0 while there is none
    locksTaken      \* history: how often lockedUntil of a coupon was set

vars == <<lock, now, data, txn, pc, user, target, book, until, reply, locksTaken>>
locals == <<user, target, book, until>>

InTransaction == {"assignRandom", "assignSpecific", "commitAssign",
                  "redeem", "write", "unlock", "commitRedeem"}
InLock == {"expire", "expireOther", "validate", "undo", "update", "log", "catch"}
Ended  == {"done", "dead"}

TypeOK ==
    /\ RedisTypeOK
    /\ MongoTypeOK
    /\ pc \in [Requests -> {"idle"} \cup InTransaction \cup InLock \cup Ended]
    /\ user \in [Requests -> Users \cup {NoUser}]
    /\ target \in [Requests -> Codes \cup {NoCode}]
    /\ book \in [Requests -> Books \cup {NoBook}]
    /\ until \in [Requests -> Date]
    /\ reply \in [Requests -> Status]
    /\ locksTaken \in [Codes -> Nat]

Init ==
    /\ RedisInit
    /\ MongoInit
    /\ pc = [r \in Requests |-> "idle"]
    /\ user = [r \in Requests |-> NoUser]
    /\ target = [r \in Requests |-> NoCode]
    /\ book = [r \in Requests |-> NoBook]
    /\ until = [r \in Requests |-> NoDate]
    /\ reply = [r \in Requests |-> 0]
    /\ locksTaken = [c \in Codes |-> 0]

Goto(r, l) == pc' = [pc EXCEPT ![r] = l]
Answer(r, s) == reply' = [reply EXCEPT ![r] = s]

--------------------------------------------------------------------------------
(* A request whose session has a transaction open. *)

(* catch of a transaction: abort it, answer the status of the error.        *)
Abort(r, s) ==
    /\ EndTransaction(r, stale)
    /\ Goto(r, "done")
    /\ Answer(r, s)
    /\ UNCHANGED <<lock, now, data, locals, locksTaken>>

(* A MongoDB call of the transaction fails and nothing was committed; the   *)
(* handlers never retry.                                                    *)
TransactionFails(r) ==
    /\ "mongo" \in Faults
    /\ pc[r] \in InTransaction
    /\ Abort(r, 500)

(* A commit answers 201; when its reply is lost it has happened, and the    *)
(* request answers 500 all the same.                                        *)
CommitAnswers(r) ==
    \/ Answer(r, 201)
    \/ "mongo" \in Faults /\ Answer(r, 500)

(* The coupon update of a transaction, refused on a conflict.               *)
WriteCoupon(r, c, next) ==
    \/ WriteConflict(r, c) /\ Abort(r, 500)
    \/ /\ ~WriteConflict(r, c)
       /\ intent' = [intent EXCEPT ![r] = c]
       /\ target' = [target EXCEPT ![r] = c]
       /\ Goto(r, next)
       /\ UNCHANGED <<lock, now, data, snap, stale, user, book, until, reply, locksTaken>>

--------------------------------------------------------------------------------
(* assignRandomCouponToUser and assignSpecificCouponToUser *)

BeginAssignRandom(r) ==
    /\ pc[r] = "idle" /\ Kind[r] = "assignRandom"
    /\ OpenTransaction(r)
    /\ \E u \in Users : user' = [user EXCEPT ![r] = u]
    /\ \E b \in Books \cup {NoBook} : book' = [book EXCEPT ![r] = b]
    /\ Goto(r, "assignRandom")
    /\ UNCHANGED <<lock, now, data, target, until, reply, locksTaken>>

(* Mutant: userId is read from where the request does not have it.          *)
BeginAssignNobody(r) ==
    /\ pc[r] = "idle" /\ Kind[r] = "assignSpecific"
    /\ OpenTransaction(r)
    /\ \E c \in Codes \cup {NoCode} : target' = [target EXCEPT ![r] = c]
    /\ Goto(r, "assignSpecific")
    /\ UNCHANGED <<lock, now, data, user, book, until, reply, locksTaken>>

BeginAssignSpecific(r) ==
    /\ pc[r] = "idle" /\ Kind[r] = "assignSpecific"
    /\ OpenTransaction(r)
    /\ \E u \in Users : user' = [user EXCEPT ![r] = u]
    /\ \E c \in Codes \cup {NoCode} : target' = [target EXCEPT ![r] = c]
    /\ Goto(r, "assignSpecific")
    /\ UNCHANGED <<lock, now, data, book, until, reply, locksTaken>>

(* How many codes of book b the transaction of r sees its user hold.        *)
Seen(r, b) == Cardinality(CodesHeld(snap[r].userCoupons, user[r], b))

Available(r) == {c \in Codes : BookOf[c] = book[r] /\ ~snap[r].coupons[c].isAssigned}

AssignRandom(r) ==
    /\ pc[r] = "assignRandom"
    /\ LET refusal == AssignRefusal(book[r], Seen(r, book[r]), now) IN
         \/ refusal # 0 /\ Abort(r, refusal)
         \/ refusal = 0 /\ Available(r) = {} /\ Abort(r, 404)
         \/ refusal = 0 /\ \E c \in Available(r) : WriteCoupon(r, c, "commitAssign")

AssignSpecific(r) ==
    /\ pc[r] = "assignSpecific"
    /\ LET c == target[r]
           refusal == AssignRefusal(BookOf[c], Seen(r, BookOf[c]), now)
       IN \/ c \notin Codes /\ Abort(r, 404)
          \/ c \in Codes /\ snap[r].coupons[c].isAssigned /\ Abort(r, 409)
          \/ /\ c \in Codes /\ ~snap[r].coupons[c].isAssigned
             /\ \/ refusal # 0 /\ Abort(r, refusal)
                \/ refusal = 0 /\ WriteCoupon(r, c, "commitAssign")

(* The coupon, its UserCoupon and the audit record appear together.         *)
CommitAssign(r) ==
    /\ pc[r] = "commitAssign"
    /\ LET c == target[r] IN
         /\ coupons' = [coupons EXCEPT ![c].isAssigned = TRUE]
         /\ userCoupons' = userCoupons \cup {<<c, user[r]>>}
         /\ Record(r, "assign", user[r], c)
         /\ EndTransaction(r, Published(c))
    /\ CommitAnswers(r)
    /\ Goto(r, "done")
    /\ UNCHANGED <<lock, now, redemptions, locals, locksTaken>>

--------------------------------------------------------------------------------
(* lockCouponForRedemption: no transaction; every error goes to a catch     *)
(* that deletes the key, and answers once it has.                           *)

Throw(r, s) ==
    /\ Goto(r, "catch")
    /\ Answer(r, s)

(* SET NX; when it answers nothing the call fails only after the EXPIRE.    *)
LockSet(r) ==
    /\ pc[r] = "idle" /\ Kind[r] = "lock"
    /\ \E u \in Users, c \in Keys :
         /\ user' = [user EXCEPT ![r] = u]
         /\ target' = [target EXCEPT ![r] = c]
         /\ \/ SetNX(c, u) /\ Goto(r, IF Held(c) THEN "expireOther" ELSE "expire")
               /\ UNCHANGED reply
            \/ /\ "redis" \in Faults
               /\ SetNX(c, u) \/ UNCHANGED lock
               /\ Throw(r, 409)
    /\ UNCHANGED <<now, data, txn, book, until, locksTaken>>

(* Mutant: SET NX without an expiry.                                        *)
LockNeverExpires(r) ==
    /\ pc[r] \in {"expire", "expireOther"}
    /\ \/ pc[r] = "expire" /\ Goto(r, "validate") /\ UNCHANGED reply
       \/ pc[r] = "expireOther" /\ Throw(r, 409)
    /\ UNCHANGED <<lock, now, data, txn, locals, locksTaken>>

LockExpire(r) ==
    /\ pc[r] \in {"expire", "expireOther"}
    /\ \/ /\ Expire(target[r])
          /\ \/ pc[r] = "expire" /\ Goto(r, "validate") /\ UNCHANGED reply
             \/ pc[r] = "expireOther" /\ Throw(r, 409)
       \/ /\ "redis" \in Faults
          /\ Expire(target[r]) \/ UNCHANGED lock
          /\ Throw(r, 409)
    /\ UNCHANGED <<now, data, txn, locals, locksTaken>>

(* Mutant: the coupon is looked up by its code alone.                       *)
LockRefusalByCode(c, u) ==
    IF c \notin Codes THEN 404
    ELSE IF BookClosed(BookOf[c], now) THEN 400
    ELSE IF Exhausted(BookOf[c], Len(redemptions[<<c, u>>])) THEN 400
    ELSE 0

(* The status a lock request is refused with, from what it reads now.       *)
LockRefusal(c, u) ==
    IF <<c, u>> \notin userCoupons THEN 404
    ELSE IF BookClosed(BookOf[c], now) THEN 400
    ELSE IF Exhausted(BookOf[c], Len(redemptions[<<c, u>>])) THEN 400
    ELSE 0

(* findOne, findById, the checks; lockedUntil is computed here.             *)
LockValidate(r) ==
    /\ pc[r] = "validate"
    /\ LET refusal == LockRefusal(target[r], user[r]) IN
         \/ refusal # 0 /\ Goto(r, "undo") /\ Answer(r, refusal) /\ UNCHANGED until
         \/ /\ refusal = 0
            /\ until' = [until EXCEPT ![r] = now + LockDuration]
            /\ Goto(r, "update") /\ UNCHANGED reply
         \/ "mongo" \in Faults /\ Throw(r, 500) /\ UNCHANGED until
    /\ UNCHANGED <<lock, now, data, txn, user, target, book, locksTaken>>

(* A failed check deletes the key; then its error reaches the catch.        *)
LockUndo(r) ==
    /\ pc[r] = "undo"
    /\ Del(target[r])
    /\ Goto(r, "catch")
    /\ UNCHANGED <<now, data, txn, locals, reply, locksTaken>>

SetLockedUntil(r) ==
    /\ coupons' = [coupons EXCEPT ![target[r]].lockedUntil = until[r]]
    /\ stale' = Published(target[r])
    /\ locksTaken' = [locksTaken EXCEPT ![target[r]] = @ + 1]

LockUpdate(r) ==
    /\ pc[r] = "update"
    /\ \/ ~Blocked(target[r]) /\ SetLockedUntil(r) /\ Goto(r, "log") /\ UNCHANGED reply
       \/ /\ "mongo" \in Faults
          /\ \/ ~Blocked(target[r]) /\ SetLockedUntil(r)
             \/ UNCHANGED <<coupons, stale, locksTaken>>
          /\ Throw(r, 500)
    /\ UNCHANGED <<lock, now, userCoupons, redemptions, transactions, snap, intent, locals>>

LockLog(r) ==
    /\ pc[r] = "log"
    /\ \/ /\ Record(r, "lock", user[r], target[r])
          /\ Goto(r, "done") /\ Answer(r, 201)
       \/ /\ "mongo" \in Faults
          /\ Record(r, "lock", user[r], target[r]) \/ UNCHANGED transactions
          /\ Throw(r, 500)
    /\ UNCHANGED <<lock, now, coupons, userCoupons, redemptions, txn, locals, locksTaken>>

(* Mutant: the catch deletes the key and does not rethrow.                  *)
LockCatchSwallows(r) ==
    /\ pc[r] = "catch"
    /\ Del(target[r])
    /\ Goto(r, "done") /\ Answer(r, 201)
    /\ UNCHANGED <<now, data, txn, locals, locksTaken>>

LockCatch(r) ==
    /\ pc[r] = "catch"
    /\ Del(target[r])
    /\ Goto(r, "done")
    /\ UNCHANGED <<now, data, txn, locals, reply, locksTaken>>

--------------------------------------------------------------------------------
(* redeemCoupon *)

BeginRedeem(r) ==
    /\ pc[r] = "idle" /\ Kind[r] = "redeem"
    /\ OpenTransaction(r)
    /\ \E u \in Users : user' = [user EXCEPT ![r] = u]
    /\ \E c \in Codes \cup {NoCode} : target' = [target EXCEPT ![r] = c]
    /\ Goto(r, "redeem")
    /\ UNCHANGED <<lock, now, data, book, until, reply, locksTaken>>

(* Mutant: a redemption trusts that its lock checked the limits.            *)
RedeemTrustsLock(r, lockOwner) ==
    LET c == target[r]
        u == user[r]
    IN IF <<c, u>> \notin snap[r].userCoupons THEN 404
       ELSE IF BookClosed(BookOf[c], now) THEN 400
       ELSE IF snap[r].coupons[c].lockedUntil <= now THEN 403
       ELSE IF lockOwner # u THEN 409
       ELSE 0

(* The refusal of a redemption, given what the Redis GET answered.          *)
RedeemRefusal(r, lockOwner) ==
    LET c == target[r]
        u == user[r]
    IN IF <<c, u>> \notin snap[r].userCoupons THEN 404
       ELSE IF BookClosed(BookOf[c], now) THEN 400
       ELSE IF snap[r].coupons[c].lockedUntil <= now THEN 403
       ELSE IF lockOwner # u THEN 409
       ELSE IF Exhausted(BookOf[c], Len(snap[r].redemptions[<<c, u>>])) THEN 400
       ELSE 0

Redeem(r) ==
    /\ pc[r] = "redeem"
    /\ \E lockOwner \in GetAnswers(target[r]) :
         LET refusal == RedeemRefusal(r, lockOwner) IN
           \/ refusal # 0 /\ Abort(r, refusal)
           \/ /\ refusal = 0 /\ Goto(r, "write")
              /\ UNCHANGED <<lock, now, data, txn, locals, reply, locksTaken>>

(* Mutant: the coupon is updated without the session.                       *)
RedeemWriteOutside(r) ==
    /\ pc[r] = "write"
    /\ intent' = [intent EXCEPT ![r] = target[r]]
    /\ Goto(r, "unlock")
    /\ UNCHANGED <<lock, now, data, snap, stale, locals, reply, locksTaken>>

RedeemWrite(r) ==
    /\ pc[r] = "write"
    /\ WriteCoupon(r, target[r], "unlock")

(* The key is deleted before the commit that uses the lock up.              *)
RedeemUnlock(r) ==
    /\ pc[r] = "unlock"
    /\ Del(target[r])
    /\ Goto(r, "commitRedeem")
    /\ UNCHANGED <<now, data, txn, locals, reply, locksTaken>>

(* Mutant: a redemption does not reset lockedUntil.                         *)
CommitRedeemKeepsLock(r) ==
    /\ pc[r] = "commitRedeem"
    /\ LET c == target[r]
           p == <<c, user[r]>>
       IN /\ coupons' = [coupons EXCEPT ![c] =
                [@ EXCEPT !.isRedeemed = TRUE,
                          !.redemptionCount = snap[r].coupons[c].redemptionCount + 1]]
          /\ redemptions' = [redemptions EXCEPT ![p] = Append(@, r)]
          /\ Record(r, "redeem", user[r], c)
          /\ EndTransaction(r, Published(c))
    /\ CommitAnswers(r)
    /\ Goto(r, "done")
    /\ UNCHANGED <<lock, now, userCoupons, locals, locksTaken>>

CommitRedeem(r) ==
    /\ pc[r] = "commitRedeem"
    /\ LET c == target[r]
           p == <<c, user[r]>>
       IN /\ coupons' = [coupons EXCEPT ![c] =
                [@ EXCEPT !.isRedeemed = TRUE,
                          !.redemptionCount = snap[r].coupons[c].redemptionCount + 1,
                          !.lockedUntil = NoDate]]
          /\ redemptions' = [redemptions EXCEPT ![p] = Append(@, r)]
          /\ Record(r, "redeem", user[r], c)
          /\ EndTransaction(r, Published(c))
    /\ CommitAnswers(r)
    /\ Goto(r, "done")
    /\ UNCHANGED <<lock, now, userCoupons, locals, locksTaken>>

--------------------------------------------------------------------------------
(* Failures and time *)

(* A worker process dies, and the requests it was serving stop for good;    *)
(* throng runs WEB_CONCURRENCY workers, any of which may have any of them.  *)
Crash ==
    /\ "crash" \in Faults
    /\ \E served \in SUBSET {r \in Requests : pc[r] \notin {"idle"} \cup Ended} :
         /\ served # {}
         /\ pc' = [r \in Requests |-> IF r \in served THEN "dead" ELSE pc[r]]
    /\ UNCHANGED <<lock, now, data, txn, locals, reply, locksTaken>>

(* MongoDB aborts a transaction nobody drives any more.                     *)
Reap(r) ==
    /\ pc[r] = "dead" /\ snap[r] # NoView
    /\ EndTransaction(r, stale)
    /\ UNCHANGED <<lock, now, data, pc, locals, reply, locksTaken>>

(* Time passes; the clock is bounded, but runs on until every key that the  *)
(* requests left behind had the time to expire.                             *)
Tick ==
    /\ \/ now < MaxTime
       \/ now < MaxTime + LockDuration /\ \A r \in Requests : pc[r] \in Ended
    /\ Advance
    /\ UNCHANGED <<data, txn, pc, locals, reply, locksTaken>>

--------------------------------------------------------------------------------

Step(r) ==
    \/ BeginAssignRandom(r) \/ AssignRandom(r)
    \/ BeginAssignSpecific(r) \/ AssignSpecific(r) \/ CommitAssign(r)
    \/ LockSet(r) \/ LockExpire(r) \/ LockValidate(r) \/ LockUndo(r)
    \/ LockUpdate(r) \/ LockLog(r) \/ LockCatch(r)
    \/ BeginRedeem(r) \/ Redeem(r) \/ RedeemWrite(r) \/ RedeemUnlock(r)
    \/ CommitRedeem(r)

Next ==
    \/ \E r \in Requests : Step(r) \/ TransactionFails(r) \/ Reap(r)
    \/ Crash
    \/ Tick

Spec == Init /\ [][Next]_vars

(* Node keeps running the requests it has, MongoDB reaps, time passes.      *)
Fairness ==
    /\ \A r \in Requests : WF_vars(Step(r)) /\ WF_vars(Reap(r))
    /\ WF_vars(Tick)

FairSpec == Spec /\ Fairness
================================================================================
