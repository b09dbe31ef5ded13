-------------------------- MODULE CouponServiceProofs --------------------------
(***************************************************************************)
(* Machine-checked proofs about CouponService, for any number of requests, *)
(* users, coupons and books, any clock bound and any set of faults.        *)
(***************************************************************************)
EXTENDS CouponProperties, TLAPS

USE RulesAssumption, RedisAssumption, StoreAssumption, ServiceAssumption

--------------------------------------------------------------------------------
(* Types *)

TypeInv == TypeOK /\ Control

(* What the checks of an assignment answer is an HTTP status.               *)
LEMMA AssignRefusalType ==
    ASSUME NEW b, NEW n, NEW t
    PROVE  AssignRefusal(b, n, t) \in Status
  BY DEF AssignRefusal, Status

LEMMA LockRefusalType ==
    ASSUME NEW c, NEW u
    PROVE  LockRefusal(c, u) \in Status
  BY DEF LockRefusal, Status

LEMMA RedeemRefusalType ==
    ASSUME NEW r, NEW o
    PROVE  RedeemRefusal(r, o) \in Status
  BY DEF RedeemRefusal, Status

(* The record a commit or a lock adds to the audit trail is well formed.    *)
LEMMA RecordType ==
    ASSUME transactions \subseteq Transaction,
           NEW r \in Requests, NEW a \in {"assign", "lock", "redeem"},
           NEW u \in Users, NEW c \in Codes, Record(r, a, u, c)
    PROVE  transactions' \subseteq Transaction
  BY DEF Record, Transaction

(* A snapshot has the shape of the collections it was taken from.           *)
LEMMA OpenTransactionType ==
    ASSUME MongoTypeOK, NEW r \in Requests, OpenTransaction(r)
    PROVE  /\ snap' \in [Requests -> View \cup {NoView}]
           /\ snap'[r] \in View
           /\ \A q \in Requests \ {r} : snap'[q] = snap[q]
           /\ stale' \in [Requests -> SUBSET Codes]
  BY DEF MongoTypeOK, OpenTransaction, View

LEMMA PublishedType ==
    ASSUME MongoTypeOK, NEW c \in Codes
    PROVE  Published(c) \in [Requests -> SUBSET Codes]
  BY DEF MongoTypeOK, Published

LEMMA EndTransactionType ==
    ASSUME MongoTypeOK, NEW r \in Requests,
           NEW s \in [Requests -> SUBSET Codes], EndTransaction(r, s)
    PROVE  /\ snap' \in [Requests -> View \cup {NoView}]
           /\ stale' \in [Requests -> SUBSET Codes]
           /\ intent' \in [Requests -> Codes \cup {NoCode}]
           /\ \A q \in Requests \ {r} : snap'[q] = snap[q] /\ intent'[q] = intent[q]
           /\ intent'[r] = NoCode
  BY DEF MongoTypeOK, EndTransaction

LEMMA AbortType ==
    ASSUME TypeInv, NEW r \in Requests, NEW s \in Status,
           pc[r] \in InTransaction, Abort(r, s)
    PROVE  TypeInv'
  <1>1. stale \in [Requests -> SUBSET Codes]
    BY DEF TypeInv, TypeOK, MongoTypeOK
  <1>2. TypeOK'
    BY <1>1, EndTransactionType
       DEF TypeInv, TypeOK, Abort, data, locals, Goto, Answer, RedisTypeOK, MongoTypeOK,
           InTransaction, InLock, Ended
  <1>3. Control'
    <2>1. pc' = [pc EXCEPT ![r] = "done"] /\ UNCHANGED <<user, target, until>>
      BY DEF Abort, Goto, locals
    <2>2. /\ \A q \in Requests \ {r} : snap'[q] = snap[q] /\ intent'[q] = intent[q]
          /\ intent'[r] = NoCode
      BY <1>1, EndTransactionType DEF TypeInv, TypeOK, Abort
    <2>3. pc \in [Requests -> {"idle"} \cup InTransaction \cup InLock \cup Ended] /\ pc[r] # "idle"
      BY DEF TypeInv, TypeOK, InTransaction
    <2> QED
      BY <2>1, <2>2, <2>3 DEF TypeInv, Control, InTransaction
  <1> QED
    BY <1>2, <1>3 DEF TypeInv

LEMMA WriteCouponType ==
    ASSUME TypeInv, NEW r \in Requests, NEW c \in Codes,
           NEW next \in {"commitAssign", "unlock"},
           pc[r] \in InTransaction, WriteCoupon(r, c, next)
    PROVE  TypeInv'
  <1>1. CASE Abort(r, 500)
    BY <1>1, AbortType DEF Status
  <1>2. CASE /\ intent' = [intent EXCEPT ![r] = c]
             /\ target' = [target EXCEPT ![r] = c]
             /\ Goto(r, next)
             /\ UNCHANGED <<lock, now, data, snap, stale, user, book, until, reply, locksTaken>>
    <2>1. TypeOK'
      BY <1>2 DEF TypeInv, TypeOK, data, Goto, RedisTypeOK, MongoTypeOK,
                  InTransaction, InLock, Ended
    <2>2. Control'
      BY <1>2 DEF TypeInv, TypeOK, Control, data, Goto, MongoTypeOK, InTransaction, InLock, Ended
    <2> QED
      BY <2>1, <2>2 DEF TypeInv
  <1> QED
    BY <1>1, <1>2 DEF WriteCoupon

LEMMA BeginType ==
    ASSUME TypeInv, NEW r \in Requests, NEW next \in {"assignRandom", "assignSpecific", "redeem"},
           pc[r] = "idle", OpenTransaction(r), Goto(r, next),
           \E u \in Users : user' = [user EXCEPT ![r] = u],
           \/ /\ \E b \in Books \cup {NoBook} : book' = [book EXCEPT ![r] = b]
              /\ UNCHANGED target
           \/ /\ \E c \in Codes \cup {NoCode} : target' = [target EXCEPT ![r] = c]
              /\ UNCHANGED book,
           UNCHANGED <<lock, now, data, until, reply, locksTaken>>
    PROVE  TypeInv'
  <1>1. MongoTypeOK
    BY DEF TypeInv, TypeOK
  <1>2. /\ snap' \in [Requests -> View \cup {NoView}]
        /\ snap'[r] # NoView
        /\ \A q \in Requests \ {r} : snap'[q] = snap[q]
        /\ stale' \in [Requests -> SUBSET Codes]
    BY <1>1, OpenTransactionType
  <1>3. /\ user' \in [Requests -> Users \cup {NoUser}]
        /\ user'[r] \in Users
        /\ \A q \in Requests \ {r} : user'[q] = user[q]
    BY DEF TypeInv, TypeOK
  <1>4. /\ book' \in [Requests -> Books \cup {NoBook}]
        /\ target' \in [Requests -> Codes \cup {NoCode}]
        /\ \A q \in Requests \ {r} : target'[q] = target[q]
    BY DEF TypeInv, TypeOK
  <1>5. /\ pc' = [pc EXCEPT ![r] = next]
        /\ pc \in [Requests -> {"idle"} \cup InTransaction \cup InLock \cup Ended]
        /\ pc' \in [Requests -> {"idle"} \cup InTransaction \cup InLock \cup Ended]
    BY DEF TypeInv, TypeOK, Goto, InTransaction
  <1>6. TypeOK'
    BY <1>2, <1>3, <1>4, <1>5
       DEF TypeInv, TypeOK, OpenTransaction, data, RedisTypeOK, MongoTypeOK
  <1>7. Control'
    BY <1>1, <1>2, <1>3, <1>4, <1>5
       DEF TypeInv, Control, OpenTransaction, InTransaction
  <1> QED
    BY <1>6, <1>7 DEF TypeInv

(* A step that leaves MongoDB alone and moves one request to a place where  *)
(* it has established nothing new.                                          *)
LEMMA QuietType ==
    ASSUME TypeInv, NEW r \in Requests, NEW l,
           l \in {"validate", "undo", "catch", "done", "write", "commitRedeem", "expire",
                  "expireOther", "log", "update"},
           Goto(r, l), lock' \in [Keys -> Key], now' = now,
           user' \in [Requests -> Users \cup {NoUser}], user'[r] \in Users,
           target' \in [Requests -> Codes \cup {NoCode}],
           \A q \in Requests \ {r} : user'[q] = user[q] /\ target'[q] = target[q],
           until' \in [Requests -> Date],
           \A q \in Requests \ {r} : until'[q] = until[q],
           reply' \in [Requests -> Status], UNCHANGED <<data, txn, book, locksTaken>>,
           l \in {"write", "commitRedeem"} => snap[r] # NoView,
           l # "commitRedeem" => intent[r] = NoCode,
           l \in {"write", "commitRedeem", "log", "update"} => target'[r] \in Codes,
           l = "update" => until'[r] # NoDate
    PROVE  TypeInv'
  <1>1. /\ pc' = [pc EXCEPT ![r] = l]
        /\ pc \in [Requests -> {"idle"} \cup InTransaction \cup InLock \cup Ended]
        /\ pc' \in [Requests -> {"idle"} \cup InTransaction \cup InLock \cup Ended]
    BY DEF TypeInv, TypeOK, Goto, InTransaction, InLock, Ended
  <1>2. TypeOK'
    BY <1>1 DEF TypeInv, TypeOK, data, txn, RedisTypeOK, MongoTypeOK
  <1>3. Control'
    BY <1>1 DEF TypeInv, Control, data, txn, InTransaction
  <1> QED
    BY <1>2, <1>3 DEF TypeInv

(* Each Redis command leaves well-formed keys.                              *)
LEMMA RedisType ==
    ASSUME RedisTypeOK, NEW c \in Keys, NEW u \in Users,
           SetNX(c, u) \/ Expire(c) \/ Del(c) \/ UNCHANGED lock
    PROVE  lock' \in [Keys -> Key]
  <1> USE DEF RedisTypeOK, Key, Date
  <1>1. CASE SetNX(c, u)
    BY <1>1 DEF SetNX, NoDate
  <1>2. CASE Expire(c)
    <2>1. now + LockDuration \in Nat
      OBVIOUS
    <2> QED
      BY <1>2, <2>1 DEF Expire
  <1>3. CASE Del(c)
    BY <1>3 DEF Del, Free, NoDate
  <1> QED
    BY <1>1, <1>2, <1>3

LEMMA AnswerType ==
    ASSUME TypeInv, NEW r \in Requests, NEW s \in Status, Answer(r, s)
    PROVE  reply' \in [Requests -> Status]
  BY DEF TypeInv, TypeOK, Answer

(* The common part of the two commits.                                      *)
LEMMA CommitType ==
    ASSUME TypeInv, NEW r \in Requests, NEW a \in {"assign", "lock", "redeem"},
           pc[r] \in InTransaction, target[r] \in Codes, user[r] \in Users,
           coupons' \in [Codes -> CouponDocument],
           userCoupons' \subseteq Codes \X Users,
           redemptions' \in [Codes \X Users -> Seq(Requests)],
           Record(r, a, user[r], target[r]),
           EndTransaction(r, Published(target[r])),
           CommitAnswers(r), Goto(r, "done"), UNCHANGED <<lock, now, locals, locksTaken>>
    PROVE  TypeInv'
  <1>1. MongoTypeOK
    BY DEF TypeInv, TypeOK
  <1>2. /\ snap' \in [Requests -> View \cup {NoView}]
        /\ stale' \in [Requests -> SUBSET Codes]
        /\ intent' \in [Requests -> Codes \cup {NoCode}]
        /\ \A q \in Requests \ {r} : snap'[q] = snap[q] /\ intent'[q] = intent[q]
        /\ intent'[r] = NoCode
    BY <1>1, PublishedType, EndTransactionType
  <1>3. transactions' \subseteq Transaction
    BY <1>1, RecordType DEF MongoTypeOK
  <1>4. reply' \in [Requests -> Status]
    <2>1. 201 \in Status /\ 500 \in Status
      BY DEF Status
    <2> QED
      BY <2>1, AnswerType DEF CommitAnswers
  <1>5. /\ pc' = [pc EXCEPT ![r] = "done"]
        /\ pc \in [Requests -> {"idle"} \cup InTransaction \cup InLock \cup Ended]
        /\ pc' \in [Requests -> {"idle"} \cup InTransaction \cup InLock \cup Ended]
    BY DEF TypeInv, TypeOK, Goto, Ended
  <1>6. TypeOK'
    BY <1>2, <1>3, <1>4, <1>5 DEF TypeInv, TypeOK, locals, RedisTypeOK, MongoTypeOK
  <1>7. Control'
    BY <1>2, <1>5 DEF TypeInv, Control, locals, InTransaction
  <1> QED
    BY <1>6, <1>7 DEF TypeInv

(* The three edits of a coupon document keep its shape.                     *)
LEMMA CouponType ==
    ASSUME coupons \in [Codes -> CouponDocument], NEW c \in Codes,
           NEW n \in Nat, NEW d \in Date,
           \/ coupons' = [coupons EXCEPT ![c].isAssigned = TRUE]
           \/ coupons' = [coupons EXCEPT ![c].lockedUntil = d]
           \/ coupons' = [coupons EXCEPT ![c] = [@ EXCEPT !.isRedeemed = TRUE,
                                                         !.redemptionCount = n + 1,
                                                         !.lockedUntil = NoDate]]
    PROVE  coupons' \in [Codes -> CouponDocument]
  <1>0. coupons[c] \in CouponDocument /\ n + 1 \in Nat /\ NoDate \in Date
    BY DEF Date, NoDate
  <1>1. [coupons[c] EXCEPT !.isAssigned = TRUE] \in CouponDocument
    BY <1>0 DEF CouponDocument
  <1>2. [coupons[c] EXCEPT !.lockedUntil = d] \in CouponDocument
    BY <1>0 DEF CouponDocument
  <1>3. [coupons[c] EXCEPT !.isRedeemed = TRUE, !.redemptionCount = n + 1,
                          !.lockedUntil = NoDate] \in CouponDocument
    BY <1>0 DEF CouponDocument
  <1> QED
    BY <1>1, <1>2, <1>3

(* A step of a lock request, or a step of a redemption that writes nothing. *)
LEMMA MoveType ==
    ASSUME TypeInv, NEW r \in Requests, pc[r] # "idle",
           NEW l \in {"validate", "undo", "catch", "done", "write", "commitRedeem"},
           Goto(r, l), lock' \in [Keys -> Key], reply' \in [Requests -> Status],
           l \in {"write", "commitRedeem"} => snap[r] # NoView /\ target[r] \in Codes,
           l # "commitRedeem" => intent[r] = NoCode,
           UNCHANGED <<now, data, txn, locals, locksTaken>>
    PROVE  TypeInv'
  <1>1. user[r] \in Users
    BY DEF TypeInv, Control
  <1>2. /\ user' \in [Requests -> Users \cup {NoUser}]
        /\ target' \in [Requests -> Codes \cup {NoCode}]
        /\ until' \in [Requests -> Date]
        /\ UNCHANGED <<user, target, until, book>>
    BY DEF TypeInv, TypeOK, locals
  <1> QED
    BY <1>1, <1>2, QuietType

(* A lock request has nothing to do with transactions.                      *)
LEMMA NoIntent ==
    ASSUME TypeInv, NEW r \in Requests,
           pc[r] \in {"idle", "redeem", "write", "assignRandom", "assignSpecific"} \cup InLock
    PROVE  intent[r] = NoCode
  BY DEF TypeInv, Control, InLock

LEMMA DelType ==
    ASSUME TypeInv, NEW r \in Requests, Del(target[r])
    PROVE  lock' \in [Keys -> Key]
  <1>1. RedisTypeOK /\ target[r] \in Keys
    BY DEF TypeInv, TypeOK, Keys
  <1> QED
    BY <1>1 DEF RedisTypeOK, Del, Key, Free, Date, NoDate

(* Every step of a request keeps the types.                                 *)
LEMMA StepType ==
    ASSUME TypeInv, NEW r \in Requests, Step(r)
    PROVE  TypeInv'
  <1>1. CASE BeginAssignRandom(r)
    BY <1>1, BeginType DEF BeginAssignRandom
  <1>2. CASE BeginAssignSpecific(r)
    BY <1>2, BeginType DEF BeginAssignSpecific
  <1>3. CASE BeginRedeem(r)
    BY <1>3, BeginType DEF BeginRedeem
  <1>4. CASE AssignRandom(r)
    <2>1. pc[r] \in InTransaction
      BY <1>4 DEF AssignRandom, InTransaction
    <2>2. ASSUME NEW c \in Available(r), WriteCoupon(r, c, "commitAssign")
          PROVE  TypeInv'
      BY <2>1, <2>2, WriteCouponType DEF Available
    <2>3. ASSUME NEW s \in Status, Abort(r, s)
          PROVE  TypeInv'
      BY <2>1, <2>3, AbortType
    <2>4. 404 \in Status
      BY DEF Status
    <2> QED
      BY <1>4, <2>2, <2>3, <2>4, AssignRefusalType DEF AssignRandom
  <1>5. CASE AssignSpecific(r)
    <2>1. pc[r] \in InTransaction
      BY <1>5 DEF AssignSpecific, InTransaction
    <2>2. ASSUME target[r] \in Codes, WriteCoupon(r, target[r], "commitAssign")
          PROVE  TypeInv'
      BY <2>1, <2>2, WriteCouponType
    <2>3. ASSUME NEW s \in Status, Abort(r, s)
          PROVE  TypeInv'
      BY <2>1, <2>3, AbortType
    <2>4. 404 \in Status /\ 409 \in Status
      BY DEF Status
    <2> QED
      BY <1>5, <2>2, <2>3, <2>4, AssignRefusalType DEF AssignSpecific
  <1>6. CASE CommitAssign(r)
    <2>1. pc[r] \in InTransaction /\ target[r] \in Codes /\ user[r] \in Users
      BY <1>6 DEF CommitAssign, TypeInv, Control, TypeOK, InTransaction
    <2>2. coupons' \in [Codes -> CouponDocument]
      <3>1. coupons' = [coupons EXCEPT ![target[r]].isAssigned = TRUE]
        BY <1>6 DEF CommitAssign
      <3>2. coupons \in [Codes -> CouponDocument] /\ 0 \in Nat /\ 0 \in Date
        BY DEF TypeInv, TypeOK, MongoTypeOK, Date
      <3> QED
        BY <2>1, <3>1, <3>2, CouponType
    <2>3. userCoupons' \subseteq Codes \X Users
      BY <1>6, <2>1 DEF CommitAssign, TypeInv, TypeOK, MongoTypeOK
    <2>4. UNCHANGED redemptions
      BY <1>6 DEF CommitAssign
    <2> QED
      <3>1. Record(r, "assign", user[r], target[r])
        BY <1>6 DEF CommitAssign
      <3>2. EndTransaction(r, Published(target[r]))
        BY <1>6 DEF CommitAssign
      <3>3. CommitAnswers(r) /\ Goto(r, "done") /\ UNCHANGED <<lock, now, locals, locksTaken>>
        BY <1>6 DEF CommitAssign
      <3>4. redemptions' \in [Codes \X Users -> Seq(Requests)]
        BY <2>4 DEF TypeInv, TypeOK, MongoTypeOK
      <3> QED
        BY <2>1, <2>2, <2>3, <3>4, <3>1, <3>2, <3>3, CommitType
  <1>7. CASE CommitRedeem(r)
    <2>1. pc[r] \in InTransaction /\ target[r] \in Codes /\ user[r] \in Users
      BY <1>7 DEF CommitRedeem, TypeInv, Control, TypeOK, InTransaction
    <2>2. snap[r].coupons[target[r]].redemptionCount \in Nat
      BY <1>7, <2>1 DEF CommitRedeem, TypeInv, TypeOK, MongoTypeOK, Control, View, CouponDocument
    <2>3. coupons' \in [Codes -> CouponDocument]
      <3>1. coupons' = [coupons EXCEPT ![target[r]] =
                          [@ EXCEPT !.isRedeemed = TRUE,
                                    !.redemptionCount =
                                       snap[r].coupons[target[r]].redemptionCount + 1,
                                    !.lockedUntil = NoDate]]
        BY <1>7 DEF CommitRedeem
      <3>2. coupons \in [Codes -> CouponDocument] /\ 0 \in Date
        BY DEF TypeInv, TypeOK, MongoTypeOK, Date
      <3> QED
        BY <2>1, <2>2, <3>1, <3>2, CouponType
    <2>4. redemptions' \in [Codes \X Users -> Seq(Requests)]
      BY <1>7, <2>1 DEF CommitRedeem, TypeInv, TypeOK, MongoTypeOK
    <2>5. userCoupons' \subseteq Codes \X Users
      BY <1>7 DEF CommitRedeem, TypeInv, TypeOK, MongoTypeOK
    <2> QED
      BY <1>7, <2>1, <2>3, <2>4, <2>5, CommitType DEF CommitRedeem
  <1>8. CASE LockSet(r)
    <2> PICK u \in Users, c \in Keys :
          /\ user' = [user EXCEPT ![r] = u]
          /\ target' = [target EXCEPT ![r] = c]
          /\ \/ SetNX(c, u) /\ Goto(r, IF Held(c) THEN "expireOther" ELSE "expire")
                /\ UNCHANGED reply
             \/ /\ "redis" \in Faults
                /\ SetNX(c, u) \/ UNCHANGED lock
                /\ Throw(r, 409)
      BY <1>8 DEF LockSet
    <2>1. lock' \in [Keys -> Key]
      BY RedisType DEF TypeInv, TypeOK
    <2>2. /\ user' \in [Requests -> Users \cup {NoUser}] /\ user'[r] \in Users
          /\ target' \in [Requests -> Codes \cup {NoCode}]
          /\ \A q \in Requests \ {r} : user'[q] = user[q] /\ target'[q] = target[q]
      BY DEF TypeInv, TypeOK, Keys
    <2>3. until' \in [Requests -> Date] /\ UNCHANGED <<now, data, txn, book, until, locksTaken>>
      BY <1>8 DEF LockSet, TypeInv, TypeOK
    <2>4. reply' \in [Requests -> Status]
      BY DEF TypeInv, TypeOK, Throw, Answer, Status
    <2>5. Goto(r, "expireOther") \/ Goto(r, "expire") \/ Goto(r, "catch")
      BY DEF Throw
    <2>6. intent[r] = NoCode
      BY <1>8, NoIntent DEF LockSet
    <2> QED
      BY <2>1, <2>2, <2>3, <2>4, <2>5, <2>6, QuietType
  <1>9. CASE LockExpire(r)
    <2>1. lock' \in [Keys -> Key]
      <3>1. Expire(target[r]) \/ UNCHANGED lock
        BY <1>9 DEF LockExpire
      <3>2. target[r] \in Keys /\ user[r] \in Users
        BY <1>9 DEF LockExpire, TypeInv, TypeOK, Control, Keys
      <3> QED
        BY <3>1, <3>2, RedisType DEF TypeInv, TypeOK
    <2>2. reply' \in [Requests -> Status]
      BY <1>9 DEF LockExpire, TypeInv, TypeOK, Throw, Answer, Status
    <2>3. Goto(r, "validate") \/ Goto(r, "catch")
      BY <1>9 DEF LockExpire, Throw
    <2>4. pc[r] # "idle" /\ intent[r] = NoCode
      BY <1>9, NoIntent DEF LockExpire, InLock
    <2>5. UNCHANGED <<now, data, txn, locals, locksTaken>>
      BY <1>9 DEF LockExpire
    <2> QED
      BY <2>1, <2>2, <2>3, <2>4, <2>5, MoveType
  <1>10. CASE LockValidate(r)
    <2>1. /\ pc[r] = "validate" /\ intent[r] = NoCode /\ user[r] \in Users
          /\ UNCHANGED <<lock, now, data, txn, user, target, book, locksTaken>>
      BY <1>10, NoIntent DEF LockValidate, InLock, TypeInv, Control
    <2>2. /\ lock' \in [Keys -> Key]
          /\ user' \in [Requests -> Users \cup {NoUser}]
          /\ target' \in [Requests -> Codes \cup {NoCode}]
      BY <2>1 DEF TypeInv, TypeOK, RedisTypeOK
    <2>3. reply' \in [Requests -> Status]
      <3>1. \/ UNCHANGED reply
            \/ Answer(r, LockRefusal(target[r], user[r]))
            \/ Answer(r, 500)
        BY <1>10 DEF LockValidate, Throw
      <3>2. LockRefusal(target[r], user[r]) \in Status /\ 500 \in Status
        BY LockRefusalType DEF Status
      <3> QED
        BY <3>1, <3>2, AnswerType DEF TypeInv, TypeOK
    <2>4. /\ until' \in [Requests -> Date]
          /\ \A q \in Requests \ {r} : until'[q] = until[q]
          /\ \/ Goto(r, "undo")
             \/ Goto(r, "update") /\ until'[r] # NoDate /\ target[r] \in Codes
             \/ Goto(r, "catch")
      <3>1. CASE until' = [until EXCEPT ![r] = now + LockDuration] /\ Goto(r, "update")
                 /\ LockRefusal(target[r], user[r]) = 0
        <4>1. now + LockDuration \in Nat \ {0}
          BY DEF TypeInv, TypeOK, RedisTypeOK
        <4>2. target[r] \in Codes
          BY <3>1 DEF LockRefusal, TypeInv, TypeOK, MongoTypeOK
        <4> QED
          BY <3>1, <4>1, <4>2 DEF TypeInv, TypeOK, Date, NoDate
      <3>2. CASE UNCHANGED until /\ (Goto(r, "undo") \/ Goto(r, "catch"))
        BY <3>2 DEF TypeInv, TypeOK
      <3> QED
        BY <1>10, <3>1, <3>2 DEF LockValidate, Throw
    <2> QED
      BY <2>1, <2>2, <2>3, <2>4, QuietType
  <1>11. CASE LockUndo(r)
    <2>1. pc[r] # "idle" /\ intent[r] = NoCode
      BY <1>11, NoIntent DEF LockUndo, InLock
    <2>2. lock' \in [Keys -> Key] /\ reply' \in [Requests -> Status]
      BY <1>11, DelType DEF LockUndo, TypeInv, TypeOK
    <2> QED
      BY <1>11, <2>1, <2>2, MoveType DEF LockUndo
  <1>12. CASE LockCatch(r)
    <2>1. pc[r] # "idle" /\ intent[r] = NoCode
      BY <1>12, NoIntent DEF LockCatch, InLock
    <2>2. lock' \in [Keys -> Key] /\ reply' \in [Requests -> Status]
      BY <1>12, DelType DEF LockCatch, TypeInv, TypeOK
    <2> QED
      BY <1>12, <2>1, <2>2, MoveType DEF LockCatch
  <1>13. CASE LockUpdate(r)
    <2>1. /\ pc[r] = "update" /\ intent[r] = NoCode /\ user[r] \in Users /\ target[r] \in Codes
          /\ UNCHANGED <<lock, now, userCoupons, redemptions, transactions, snap, intent, locals>>
      BY <1>13, NoIntent DEF LockUpdate, InLock, TypeInv, Control
    <2>2. /\ coupons' \in [Codes -> CouponDocument]
          /\ stale' \in [Requests -> SUBSET Codes]
          /\ locksTaken' \in [Codes -> Nat]
      <3>1. CASE SetLockedUntil(r)
        <4>1. until[r] \in Date /\ 0 \in Nat /\ MongoTypeOK /\ locksTaken \in [Codes -> Nat]
          BY DEF TypeInv, TypeOK
        <4>2. coupons' \in [Codes -> CouponDocument]
          BY <2>1, <3>1, <4>1, CouponType DEF SetLockedUntil, MongoTypeOK
        <4> QED
          BY <2>1, <3>1, <4>1, <4>2, PublishedType DEF SetLockedUntil
      <3>2. CASE UNCHANGED <<coupons, stale, locksTaken>>
        BY <3>2 DEF TypeInv, TypeOK, MongoTypeOK
      <3> QED
        BY <1>13, <3>1, <3>2 DEF LockUpdate
    <2>3. reply' \in [Requests -> Status]
      BY <1>13, AnswerType DEF LockUpdate, Throw, Status, TypeInv, TypeOK
    <2>4. /\ pc \in [Requests -> {"idle"} \cup InTransaction \cup InLock \cup Ended]
          /\ pc' \in [Requests -> {"idle"} \cup InTransaction \cup InLock \cup Ended]
          /\ \A q \in Requests \ {r} : pc'[q] = pc[q]
          /\ pc'[r] \in {"log", "catch"}
      BY <1>13 DEF LockUpdate, Throw, Goto, TypeInv, TypeOK, InLock
    <2>5. TypeOK'
      BY <2>1, <2>2, <2>3, <2>4 DEF TypeInv, TypeOK, RedisTypeOK, MongoTypeOK, locals
    <2>6. Control'
      BY <2>1, <2>4 DEF TypeInv, Control, locals, InTransaction
    <2> QED
      BY <2>5, <2>6 DEF TypeInv
  <1>14. CASE LockLog(r)
    <2>1. /\ pc[r] = "log" /\ intent[r] = NoCode /\ user[r] \in Users /\ target[r] \in Codes
          /\ UNCHANGED <<lock, now, coupons, userCoupons, redemptions, txn, locals, locksTaken>>
      BY <1>14, NoIntent DEF LockLog, InLock, TypeInv, Control
    <2>2. transactions' \subseteq Transaction
      BY <1>14, <2>1, RecordType DEF LockLog, TypeInv, TypeOK, MongoTypeOK
    <2>3. reply' \in [Requests -> Status]
      BY <1>14, AnswerType DEF LockLog, Throw, Status, TypeInv, TypeOK
    <2>4. /\ pc \in [Requests -> {"idle"} \cup InTransaction \cup InLock \cup Ended]
          /\ pc' \in [Requests -> {"idle"} \cup InTransaction \cup InLock \cup Ended]
          /\ \A q \in Requests \ {r} : pc'[q] = pc[q]
          /\ pc'[r] \in {"done", "catch"}
      BY <1>14 DEF LockLog, Throw, Goto, TypeInv, TypeOK, InLock, Ended
    <2>5. TypeOK'
      BY <2>1, <2>2, <2>3, <2>4 DEF TypeInv, TypeOK, RedisTypeOK, MongoTypeOK, locals, txn
    <2>6. Control'
      BY <2>1, <2>4 DEF TypeInv, Control, locals, InTransaction, txn
    <2> QED
      BY <2>5, <2>6 DEF TypeInv
  <1>15. CASE Redeem(r)
    <2>0. pc[r] = "redeem" /\ pc[r] \in InTransaction
      BY <1>15 DEF Redeem, InTransaction
    <2> PICK o \in GetAnswers(target[r]) :
          \/ RedeemRefusal(r, o) # 0 /\ Abort(r, RedeemRefusal(r, o))
          \/ /\ RedeemRefusal(r, o) = 0 /\ Goto(r, "write")
             /\ UNCHANGED <<lock, now, data, txn, locals, reply, locksTaken>>
      BY <1>15 DEF Redeem
    <2>1. CASE Abort(r, RedeemRefusal(r, o))
      BY <2>0, <2>1, AbortType, RedeemRefusalType
    <2>2. CASE /\ RedeemRefusal(r, o) = 0 /\ Goto(r, "write")
               /\ UNCHANGED <<lock, now, data, txn, locals, reply, locksTaken>>
      <3>1. snap[r] # NoView /\ snap[r] \in View /\ intent[r] = NoCode
        BY <2>0, NoIntent DEF TypeInv, TypeOK, MongoTypeOK, Control
      <3>2. target[r] \in Codes
        BY <2>2, <3>1 DEF RedeemRefusal, View
      <3>3. lock' \in [Keys -> Key] /\ reply' \in [Requests -> Status]
        BY <2>2 DEF TypeInv, TypeOK, RedisTypeOK
      <3> QED
        BY <2>0, <2>2, <3>1, <3>2, <3>3, MoveType
    <2> QED
      BY <2>1, <2>2
  <1>16. CASE RedeemWrite(r)
    BY <1>16, WriteCouponType DEF RedeemWrite, InTransaction, TypeInv, Control
  <1>17. CASE RedeemUnlock(r)
    <2>1. pc[r] # "idle" /\ snap[r] # NoView /\ target[r] \in Codes
      BY <1>17 DEF RedeemUnlock, TypeInv, Control, InTransaction
    <2>2. lock' \in [Keys -> Key] /\ reply' \in [Requests -> Status]
      BY <1>17, DelType DEF RedeemUnlock, TypeInv, TypeOK
    <2> QED
      BY <1>17, <2>1, <2>2, MoveType DEF RedeemUnlock
  <1> QED
    BY <1>1, <1>2, <1>3, <1>4, <1>5, <1>6, <1>7, <1>8, <1>9, <1>10, <1>11, <1>12,
       <1>13, <1>14, <1>15, <1>16, <1>17 DEF Step

LEMMA InitType == Init => TypeInv
  <1> SUFFICES ASSUME Init PROVE TypeInv
    OBVIOUS
  <1>1. NewCoupon \in CouponDocument
    BY DEF NewCoupon, CouponDocument, NoDate, Date
  <1>2. coupons \in [Codes -> CouponDocument]
    BY <1>1 DEF Init, MongoInit, CouponDocument
  <1>3. MongoTypeOK
    BY <1>2 DEF Init, MongoInit, MongoTypeOK, Transaction
  <1>4. RedisTypeOK
    BY DEF Init, RedisInit, RedisTypeOK, Key, Free, Date, NoDate
  <1>5. TypeOK
    BY <1>3, <1>4 DEF Init, TypeOK, Date, NoDate, Status
  <1>6. Control
    BY DEF Init, MongoInit, Control, InTransaction
  <1> QED
    BY <1>5, <1>6 DEF TypeInv

LEMMA NextType == TypeInv /\ [Next]_vars => TypeInv'
  <1> SUFFICES ASSUME TypeInv, [Next]_vars PROVE TypeInv'
    OBVIOUS
  <1>1. CASE \E r \in Requests : Step(r)
    BY <1>1, StepType
  <1>2. CASE \E r \in Requests : TransactionFails(r)
    BY <1>2, AbortType DEF TransactionFails, Status
  <1>3. CASE \E r \in Requests : Reap(r)
    <2> PICK r \in Requests : Reap(r)
      BY <1>3
    <2>1. MongoTypeOK /\ stale \in [Requests -> SUBSET Codes]
      BY DEF TypeInv, TypeOK, MongoTypeOK
    <2>2. /\ snap' \in [Requests -> View \cup {NoView}]
          /\ stale' \in [Requests -> SUBSET Codes]
          /\ intent' \in [Requests -> Codes \cup {NoCode}]
          /\ \A q \in Requests \ {r} : snap'[q] = snap[q] /\ intent'[q] = intent[q]
          /\ intent'[r] = NoCode
      BY <2>1, EndTransactionType DEF Reap
    <2>3. pc[r] = "dead" /\ UNCHANGED <<lock, now, data, pc, locals, reply, locksTaken>>
      BY DEF Reap
    <2>4. TypeOK'
      BY <2>2, <2>3 DEF TypeInv, TypeOK, RedisTypeOK, MongoTypeOK, data, locals
    <2>5. Control'
      BY <2>2, <2>3 DEF TypeInv, Control, locals, InTransaction
    <2> QED
      BY <2>4, <2>5 DEF TypeInv
  <1>4. CASE Crash
    <2>1. /\ pc' \in [Requests -> {"idle"} \cup InTransaction \cup InLock \cup Ended]
          /\ \A r \in Requests : pc'[r] = pc[r] \/ (pc[r] # "idle" /\ pc'[r] = "dead")
      BY <1>4 DEF Crash, TypeInv, TypeOK, Ended
    <2>2. TypeOK'
      BY <1>4, <2>1 DEF Crash, TypeInv, TypeOK, RedisTypeOK, MongoTypeOK, data, txn, locals
    <2>3. Control'
      BY <1>4, <2>1 DEF Crash, TypeInv, Control, txn, locals, InTransaction
    <2> QED
      BY <2>2, <2>3 DEF TypeInv
  <1>5. CASE Tick
    <2>1. RedisTypeOK'
      BY <1>5 DEF Tick, Advance, TypeInv, TypeOK, RedisTypeOK, Key, Free, Date, NoDate
    <2>2. TypeOK'
      BY <1>5, <2>1 DEF Tick, TypeInv, TypeOK, MongoTypeOK, data, txn, locals
    <2>3. Control'
      BY <1>5 DEF Tick, TypeInv, Control, txn, locals
    <2> QED
      BY <2>2, <2>3 DEF TypeInv
  <1>6. CASE UNCHANGED vars
    BY <1>6 DEF vars, data, txn, locals, TypeInv, TypeOK, Control, RedisTypeOK, MongoTypeOK
  <1> QED
    BY <1>1, <1>2, <1>3, <1>4, <1>5, <1>6 DEF Next

(* Every variable keeps its type, whatever the requests, the faults and the *)
(* clock do: in particular no commit writes a counter, a date or an audit   *)
(* record made from a value that its request never read.                    *)
THEOREM TypeCorrect == Spec => []TypeOK
  <1>1. Spec => []TypeInv
    BY InitType, NextType, PTL DEF Spec
  <1>2. TypeInv => TypeOK
    BY DEF TypeInv
  <1> QED
    BY <1>1, <1>2, PTL
================================================================================
