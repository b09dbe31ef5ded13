--------------------------- MODULE CouponSafetyProofs --------------------------
(***************************************************************************)
(* Machine-checked proofs of the safety of CouponService: the inductive    *)
(* invariant IInv, and what follows from it.                               *)
(***************************************************************************)
EXTENDS CouponServiceProofs

USE RulesAssumption, RedisAssumption, StoreAssumption, ServiceAssumption

--------------------------------------------------------------------------------
(* What a step may do to the database *)

Quiet == UNCHANGED <<data, txn, locksTaken>>

Opens(r) ==
    /\ pc[r] = "idle"
    /\ OpenTransaction(r)
    /\ UNCHANGED <<data, locksTaken>>

Ends(r) ==
    /\ EndTransaction(r, stale)
    /\ UNCHANGED <<data, locksTaken>>

Writes(r, c) ==
    /\ ~WriteConflict(r, c)
    /\ pc[r] \in InTransaction
    /\ intent' = [intent EXCEPT ![r] = c]
    /\ UNCHANGED <<snap, stale, data, locksTaken>>

Locks(r) ==
    /\ pc[r] = "update"
    /\ ~Blocked(target[r])
    /\ SetLockedUntil(r)
    /\ UNCHANGED <<userCoupons, redemptions, transactions, snap, intent>>

Logs(r) ==
    /\ pc[r] = "log"
    /\ Record(r, "lock", user[r], target[r])
    /\ UNCHANGED <<coupons, userCoupons, redemptions, txn, locksTaken>>

Effect ==
    \/ Quiet
    \/ \E r \in Requests :
         \/ Opens(r) \/ Ends(r) \/ Locks(r) \/ Logs(r)
         \/ CommitAssign(r) \/ CommitRedeem(r)
         \/ \E c \in Codes : Writes(r, c)

LEMMA AbortEffect ==
    ASSUME NEW r \in Requests, NEW s, Abort(r, s)
    PROVE  Effect
  BY DEF Abort, Effect, Ends, data

LEMMA WriteEffect ==
    ASSUME NEW r \in Requests, NEW c \in Codes, NEW l,
           pc[r] \in InTransaction, WriteCoupon(r, c, l)
    PROVE  Effect
  BY AbortEffect DEF WriteCoupon, Effect, Writes, data

LEMMA StepEffect ==
    ASSUME TypeInv, NEW r \in Requests, Step(r)
    PROVE  Effect
  <1>1. CASE BeginAssignRandom(r) \/ BeginAssignSpecific(r) \/ BeginRedeem(r)
    BY <1>1 DEF BeginAssignRandom, BeginAssignSpecific, BeginRedeem, Effect, Opens
  <1>2. CASE AssignRandom(r)
    <2>1. pc[r] \in InTransaction /\ Available(r) \subseteq Codes
      BY <1>2 DEF AssignRandom, InTransaction, Available
    <2> QED
      BY <1>2, <2>1, AbortEffect, WriteEffect DEF AssignRandom
  <1>3. CASE AssignSpecific(r)
    BY <1>3, AbortEffect, WriteEffect DEF AssignSpecific, InTransaction
  <1>4. CASE CommitAssign(r) \/ CommitRedeem(r)
    BY <1>4 DEF Effect
  <1>5. CASE LockSet(r) \/ LockExpire(r) \/ LockValidate(r) \/ LockUndo(r) \/ LockCatch(r)
    BY <1>5 DEF LockSet, LockExpire, LockValidate, LockUndo, LockCatch, Effect, Quiet
  <1>6. CASE LockUpdate(r)
    BY <1>6 DEF LockUpdate, Effect, Quiet, Locks, data, txn
  <1>7. CASE LockLog(r)
    BY <1>7 DEF LockLog, Effect, Quiet, Logs, data, txn
  <1>8. CASE Redeem(r)
    BY <1>8, AbortEffect DEF Redeem, Effect, Quiet
  <1>9. CASE RedeemWrite(r)
    BY <1>9, WriteEffect DEF RedeemWrite, InTransaction, TypeInv, Control
  <1>10. CASE RedeemUnlock(r)
    BY <1>10 DEF RedeemUnlock, Effect, Quiet
  <1> QED
    BY <1>1, <1>2, <1>3, <1>4, <1>5, <1>6, <1>7, <1>8, <1>9, <1>10 DEF Step

LEMMA NextEffect == TypeInv /\ [Next]_vars => Effect
  <1> SUFFICES ASSUME TypeInv, [Next]_vars PROVE Effect
    OBVIOUS
  <1>1. CASE \E r \in Requests : TransactionFails(r)
    BY <1>1, AbortEffect DEF TransactionFails
  <1>2. CASE \E r \in Requests : Reap(r)
    BY <1>2 DEF Reap, Effect, Ends
  <1>3. CASE Crash \/ Tick
    BY <1>3 DEF Crash, Tick, Effect, Quiet
  <1>4. CASE UNCHANGED vars
    BY <1>4 DEF vars, Effect, Quiet
  <1> QED
    BY <1>1, <1>2, <1>3, <1>4, StepEffect DEF Next

--------------------------------------------------------------------------------
(* Snapshots and write intents *)

(* A commit by r changes the documents of its coupon only, and every open   *)
(* snapshot is marked stale for it.                                         *)
Publishes(r, c) ==
    /\ \A d \in Codes \ {c} :
         /\ coupons'[d] = coupons[d]
         /\ \A u \in Users : /\ <<d, u>> \in userCoupons' <=> <<d, u>> \in userCoupons
                             /\ redemptions'[<<d, u>>] = redemptions[<<d, u>>]
    /\ EndTransaction(r, Published(c))
    /\ intent[r] = c

LEMMA PublishesSnapshots ==
    ASSUME TypeInv, SnapshotsCurrent, OneWriter,
           NEW r \in Requests, NEW c \in Codes, Publishes(r, c)
    PROVE  SnapshotsCurrent' /\ OneWriter'
  <1>1. /\ snap' = [snap EXCEPT ![r] = NoView]
        /\ intent' = [intent EXCEPT ![r] = NoCode]
        /\ stale' = [Published(c) EXCEPT ![r] = {}]
    BY DEF Publishes, EndTransaction
  <1>2. /\ snap \in [Requests -> View \cup {NoView}]
        /\ intent \in [Requests -> Codes \cup {NoCode}]
        /\ stale \in [Requests -> SUBSET Codes]
    BY DEF TypeInv, TypeOK, MongoTypeOK
  <1>3. /\ stale'[r] = {} /\ snap'[r] = NoView /\ intent'[r] = NoCode
        /\ \A q \in Requests \ {r} :
             /\ snap'[q] = snap[q] /\ intent'[q] = intent[q]
             /\ snap[q] = NoView => stale'[q] = {}
             /\ snap[q] # NoView => stale'[q] = stale[q] \cup {c}
    BY <1>1, <1>2 DEF Published
  <1>4. SnapshotsCurrent'
    BY <1>3 DEF SnapshotsCurrent, Publishes
  <1>5. \A q \in Requests \ {r} : intent[q] # c
    BY <1>2 DEF OneWriter, Publishes
  <1>6. OneWriter'
    BY <1>2, <1>3, <1>5 DEF OneWriter
  <1> QED
    BY <1>4, <1>6

LEMMA SnapshotsStep ==
    ASSUME TypeInv, SnapshotsCurrent, OneWriter, ChecksPassed, Effect
    PROVE  SnapshotsCurrent' /\ OneWriter'
  <1>0. /\ snap \in [Requests -> View \cup {NoView}]
        /\ intent \in [Requests -> Codes \cup {NoCode}]
        /\ stale \in [Requests -> SUBSET Codes]
    BY DEF TypeInv, TypeOK, MongoTypeOK
  <1>1. CASE Quiet
    BY <1>1 DEF Quiet, data, txn, SnapshotsCurrent, OneWriter
  <1>2. ASSUME NEW r \in Requests, Opens(r)
        PROVE  SnapshotsCurrent' /\ OneWriter'
    <2>1. /\ snap' = [snap EXCEPT ![r] = [coupons |-> coupons, userCoupons |-> userCoupons,
                                          redemptions |-> redemptions]]
          /\ stale' = [stale EXCEPT ![r] = {}]
          /\ UNCHANGED <<intent, coupons, userCoupons, redemptions>>
      BY <1>2 DEF Opens, OpenTransaction, data
    <2>2. SnapshotsCurrent'
      BY <1>0, <2>1 DEF SnapshotsCurrent
    <2>3. OneWriter'
      BY <1>0, <2>1 DEF OneWriter
    <2> QED
      BY <2>2, <2>3
  <1>3. ASSUME NEW r \in Requests, Ends(r)
        PROVE  SnapshotsCurrent' /\ OneWriter'
    <2>1. /\ snap' = [snap EXCEPT ![r] = NoView]
          /\ stale' = [stale EXCEPT ![r] = {}]
          /\ intent' = [intent EXCEPT ![r] = NoCode]
          /\ UNCHANGED <<coupons, userCoupons, redemptions>>
      BY <1>3 DEF Ends, EndTransaction, data
    <2>2. SnapshotsCurrent'
      BY <1>0, <2>1 DEF SnapshotsCurrent
    <2>3. OneWriter'
      BY <1>0, <2>1 DEF OneWriter
    <2> QED
      BY <2>2, <2>3
  <1>4. ASSUME NEW r \in Requests, NEW c \in Codes, Writes(r, c)
        PROVE  SnapshotsCurrent' /\ OneWriter'
    BY <1>0, <1>4 DEF Writes, WriteConflict, SnapshotsCurrent, OneWriter, data
  <1>5. ASSUME NEW r \in Requests, Logs(r)
        PROVE  SnapshotsCurrent' /\ OneWriter'
    BY <1>5 DEF Logs, txn, SnapshotsCurrent, OneWriter
  <1>6. ASSUME NEW r \in Requests, Locks(r)
        PROVE  SnapshotsCurrent' /\ OneWriter'
    <2>1. target[r] \in Codes
      BY <1>6 DEF Locks, TypeInv, Control
    <2>2. /\ UNCHANGED <<userCoupons, redemptions, snap, intent>>
          /\ \A d \in Codes \ {target[r]} : coupons'[d] = coupons[d]
          /\ \A q \in Requests : intent[q] # target[r]
      BY <1>6, <2>1 DEF Locks, SetLockedUntil, Blocked, TypeInv, TypeOK, MongoTypeOK
    <2>3. \A q \in Requests :
            /\ snap[q] = NoView => stale'[q] = {}
            /\ snap[q] # NoView => stale'[q] = stale[q] \cup {target[r]}
      BY <1>6 DEF Locks, SetLockedUntil, Published
    <2>4. SnapshotsCurrent'
      BY <2>2, <2>3 DEF SnapshotsCurrent
    <2>5. OneWriter'
      BY <1>0, <2>1, <2>2, <2>3 DEF OneWriter
    <2> QED
      BY <2>4, <2>5
  <1>7. ASSUME NEW r \in Requests, CommitAssign(r)
        PROVE  SnapshotsCurrent' /\ OneWriter'
    <2>1. target[r] \in Codes /\ intent[r] = target[r]
      BY <1>7 DEF CommitAssign, TypeInv, Control, ChecksPassed
    <2>2. Publishes(r, target[r])
      BY <1>7, <2>1 DEF CommitAssign, Publishes, TypeInv, TypeOK, MongoTypeOK
    <2> QED
      BY <2>1, <2>2, PublishesSnapshots
  <1>8. ASSUME NEW r \in Requests, CommitRedeem(r)
        PROVE  SnapshotsCurrent' /\ OneWriter'
    <2>1. target[r] \in Codes /\ intent[r] = target[r]
      BY <1>8 DEF CommitRedeem, TypeInv, Control, ChecksPassed
    <2>2. Publishes(r, target[r])
      BY <1>8, <2>1 DEF CommitRedeem, Publishes, TypeInv, TypeOK, MongoTypeOK
    <2> QED
      BY <2>1, <2>2, PublishesSnapshots
  <1> QED
    BY <1>1, <1>2, <1>3, <1>4, <1>5, <1>6, <1>7, <1>8 DEF Effect

--------------------------------------------------------------------------------
(* The checks a request has passed *)

Established == {"commitAssign", "write", "unlock", "commitRedeem", "update", "log"}

(* What ChecksPassed says of one request.                                   *)
Passed(r) ==
    LET c == target[r]
        p == <<target[r], user[r]>>
    IN /\ pc[r] \in {"commitAssign", "unlock", "commitRedeem"} => intent[r] = c
       /\ pc[r] = "commitAssign" => ~snap[r].coupons[c].isAssigned
       /\ pc[r] \in {"write", "unlock", "commitRedeem"} =>
            /\ p \in snap[r].userCoupons
            /\ snap[r].coupons[c].lockedUntil # NoDate
            /\ ~Exhausted(BookOf[c], Len(snap[r].redemptions[p]))
       /\ pc[r] \in {"update", "log"} => p \in userCoupons

Still(r) == /\ pc'[r] = pc[r] \/ pc'[r] \notin Established
            /\ pc[r] # "idle" \/ pc'[r] \notin Established
            /\ pc'[r] \in Established => /\ snap'[r] = snap[r] /\ intent'[r] = intent[r]
                                         /\ user'[r] = user[r] /\ target'[r] = target[r]

LEMMA StillPassed ==
    ASSUME NEW r \in Requests, Passed(r), Still(r), userCoupons \subseteq userCoupons'
    PROVE  Passed(r)'
  BY DEF Passed, Still, Established

LEMMA AbortPassed ==
    ASSUME TypeInv, ChecksPassed, NEW r \in Requests, NEW s, Abort(r, s)
    PROVE  ChecksPassed'
  <1>1. ASSUME NEW q \in Requests PROVE Still(q)
    BY DEF TypeInv, TypeOK, MongoTypeOK, Abort, EndTransaction, Goto, locals, Still, Established
  <1>2. userCoupons' = userCoupons
    BY DEF Abort, data
  <1>3. \A q \in Requests : Passed(q)
    BY DEF ChecksPassed, Passed
  <1>4. \A q \in Requests : Passed(q)'
    BY <1>1, <1>2, <1>3, StillPassed
  <1> QED
    BY <1>4 DEF ChecksPassed, Passed

(* The other requests, while request r alone moves.                         *)
LEMMA OthersPassed ==
    ASSUME ChecksPassed, NEW r \in Requests,
           \A q \in Requests \ {r} : Still(q),
           userCoupons \subseteq userCoupons', Passed(r)'
    PROVE  ChecksPassed'
  <1>1. \A q \in Requests : Passed(q)
    BY DEF ChecksPassed, Passed
  <1>2. \A q \in Requests : Passed(q)'
    BY <1>1, StillPassed
  <1> QED
    BY <1>2 DEF ChecksPassed, Passed

LEMMA WritePassed ==
    ASSUME TypeInv, ChecksPassed, NEW r \in Requests, NEW c \in Codes,
           NEW l \in {"commitAssign", "unlock"}, WriteCoupon(r, c, l),
           l = "commitAssign" => ~snap[r].coupons[c].isAssigned,
           l = "unlock" => pc[r] = "write" /\ c = target[r]
    PROVE  ChecksPassed'
  <1>1. CASE Abort(r, 500)
    BY <1>1, AbortPassed
  <1>2. CASE /\ intent' = [intent EXCEPT ![r] = c]
             /\ target' = [target EXCEPT ![r] = c]
             /\ Goto(r, l)
             /\ UNCHANGED <<lock, now, data, snap, stale, user, book, until, reply, locksTaken>>
    <2>1. ASSUME NEW q \in Requests \ {r} PROVE Still(q)
      BY <1>2 DEF TypeInv, TypeOK, MongoTypeOK, Goto, Still, Established
    <2>2. /\ pc'[r] = l /\ intent'[r] = c /\ target'[r] = c
          /\ UNCHANGED <<user, snap, userCoupons>>
      BY <1>2 DEF TypeInv, TypeOK, MongoTypeOK, Goto, data
    <2>3. Passed(r)
      BY DEF ChecksPassed, Passed
    <2>4. Passed(r)'
      BY <2>2, <2>3 DEF Passed
    <2> QED
      BY <2>1, <2>2, <2>4, OthersPassed
  <1> QED
    BY <1>1, <1>2 DEF WriteCoupon

(* A step that changes no snapshot, no intent and no UserCoupon.            *)
LEMMA MovePassed ==
    ASSUME TypeInv, ChecksPassed, NEW r \in Requests, NEW l, Goto(r, l), Passed(r)',
           \A q \in Requests \ {r} : user'[q] = user[q] /\ target'[q] = target[q],
           UNCHANGED <<snap, intent, userCoupons>>
    PROVE  ChecksPassed'
  <1>1. ASSUME NEW q \in Requests \ {r} PROVE Still(q)
    <2>1. pc'[q] = pc[q]
      BY DEF TypeInv, TypeOK, Goto
    <2>2. pc[q] = "idle" => pc[q] \notin Established
      BY DEF Established
    <2> QED
      BY <2>1, <2>2 DEF Still
  <1> QED
    BY <1>1, OthersPassed

LEMMA StepPassed ==
    ASSUME TypeInv, ChecksPassed, OneWriter, NEW r \in Requests, Step(r)
    PROVE  ChecksPassed'
  <1>0. Passed(r)
    BY DEF ChecksPassed, Passed
  <1>1. CASE BeginAssignRandom(r) \/ BeginAssignSpecific(r) \/ BeginRedeem(r)
    <2>1. /\ pc' = [pc EXCEPT ![r] = pc'[r]]
          /\ pc'[r] \notin Established
          /\ \A q \in Requests \ {r} : /\ snap'[q] = snap[q] /\ intent'[q] = intent[q]
                                       /\ user'[q] = user[q] /\ target'[q] = target[q]
          /\ userCoupons' = userCoupons
      BY <1>1 DEF BeginAssignRandom, BeginAssignSpecific, BeginRedeem, OpenTransaction, Goto,
                  Established, TypeInv, TypeOK, MongoTypeOK, data
    <2>2. ASSUME NEW q \in Requests \ {r} PROVE Still(q)
      BY <2>1 DEF Still, Established, TypeInv, TypeOK
    <2>3. Passed(r)'
      BY <2>1 DEF Passed, Established
    <2> QED
      BY <2>1, <2>2, <2>3, OthersPassed
  <1>2. CASE AssignRandom(r)
    <2>1. ASSUME NEW c \in Available(r), WriteCoupon(r, c, "commitAssign")
          PROVE  ChecksPassed'
      BY <2>1, WritePassed DEF Available
    <2> QED
      BY <1>2, <2>1, AbortPassed DEF AssignRandom
  <1>3. CASE AssignSpecific(r)
    <2>1. ASSUME target[r] \in Codes, ~snap[r].coupons[target[r]].isAssigned,
                 WriteCoupon(r, target[r], "commitAssign")
          PROVE  ChecksPassed'
      BY <2>1, WritePassed
    <2> QED
      BY <1>3, <2>1, AbortPassed DEF AssignSpecific
  <1>4. CASE CommitAssign(r) \/ CommitRedeem(r)
    <2>1. /\ \A q \in Requests \ {r} : /\ snap'[q] = snap[q] /\ intent'[q] = intent[q]
                                       /\ user'[q] = user[q] /\ target'[q] = target[q]
                                       /\ pc'[q] = pc[q]
          /\ pc'[r] = "done"
          /\ userCoupons \subseteq userCoupons'
      BY <1>4 DEF CommitAssign, CommitRedeem, EndTransaction, Goto,
                  TypeInv, TypeOK, MongoTypeOK, locals
    <2>2. ASSUME NEW q \in Requests \ {r} PROVE Still(q)
      BY <2>1 DEF Still, Established
    <2>3. Passed(r)'
      BY <2>1 DEF Passed
    <2> QED
      BY <2>1, <2>2, <2>3, OthersPassed
  <1>5. CASE LockSet(r) \/ LockExpire(r) \/ LockUndo(r) \/ LockCatch(r)
    <2>1. /\ pc'[r] \notin Established
          /\ \E l : Goto(r, l)
          /\ \A q \in Requests \ {r} : user'[q] = user[q] /\ target'[q] = target[q]
          /\ UNCHANGED <<snap, intent, userCoupons>>
      BY <1>5 DEF LockSet, LockExpire, LockUndo, LockCatch, Throw, Goto, Established,
                  TypeInv, TypeOK, data, txn, locals
    <2>2. Passed(r)'
      BY <2>1 DEF Passed, Established
    <2> QED
      BY <2>1, <2>2, MovePassed
  <1>6. CASE LockValidate(r)
    <2>1. /\ UNCHANGED <<snap, intent, userCoupons, user, target>>
          /\ \E l : Goto(r, l)
          /\ \/ pc'[r] \notin Established
             \/ pc'[r] = "update" /\ LockRefusal(target[r], user[r]) = 0
      BY <1>6 DEF LockValidate, Throw, Goto, Established, TypeInv, TypeOK, data, txn
    <2>2. Passed(r)'
      BY <2>1 DEF Passed, Established, LockRefusal
    <2> QED
      BY <2>1, <2>2, MovePassed
  <1>7. CASE LockUpdate(r) \/ LockLog(r)
    <2>1. /\ UNCHANGED <<snap, intent, userCoupons, user, target>>
          /\ \E l : Goto(r, l)
          /\ pc'[r] \notin Established \/ (pc[r] = "update" /\ pc'[r] = "log")
      BY <1>7 DEF LockUpdate, LockLog, Throw, Goto, Established, TypeInv, TypeOK, data, txn, locals
    <2>2. Passed(r)'
      BY <1>0, <2>1 DEF Passed, Established
    <2> QED
      BY <2>1, <2>2, MovePassed
  <1>8. CASE Redeem(r)
    <2> PICK o \in GetAnswers(target[r]) :
          \/ RedeemRefusal(r, o) # 0 /\ Abort(r, RedeemRefusal(r, o))
          \/ /\ RedeemRefusal(r, o) = 0 /\ Goto(r, "write")
             /\ UNCHANGED <<lock, now, data, txn, locals, reply, locksTaken>>
      BY <1>8 DEF Redeem
    <2>1. CASE Abort(r, RedeemRefusal(r, o))
      BY <2>1, AbortPassed
    <2>2. CASE /\ RedeemRefusal(r, o) = 0 /\ Goto(r, "write")
               /\ UNCHANGED <<lock, now, data, txn, locals, reply, locksTaken>>
      <3>1. /\ UNCHANGED <<snap, intent, userCoupons, user, target>>
            /\ pc'[r] = "write"
        BY <2>2 DEF Goto, TypeInv, TypeOK, data, txn, locals
      <3>2. /\ <<target[r], user[r]>> \in snap[r].userCoupons
            /\ ~(snap[r].coupons[target[r]].lockedUntil <= now)
            /\ ~Exhausted(BookOf[target[r]], Len(snap[r].redemptions[<<target[r], user[r]>>]))
        BY <2>2 DEF RedeemRefusal
      <3>3. NoDate <= now
        BY DEF TypeInv, TypeOK, RedisTypeOK, NoDate
      <3>4. Passed(r)'
        BY <3>1, <3>2, <3>3 DEF Passed
      <3> QED
        BY <2>2, <3>1, <3>4, MovePassed
    <2> QED
      BY <2>1, <2>2
  <1>9. CASE RedeemWrite(r)
    BY <1>9, WritePassed DEF RedeemWrite, TypeInv, Control
  <1>10. CASE RedeemUnlock(r)
    <2>1. /\ UNCHANGED <<snap, intent, userCoupons, user, target>>
          /\ Goto(r, "commitRedeem") /\ pc[r] = "unlock" /\ pc'[r] = "commitRedeem"
      BY <1>10 DEF RedeemUnlock, Goto, TypeInv, TypeOK, data, txn, locals
    <2>2. Passed(r)'
      BY <1>0, <2>1 DEF Passed
    <2> QED
      BY <2>1, <2>2, MovePassed
  <1> QED
    BY <1>1, <1>2, <1>3, <1>4, <1>5, <1>6, <1>7, <1>8, <1>9, <1>10 DEF Step

LEMMA NextPassed ==
    ASSUME TypeInv, ChecksPassed, OneWriter, [Next]_vars
    PROVE  ChecksPassed'
  <1>0. \A r \in Requests : Passed(r)
    BY DEF ChecksPassed, Passed
  <1>1. CASE \E r \in Requests : TransactionFails(r)
    BY <1>1, AbortPassed DEF TransactionFails
  <1>2. ASSUME NEW r \in Requests, Reap(r)
        PROVE  ChecksPassed'
    <2>1. ASSUME NEW q \in Requests PROVE Still(q)
      BY <1>2 DEF Reap, EndTransaction, locals, Still, Established, TypeInv, TypeOK, MongoTypeOK
    <2>2. userCoupons' = userCoupons
      BY <1>2 DEF Reap, data
    <2>3. \A q \in Requests : Passed(q)'
      BY <1>0, <2>1, <2>2, StillPassed
    <2> QED
      BY <2>3 DEF ChecksPassed, Passed
  <1>3. CASE Crash \/ Tick \/ UNCHANGED vars
    <2>1. ASSUME NEW q \in Requests PROVE Still(q)
      BY <1>3 DEF Crash, Tick, vars, data, txn, locals, Still, Established, Ended, TypeInv, TypeOK
    <2>2. userCoupons' = userCoupons
      BY <1>3 DEF Crash, Tick, vars, data
    <2>3. \A q \in Requests : Passed(q)'
      BY <1>0, <2>1, <2>2, StillPassed
    <2> QED
      BY <2>3 DEF ChecksPassed, Passed
  <1> QED
    BY <1>1, <1>2, <1>3, StepPassed DEF Next

--------------------------------------------------------------------------------
(* The coupon, its UserCoupon and the audit trail *)

(* When r is about to commit, its coupon has not changed since it read it.  *)
LEMMA AboutToCommit ==
    ASSUME TypeInv, SnapshotsCurrent, OneWriter, ChecksPassed,
           NEW r \in Requests, pc[r] \in {"commitAssign", "commitRedeem"}
    PROVE  /\ target[r] \in Codes /\ user[r] \in Users /\ snap[r] # NoView
           /\ snap[r].coupons[target[r]] = coupons[target[r]]
           /\ <<target[r], user[r]>> \in snap[r].userCoupons
                <=> <<target[r], user[r]>> \in userCoupons
           /\ snap[r].redemptions[<<target[r], user[r]>>]
                = redemptions[<<target[r], user[r]>>]
  <1>1. target[r] \in Codes /\ user[r] \in Users /\ snap[r] # NoView
    BY DEF TypeInv, Control, InTransaction
  <1>2. target[r] \notin stale[r]
    BY DEF OneWriter, ChecksPassed
  <1> QED
    BY <1>1, <1>2 DEF SnapshotsCurrent

LEMMA OwnerStep ==
    ASSUME TypeInv, SnapshotsCurrent, OneWriter, ChecksPassed, OneOwner, Effect
    PROVE  OneOwner'
  <1>0. coupons \in [Codes -> CouponDocument] /\ userCoupons \subseteq Codes \X Users
    BY DEF TypeInv, TypeOK, MongoTypeOK
  <1>1. ASSUME UNCHANGED <<userCoupons, transactions>>,
               \A c \in Codes : coupons'[c].isAssigned = coupons[c].isAssigned
        PROVE  OneOwner'
    BY <1>1 DEF OneOwner, Assigns
  <1>2. CASE Quiet
    BY <1>1, <1>2 DEF Quiet, data
  <1>3. ASSUME NEW r \in Requests,
               Opens(r) \/ Ends(r) \/ \E c \in Codes : Writes(r, c)
        PROVE  OneOwner'
    BY <1>1, <1>3 DEF Opens, Ends, Writes, data
  <1>4. ASSUME NEW r \in Requests, Locks(r)
        PROVE  OneOwner'
    BY <1>0, <1>1, <1>4 DEF Locks, SetLockedUntil, CouponDocument
  <1>5. ASSUME NEW r \in Requests, Logs(r)
        PROVE  OneOwner'
    <2>1. UNCHANGED <<coupons, userCoupons>>
      BY <1>5 DEF Logs
    <2>2. Assigns' = Assigns
      BY <1>5 DEF Logs, Record, Assigns
    <2> QED
      BY <2>1, <2>2 DEF OneOwner
  <1>6. ASSUME NEW r \in Requests, CommitRedeem(r)
        PROVE  OneOwner'
    <2>1. UNCHANGED userCoupons
      BY <1>6 DEF CommitRedeem
    <2>2. Assigns' = Assigns
      BY <1>6 DEF CommitRedeem, Record, Assigns
    <2>3. \A c \in Codes : coupons'[c].isAssigned = coupons[c].isAssigned
      BY <1>0, <1>6 DEF CommitRedeem, CouponDocument
    <2> QED
      BY <2>1, <2>2, <2>3 DEF OneOwner
  <1>7. ASSUME NEW r \in Requests, CommitAssign(r)
        PROVE  OneOwner'
    <2> DEFINE c == target[r]
               u == user[r]
               t == [id |-> r, action |-> "assign", user |-> u, code |-> c]
    <2>1. /\ c \in Codes /\ u \in Users
          /\ snap[r].coupons[c] = coupons[c] /\ ~snap[r].coupons[c].isAssigned
      BY <1>7, AboutToCommit DEF CommitAssign, ChecksPassed
    <2>2. \A p \in userCoupons : p[1] # c
      BY <2>1 DEF OneOwner
    <2>3. userCoupons' = userCoupons \cup {<<c, u>>}
      BY <1>7 DEF CommitAssign
    <2>4. Assigns' = Assigns \cup {t}
      BY <1>7 DEF CommitAssign, Record, Assigns
    <2>5. /\ coupons'[c].isAssigned
          /\ \A d \in Codes \ {c} : coupons'[d] = coupons[d]
      BY <1>0, <1>7, <2>1 DEF CommitAssign, CouponDocument
    <2>6. \A p, q \in userCoupons' : p[1] = q[1] => p = q
      BY <2>2, <2>3 DEF OneOwner
    <2>7. \A d \in Codes : coupons'[d].isAssigned <=> \E p \in userCoupons' : p[1] = d
      <3>1. <<c, u>> \in userCoupons' /\ <<c, u>>[1] = c
        BY <2>3
      <3>2. ASSUME NEW d \in Codes \ {c}
            PROVE  (\E p \in userCoupons' : p[1] = d) <=> (\E p \in userCoupons : p[1] = d)
        BY <2>3, <3>1
      <3> QED
        BY <2>5, <3>1, <3>2 DEF OneOwner
    <2>8. ASSUME NEW s \in Assigns
          PROVE  s.code # c
      <3>1. <<s.code, s.user>> \in userCoupons
        BY DEF OneOwner
      <3> QED
        BY <2>2, <3>1
    <2>9. \A s, v \in Assigns' : s.code = v.code => s = v
      BY <2>4, <2>8 DEF OneOwner
    <2>10. userCoupons' = {<<s.code, s.user>> : s \in Assigns'}
      <3>1. userCoupons = {<<s.code, s.user>> : s \in Assigns}
        BY DEF OneOwner
      <3>2. t.code = c /\ t.user = u
        OBVIOUS
      <3> HIDE DEF t
      <3> QED
        BY <2>3, <2>4, <3>1, <3>2
    <2> QED
      BY <2>6, <2>7, <2>9, <2>10 DEF OneOwner
  <1> QED
    BY <1>2, <1>3, <1>4, <1>5, <1>6, <1>7 DEF Effect

--------------------------------------------------------------------------------
(* Redemptions *)

(* Appending adds one entry, the last.                                      *)
LEMMA AppendLength ==
    ASSUME NEW s \in Seq(Requests), NEW e \in Requests
    PROVE  /\ Len(s) \in Nat
           /\ Len(Append(s, e)) = Len(s) + 1
           /\ Append(s, e) # <<>>
  <1>1. Len(s) \in Nat /\ Len(Append(s, e)) = Len(s) + 1
    OBVIOUS
  <1>2. Len(<<>>) = 0
    OBVIOUS
  <1> QED
    BY <1>1, <1>2

LEMMA AppendEntries ==
    ASSUME NEW s \in Seq(Requests), NEW e \in Requests, NEW x \in Requests
    PROVE  Has(Append(s, e), x) <=> Has(s, x) \/ x = e
  <1> DEFINE t == Append(s, e)
  <1>1. Len(s) \in Nat
    OBVIOUS
  <1>2. DOMAIN s = 1 .. Len(s) /\ DOMAIN t = 1 .. (Len(s) + 1)
    OBVIOUS
  <1>3. \A i \in 1 .. Len(s) : t[i] = s[i]
    OBVIOUS
  <1>4. t[Len(s) + 1] = e
    OBVIOUS
  <1> HIDE DEF t
  <1>5. Has(t, x) <=> Has(s, x) \/ x = e
    BY <1>1, <1>2, <1>3, <1>4 DEF Has
  <1> QED
    BY <1>5 DEF t

(* The commit of a redemption, in terms of the documents it finds.          *)
LEMMA RedeemFinds ==
    ASSUME IInv, NEW r \in Requests, CommitRedeem(r)
    PROVE  LET c == target[r]
               p == <<target[r], user[r]>>
           IN /\ c \in Codes /\ user[r] \in Users /\ p \in userCoupons
              /\ ~Exhausted(BookOf[c], Len(redemptions[p]))
              /\ coupons[c].lockedUntil # NoDate
              /\ coupons'[c].redemptionCount = coupons[c].redemptionCount + 1
              /\ coupons'[c].isRedeemed /\ coupons'[c].lockedUntil = NoDate
              /\ coupons'[c].isAssigned = coupons[c].isAssigned
              /\ \A d \in Codes \ {c} : coupons'[d] = coupons[d]
              /\ redemptions' = [redemptions EXCEPT ![p] = Append(@, r)]
              /\ transactions' = transactions \cup
                   {[id |-> r, action |-> "redeem", user |-> user[r], code |-> c]}
              /\ UNCHANGED <<userCoupons, locksTaken>>
  <1>1. /\ target[r] \in Codes /\ user[r] \in Users
        /\ snap[r].coupons[target[r]] = coupons[target[r]]
        /\ <<target[r], user[r]>> \in snap[r].userCoupons
             <=> <<target[r], user[r]>> \in userCoupons
        /\ snap[r].redemptions[<<target[r], user[r]>>] = redemptions[<<target[r], user[r]>>]
    BY AboutToCommit DEF IInv, TypeInv, CommitRedeem
  <1>2. /\ <<target[r], user[r]>> \in snap[r].userCoupons
        /\ snap[r].coupons[target[r]].lockedUntil # NoDate
        /\ ~Exhausted(BookOf[target[r]], Len(snap[r].redemptions[<<target[r], user[r]>>]))
    BY DEF IInv, ChecksPassed, CommitRedeem
  <1>3. coupons \in [Codes -> CouponDocument]
    BY DEF IInv, TypeOK, MongoTypeOK
  <1>4. coupons' = [coupons EXCEPT ![target[r]] =
                      [@ EXCEPT !.isRedeemed = TRUE,
                                !.redemptionCount = snap[r].coupons[target[r]].redemptionCount + 1,
                                !.lockedUntil = NoDate]]
    BY DEF CommitRedeem
  <1>5. /\ coupons'[target[r]].redemptionCount = coupons[target[r]].redemptionCount + 1
        /\ coupons'[target[r]].isRedeemed /\ coupons'[target[r]].lockedUntil = NoDate
        /\ coupons'[target[r]].isAssigned = coupons[target[r]].isAssigned
        /\ \A d \in Codes \ {target[r]} : coupons'[d] = coupons[d]
    BY <1>1, <1>3, <1>4 DEF CouponDocument
  <1> QED
    BY <1>1, <1>2, <1>5 DEF CommitRedeem, Record

LEMMA AgreeStep ==
    ASSUME IInv, Effect
    PROVE  RedemptionsAgree'
  <1>0. /\ coupons \in [Codes -> CouponDocument] /\ userCoupons \subseteq Codes \X Users
        /\ redemptions \in [Codes \X Users -> Seq(Requests)]
    BY DEF IInv, TypeOK, MongoTypeOK
  <1>a. \A p \in userCoupons :
           /\ coupons[p[1]].redemptionCount = Len(redemptions[p])
           /\ coupons[p[1]].isRedeemed <=> redemptions[p] # <<>>
    BY DEF IInv, RedemptionsAgree
  <1>b. \A c \in Codes : ~coupons[c].isAssigned =>
           coupons[c].redemptionCount = 0 /\ ~coupons[c].isRedeemed
    BY DEF IInv, RedemptionsAgree
  <1>c. \A c \in Codes, u \in Users :
           <<c, u>> \notin userCoupons => redemptions[<<c, u>>] = <<>>
    BY DEF IInv, RedemptionsAgree
  <1>d. \A r \in Requests, c \in Codes, u \in Users :
           [id |-> r, action |-> "redeem", user |-> u, code |-> c] \in transactions
             <=> Has(redemptions[<<c, u>>], r)
    BY DEF IInv, RedemptionsAgree
  <1>1. ASSUME UNCHANGED <<userCoupons, redemptions>>,
               \A r \in Requests, c \in Codes, u \in Users :
                  [id |-> r, action |-> "redeem", user |-> u, code |-> c] \in transactions'
                  <=> [id |-> r, action |-> "redeem", user |-> u, code |-> c] \in transactions,
               \A c \in Codes : /\ coupons'[c].isAssigned = coupons[c].isAssigned
                                /\ coupons'[c].redemptionCount = coupons[c].redemptionCount
                                /\ coupons'[c].isRedeemed = coupons[c].isRedeemed
        PROVE  RedemptionsAgree'
    <2>1. \A p \in userCoupons' : p[1] \in Codes
      BY <1>0, <1>1
    <2>2. \A p \in userCoupons' :
            /\ coupons'[p[1]].redemptionCount = Len(redemptions'[p])
            /\ coupons'[p[1]].isRedeemed <=> redemptions'[p] # <<>>
      BY <1>1, <1>a, <2>1
    <2>3. \A c \in Codes : ~coupons'[c].isAssigned =>
            coupons'[c].redemptionCount = 0 /\ ~coupons'[c].isRedeemed
      BY <1>1, <1>b
    <2>4. ASSUME NEW r \in Requests, NEW c \in Codes, NEW u \in Users
          PROVE  [id |-> r, action |-> "redeem", user |-> u, code |-> c] \in transactions'
                 <=> Has(redemptions'[<<c, u>>], r)
      <3>1. redemptions'[<<c, u>>] = redemptions[<<c, u>>]
        BY <1>1
      <3> QED
        BY <1>1, <1>d, <3>1
    <2> QED
      BY <1>1, <1>c, <2>2, <2>3, <2>4 DEF RedemptionsAgree
  <1>2. CASE Quiet
    BY <1>1, <1>2 DEF Quiet, data
  <1>3. ASSUME NEW r \in Requests,
               Opens(r) \/ Ends(r) \/ \E c \in Codes : Writes(r, c)
        PROVE  RedemptionsAgree'
    BY <1>1, <1>3 DEF Opens, Ends, Writes, data
  <1>4. ASSUME NEW r \in Requests, Locks(r)
        PROVE  RedemptionsAgree'
    BY <1>0, <1>1, <1>4 DEF Locks, SetLockedUntil, CouponDocument
  <1>5. ASSUME NEW r \in Requests, Logs(r)
        PROVE  RedemptionsAgree'
    BY <1>1, <1>5 DEF Logs, Record
  <1>6. ASSUME NEW r \in Requests, CommitAssign(r)
        PROVE  RedemptionsAgree'
    <2> DEFINE c == target[r]
               p == <<target[r], user[r]>>
    <2>1. /\ c \in Codes /\ user[r] \in Users
          /\ snap[r].coupons[c] = coupons[c] /\ ~snap[r].coupons[c].isAssigned
      BY <1>6, AboutToCommit DEF CommitAssign, IInv, TypeInv, ChecksPassed
    <2>2. p \notin userCoupons
      BY <2>1 DEF IInv, OneOwner
    <2>3. /\ UNCHANGED redemptions /\ userCoupons' = userCoupons \cup {p}
          /\ coupons'[c].redemptionCount = coupons[c].redemptionCount
          /\ coupons'[c].isRedeemed = coupons[c].isRedeemed
          /\ coupons'[c].isAssigned
          /\ \A d \in Codes \ {c} : coupons'[d] = coupons[d]
      BY <1>0, <1>6, <2>1 DEF CommitAssign, CouponDocument
    <2>4. /\ redemptions[p] = <<>> /\ Len(redemptions[p]) = 0
          /\ coupons[c].redemptionCount = 0 /\ ~coupons[c].isRedeemed
      <3>1. redemptions[p] = <<>>
        BY <1>c, <2>1, <2>2
      <3> QED
        BY <1>b, <2>1, <3>1
    <2>5. ASSUME NEW q \in userCoupons'
          PROVE  /\ coupons'[q[1]].redemptionCount = Len(redemptions'[q])
                 /\ coupons'[q[1]].isRedeemed <=> redemptions'[q] # <<>>
      <3>1. CASE q = p
        BY <2>3, <2>4, <3>1
      <3>2. CASE q # p
        <4>1. q \in userCoupons /\ q[1] \in Codes
          BY <1>0, <2>3, <3>2
        <4>2. q[1] # c
          BY <2>1, <4>1 DEF IInv, OneOwner
        <4> QED
          BY <1>a, <2>3, <4>1, <4>2
      <3> QED
        BY <3>1, <3>2
    <2>6. \A s \in Requests, d \in Codes, u \in Users :
            [id |-> s, action |-> "redeem", user |-> u, code |-> d] \in transactions'
            <=> [id |-> s, action |-> "redeem", user |-> u, code |-> d] \in transactions
      BY <1>6 DEF CommitAssign, Record
    <2>7. \A d \in Codes : ~coupons'[d].isAssigned =>
            coupons'[d].redemptionCount = 0 /\ ~coupons'[d].isRedeemed
      BY <1>b, <2>3
    <2>8. \A d \in Codes, u \in Users : <<d, u>> \notin userCoupons' => redemptions'[<<d, u>>] = <<>>
      BY <1>c, <2>3
    <2> QED
      BY <1>d, <2>3, <2>5, <2>6, <2>7, <2>8 DEF RedemptionsAgree
  <1>7. ASSUME NEW r \in Requests, CommitRedeem(r)
        PROVE  RedemptionsAgree'
    <2> DEFINE c == target[r]
               p == <<target[r], user[r]>>
    <2>1. /\ c \in Codes /\ user[r] \in Users /\ p \in userCoupons
          /\ coupons'[c].redemptionCount = coupons[c].redemptionCount + 1
          /\ coupons'[c].isRedeemed
          /\ coupons'[c].isAssigned = coupons[c].isAssigned
          /\ \A d \in Codes \ {c} : coupons'[d] = coupons[d]
          /\ redemptions' = [redemptions EXCEPT ![p] = Append(@, r)]
          /\ transactions' = transactions \cup
               {[id |-> r, action |-> "redeem", user |-> user[r], code |-> c]}
          /\ userCoupons' = userCoupons
      BY <1>7, RedeemFinds
    <2>2. /\ redemptions'[p] = Append(redemptions[p], r)
          /\ redemptions[p] \in Seq(Requests)
          /\ \A q \in (Codes \X Users) \ {p} : redemptions'[q] = redemptions[q]
      BY <1>0, <2>1
    <2>3. Len(redemptions'[p]) = Len(redemptions[p]) + 1 /\ redemptions'[p] # <<>>
      BY <2>2, AppendLength
    <2>4. ASSUME NEW q \in userCoupons'
          PROVE  /\ coupons'[q[1]].redemptionCount = Len(redemptions'[q])
                 /\ coupons'[q[1]].isRedeemed <=> redemptions'[q] # <<>>
      <3>1. CASE q = p
        BY <1>a, <2>1, <2>3, <3>1
      <3>2. CASE q # p
        <4>1. q \in userCoupons /\ q[1] \in Codes /\ q \in Codes \X Users
          BY <1>0, <2>1
        <4>2. q[1] # c
          BY <2>1, <3>2, <4>1 DEF IInv, OneOwner
        <4> QED
          BY <1>a, <2>1, <2>2, <3>2, <4>1, <4>2
      <3> QED
        BY <3>1, <3>2
    <2>5. coupons[c].isAssigned
      BY <2>1 DEF IInv, OneOwner
    <2>6. \A d \in Codes : ~coupons'[d].isAssigned =>
            coupons'[d].redemptionCount = 0 /\ ~coupons'[d].isRedeemed
      BY <1>b, <2>1, <2>5
    <2>7. \A d \in Codes, u \in Users : <<d, u>> \notin userCoupons' => redemptions'[<<d, u>>] = <<>>
      <3>1. \A d \in Codes, u \in Users : <<d, u>> \notin userCoupons' =>
              <<d, u>> # p /\ <<d, u>> \in Codes \X Users
        BY <2>1
      <3> QED
        BY <1>c, <2>1, <2>2, <3>1
    <2>8. ASSUME NEW s \in Requests, NEW d \in Codes, NEW u \in Users
          PROVE  [id |-> s, action |-> "redeem", user |-> u, code |-> d] \in transactions'
                 <=> Has(redemptions'[<<d, u>>], s)
      <3>1. [id |-> s, action |-> "redeem", user |-> u, code |-> d] \in transactions
            <=> Has(redemptions[<<d, u>>], s)
        BY <1>d
      <3>2. CASE <<d, u>> = p
        <4>1. Has(redemptions'[p], s) <=> Has(redemptions[p], s) \/ s = r
          BY <2>2, AppendEntries
        <4>2. d = c /\ u = user[r]
          BY <3>2
        <4> QED
          BY <2>1, <3>1, <3>2, <4>1, <4>2
      <3>3. CASE <<d, u>> # p
        <4>1. redemptions'[<<d, u>>] = redemptions[<<d, u>>]
          BY <2>2, <3>3
        <4>2. [id |-> s, action |-> "redeem", user |-> u, code |-> d]
                # [id |-> r, action |-> "redeem", user |-> user[r], code |-> c]
          BY <3>3
        <4> QED
          BY <2>1, <3>1, <4>1, <4>2
      <3> QED
        BY <3>2, <3>3
    <2> QED
      BY <2>4, <2>6, <2>7, <2>8 DEF RedemptionsAgree
  <1> QED
    BY <1>2, <1>3, <1>4, <1>5, <1>6, <1>7 DEF Effect

LEMMA LimitStep ==
    ASSUME IInv, Effect
    PROVE  RedemptionLimit'
  <1>0. redemptions \in [Codes \X Users -> Seq(Requests)] /\ RedemptionLimit
    BY DEF IInv, TypeOK, MongoTypeOK
  <1>1. CASE UNCHANGED redemptions
    BY <1>0, <1>1 DEF RedemptionLimit
  <1>2. ASSUME NEW r \in Requests, CommitRedeem(r)
        PROVE  RedemptionLimit'
    <2> DEFINE c == target[r]
               p == <<target[r], user[r]>>
    <2>1. /\ c \in Codes /\ user[r] \in Users /\ p \in Codes \X Users
          /\ ~Exhausted(BookOf[c], Len(redemptions[p]))
          /\ redemptions' = [redemptions EXCEPT ![p] = Append(@, r)]
      BY <1>2, RedeemFinds
    <2>2. /\ redemptions'[p] = Append(redemptions[p], r)
          /\ redemptions[p] \in Seq(Requests)
          /\ \A q \in (Codes \X Users) \ {p} : redemptions'[q] = redemptions[q]
      BY <1>0, <2>1
    <2>3. Len(redemptions'[p]) = Len(redemptions[p]) + 1 /\ Len(redemptions[p]) \in Nat
      BY <2>2, AppendLength
    <2>4. /\ Book[BookOf[c]].maxRedemptionsPerUser \in Nat
          /\ ~Book[BookOf[c]].allowMultipleRedemptions => Len(redemptions'[p]) <= 1
          /\ Book[BookOf[c]].maxRedemptionsPerUser # 0
               => Len(redemptions'[p]) <= Book[BookOf[c]].maxRedemptionsPerUser
      <3>1. Book[BookOf[c]].maxRedemptionsPerUser \in Nat
        BY <2>1 DEF BookDocument
      <3> QED
        BY <2>1, <2>3, <3>1 DEF Exhausted
    <2>5. ASSUME NEW d \in Codes, NEW u \in Users
          PROVE  /\ ~Book[BookOf[d]].allowMultipleRedemptions => Len(redemptions'[<<d, u>>]) <= 1
                 /\ Book[BookOf[d]].maxRedemptionsPerUser # 0
                      => Len(redemptions'[<<d, u>>]) <= Book[BookOf[d]].maxRedemptionsPerUser
      <3>1. CASE <<d, u>> = p
        <4>1. d = c
          BY <3>1
        <4> QED
          BY <2>4, <3>1, <4>1
      <3>2. CASE <<d, u>> # p
        <4>1. redemptions'[<<d, u>>] = redemptions[<<d, u>>]
          BY <2>2, <3>2
        <4> QED
          BY <1>0, <4>1 DEF RedemptionLimit
      <3> QED
        BY <3>1, <3>2
    <2> QED
      BY <2>5 DEF RedemptionLimit
  <1> QED
    BY <1>1, <1>2 DEF Effect, Quiet, Opens, Ends, Locks, Logs, Writes, CommitAssign, data

(* What OneRedemptionPerLock weighs against the locks taken.                *)
Weight(d) == d.redemptionCount + (IF d.lockedUntil # NoDate THEN 1 ELSE 0)

LEMMA PerLockStep ==
    ASSUME IInv, Effect
    PROVE  OneRedemptionPerLock'
  <1>0. /\ coupons \in [Codes -> CouponDocument] /\ locksTaken \in [Codes -> Nat]
        /\ \A c \in Codes : Weight(coupons[c]) <= locksTaken[c]
        /\ \A c \in Codes : coupons[c].redemptionCount \in Nat
    BY DEF IInv, TypeOK, MongoTypeOK, OneRedemptionPerLock, Weight, CouponDocument
  <1>1. ASSUME \A c \in Codes : Weight(coupons'[c]) <= locksTaken'[c]
        PROVE  OneRedemptionPerLock'
    BY <1>1 DEF OneRedemptionPerLock, Weight
  <1>2. CASE UNCHANGED <<coupons, locksTaken>>
    BY <1>0, <1>1, <1>2
  <1>3. ASSUME NEW r \in Requests, Locks(r)
        PROVE  OneRedemptionPerLock'
    <2>1. target[r] \in Codes
      BY <1>3 DEF Locks, IInv, Control
    <2>2. /\ coupons'[target[r]].redemptionCount = coupons[target[r]].redemptionCount
          /\ locksTaken'[target[r]] = locksTaken[target[r]] + 1
          /\ \A c \in Codes \ {target[r]} :
               coupons'[c] = coupons[c] /\ locksTaken'[c] = locksTaken[c]
      BY <1>0, <1>3, <2>1 DEF Locks, SetLockedUntil, CouponDocument
    <2>3. Weight(coupons'[target[r]]) <= locksTaken'[target[r]]
      BY <1>0, <2>1, <2>2 DEF Weight
    <2> QED
      BY <1>0, <1>1, <2>2, <2>3
  <1>4. ASSUME NEW r \in Requests, CommitAssign(r)
        PROVE  OneRedemptionPerLock'
    <2>1. target[r] \in Codes
      BY <1>4 DEF CommitAssign, IInv, Control
    <2>2. /\ coupons'[target[r]].redemptionCount = coupons[target[r]].redemptionCount
          /\ coupons'[target[r]].lockedUntil = coupons[target[r]].lockedUntil
          /\ \A c \in Codes \ {target[r]} : coupons'[c] = coupons[c]
          /\ locksTaken' = locksTaken
      BY <1>0, <1>4, <2>1 DEF CommitAssign, CouponDocument
    <2>3. Weight(coupons'[target[r]]) = Weight(coupons[target[r]])
      BY <2>2 DEF Weight
    <2> QED
      BY <1>0, <1>1, <2>1, <2>2, <2>3
  <1>5. ASSUME NEW r \in Requests, CommitRedeem(r)
        PROVE  OneRedemptionPerLock'
    <2>1. /\ target[r] \in Codes
          /\ coupons[target[r]].lockedUntil # NoDate
          /\ coupons'[target[r]].redemptionCount = coupons[target[r]].redemptionCount + 1
          /\ coupons'[target[r]].lockedUntil = NoDate
          /\ \A d \in Codes \ {target[r]} : coupons'[d] = coupons[d]
          /\ locksTaken' = locksTaken
      BY <1>5, RedeemFinds
    <2>2. Weight(coupons'[target[r]]) = Weight(coupons[target[r]])
      BY <1>0, <2>1 DEF Weight
    <2> QED
      BY <1>0, <1>1, <2>1, <2>2
  <1> QED
    BY <1>2, <1>3, <1>4, <1>5 DEF Effect, Quiet, Opens, Ends, Logs, Writes, data

--------------------------------------------------------------------------------
(* The inductive invariant and the theorems *)

LEMMA InitInvariant == Init => IInv
  <1> SUFFICES ASSUME Init PROVE IInv
    OBVIOUS
  <1>1. TypeOK /\ Control
    BY InitType DEF TypeInv
  <1>2. SnapshotsCurrent /\ OneWriter /\ ChecksPassed
    BY DEF Init, MongoInit, SnapshotsCurrent, OneWriter, ChecksPassed
  <1>3. /\ userCoupons = PreAssigned /\ PreAssigned \subseteq Codes \X Users
        /\ transactions = {[id |-> Past, action |-> "assign", user |-> p[2], code |-> p[1]] :
                             p \in PreAssigned}
        /\ redemptions = [p \in Codes \X Users |-> <<>>]
        /\ locksTaken = [c \in Codes |-> 0]
        /\ \A c \in Codes : /\ coupons[c].isAssigned = \E p \in PreAssigned : p[1] = c
                            /\ ~coupons[c].isRedeemed
                            /\ coupons[c].redemptionCount = 0
                            /\ coupons[c].lockedUntil = NoDate
    BY DEF Init, MongoInit, NewCoupon
  <1>4. OneOwner
    <2>1. Assigns = transactions
      BY <1>3 DEF Assigns
    <2>2. \A t \in Assigns : <<t.code, t.user>> \in PreAssigned /\ t.id = Past
                             /\ t.action = "assign" /\ t \in Transaction
      <3>1. ASSUME NEW p \in PreAssigned
            PROVE  /\ <<p[1], p[2]>> = p
                   /\ [id |-> Past, action |-> "assign", user |-> p[2], code |-> p[1]]
                        \in Transaction
        BY DEF Transaction
      <3> QED
        BY <1>3, <2>1, <3>1
    <2>3. \A p \in PreAssigned : \E t \in Assigns : p = <<t.code, t.user>>
      <3>1. ASSUME NEW p \in PreAssigned
            PROVE  \E t \in Assigns : p = <<t.code, t.user>>
        <4>1. [id |-> Past, action |-> "assign", user |-> p[2], code |-> p[1]] \in Assigns
          BY <1>3, <2>1
        <4>2. p = <<p[1], p[2]>>
          OBVIOUS
        <4> QED
          BY <4>1, <4>2
      <3> QED
        BY <3>1
    <2>4. userCoupons = {<<t.code, t.user>> : t \in Assigns}
      BY <1>3, <2>2, <2>3
    <2>5. \A s, t \in Assigns : s.code = t.code => s = t
      <3>1. ASSUME NEW s \in Assigns, NEW t \in Assigns, s.code = t.code
            PROVE  s = t
        <4> DEFINE p == <<s.code, s.user>>
                   q == <<t.code, t.user>>
        <4>1. p \in PreAssigned /\ q \in PreAssigned /\ p[1] = q[1]
          BY <2>2, <3>1
        <4>2. p = q
          <5> HIDE DEF p, q
          <5> QED
            BY <4>1
        <4>3. s.user = t.user /\ s.id = t.id /\ s.action = t.action
          BY <2>2, <4>2
        <4>4. /\ s = [id |-> s.id, action |-> s.action, user |-> s.user, code |-> s.code]
              /\ t = [id |-> t.id, action |-> t.action, user |-> t.user, code |-> t.code]
          BY <2>2 DEF Transaction
        <4> QED
          BY <3>1, <4>3, <4>4
      <3> QED
        BY <3>1
    <2>6. \A c \in Codes : coupons[c].isAssigned <=> \E p \in userCoupons : p[1] = c
      BY <1>3
    <2>7. \A p, q \in userCoupons : p[1] = q[1] => p = q
      BY <1>3
    <2> QED
      BY <2>4, <2>5, <2>6, <2>7 DEF OneOwner
  <1>5. RedemptionsAgree
    <2>1. \A c \in Codes, u \in Users : redemptions[<<c, u>>] = <<>>
      BY <1>3
    <2>2. \A r \in Requests, c \in Codes, u \in Users :
            /\ ~Has(redemptions[<<c, u>>], r)
            /\ [id |-> r, action |-> "redeem", user |-> u, code |-> c] \notin transactions
      <3>1. \A t \in transactions : t.action = "assign"
        BY <1>3
      <3>2. ASSUME NEW r \in Requests, NEW c \in Codes, NEW u \in Users
            PROVE  [id |-> r, action |-> "redeem", user |-> u, code |-> c] \notin transactions
        <4>1. [id |-> r, action |-> "redeem", user |-> u, code |-> c].action # "assign"
          OBVIOUS
        <4> QED
          BY <3>1, <4>1
      <3>3. \A r \in Requests : ~Has(<<>>, r)
        BY DEF Has
      <3> QED
        BY <2>1, <3>2, <3>3
    <2>3. \A p \in userCoupons :
            /\ coupons[p[1]].redemptionCount = Len(redemptions[p])
            /\ coupons[p[1]].isRedeemed <=> redemptions[p] # <<>>
      <3>1. \A p \in userCoupons : p[1] \in Codes /\ redemptions[p] = <<>>
        BY <1>3
      <3>2. Len(<<>>) = 0
        OBVIOUS
      <3> QED
        BY <1>3, <3>1, <3>2
    <2>4. \A c \in Codes : coupons[c].redemptionCount = 0 /\ ~coupons[c].isRedeemed
      BY <1>3
    <2> QED
      BY <2>1, <2>2, <2>3, <2>4 DEF RedemptionsAgree
  <1>6. RedemptionLimit
    <2>1. ASSUME NEW c \in Codes, NEW u \in Users
          PROVE  LET b == Book[BookOf[c]]
                     n == Len(redemptions[<<c, u>>])
                 IN /\ ~b.allowMultipleRedemptions => n <= 1
                    /\ b.maxRedemptionsPerUser # 0 => n <= b.maxRedemptionsPerUser
      <3>1. Len(redemptions[<<c, u>>]) = 0
        BY <1>3
      <3>2. Book[BookOf[c]].maxRedemptionsPerUser \in Nat
        BY DEF BookDocument
      <3> QED
        BY <3>1, <3>2
    <2> QED
      BY <2>1 DEF RedemptionLimit
  <1>7. OneRedemptionPerLock
    <2>1. \A c \in Codes : /\ coupons[c].redemptionCount = 0
                           /\ coupons[c].lockedUntil = NoDate
                           /\ locksTaken[c] = 0
      BY <1>3
    <2> QED
      BY <2>1 DEF OneRedemptionPerLock
  <1> QED
    BY <1>1, <1>2, <1>4, <1>5, <1>6, <1>7 DEF IInv

LEMMA NextInvariant == IInv /\ [Next]_vars => IInv'
  <1> SUFFICES ASSUME IInv, [Next]_vars PROVE IInv'
    OBVIOUS
  <1>1. TypeInv /\ TypeInv'
    BY NextType DEF IInv, TypeInv
  <1>2. Effect
    BY <1>1, NextEffect
  <1>3. SnapshotsCurrent' /\ OneWriter'
    BY <1>1, <1>2, SnapshotsStep DEF IInv
  <1>4. ChecksPassed'
    BY <1>1, NextPassed DEF IInv
  <1>5. OneOwner'
    BY <1>1, <1>2, OwnerStep DEF IInv
  <1>6. RedemptionsAgree' /\ RedemptionLimit' /\ OneRedemptionPerLock'
    BY <1>2, AgreeStep, LimitStep, PerLockStep
  <1> QED
    BY <1>1, <1>3, <1>4, <1>5, <1>6 DEF IInv, TypeInv

(* IInv holds whatever requests, failures and time do: what every handler   *)
(* has checked is still true when it commits.                               *)
THEOREM Invariance == Spec => []IInv
  BY InitInvariant, NextInvariant, PTL DEF Spec

(* However many assignments race for a coupon, one user at most ever gets   *)
(* it, and the audit trail tells who.                                       *)
THEOREM CouponHasOneOwner == Spec => []OneOwner
  BY Invariance, PTL DEF IInv

(* The counter of a coupon, the redemptions of its owner and the audit      *)
(* trail never disagree: no redemption is lost or counted twice.            *)
THEOREM NoRedemptionIsLost == Spec => []RedemptionsAgree
  BY Invariance, PTL DEF IInv

(* No interleaving of locks, redemptions, crashes and Redis errors lets a   *)
(* user redeem a code more often than its book allows.                      *)
THEOREM LimitHolds == Spec => []RedemptionLimit
  BY Invariance, PTL DEF IInv

(* Each redemption uses up a lock of its own.                               *)
THEOREM LockIsUsedOnce == Spec => []OneRedemptionPerLock
  BY Invariance, PTL DEF IInv
================================================================================
