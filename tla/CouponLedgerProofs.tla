--------------------------- MODULE CouponLedgerProofs --------------------------
(***************************************************************************)
(* The coupon service implements the ledger: the refinement, step by step. *)
(* Then what it answers, and its limit of codes per user.                  *)
(***************************************************************************)
EXTENDS CouponSafetyProofs, FiniteSetTheorems

USE RulesAssumption, RedisAssumption, StoreAssumption, ServiceAssumption

(* What OwnerIn finds, when nobody shares a coupon.                         *)
LEMMA OwnerFound ==
    ASSUME NEW ucs, \A p, q \in ucs : p[1] = q[1] => p = q,
           NEW c, NEW u \in Users, <<c, u>> \in ucs
    PROVE  OwnerIn(ucs, c) = u
  <1>1. ASSUME NEW v \in Users, <<c, v>> \in ucs
        PROVE  v = u
    <2>1. <<c, v>>[1] = <<c, u>>[1]
      OBVIOUS
    <2> QED
      BY <1>1, <2>1
  <1> QED
    BY <1>1 DEF OwnerIn

LEMMA OwnerMissing ==
    ASSUME NEW ucs, NEW c, \A u \in Users : <<c, u>> \notin ucs
    PROVE  OwnerIn(ucs, c) = NoUser
  BY DEF OwnerIn

(* The owner of a coupon whose UserCoupons did not change.                  *)
LEMMA OwnerKept ==
    ASSUME NEW old, NEW new, NEW c,
           \A p, q \in old : p[1] = q[1] => p = q,
           \A p, q \in new : p[1] = q[1] => p = q,
           \A u \in Users : <<c, u>> \in new <=> <<c, u>> \in old
    PROVE  OwnerIn(new, c) = OwnerIn(old, c)
  <1>1. CASE \E u \in Users : <<c, u>> \in old
    BY <1>1, OwnerFound
  <1>2. CASE \A u \in Users : <<c, u>> \notin old
    BY <1>2, OwnerMissing
  <1> QED
    BY <1>1, <1>2

(* A ledger entry is what happens to one coupon while the others stay put.  *)
LEMMA LockEntry ==
    ASSUME NEW c \in Codes, OwnerIn(userCoupons, c) # NoUser,
           coupons'[c].lockedUntil # NoDate,
           coupons'[c].redemptionCount = coupons[c].redemptionCount,
           \A d \in Codes \ {c} : coupons'[d] = coupons[d],
           UNCHANGED userCoupons
    PROVE  Ledger!Next
  <1>1. Ledger!Lock(c)
    BY DEF Ledger!Lock
  <1> QED
    BY <1>1 DEF Ledger!Next

LEMMA RedeemEntry ==
    ASSUME NEW c \in Codes,
           coupons[c].lockedUntil # NoDate, coupons'[c].lockedUntil = NoDate,
           ~Exhausted(BookOf[c], coupons[c].redemptionCount),
           coupons'[c].redemptionCount = coupons[c].redemptionCount + 1,
           \A d \in Codes \ {c} : coupons'[d] = coupons[d],
           UNCHANGED userCoupons
    PROVE  Ledger!Next
  <1>1. Ledger!Redeem(c)
    <2> DEFINE locked == [d \in Codes |-> coupons[d].lockedUntil # NoDate]
               uses   == [d \in Codes |-> coupons[d].redemptionCount]
    <2>1. locked[c] /\ uses[c] = coupons[c].redemptionCount
      OBVIOUS
    <2>2. locked' = [locked EXCEPT ![c] = FALSE]
      OBVIOUS
    <2>3. uses' = [uses EXCEPT ![c] = @ + 1]
      OBVIOUS
    <2>4. UNCHANGED [d \in Codes |-> OwnerIn(userCoupons, d)]
      OBVIOUS
    <2> QED
      BY <2>1, <2>2, <2>3, <2>4 DEF Ledger!Redeem, Ledger!Exhausted, Exhausted
  <1> QED
    BY <1>1 DEF Ledger!Next

LEMMA AssignEntry ==
    ASSUME NEW c \in Codes, NEW u \in Users,
           OwnerIn(userCoupons, c) = NoUser, OwnerIn(userCoupons', c) = u,
           \A d \in Codes \ {c} : OwnerIn(userCoupons', d) = OwnerIn(userCoupons, d),
           \A d \in Codes : /\ coupons'[d].lockedUntil = coupons[d].lockedUntil
                            /\ coupons'[d].redemptionCount = coupons[d].redemptionCount
    PROVE  Ledger!Next
  <1>1. Ledger!Assign(c, u)
    <2> DEFINE owner == [d \in Codes |-> OwnerIn(userCoupons, d)]
    <2>1. owner[c] = NoUser
      OBVIOUS
    <2>2. owner' = [owner EXCEPT ![c] = u]
      <3>1. \A d \in Codes : OwnerIn(userCoupons', d) = [owner EXCEPT ![c] = u][d]
        OBVIOUS
      <3>2. owner' = [d \in Codes |-> [owner EXCEPT ![c] = u][d]]
        BY <3>1 DEF OwnerIn
      <3> QED
        BY <3>2
    <2>3. UNCHANGED [d \in Codes |-> coupons[d].lockedUntil # NoDate]
      OBVIOUS
    <2>4. UNCHANGED [d \in Codes |-> coupons[d].redemptionCount]
      OBVIOUS
    <2> QED
      BY <2>1, <2>2, <2>3, <2>4 DEF Ledger!Assign
  <1> QED
    BY <1>1 DEF Ledger!Next

LEMMA LedgerInit == Init => Ledger!Init
  <1> SUFFICES ASSUME Init PROVE Ledger!Init
    OBVIOUS
  <1>1. /\ userCoupons = PreAssigned
        /\ \A c \in Codes : coupons[c].redemptionCount = 0 /\ coupons[c].lockedUntil = NoDate
    BY DEF Init, MongoInit, NewCoupon
  <1> QED
    BY <1>1 DEF Ledger!Init

LEMMA LedgerStep ==
    ASSUME IInv, IInv', Effect
    PROVE  [Ledger!Next]_(Ledger!ledger)
  <1>0. /\ coupons \in [Codes -> CouponDocument] /\ userCoupons \subseteq Codes \X Users
        /\ \A p, q \in userCoupons : p[1] = q[1] => p = q
        /\ \A p, q \in userCoupons' : p[1] = q[1] => p = q
    BY DEF IInv, TypeOK, MongoTypeOK, OneOwner
  <1>1. CASE UNCHANGED <<coupons, userCoupons>>
    BY <1>1 DEF Ledger!ledger
  <1>2. ASSUME NEW r \in Requests, Locks(r)
        PROVE  Ledger!Next
    <2> DEFINE c == target[r]
    <2>1. /\ c \in Codes /\ user[r] \in Users /\ <<c, user[r]>> \in userCoupons
          /\ until[r] # NoDate
      BY <1>2 DEF Locks, IInv, Control, ChecksPassed
    <2>2. OwnerIn(userCoupons, c) # NoUser
      BY <1>0, <2>1, OwnerFound
    <2>3. /\ coupons'[c].lockedUntil = until[r]
          /\ coupons'[c].redemptionCount = coupons[c].redemptionCount
          /\ \A d \in Codes \ {c} : coupons'[d] = coupons[d]
          /\ userCoupons' = userCoupons
      BY <1>0, <1>2, <2>1 DEF Locks, SetLockedUntil, CouponDocument
    <2> HIDE DEF c
    <2> QED
      BY <2>1, <2>2, <2>3, LockEntry
  <1>3. ASSUME NEW r \in Requests, CommitAssign(r)
        PROVE  Ledger!Next
    <2> DEFINE c == target[r]
               u == user[r]
    <2>1. /\ c \in Codes /\ u \in Users
          /\ snap[r].coupons[c] = coupons[c] /\ ~snap[r].coupons[c].isAssigned
      BY <1>3, AboutToCommit DEF CommitAssign, IInv, TypeInv, ChecksPassed
    <2>2. ASSUME NEW v \in Users PROVE <<c, v>> \notin userCoupons
      <3>1. <<c, v>>[1] = c
        OBVIOUS
      <3> QED
        BY <2>1, <3>1 DEF IInv, OneOwner
    <2>3. OwnerIn(userCoupons, c) = NoUser
      BY <2>2, OwnerMissing
    <2>4. userCoupons' = userCoupons \cup {<<c, u>>}
      BY <1>3 DEF CommitAssign
    <2> HIDE DEF c, u
    <2>5. OwnerIn(userCoupons', c) = u
      <3>1. <<c, u>> \in userCoupons'
        BY <2>4
      <3> QED
        BY <1>0, <2>1, <3>1, OwnerFound
    <2>6. ASSUME NEW d \in Codes \ {c}
          PROVE  OwnerIn(userCoupons', d) = OwnerIn(userCoupons, d)
      BY <1>0, <2>4, OwnerKept
    <2>7. \A d \in Codes : /\ coupons'[d].lockedUntil = coupons[d].lockedUntil
                           /\ coupons'[d].redemptionCount = coupons[d].redemptionCount
      BY <1>0, <1>3 DEF CommitAssign, CouponDocument
    <2> QED
      BY <2>1, <2>3, <2>5, <2>6, <2>7, AssignEntry
  <1>4. ASSUME NEW r \in Requests, CommitRedeem(r)
        PROVE  Ledger!Next
    <2> DEFINE c == target[r]
               p == <<target[r], user[r]>>
    <2>1. /\ c \in Codes /\ p \in userCoupons
          /\ ~Exhausted(BookOf[c], Len(redemptions[p]))
          /\ coupons[c].lockedUntil # NoDate
          /\ coupons'[c].redemptionCount = coupons[c].redemptionCount + 1
          /\ coupons'[c].lockedUntil = NoDate
          /\ \A d \in Codes \ {c} : coupons'[d] = coupons[d]
          /\ userCoupons' = userCoupons
      BY <1>4, RedeemFinds
    <2>2. p[1] = c
      OBVIOUS
    <2> HIDE DEF c, p
    <2>3. coupons[c].redemptionCount = Len(redemptions[p])
      BY <2>1, <2>2 DEF IInv, RedemptionsAgree
    <2> QED
      BY <2>1, <2>3, RedeemEntry
  <1> QED
    BY <1>1, <1>2, <1>3, <1>4 DEF Effect, Quiet, Opens, Ends, Writes, Logs, data

(* Whatever interleaves or fails, what users see is the ledger: no coupon   *)
(* changes hands, and every redemption uses up a lock within the limits.    *)
THEOREM ServiceImplementsLedger == Spec => ImplementsLedger
  <1>1. IInv /\ [Next]_vars => [Ledger!Next]_(Ledger!ledger)
    <2> SUFFICES ASSUME IInv, [Next]_vars
                 PROVE  [Ledger!Next]_(Ledger!ledger)
      OBVIOUS
    <2>1. TypeInv
      BY DEF IInv, TypeInv
    <2> QED
      BY <2>1, NextInvariant, NextEffect, LedgerStep
  <1> QED
    BY <1>1, LedgerInit, Invariance, PTL DEF Spec, ImplementsLedger, Ledger!Spec

--------------------------------------------------------------------------------
(* What a step answers *)

(* A 201 is always kept: the record is there, and no error path answers it. *)
Honest ==
    \A r \in Requests :
        /\ pc[r] \in {"undo", "catch"} => reply[r] # 201
        /\ pc[r] = "done" /\ reply[r] = 201 => \E t \in transactions : t.id = r

(* While MongoDB does not fail, a request records what it did and answers   *)
(* 201 in one step, its last.                                               *)
Silent ==
    \A t \in transactions : t.id \in Requests => pc[t.id] = "done" /\ reply[t.id] = 201

(* The other requests, while r alone moves.                                 *)
Others(r) ==
    \A q \in Requests \ {r} :
        /\ pc'[q] = pc[q] /\ reply'[q] = reply[q] /\ snap'[q] = snap[q]
        /\ user'[q] = user[q] /\ target'[q] = target[q]

Refuses(r) ==
    /\ pc'[r] \in {"undo", "catch", "done"} => reply'[r] # 201
    /\ UNCHANGED transactions

Records(r) ==
    /\ \E a, u, c : Record(r, a, u, c)
    /\ \/ pc'[r] = "done" /\ reply'[r] = 201
       \/ "mongo" \in Faults /\ pc'[r] \in {"done", "catch"} /\ reply'[r] = 500

Answers(r) == pc[r] \notin Ended /\ Others(r) /\ (Refuses(r) \/ Records(r))

(* No refusal is a 201.                                                     *)
LEMMA Refusals ==
    /\ \A b, n, t : AssignRefusal(b, n, t) # 201
    /\ \A c, u : LockRefusal(c, u) # 201
    /\ \A r, o : RedeemRefusal(r, o) # 201
  BY DEF AssignRefusal, LockRefusal, RedeemRefusal

LEMMA AbortAnswers ==
    ASSUME TypeInv, NEW r \in Requests, NEW s, s # 201, pc[r] \notin Ended, Abort(r, s)
    PROVE  Answers(r)
  BY DEF Abort, EndTransaction, Goto, Answer, Answers, Others, Refuses,
         TypeInv, TypeOK, MongoTypeOK, data, locals

LEMMA WriteAnswers ==
    ASSUME TypeInv, NEW r \in Requests, NEW c, NEW l \in {"commitAssign", "unlock"},
           pc[r] \notin Ended, WriteCoupon(r, c, l)
    PROVE  Answers(r)
  <1>1. CASE Abort(r, 500)
    BY <1>1, AbortAnswers
  <1>2. CASE ~Abort(r, 500)
    <2>1. /\ pc'[r] = l /\ UNCHANGED transactions
          /\ \A q \in Requests \ {r} : pc'[q] = pc[q] /\ target'[q] = target[q]
          /\ UNCHANGED <<reply, snap, user>>
      BY <1>2 DEF WriteCoupon, Goto, TypeInv, TypeOK, data
    <2> QED
      BY <2>1 DEF Answers, Others, Refuses
  <1> QED
    BY <1>1, <1>2

LEMMA StepAnswers ==
    ASSUME TypeInv, Honest, NEW r \in Requests, Step(r)
    PROVE  Answers(r)
  <1>1. CASE BeginAssignRandom(r) \/ BeginAssignSpecific(r) \/ BeginRedeem(r)
    BY <1>1 DEF BeginAssignRandom, BeginAssignSpecific, BeginRedeem, OpenTransaction, Goto,
                Answers, Others, Refuses, Ended, TypeInv, TypeOK, MongoTypeOK, data
  <1>2. CASE AssignRandom(r)
    <2>1. pc[r] \notin Ended
      BY <1>2 DEF AssignRandom, Ended
    <2> QED
      BY <1>2, <2>1, AbortAnswers, WriteAnswers, Refusals DEF AssignRandom
  <1>3. CASE AssignSpecific(r)
    <2>1. pc[r] \notin Ended
      BY <1>3 DEF AssignSpecific, Ended
    <2> QED
      BY <1>3, <2>1, AbortAnswers, WriteAnswers, Refusals DEF AssignSpecific
  <1>4. CASE CommitAssign(r) \/ CommitRedeem(r)
    <2>1. /\ pc[r] \notin Ended /\ pc'[r] = "done"
          /\ reply'[r] = 201 \/ ("mongo" \in Faults /\ reply'[r] = 500)
          /\ \E a : Record(r, a, user[r], target[r])
      BY <1>4 DEF CommitAssign, CommitRedeem, CommitAnswers, Goto, Answer, Ended, TypeInv, TypeOK
    <2>2. Others(r)
      BY <1>4 DEF CommitAssign, CommitRedeem, CommitAnswers, EndTransaction, Goto, Answer, Others,
                  TypeInv, TypeOK, MongoTypeOK, locals
    <2>3. Records(r)
      BY <2>1 DEF Records
    <2> QED
      BY <2>1, <2>2, <2>3 DEF Answers
  <1>5. CASE LockSet(r)
    BY <1>5 DEF LockSet, Throw, Goto, Answer, Answers, Others, Refuses, Ended,
                TypeInv, TypeOK, data, txn
  <1>6. CASE LockExpire(r) \/ LockUpdate(r)
    BY <1>6 DEF LockExpire, LockUpdate, Throw, Goto, Answer, Answers, Others, Refuses, Ended,
                TypeInv, TypeOK, data, txn, locals
  <1>7. CASE LockValidate(r)
    BY <1>7, Refusals DEF LockValidate, Throw, Goto, Answer, Answers, Others, Refuses, Ended,
                TypeInv, TypeOK, data, txn
  <1>8. CASE LockUndo(r) \/ LockCatch(r)
    BY <1>8 DEF LockUndo, LockCatch, Goto, Answers, Others, Refuses, Ended, Honest,
                TypeInv, TypeOK, data, txn, locals
  <1>9. CASE LockLog(r)
    BY <1>9 DEF LockLog, Throw, Goto, Answer, Answers, Others, Refuses, Records, Ended,
                TypeInv, TypeOK, txn, locals
  <1>10. CASE Redeem(r)
    <2> PICK o \in GetAnswers(target[r]) :
          \/ RedeemRefusal(r, o) # 0 /\ Abort(r, RedeemRefusal(r, o))
          \/ /\ RedeemRefusal(r, o) = 0 /\ Goto(r, "write")
             /\ UNCHANGED <<lock, now, data, txn, locals, reply, locksTaken>>
      BY <1>10 DEF Redeem
    <2>1. pc[r] \notin Ended
      BY <1>10 DEF Redeem, Ended
    <2>2. CASE Abort(r, RedeemRefusal(r, o))
      BY <2>1, <2>2, AbortAnswers, Refusals
    <2>3. CASE Goto(r, "write") /\ UNCHANGED <<lock, now, data, txn, locals, reply, locksTaken>>
      BY <2>1, <2>3 DEF Goto, Answers, Others, Refuses, TypeInv, TypeOK, data, txn, locals
    <2> QED
      BY <2>2, <2>3
  <1>11. CASE RedeemWrite(r)
    BY <1>11, WriteAnswers DEF RedeemWrite, Ended
  <1>12. CASE RedeemUnlock(r)
    BY <1>12 DEF RedeemUnlock, Goto, Answers, Others, Refuses, Ended,
                 TypeInv, TypeOK, data, txn, locals
  <1> QED
    BY <1>1, <1>2, <1>3, <1>4, <1>5, <1>6, <1>7, <1>8, <1>9, <1>10, <1>11, <1>12 DEF Step

(* A step of the process or the database around the requests answers none.  *)
LEMMA QuietAnswers ==
    ASSUME TypeInv, Crash \/ Tick \/ UNCHANGED vars \/ \E q \in Requests : Reap(q)
    PROVE  /\ UNCHANGED <<transactions, reply, user, target>>
           /\ \A r \in Requests : pc'[r] = pc[r] \/ (pc[r] \notin Ended /\ pc'[r] = "dead")
           /\ \A r \in Requests : pc[r] # "dead" => snap'[r] = snap[r]
  <1>1. CASE Crash \/ Tick \/ UNCHANGED vars
    BY <1>1 DEF Crash, Tick, vars, data, txn, locals, Ended, TypeInv, TypeOK
  <1>2. ASSUME NEW q \in Requests, Reap(q)
        PROVE  /\ UNCHANGED <<transactions, reply, user, target, pc>>
               /\ \A r \in Requests : pc[r] # "dead" => snap'[r] = snap[r]
    BY <1>2 DEF Reap, EndTransaction, data, locals, TypeInv, TypeOK, MongoTypeOK
  <1> QED
    BY <1>1, <1>2

--------------------------------------------------------------------------------
(* Answers *)

LEMMA HonestStep ==
    ASSUME TypeInv, Honest, [Next]_vars
    PROVE  Honest'
  <1>1. ASSUME NEW r \in Requests, Answers(r)
        PROVE  Honest'
    <2>1. transactions \subseteq transactions'
      BY <1>1 DEF Answers, Refuses, Records, Record
    <2>2. ASSUME NEW q \in Requests \ {r}
          PROVE  /\ pc'[q] \in {"undo", "catch"} => reply'[q] # 201
                 /\ pc'[q] = "done" /\ reply'[q] = 201 => \E t \in transactions' : t.id = q
      BY <1>1, <2>1 DEF Answers, Others, Honest
    <2>3. /\ pc'[r] \in {"undo", "catch"} => reply'[r] # 201
          /\ pc'[r] = "done" /\ reply'[r] = 201 => \E t \in transactions' : t.id = r
      <3>1. CASE Refuses(r)
        BY <3>1 DEF Refuses
      <3>2. CASE Records(r)
        <4>1. PICK a, u, c : Record(r, a, u, c)
          BY <3>2 DEF Records
        <4>2. [id |-> r, action |-> a, user |-> u, code |-> c] \in transactions'
          BY <4>1 DEF Record
        <4>3. \E t \in transactions' : t.id = r
          BY <4>2
        <4> QED
          BY <3>2, <4>3 DEF Records
      <3> QED
        BY <1>1, <3>1, <3>2 DEF Answers
    <2> QED
      BY <2>2, <2>3 DEF Honest
  <1>2. CASE Crash \/ Tick \/ UNCHANGED vars \/ \E q \in Requests : Reap(q)
    BY <1>2, QuietAnswers DEF Honest
  <1>3. ASSUME NEW r \in Requests, TransactionFails(r)
        PROVE  Answers(r)
    BY <1>3, AbortAnswers DEF TransactionFails, InTransaction, Ended
  <1> QED
    BY <1>1, <1>2, <1>3, StepAnswers DEF Next

LEMMA SilentStep ==
    ASSUME TypeInv, Honest, Silent, [Next]_vars, "mongo" \notin Faults
    PROVE  Silent'
  <1>1. ASSUME NEW r \in Requests, Answers(r)
        PROVE  Silent'
    <2>1. \A t \in transactions : t.id # r
      BY <1>1 DEF Answers, Silent, Ended
    <2>2. \A t \in transactions : t.id \in Requests => pc'[t.id] = "done" /\ reply'[t.id] = 201
      BY <1>1, <2>1 DEF Answers, Others, Silent
    <2>3. CASE Refuses(r)
      BY <2>2, <2>3 DEF Refuses, Silent
    <2>4. CASE Records(r)
      BY <2>2, <2>4 DEF Records, Record, Silent
    <2> QED
      BY <1>1, <2>3, <2>4 DEF Answers
  <1>2. CASE Crash \/ Tick \/ UNCHANGED vars \/ \E q \in Requests : Reap(q)
    BY <1>2, QuietAnswers DEF Silent, Ended
  <1>3. ASSUME NEW r \in Requests
        PROVE  ~TransactionFails(r)
    BY DEF TransactionFails
  <1> QED
    BY <1>1, <1>2, <1>3, StepAnswers DEF Next

LEMMA InitAnswers == Init => Honest /\ Silent
  BY DEF Init, MongoInit, Honest, Silent

LEMMA AlwaysTyped == Spec => []TypeInv
  BY InitType, NextType, PTL DEF Spec

(* A 201 means that MongoDB has committed what was asked for, whichever     *)
(* calls of MongoDB and Redis fail and whichever processes die; only an     *)
(* error may be untrue.                                                     *)
CreatedMeansRecorded ==
    \A r \in Requests :
        pc[r] = "done" /\ reply[r] = 201 => \E t \in transactions : t.id = r

(* A 201 of an assignment, a lock or a redemption is never untrue: its      *)
(* record has been committed, for every set of failures.                    *)
THEOREM CreatedIsRecorded == Spec => []CreatedMeansRecorded
  <1>1. Honest => CreatedMeansRecorded
    BY DEF Honest, CreatedMeansRecorded
  <1> QED
    BY <1>1, AlwaysTyped, InitAnswers, HonestStep, PTL DEF Spec

(* While MongoDB does not fail, whatever Redis does and whichever processes *)
(* die: a request that answers 201 has its audit record, and one that       *)
(* answers an error has none (the catch blocks of coupon.service.ts).       *)
THEOREM AnswersAreTrue ==
    ASSUME "mongo" \notin Faults
    PROVE  Spec => []AnswersTellTheTruth
  <1>1. ASSUME Honest, Silent
        PROVE  AnswersTellTheTruth
    BY <1>1 DEF Honest, Silent, AnswersTellTheTruth
  <1>2. TypeInv /\ Honest /\ Silent /\ [Next]_vars => Honest' /\ Silent'
    BY HonestStep, SilentStep
  <1> QED
    BY <1>1, <1>2, AlwaysTyped, InitAnswers, PTL DEF Spec

--------------------------------------------------------------------------------
(* Codes per user *)

(* The user of an assignment about to commit was below the limit of the     *)
(* book in what its transaction saw.                                        *)
Within(r) ==
    LET b == BookOf[target[r]]
    IN pc[r] = "commitAssign" =>
         Book[b].maxCodesPerUser = 0 \/ Seen(r, b) < Book[b].maxCodesPerUser

Quota == \A r \in Requests : Within(r)

(* A step of r that does not bring it to its commit.                        *)
LEMMA OthersWithin ==
    ASSUME Quota, NEW r \in Requests, Others(r), Within(r)'
    PROVE  Quota'
  <1>1. ASSUME NEW q \in Requests \ {r}
        PROVE  Within(q)'
    <2>1. Within(q)
      BY DEF Quota
    <2> QED
      BY <2>1 DEF Others, Within, Seen
  <1> QED
    BY <1>1 DEF Quota

LEMMA WriteWithin ==
    ASSUME TypeInv, NEW r \in Requests, NEW c \in Codes, WriteCoupon(r, c, "commitAssign"),
           AssignRefusal(BookOf[c], Seen(r, BookOf[c]), now) = 0
    PROVE  Within(r)'
  <1>1. CASE Abort(r, 500)
    BY <1>1 DEF Abort, Goto, Within, TypeInv, TypeOK
  <1>2. CASE ~Abort(r, 500)
    <2>1. target'[r] = c /\ UNCHANGED <<snap, user>>
      BY <1>2 DEF WriteCoupon, TypeInv, TypeOK
    <2>2. Book[BookOf[c]].maxCodesPerUser \in Nat /\ Seen(r, BookOf[c]) \in Nat
      <3>1. IsFiniteSet(CodesHeld(snap[r].userCoupons, user[r], BookOf[c]))
        BY FS_Subset DEF CodesHeld
      <3> QED
        BY <3>1, FS_CardinalityType DEF Seen, BookDocument
    <2>3. \/ Book[BookOf[c]].maxCodesPerUser = 0
          \/ Seen(r, BookOf[c]) < Book[BookOf[c]].maxCodesPerUser
      BY <2>2 DEF AssignRefusal
    <2> QED
      BY <2>1, <2>3 DEF Within, Seen
  <1> QED
    BY <1>1, <1>2

LEMMA QuotaStep ==
    ASSUME TypeInv, Honest, Quota, [Next]_vars
    PROVE  Quota'
  <1>1. ASSUME NEW r \in Requests, Step(r)
        PROVE  Quota'
    <2>1. Others(r)
      BY <1>1, StepAnswers DEF Answers
    <2>2. Within(r)'
      <3>1. CASE AssignRandom(r)
        <4>1. ASSUME NEW s, Abort(r, s)
              PROVE  pc'[r] # "commitAssign"
          BY <4>1 DEF Abort, Goto, TypeInv, TypeOK
        <4>2. ASSUME NEW c \in Available(r), WriteCoupon(r, c, "commitAssign"),
                     AssignRefusal(book[r], Seen(r, book[r]), now) = 0
              PROVE  Within(r)'
          BY <4>2, WriteWithin DEF Available
        <4> QED
          BY <3>1, <4>1, <4>2 DEF AssignRandom, Within
      <3>2. CASE AssignSpecific(r)
        <4>1. ASSUME NEW s, Abort(r, s)
              PROVE  pc'[r] # "commitAssign"
          BY <4>1 DEF Abort, Goto, TypeInv, TypeOK
        <4> QED
          BY <3>2, <4>1, WriteWithin DEF AssignSpecific, Within
      <3>3. CASE ~AssignRandom(r) /\ ~AssignSpecific(r)
        <4>1. pc'[r] # "commitAssign"
          BY <1>1, <3>3
          DEF Step, BeginAssignRandom, BeginAssignSpecific, BeginRedeem, CommitAssign,
              CommitRedeem, LockSet, LockExpire, LockValidate, LockUndo, LockUpdate, LockLog,
              LockCatch, Throw, Redeem, RedeemWrite, RedeemUnlock, WriteCoupon, Abort, Goto,
              TypeInv, TypeOK
        <4> QED
          BY <4>1 DEF Within
      <3> QED
        BY <3>1, <3>2, <3>3
    <2> QED
      BY <2>1, <2>2, OthersWithin
  <1>2. ASSUME NEW r \in Requests, TransactionFails(r)
        PROVE  Quota'
    <2>1. Others(r)
      BY <1>2, AbortAnswers DEF TransactionFails, InTransaction, Ended, Answers
    <2>2. pc'[r] # "commitAssign"
      BY <1>2 DEF TransactionFails, Abort, Goto, TypeInv, TypeOK
    <2> QED
      BY <2>1, <2>2, OthersWithin DEF Within
  <1>3. CASE Crash \/ Tick \/ UNCHANGED vars \/ \E q \in Requests : Reap(q)
    <2>1. ASSUME NEW r \in Requests, pc'[r] = "commitAssign"
          PROVE  /\ pc[r] = "commitAssign" /\ snap'[r] = snap[r]
                 /\ user'[r] = user[r] /\ target'[r] = target[r]
      BY <1>3, <2>1, QuietAnswers
    <2> QED
      BY <2>1 DEF Quota, Within, Seen
  <1> QED
    BY <1>1, <1>2, <1>3 DEF Next

LEMMA InitQuota == Init => Quota
  BY DEF Init, Quota, Within

(* One code more is at most one more in number.                             *)
LEMMA OneMoreCode ==
    ASSUME NEW S \in SUBSET Codes, NEW c
    PROVE  /\ Cardinality(S) \in Nat
           /\ Cardinality(S \cup {c}) \in Nat /\ Cardinality(S \cup {c}) <= Cardinality(S) + 1
  <1>1. IsFiniteSet(S)
    BY FS_Subset
  <1>2. /\ IsFiniteSet(S \cup {c})
        /\ Cardinality(S \cup {c}) = IF c \in S THEN Cardinality(S) ELSE Cardinality(S) + 1
    BY <1>1, FS_AddElement
  <1> QED
    BY <1>1, <1>2, FS_CardinalityType

LEMMA LimitStepQuota ==
    ASSUME TypeInv, Quota, [Next]_vars, NEW u \in Users, NEW b \in Books,
           Book[b].maxCodesPerUser # 0,
           CodesHeld(userCoupons', u, b) # CodesHeld(userCoupons, u, b),
           Cardinality(CodesHeld(userCoupons', u, b)) > Book[b].maxCodesPerUser
    PROVE  \E r \in Requests :
             /\ pc[r] = "commitAssign" /\ pc'[r] = "done" /\ user[r] = u
             /\ CodesHeld(snap[r].userCoupons, u, b) # CodesHeld(userCoupons, u, b)
  <1>1. userCoupons' # userCoupons
    OBVIOUS
  <1>2. PICK r \in Requests : CommitAssign(r)
    BY <1>1, NextEffect
    DEF Effect, Quiet, Opens, Ends, Writes, Locks, Logs, CommitRedeem, data
  <1>3. /\ pc[r] = "commitAssign" /\ pc'[r] = "done" /\ target[r] \in Codes
        /\ userCoupons' = userCoupons \cup {<<target[r], user[r]>>}
    BY <1>2 DEF CommitAssign, Goto, TypeInv, TypeOK, Control
  <1>4. user[r] = u /\ BookOf[target[r]] = b
    BY <1>3 DEF CodesHeld
  <1>5. CodesHeld(userCoupons', u, b) = CodesHeld(userCoupons, u, b) \cup {target[r]}
    BY <1>3, <1>4 DEF CodesHeld
  <1>6. Cardinality(CodesHeld(snap[r].userCoupons, u, b)) < Book[b].maxCodesPerUser
    BY <1>3, <1>4 DEF Quota, Within, Seen
  <1>7. CodesHeld(snap[r].userCoupons, u, b) # CodesHeld(userCoupons, u, b)
    <2> SUFFICES ASSUME CodesHeld(snap[r].userCoupons, u, b) = CodesHeld(userCoupons, u, b)
                 PROVE  FALSE
      OBVIOUS
    <2>1. CodesHeld(userCoupons, u, b) \in SUBSET Codes
      BY DEF CodesHeld
    <2>2. Book[b].maxCodesPerUser \in Nat
      BY DEF BookDocument
    <2>3. PICK m, n, k :
            /\ m = Book[b].maxCodesPerUser /\ n = Cardinality(CodesHeld(userCoupons, u, b))
            /\ k = Cardinality(CodesHeld(userCoupons', u, b))
      OBVIOUS
    <2>4. n \in Nat /\ k \in Nat /\ k <= n + 1
      BY <1>5, <2>1, <2>3, OneMoreCode
    <2>5. n < m /\ k > m /\ m \in Nat
      BY <1>6, <2>2, <2>3
    <2> QED
      BY <2>4, <2>5
  <1> QED
    BY <1>3, <1>4, <1>7

(* No user gets more codes of a book than its maxCodesPerUser but by a      *)
(* transaction that did not see another one of theirs (the count before the *)
(* assignment in coupon.service.ts): a write skew, and nothing else.        *)
THEOREM LimitNeedsOverlap == Spec => LimitExceededOnlyByOverlap
  <1>1. TypeInv /\ Quota /\ [Next]_vars =>
          [\A u \in Users, b \in Books :
             LET held    == CodesHeld(userCoupons, u, b)
                 heldNow == CodesHeld(userCoupons', u, b)
             IN /\ Book[b].maxCodesPerUser # 0
                /\ heldNow # held
                /\ Cardinality(heldNow) > Book[b].maxCodesPerUser
                => \E r \in Requests : /\ pc[r] = "commitAssign" /\ pc'[r] = "done"
                                       /\ user[r] = u
                                       /\ CodesHeld(snap[r].userCoupons, u, b) # held]_vars
    BY LimitStepQuota
  <1> QED
    BY <1>1, AlwaysTyped, InitAnswers, InitQuota, HonestStep, QuotaStep, PTL
    DEF Spec, LimitExceededOnlyByOverlap
================================================================================
