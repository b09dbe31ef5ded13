--------------------------- MODULE CouponProperties ----------------------------
(***************************************************************************)
(* What the coupon service promises, beyond the types of its state.        *)
(***************************************************************************)
EXTENDS CouponService

Assigns == {t \in transactions : t.action = "assign"}
Redeems == {t \in transactions : t.action = "redeem"}

(* The array s has x among its entries.                                     *)
Has(s, x) == \E i \in DOMAIN s : s[i] = x

(* Two assignments that race for a coupon never both win: a coupon is       *)
(* assigned exactly when one user, and no other, has a UserCoupon for it,   *)
(* and the audit trail has that one assignment.                             *)
OneOwner ==
    /\ \A p, q \in userCoupons : p[1] = q[1] => p = q
    /\ \A c \in Codes : coupons[c].isAssigned <=> \E p \in userCoupons : p[1] = c
    /\ \A s, t \in Assigns : s.code = t.code => s = t
    /\ userCoupons = {<<t.code, t.user>> : t \in Assigns}

(* The three documents a redemption writes agree: the counter of the coupon *)
(* is the length of its owner's redemptions array, no increment is lost,    *)
(* and each entry has its audit record and each record its entry.           *)
RedemptionsAgree ==
    /\ \A p \in userCoupons :
         /\ coupons[p[1]].redemptionCount = Len(redemptions[p])
         /\ coupons[p[1]].isRedeemed <=> redemptions[p] # <<>>
    /\ \A c \in Codes : ~coupons[c].isAssigned =>
         coupons[c].redemptionCount = 0 /\ ~coupons[c].isRedeemed
    /\ \A c \in Codes, u \in Users :
         <<c, u>> \notin userCoupons => redemptions[<<c, u>>] = <<>>
    /\ \A r \in Requests, c \in Codes, u \in Users :
         [id |-> r, action |-> "redeem", user |-> u, code |-> c] \in transactions
           <=> Has(redemptions[<<c, u>>], r)

(* However many lock and redeem requests overlap, no user redeems a code    *)
(* more often than its book allows.                                         *)
RedemptionLimit ==
    \A c \in Codes, u \in Users :
        LET b == Book[BookOf[c]]
            n == Len(redemptions[<<c, u>>])
        IN /\ ~b.allowMultipleRedemptions => n <= 1
           /\ b.maxRedemptionsPerUser # 0 => n <= b.maxRedemptionsPerUser

(* A lock is good for one redemption: a coupon is never redeemed more often *)
(* than it was locked, not counting the lock it is under now.               *)
OneRedemptionPerLock ==
    \A c \in Codes :
        coupons[c].redemptionCount + (IF coupons[c].lockedUntil # NoDate THEN 1 ELSE 0)
            <= locksTaken[c]

(* The number of codes of a book that a user holds exceeds the limit of the *)
(* book only through a transaction that did not see one of the others.      *)
LimitExceededOnlyByOverlap ==
    [][\A u \in Users, b \in Books :
         LET held    == CodesHeld(userCoupons, u, b)
             heldNow == CodesHeld(userCoupons', u, b)
         IN /\ Book[b].maxCodesPerUser # 0
            /\ heldNow # held
            /\ Cardinality(heldNow) > Book[b].maxCodesPerUser
            => \E r \in Requests : /\ pc[r] = "commitAssign" /\ pc'[r] = "done"
                                   /\ user[r] = u
                                   /\ CodesHeld(snap[r].userCoupons, u, b) # held]_vars

(* The service is an implementation of the ledger: the owner of a coupon is *)
(* the user with a UserCoupon for it, and a coupon is open for a redemption *)
(* while its lockedUntil is set.  Every step of every request is one entry  *)
(* of the ledger, or none: no owner ever changes, every redemption uses up  *)
(* a lock and is within the limits of the book.                             *)
OwnerIn(ucs, c) ==
    IF \E u \in Users : <<c, u>> \in ucs
    THEN CHOOSE u \in Users : <<c, u>> \in ucs
    ELSE NoUser

Ledger == INSTANCE CouponLedger WITH
    Nobody <- NoUser,
    InitialOwner <- [c \in Codes |-> OwnerIn(PreAssigned, c)],
    owner <- [c \in Codes |-> OwnerIn(userCoupons, c)],
    locked <- [c \in Codes |-> coupons[c].lockedUntil # NoDate],
    uses <- [c \in Codes |-> coupons[c].redemptionCount]

ImplementsLedger == Ledger!Spec

(* Answers tell the truth as long as MongoDB does not fail: a request that  *)
(* answers 201 has its audit record, one that answers an error has none.    *)
AnswersTellTheTruth ==
    \A r \in Requests :
        pc[r] = "done" => (reply[r] = 201 <=> \E t \in transactions : t.id = r)

(* Every request ends, however the others interleave with it: no lock       *)
(* update waits forever for a transaction in its way.                       *)
EveryRequestEnds == \A r \in Requests : <>(pc[r] \in Ended)

(* No key outlives the requests: what they leave locked expires.            *)
LocksExpire == <>[](\A c \in Keys : ~Held(c))

--------------------------------------------------------------------------------
(* The inductive invariant behind OneOwner, RedemptionsAgree,               *)
(* RedemptionLimit, OneRedemptionPerLock and ImplementsLedger.              *)

(* What a request has established when it is about to make a call.          *)
Control ==
    \A r \in Requests :
        /\ pc[r] \in InTransaction => snap[r] # NoView
        /\ pc[r] # "idle" => user[r] \in Users
        /\ intent[r] # NoCode => pc[r] \in {"commitAssign", "unlock", "commitRedeem", "dead"}
        /\ pc[r] \in {"commitAssign", "write", "unlock", "commitRedeem", "update", "log"}
             => target[r] \in Codes
        /\ pc[r] = "update" => until[r] # NoDate

(* A snapshot that is not stale for a coupon shows its current documents.   *)
SnapshotsCurrent ==
    \A r \in Requests, c \in Codes :
        snap[r] # NoView /\ c \notin stale[r] =>
            /\ snap[r].coupons[c] = coupons[c]
            /\ \A u \in Users :
                 /\ <<c, u>> \in snap[r].userCoupons <=> <<c, u>> \in userCoupons
                 /\ snap[r].redemptions[<<c, u>>] = redemptions[<<c, u>>]

(* A coupon has one uncommitted writer at most, whose snapshot is current.  *)
OneWriter ==
    /\ \A r \in Requests : intent[r] \notin stale[r]
    /\ \A q, r \in Requests : intent[q] = intent[r] /\ intent[q] # NoCode => q = r

(* The checks a request has passed still describe its snapshot, and it has  *)
(* written its coupon; a request past the checks of a lock has a UserCoupon.*)
ChecksPassed ==
    \A r \in Requests :
        LET c == target[r]
            p == <<target[r], user[r]>>
        IN /\ pc[r] \in {"commitAssign", "unlock", "commitRedeem"} => intent[r] = c
           /\ pc[r] = "commitAssign" => ~snap[r].coupons[c].isAssigned
           /\ pc[r] \in {"write", "unlock", "commitRedeem"} =>
                /\ p \in snap[r].userCoupons
                /\ snap[r].coupons[c].lockedUntil # NoDate
                /\ ~Exhausted(BookOf[c], Len(snap[r].redemptions[p]))
           /\ pc[r] \in {"update", "log"} => p \in userCoupons

IInv ==
    /\ TypeOK /\ Control /\ SnapshotsCurrent /\ OneWriter /\ ChecksPassed
    /\ OneOwner /\ RedemptionsAgree /\ RedemptionLimit /\ OneRedemptionPerLock

--------------------------------------------------------------------------------
(* Statements of the README that the code does not keep. *)

(* README: "Ensure user hasn't exceeded max coupons".                       *)
UserLimit ==
    \A u \in Users, b \in Books :
        Book[b].maxCodesPerUser # 0
          => Cardinality(CodesHeld(userCoupons, u, b)) <= Book[b].maxCodesPerUser

(* README: the lock lets "only one operation" at a time work on a coupon:   *)
(* at most one request is between taking a key and answering.               *)
OneLockHolder ==
    \A q, r \in Requests :
        /\ pc[q] \in {"validate", "update", "log"}
        /\ pc[r] \in {"validate", "update", "log"}
        /\ target[q] = target[r]
        => q = r
================================================================================
