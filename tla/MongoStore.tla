------------------------------ MODULE MongoStore -------------------------------
(***************************************************************************)
(* The MongoDB collections of the coupon service and the multi-document    *)
(* transactions its sessions run: a snapshot taken by the first operation, *)
(* a write conflict on a coupon somebody else wrote since (or is writing), *)
(* and a commit that publishes every write at once.                        *)
(***************************************************************************)
EXTENDS CouponRules, Sequences

CONSTANTS
    Requests,       \* the requests; a request is the session it opens, and
                    \* the id of the Transaction document it creates
    PreAssigned,    \* assignments of an earlier time
    Past,           \* the id of their Transaction documents
    NoView          \* the snapshot of a request with no transaction open

VARIABLES
    coupons,        \* the coupon documents
    userCoupons,    \* the pairs <<code, user>> that have a UserCoupon
    redemptions,    \* redemptions[<<code, user>>]: its array of transactionIds
    transactions,   \* the Transaction documents (the audit trail)
    snap,           \* snap[r]: what the transaction of r reads
    stale,          \* stale[r]: the coupons written since that snapshot
    intent          \* intent[r]: the coupon r wrote and did not commit

View == [coupons : [Codes -> CouponDocument],
         userCoupons : SUBSET (Codes \X Users),
         redemptions : [Codes \X Users -> Seq(Requests)]]

ASSUME StoreAssumption ==
    /\ Past \notin Requests
    /\ PreAssigned \subseteq Codes \X Users
    /\ \A p, q \in PreAssigned : p[1] = q[1] => p = q
    /\ NoView \notin View

Transaction == [id : Requests \cup {Past}, action : {"assign", "lock", "redeem"},
                user : Users, code : Codes]

data  == <<coupons, userCoupons, redemptions, transactions>>
txn   == <<snap, stale, intent>>

MongoTypeOK ==
    /\ coupons \in [Codes -> CouponDocument]
    /\ userCoupons \subseteq Codes \X Users
    /\ redemptions \in [Codes \X Users -> Seq(Requests)]
    /\ transactions \subseteq Transaction
    /\ snap \in [Requests -> View \cup {NoView}]
    /\ stale \in [Requests -> SUBSET Codes]
    /\ intent \in [Requests -> Codes \cup {NoCode}]

MongoInit ==
    /\ coupons = [c \in Codes |->
                    [NewCoupon EXCEPT !.isAssigned = \E p \in PreAssigned : p[1] = c]]
    /\ userCoupons = PreAssigned
    /\ redemptions = [p \in Codes \X Users |-> <<>>]
    /\ transactions = {[id |-> Past, action |-> "assign", user |-> p[2], code |-> p[1]] :
                         p \in PreAssigned}
    /\ snap = [r \in Requests |-> NoView]
    /\ stale = [r \in Requests |-> {}]
    /\ intent = [r \in Requests |-> NoCode]

(* The first read of a session: its transaction sees this state only.       *)
OpenTransaction(r) ==
    /\ snap' = [snap EXCEPT ![r] = [coupons |-> coupons, userCoupons |-> userCoupons,
                                    redemptions |-> redemptions]]
    /\ stale' = [stale EXCEPT ![r] = {}]
    /\ UNCHANGED intent

(* Mutant: the coupon is updated without the session.                       *)
WriteOutsideSession(r, c) == FALSE

(* A transaction may write coupon c only if nobody has since its snapshot.  *)
WriteConflict(r, c) == c \in stale[r] \/ \E q \in Requests \ {r} : intent[q] = c

(* An operation outside a transaction waits for the writer in its way.      *)
Blocked(c) == \E q \in Requests : intent[q] = c

(* A write of coupon c commits: every open snapshot is behind it now.       *)
Published(c) == [q \in Requests |-> IF snap[q] = NoView THEN {} ELSE stale[q] \cup {c}]

(* Mutant: a transaction that is left without being ended.                  *)
LeaveTransaction(r, newStale) ==
    /\ snap' = [snap EXCEPT ![r] = NoView]
    /\ stale' = [newStale EXCEPT ![r] = {}]
    /\ UNCHANGED intent

(* The end of a transaction: its snapshot and uncommitted writes are gone.  *)
EndTransaction(r, newStale) ==
    /\ snap' = [snap EXCEPT ![r] = NoView]
    /\ stale' = [newStale EXCEPT ![r] = {}]
    /\ intent' = [intent EXCEPT ![r] = NoCode]

Record(r, a, u, c) ==
    transactions' = transactions \cup {[id |-> r, action |-> a, user |-> u, code |-> c]}

(* The codes of book b that user u holds, of the pairs in ucs.              *)
CodesHeld(ucs, u, b) == {c \in Codes : <<c, u>> \in ucs /\ BookOf[c] = b}
================================================================================
