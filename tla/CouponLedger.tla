----------------------------- MODULE CouponLedger ------------------------------
(***************************************************************************)
(* What the coupon service promises its users, without requests, sessions, *)
(* snapshots, Redis or failures: a ledger in which each coupon gets at     *)
(* most one owner, for good; in which each redemption uses up a lock; and  *)
(* in which the limits of the book bound the redemptions.                  *)
(***************************************************************************)
EXTENDS CouponRules

CONSTANTS
    Nobody,         \* the owner of a coupon that nobody owns
    InitialOwner    \* the owners when the ledger starts

VARIABLES
    owner,          \* owner[c]: who may redeem c
    locked,         \* locked[c]: whether c is open for one redemption
    uses            \* uses[c]: how often c was redeemed

ledger == <<owner, locked, uses>>

Init ==
    /\ owner = InitialOwner
    /\ locked = [c \in Codes |-> FALSE]
    /\ uses = [c \in Codes |-> 0]

Assign(c, u) ==
    /\ owner[c] = Nobody
    /\ owner' = [owner EXCEPT ![c] = u]
    /\ UNCHANGED <<locked, uses>>

Lock(c) ==
    /\ owner[c] # Nobody
    /\ locked' = [locked EXCEPT ![c] = TRUE]
    /\ UNCHANGED <<owner, uses>>

Redeem(c) ==
    /\ locked[c]
    /\ ~Exhausted(BookOf[c], uses[c])
    /\ locked' = [locked EXCEPT ![c] = FALSE]
    /\ uses' = [uses EXCEPT ![c] = @ + 1]
    /\ UNCHANGED owner

Next == \E c \in Codes : (\E u \in Users : Assign(c, u)) \/ Lock(c) \/ Redeem(c)

Spec == Init /\ [][Next]_ledger
================================================================================
