------------------------------ MODULE CouponRules ------------------------------
(***************************************************************************)
(* The data of the coupon service: coupon books with their limits, coupons *)
(* identified by their unique code, and the checks the handlers of         *)
(* coupon.service.ts make on them.  Nothing in src/ changes or removes a   *)
(* book after its creation, so books are constants.                        *)
(***************************************************************************)
EXTENDS Integers, FiniteSets

CONSTANTS
    Users,          \* the user ids named by request bodies
    Codes,          \* the codes of the coupons that exist (unique index)
    Books,          \* the coupon books that exist
    BookOf,         \* couponBookId of each coupon
    Book,           \* the document of each book
    LockDuration,   \* config coupon.lockDurationSeconds, in clock units
    NoCode,         \* a code no coupon has
    NoBook          \* an id no book has

NoDate == 0         \* a null date: no clock reading is 0
Date   == Nat

BookDocument ==
    [startDate : Date, endDate : Date, isActive : BOOLEAN,
     maxRedemptionsPerUser : Nat, maxCodesPerUser : Nat,
     allowMultipleRedemptions : BOOLEAN]

ASSUME RulesAssumption ==
    /\ IsFiniteSet(Codes) /\ IsFiniteSet(Users)
    /\ NoCode \notin Codes /\ NoBook \notin Books
    /\ BookOf \in [Codes -> Books]
    /\ Book \in [Books -> BookDocument]
    /\ LockDuration \in Nat \ {0}

CouponDocument ==
    [isAssigned : BOOLEAN, isRedeemed : BOOLEAN,
     redemptionCount : Nat, lockedUntil : Date]

NewCoupon ==
    [isAssigned |-> FALSE, isRedeemed |-> FALSE,
     redemptionCount |-> 0, lockedUntil |-> NoDate]

(* HTTP statuses: 0 stands for no refusal. *)
Status == {0, 201, 400, 403, 404, 409, 410, 422, 500}

(* Mutant: the limit of codes per user off by one.                          *)
AssignRefusalOffByOne(b, n, t) ==
    IF b \notin Books THEN 404
    ELSE IF ~Book[b].isActive THEN 400
    ELSE IF Book[b].endDate < t THEN 410
    ELSE IF Book[b].startDate > t THEN 403
    ELSE IF Book[b].maxCodesPerUser # 0 /\ n > Book[b].maxCodesPerUser THEN 422
    ELSE 0

(* Refusal of an assignment from book b at time t to a user who holds n of  *)
(* its codes.  A limit of 0 is falsy, hence no limit.                       *)
AssignRefusal(b, n, t) ==
    IF b \notin Books THEN 404
    ELSE IF ~Book[b].isActive THEN 400
    ELSE IF Book[b].endDate < t THEN 410
    ELSE IF Book[b].startDate > t THEN 403
    ELSE IF Book[b].maxCodesPerUser # 0 /\ n >= Book[b].maxCodesPerUser THEN 422
    ELSE 0

(* The book checks of a lock or a redemption; neither looks at startDate.   *)
BookClosed(b, t) == ~Book[b].isActive \/ Book[b].endDate < t

(* No further redemption of a coupon of book b that has n of them.          *)
Exhausted(b, n) ==
    \/ ~Book[b].allowMultipleRedemptions /\ n > 0
    \/ Book[b].maxRedemptionsPerUser # 0 /\ n >= Book[b].maxRedemptionsPerUser
================================================================================
