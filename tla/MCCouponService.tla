---------------------------- MODULE MCCouponService ----------------------------
(***************************************************************************)
(* Small instances of CouponService: the books, the coupons and the        *)
(* requests of each run.                                                   *)
(***************************************************************************)
EXTENDS CouponProperties, TLC

CONSTANTS u1, u2, c1, c2, c3, b1, b2, r1, r2, r3, r4

(* A book as coupon-book.model.ts creates it by default: one redemption of  *)
(* one code per user; it ends while the clock of the runs still moves.      *)
DefaultBook == [startDate |-> 1, endDate |-> 2, isActive |-> TRUE,
                maxRedemptionsPerUser |-> 1, maxCodesPerUser |-> 1,
                allowMultipleRedemptions |-> FALSE]

MultiBook     == [DefaultBook EXCEPT !.allowMultipleRedemptions = TRUE,
                                     !.maxRedemptionsPerUser = 2]
LaterBook     == [DefaultBook EXCEPT !.startDate = 2, !.maxCodesPerUser = 2]

OneDefault   == b1 :> DefaultBook
OneMulti     == b1 :> MultiBook
TwoBooks     == b1 :> DefaultBook @@ b2 :> LaterBook

OneCode      == c1 :> b1
TwoCodes     == c1 :> b1 @@ c2 :> b1
ThreeCodes   == c1 :> b1 @@ c2 :> b1 @@ c3 :> b2

OwnedByU1    == {<<c1, u1>>}

AssignMix  == r1 :> "assignRandom" @@ r2 :> "assignRandom" @@ r3 :> "assignSpecific"
RedeemMix  == r1 :> "lock" @@ r2 :> "lock" @@ r3 :> "redeem" @@ r4 :> "redeem"
LockRedeem == r1 :> "lock" @@ r2 :> "redeem" @@ r3 :> "redeem"
LockAgain  == r1 :> "lock" @@ r2 :> "lock" @@ r3 :> "lock"
TwoAssigns == r1 :> "assignRandom" @@ r2 :> "assignRandom"
================================================================================
