------------------------------- MODULE MCAccounts -------------------------------
(***************************************************************************)
(* A small instance of UserAccount.                                        *)
(***************************************************************************)
EXTENDS AccountProperties, TLC

CONSTANTS u1, admin, s1, s2, p1, p2, p3, d1

(* The admin does not mistype.                                              *)
Tries == u1 :> 2 @@ admin :> 0
================================================================================
