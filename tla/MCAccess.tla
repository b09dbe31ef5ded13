-------------------------------- MODULE MCAccess -------------------------------
(***************************************************************************)
(* A small instance of AccessControl.                                      *)
(***************************************************************************)
EXTENDS AccessProperties, TLC

CONSTANTS u1, admin, s1, s2, c1, p1, p2

(* The admin does not mistype.                                              *)
Tries == u1 :> 1 @@ admin :> 0

Audiences == [role \in {"admin", "user"} |-> {"web", "mobile"}]
================================================================================
