--------------------------- MODULE MCServiceLifecycle ---------------------------
(***************************************************************************)
(* A small instance of ServiceLifecycle.                                   *)
(***************************************************************************)
EXTENDS LifecycleProperties, TLC

CONSTANTS k1, k2, k3, t1, t2, p1
================================================================================
