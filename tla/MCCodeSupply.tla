------------------------------ MODULE MCCodeSupply -----------------------------
(***************************************************************************)
(* Small instances of CodeSupply.                                          *)
(***************************************************************************)
EXTENDS CodeSupplyProperties, TLC

CONSTANTS r1, r2, r3, r4, h1, h2, h3, w1, w2, c1, c2, c3, c4, b1, b2

OneWorker  == h1 :> w1 @@ h2 :> w1
TwoWorkers == h1 :> w1 @@ h2 :> w1 @@ h3 :> w2

Uploads == r1 :> "generate" @@ r2 :> "upload" @@ r3 :> "create"
AllJobs == [r \in Requests |-> "generate"]
Creates == r1 :> "generate" @@ r2 :> "generate" @@ r3 :> "create"

OnePool == [b \in Books |-> Codes]

SameCodes == Permutations(Codes)
================================================================================
