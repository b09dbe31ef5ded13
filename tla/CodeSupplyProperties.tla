-------------------------- MODULE CodeSupplyProperties -------------------------
(***************************************************************************)
(* What generating and uploading codes promises.                           *)
(***************************************************************************)
EXTENDS CodeSupply

CodesFor(r) == {c \in Codes : maker[c] = r}

(* totalCodes of a book is the number of its coupons, whatever requests and *)
(* handlers overlap, fail, die or run twice.                                *)
TotalCodesAgree == \A b \in Books : totalCodes[b] = Cardinality(CodesOf(b)) * Unit

(* A request makes all of its codes or none: no batch of an aborted         *)
(* transaction stays, no insertion overwrites a coupon of another request,  *)
(* and every code is in the book that was asked for, which exists.          *)
AllOrNothing ==
    /\ \A r \in Requests : Cardinality(CodesFor(r)) = times[r] * CodesToMake(r)
    /\ \A c \in Codes : bookOf[c] = IF maker[c] = NoJob THEN NoBook ELSE book[maker[c]]
    /\ \A c \in Codes : bookOf[c] \in couponBooks \cup {NoBook}

(* A request that is not a job makes its codes once if it answers 201, and  *)
(* not at all if it answers an error.                                       *)
Accepted(r) == reply[r] = 201 /\ Kind[r] = "generate" /\ quantity[r] > MaxSync * Unit

AnswersTellTheTruth ==
    \A r \in Requests : pc[r] = "done" /\ ~Accepted(r) =>
        times[r] = IF reply[r] = 201 /\ Kind[r] # "create" THEN 1 ELSE 0

(* A job is in the queue, or in the hands of a process, until its codes are *)
(* made: no failure of a handler or a process loses it.                     *)
JobIsKept ==
    \A r \in Requests : Accepted(r) /\ times[r] = 0 =>
        \/ \E i \in DOMAIN ready : ready[i] = r
        \/ \E w \in Workers : unacked[w] = r

(* While no commit loses its reply, a job is done again only after some     *)
(* channel was lost.  How often is not bounded by the losses: the handler   *)
(* of a lost channel may return what another one has just done.             *)
RepeatedOnlyAfterLoss == \A r \in Requests : times[r] > 1 => losses > 0

(* Every accepted job is done in the end.                                   *)
EveryJobIsDone == \A r \in Requests : Accepted(r) ~> times[r] > 0
================================================================================
