---------------------------- MODULE CodeSupplyProofs ---------------------------
(***************************************************************************)
(* Machine-checked proofs about CodeSupply: its types, what a request and  *)
(* a job leave behind, the counters of the books, and what becomes of a    *)
(* job, for any requests, handlers, codes and failures.                    *)
(***************************************************************************)
EXTENDS CodeSupplyProperties, FiniteSetTheorems, SequenceTheorems, TLAPS

Inserting == {"insert", "count", "commit"}
Alive(h) == pc[h] \notin {"idle", "dead"}

(* The request that session s makes codes for.                              *)
RequestOf(s) == IF s \in Requests THEN s ELSE job[s]

(* What becomes a message: a request that was accepted for the queue.       *)
IsJob(r) == r \in Requests /\ pc[r] = "done" /\ Accepted(r) /\ book[r] \in couponBooks

(* What a request has checked by the time it makes its next call.           *)
Control ==
    /\ \A r \in Requests :
         /\ pc[r] \in {"idle", "publish", "done"} \cup Inserting
         /\ pc[r] \notin {"idle", "done"} => Kind[r] # "create" /\ book[r] \in couponBooks
         /\ pc[r] = "publish" => Kind[r] = "generate" /\ quantity[r] > MaxSync * Unit
         /\ pc[r] \in Inserting => Kind[r] = "upload" \/ quantity[r] <= MaxSync * Unit
         /\ pc[r] # "done" => reply[r] = 0 /\ times[r] = 0
    /\ \A h \in Handlers : pc[h] \in {"idle", "begin", "ack", "nack", "dead"} \cup Inserting

(* Whatever is in the queue, delivered or worked on is a job.               *)
JobsKnown ==
    /\ \A i \in 1 .. Len(ready) : IsJob(ready[i])
    /\ \A w \in Workers : unacked[w] # NoJob => IsJob(unacked[w])
    /\ \A h \in Handlers : Alive(h) => IsJob(job[h])

(* What a transaction has inserted is free for all others, and complete     *)
(* when it is counted.                                                      *)
Transactions ==
    /\ \A s \in Sessions : inserts[s] # {} => pc[s] \in Inserting \cup {"dead"}
    /\ \A r \in Requests : pc[r] = "insert" => inserts[r] = {}
    /\ \A s \in Sessions : \A c \in inserts[s] : bookOf[c] = NoBook
    /\ \A s, t \in Sessions : s # t => inserts[s] \cap inserts[t] = {}
    /\ \A s \in Sessions : pc[s] \in {"count", "commit"} =>
         Cardinality(inserts[s]) = CodesToMake(RequestOf(s))
    /\ \A h \in Handlers : pc[h] = "insert" =>
         Cardinality(inserts[h]) <= CodesToMake(job[h])

(* Every coupon was made for a request that is over, in its book, and every *)
(* commit made as many as were asked for.                                   *)
History ==
    /\ \A c \in Codes :
         IF maker[c] = NoJob THEN bookOf[c] = NoBook
         ELSE /\ pc[maker[c]] = "done"
              /\ bookOf[c] = book[maker[c]] /\ book[maker[c]] \in couponBooks
    /\ \A r \in Requests : Cardinality(CodesFor(r)) = times[r] * CodesToMake(r)

IInv == TypeOK /\ Control /\ JobsKnown /\ Transactions /\ History

--------------------------------------------------------------------------------
USE CodeStoreAssumption, QueueAssumption, SupplyAssumption
    DEF Sessions, FaultKinds, Goto, Inserting, store, txn, queue, request, handler, history

(* Products of naturals, which the quantities are made of.                  *)
LEMMA ProductNat ==
    ASSUME NEW m \in Nat, NEW n \in Nat
    PROVE  m * n \in Nat
  OBVIOUS

LEMMA CodesToMakeNat ==
    ASSUME NEW r, quantity[r] \in Nat
    PROVE  CodesToMake(r) \in Nat
  BY DEF CodesToMake

LEMMA CardinalityNat ==
    ASSUME NEW S \in SUBSET Codes
    PROVE  IsFiniteSet(S) /\ Cardinality(S) \in Nat
  BY FS_Subset, FS_CardinalityType

(* Disjoint sets of codes add up.                                           *)
LEMMA DisjointUnion ==
    ASSUME NEW S \in SUBSET Codes, NEW T \in SUBSET Codes, S \cap T = {}
    PROVE  Cardinality(S \cup T) = Cardinality(S) + Cardinality(T)
<1>1. IsFiniteSet(S) /\ IsFiniteSet(T) /\ Cardinality(S) \in Nat /\ Cardinality(T) \in Nat
  BY CardinalityNat
<1>2. Cardinality(S \cup T) = Cardinality(S) + Cardinality(T) - Cardinality(S \cap T)
  BY <1>1, FS_Union
<1>3. Cardinality(S \cap T) = 0
  BY FS_EmptySet
<1> QED
  BY <1>1, <1>2, <1>3

--------------------------------------------------------------------------------
(* What a step may do *)

(* A request goes to l with answer a; what it goes on with it has checked.  *)
Starts(r, l, a) ==
    /\ l \in {"publish", "insert", "done"} /\ a \in {0, 201, 500}
    /\ Goto(r, l) /\ reply' = [reply EXCEPT ![r] = a]
    /\ l = "done" => a = 500 \/ (a = 201 /\ Kind[r] = "create")
    /\ l # "done" =>
         /\ a = 0 /\ Kind[r] # "create" /\ book'[r] \in couponBooks
         /\ quantity'[r] \in Quantities \cup {n * Unit : n \in Nat}
    /\ l = "publish" => Kind[r] = "generate" /\ quantity'[r] > MaxSync * Unit
    /\ l = "insert" => Kind[r] = "upload" \/ quantity'[r] <= MaxSync * Unit

Begins(r) ==
    /\ pc[r] = "idle"
    /\ \E l, a : Starts(r, l, a)
    /\ \E b \in Books \cup {NoBook} : book' = [book EXCEPT ![r] = b]
    /\ \E q \in Nat : quantity' = [quantity EXCEPT ![r] = q]
    /\ codes' \in [Requests -> SUBSET Codes]
    /\ couponBooks \subseteq couponBooks' /\ couponBooks' \subseteq Books
    /\ UNCHANGED <<bookOf, totalCodes, txn, queue, handler, history>>

(* A transaction ends without effect.                                       *)
Aborts(s, from, l) ==
    /\ pc[s] \in from
    /\ Abort(s)
    /\ Goto(s, l)
    /\ reply' = IF s \in Requests THEN [reply EXCEPT ![s] = 500] ELSE reply
    /\ UNCHANGED <<queue, book, quantity, codes, handler, history>>

(* A transaction inserts free codes, the last of them when it goes to count.*)
Inserts(s, l) ==
    /\ pc[s] = "insert"
    /\ \E cs \in SUBSET Fresh :
         /\ inserts' = [inserts EXCEPT ![s] = @ \cup cs]
         /\ IF l = "count"
            THEN Cardinality(inserts[s]) + Cardinality(cs) = CodesToMake(RequestOf(s))
            ELSE Cardinality(inserts[s]) + Cardinality(cs) <= CodesToMake(RequestOf(s))
    /\ reading' \subseteq Sessions
    /\ Goto(s, l)
    /\ UNCHANGED <<store, queue, counted, changed, request, handler, history>>

(* A transaction goes on without touching its codes.                        *)
Proceeds(s, l) ==
    /\ <<pc[s], l>> \in {<<"begin", "insert">>, <<"count", "commit">>}
    /\ Goto(s, l)
    /\ \E b \in Books \cup {NoBook} : counted' = [counted EXCEPT ![s] = b]
    /\ reading' \subseteq Sessions
    /\ UNCHANGED <<store, queue, inserts, changed, request, handler, history>>

Commits(s, n, l) ==
    /\ pc[s] = "commit"
    /\ Commit(s, book[RequestOf(s)], n)
    /\ Made(s, RequestOf(s))
    /\ Goto(s, l)
    /\ IF s \in Requests
       THEN \E a \in {201, 500} : /\ a = 500 => "mongo" \in Faults
                                  /\ reply' = [reply EXCEPT ![s] = a]
       ELSE reply' = reply
    /\ UNCHANGED <<queue, book, quantity, codes, handler>>

(* A handler answers the channel of its process, or the channel goes.       *)
Releases(h) ==
    /\ \/ pc[h] = "ack" /\ Ack(WorkerOf[h], handlerTag[h])
       \/ pc[h] = "nack" /\ Nack(WorkerOf[h], handlerTag[h])
    /\ Goto(h, "idle")
    /\ UNCHANGED <<store, txn, request, handler, history>>

RequestEffect(r) ==
    \/ Begins(r) \/ Publish(r)
    \/ Aborts(r, Inserting, "done") \/ Inserts(r, "count") \/ Proceeds(r, "commit")
    \/ Commits(r, quantity[r], "done")

HandlerEffect(h) ==
    \/ Deliver(h) \/ Releases(h)
    \/ Aborts(h, Inserting, "nack") \/ Aborts(h, {"dead"}, "idle")
    \/ \E l \in {"insert", "count"} : Inserts(h, l)
    \/ \E l \in {"insert", "commit"} : Proceeds(h, l)
    \/ \E l \in {"ack", "nack"} : /\ l = "nack" => "mongo" \in Faults
                                  /\ Commits(h, Cardinality(inserts[h]) * Unit, l)

WorkerEffect(w) == LoseConnection(w) \/ Connect(w) \/ Crash(w)

--------------------------------------------------------------------------------
(* Every step has one of these effects *)

LEMMA CreateBegins ==
    ASSUME IInv, NEW r \in Requests, Create(r)
    PROVE  Begins(r)
<1>1. /\ quantity' = [quantity EXCEPT ![r] = quantity[r]] /\ quantity[r] \in Nat
      /\ codes' \in [Requests -> SUBSET Codes]
  BY DEF IInv, TypeOK, Create
<1>2. \E b \in Books \cup {NoBook} : book' = [book EXCEPT ![r] = b]
  <2>1. book = [book EXCEPT ![r] = book[r]] /\ book[r] \in Books \cup {NoBook}
    BY DEF IInv, TypeOK
  <2> QED
    BY <2>1 DEF Create
<1>3. couponBooks \subseteq couponBooks' /\ couponBooks' \subseteq Books
  BY DEF IInv, TypeOK, StoreTypeOK, Create
<1>4. PICK a \in {201, 500} : Answer(r, a)
  BY DEF Create
<1>5. Starts(r, "done", a)
  BY <1>4 DEF Create, Starts, Answer
<1>6. /\ pc[r] = "idle"
      /\ UNCHANGED <<bookOf, totalCodes, txn, queue, handler, history>>
  BY DEF Create
<1> QED
  BY <1>1, <1>2, <1>3, <1>5, <1>6 DEF Begins

LEMMA GenerateBegins ==
    ASSUME IInv, NEW r \in Requests, BeginGenerate(r)
    PROVE  Begins(r)
<1>1. reply = [reply EXCEPT ![r] = 0]
  BY DEF IInv, TypeOK, Control, BeginGenerate
<1>2. codes' \in [Requests -> SUBSET Codes]
  BY DEF IInv, TypeOK, BeginGenerate
<1>3. PICK b \in Books \cup {NoBook}, q \in Quantities :
        /\ book' = [book EXCEPT ![r] = b]
        /\ quantity' = [quantity EXCEPT ![r] = q]
        /\ \/ b \notin couponBooks \ Closed /\ Refuse(r)
           \/ /\ b \in couponBooks \ Closed
              /\ Goto(r, IF q > MaxSync * Unit THEN "publish" ELSE "insert")
              /\ UNCHANGED reply
  BY DEF BeginGenerate
<1>4. q \in Nat /\ book'[r] = b /\ quantity'[r] = q /\ MaxSync * Unit \in Nat
  BY <1>3, ProductNat DEF IInv, TypeOK
<1>5. \E l, a : Starts(r, l, a)
  <2>1. CASE Refuse(r)
    <3>1. Starts(r, "done", 500)
      BY <2>1 DEF Starts, Refuse, Answer
    <3> QED
      BY <3>1
  <2>2. CASE /\ b \in couponBooks \ Closed /\ q > MaxSync * Unit
             /\ Goto(r, "publish") /\ UNCHANGED reply
    <3>1. Starts(r, "publish", 0)
      BY <1>1, <1>3, <1>4, <2>2 DEF BeginGenerate, Starts
    <3> QED
      BY <3>1
  <2>3. CASE /\ b \in couponBooks \ Closed /\ ~(q > MaxSync * Unit)
             /\ Goto(r, "insert") /\ UNCHANGED reply
    <3>1. q <= MaxSync * Unit
      BY <1>4, <2>3
    <3>2. Starts(r, "insert", 0)
      BY <1>1, <1>3, <1>4, <2>3, <3>1 DEF BeginGenerate, Starts
    <3> QED
      BY <3>2
  <2> QED
    BY <1>3, <2>1, <2>2, <2>3
<1>6. couponBooks' = couponBooks /\ couponBooks \subseteq Books
  BY DEF IInv, TypeOK, StoreTypeOK, BeginGenerate
<1> QED
  BY <1>2, <1>3, <1>4, <1>5, <1>6 DEF BeginGenerate, Begins

LEMMA UploadBegins ==
    ASSUME IInv, NEW r \in Requests, BeginUpload(r)
    PROVE  Begins(r)
<1>1. reply = [reply EXCEPT ![r] = 0]
  BY DEF IInv, TypeOK, Control, BeginUpload
<1>2. PICK b \in Books \cup {NoBook}, cs \in SUBSET Codes \ {{}}, twice \in {0, 1} :
        /\ book' = [book EXCEPT ![r] = b]
        /\ codes' = [codes EXCEPT ![r] = cs]
        /\ quantity' = [quantity EXCEPT ![r] = (Cardinality(cs) + twice) * Unit]
        /\ \/ b \notin couponBooks /\ Refuse(r)
           \/ b \in couponBooks /\ Goto(r, "insert") /\ UNCHANGED reply
  BY DEF BeginUpload
<1> DEFINE q == (Cardinality(cs) + twice) * Unit
<1>3. q \in {n * Unit : n \in Nat} /\ q \in Nat
  <2>1. Cardinality(cs) + twice \in Nat
    BY CardinalityNat
  <2> QED
    BY <2>1, ProductNat
<1> HIDE DEF q
<1>4. quantity' = [quantity EXCEPT ![r] = q]
  BY <1>2 DEF q
<1>5. codes' \in [Requests -> SUBSET Codes] /\ book'[r] = b /\ quantity'[r] = q
  BY <1>2, <1>4 DEF IInv, TypeOK
<1>6. \E l, a : Starts(r, l, a)
  <2>1. CASE Refuse(r)
    <3>1. Starts(r, "done", 500)
      BY <2>1 DEF Starts, Refuse, Answer
    <3> QED
      BY <3>1
  <2>2. CASE b \in couponBooks /\ Goto(r, "insert") /\ UNCHANGED reply
    <3>1. Starts(r, "insert", 0)
      BY <1>1, <1>3, <1>5, <2>2 DEF BeginUpload, Starts
    <3> QED
      BY <3>1
  <2> QED
    BY <1>2, <2>1, <2>2
<1>7. couponBooks' = couponBooks /\ couponBooks \subseteq Books
  BY DEF IInv, TypeOK, StoreTypeOK, BeginUpload
<1> QED
  BY <1>2, <1>3, <1>4, <1>5, <1>6, <1>7 DEF BeginUpload, Begins

LEMMA ServeEffect ==
    ASSUME IInv, NEW r \in Requests, Serve(r)
    PROVE  RequestEffect(r)
<1>1. CASE Create(r) \/ BeginGenerate(r) \/ BeginUpload(r) \/ Publish(r)
  BY <1>1, CreateBegins, GenerateBegins, UploadBegins DEF RequestEffect
<1>2. ASSUME pc[r] \in Inserting, Fail(r)
      PROVE  RequestEffect(r)
  BY <1>2 DEF Fail, Answer, Aborts, RequestEffect
<1>3. CASE Insert(r)
  <2>1. ASSUME NEW cs \in Choices(r), cs \subseteq Fresh, Cardinality(cs) = CodesToMake(r),
               InsertMany(r, cs), reading' = reading \cup {r}, Goto(r, "count"),
               UNCHANGED <<store, queue, counted, changed, request, handler, history>>
        PROVE  Inserts(r, "count")
    <3>1. Cardinality(inserts[r]) + Cardinality(cs) = CodesToMake(RequestOf(r))
      <4>1. Cardinality(inserts[r]) = 0
        BY <1>3, FS_EmptySet DEF IInv, Transactions, Insert
      <4>2. CodesToMake(r) \in Nat
        BY CodesToMakeNat DEF IInv, TypeOK
      <4> QED
        BY <2>1, <4>1, <4>2 DEF RequestOf
    <3> QED
      BY <1>3, <2>1, <3>1 DEF IInv, TypeOK, StoreTypeOK, InsertMany, Insert, Inserts
  <2> QED
    BY <1>2, <1>3, <2>1 DEF Insert, RequestEffect
<1>4. CASE Count(r)
  <2>1. ASSUME ~CountConflict(r, book[r]), counted' = [counted EXCEPT ![r] = book[r]],
               Goto(r, "commit"),
               UNCHANGED <<store, queue, inserts, reading, changed, request, handler, history>>
        PROVE  Proceeds(r, "commit")
    <3>1. pc[r] = "count"
      BY <1>4 DEF Count
    <3>2. book[r] \in Books \cup {NoBook} /\ reading' \subseteq Sessions
      BY <2>1 DEF IInv, TypeOK, StoreTypeOK
    <3> QED
      BY <2>1, <3>1, <3>2 DEF Proceeds
  <2> QED
    BY <1>2, <1>4, <2>1 DEF Count, RequestEffect
<1>5. CASE CommitCodes(r)
  BY <1>2, <1>5 DEF CommitCodes, Commits, RequestOf, Answer, RequestEffect
<1> QED
  BY <1>1, <1>3, <1>4, <1>5 DEF Serve

LEMMA WorkEffect ==
    ASSUME IInv, NEW h \in Handlers, Deliver(h) \/ Work(h) \/ Reap(h)
    PROVE  HandlerEffect(h)
<1>0. h \notin Requests
  OBVIOUS
<1>1. CASE Deliver(h) \/ WorkAck(h) \/ WorkNack(h)
  BY <1>1 DEF WorkAck, WorkNack, Releases, HandlerEffect
<1>2. CASE Reap(h)
  BY <1>0, <1>2 DEF Reap, Aborts, HandlerEffect
<1>3. ASSUME pc[h] \in Inserting, WorkFails(h)
      PROVE  HandlerEffect(h)
  BY <1>0, <1>3 DEF WorkFails, Aborts, HandlerEffect
<1>4. CASE WorkBegin(h)
  <2>1. counted = [counted EXCEPT ![h] = counted[h]] /\ counted[h] \in Books \cup {NoBook}
    BY DEF IInv, TypeOK, StoreTypeOK
  <2>2. Proceeds(h, "insert")
    BY <1>4, <2>1 DEF IInv, TypeOK, StoreTypeOK, WorkBegin, Proceeds
  <2> QED
    BY <2>2 DEF HandlerEffect
<1>5. CASE WorkInsert(h)
  <2>1. PICK cs \in SUBSET (Pool[book[job[h]]] \cap Fresh) :
          /\ Cardinality(cs) = Batch(h)
          /\ InsertMany(h, cs)
          /\ Goto(h, IF Missing(h) = Batch(h) THEN "count" ELSE "insert")
    BY <1>5 DEF WorkInsert
  <2>2. /\ Cardinality(inserts[h]) \in Nat /\ CodesToMake(job[h]) \in Nat
        /\ Cardinality(inserts[h]) <= CodesToMake(job[h])
    <3>1. job[h] \in Requests
      BY <1>5 DEF IInv, JobsKnown, IsJob, Alive, WorkInsert
    <3> QED
      BY <1>5, <3>1, CodesToMakeNat, CardinalityNat
      DEF IInv, TypeOK, StoreTypeOK, Transactions, WorkInsert
  <2>3. PICK l \in {"insert", "count"} : Goto(h, l) /\ (l = "count" <=> Missing(h) = Batch(h))
    BY <2>1
  <2>4. IF l = "count"
        THEN Cardinality(inserts[h]) + Cardinality(cs) = CodesToMake(RequestOf(h))
        ELSE Cardinality(inserts[h]) + Cardinality(cs) <= CodesToMake(RequestOf(h))
    BY <1>0, <2>1, <2>2, <2>3 DEF Missing, Batch, RequestOf
  <2>5. Inserts(h, l)
    BY <1>5, <2>1, <2>3, <2>4 DEF IInv, TypeOK, StoreTypeOK, InsertMany, WorkInsert, Inserts
  <2> QED
    BY <2>5 DEF HandlerEffect
<1>6. CASE WorkInsertFails(h)
  BY <1>3, <1>6 DEF WorkInsertFails
<1>7. CASE WorkCount(h)
  <2>1. ASSUME counted' = [counted EXCEPT ![h] = book[job[h]]], Goto(h, "commit"),
               UNCHANGED <<store, queue, inserts, reading, changed, request, handler, history>>
        PROVE  HandlerEffect(h)
    <3>1. book[job[h]] \in Books \cup {NoBook}
      BY <1>7 DEF IInv, TypeOK, JobsKnown, IsJob, Alive, WorkCount
    <3>2. Proceeds(h, "commit")
      BY <1>7, <2>1, <3>1 DEF IInv, TypeOK, StoreTypeOK, WorkCount, Proceeds
    <3> QED
      BY <3>2 DEF HandlerEffect
  <2> QED
    BY <1>3, <1>7, <2>1 DEF WorkCount
<1>8. CASE WorkCommit(h)
  BY <1>0, <1>3, <1>8 DEF WorkCommit, Commits, RequestOf, HandlerEffect
<1> QED
  BY <1>1, <1>2, <1>4, <1>5, <1>6, <1>7, <1>8 DEF Work

--------------------------------------------------------------------------------
(* The types *)

LocalTypeOK ==
    /\ pc \in [Sessions -> {"idle", "publish", "begin", "insert", "count", "commit",
                            "ack", "nack", "done", "dead"}]
    /\ book \in [Requests -> Books \cup {NoBook}]
    /\ quantity \in [Requests -> Nat]
    /\ codes \in [Requests -> SUBSET Codes]
    /\ reply \in [Requests -> {0, 201, 500}]
    /\ job \in [Handlers -> Jobs \cup {NoJob}]
    /\ handlerTag \in [Handlers -> 0 .. MaxTag]

HistoryTypeOK ==
    /\ times \in [Requests -> Nat]
    /\ maker \in [Codes -> Requests \cup {NoJob}]

LEMMA TypeParts == TypeOK <=> StoreTypeOK /\ QueueTypeOK /\ LocalTypeOK /\ HistoryTypeOK
  BY DEF TypeOK, LocalTypeOK, HistoryTypeOK

(* Whoever inserts, counts and commits does it for a request that names a   *)
(* book that exists.                                                        *)
LEMMA Busy ==
    ASSUME IInv, NEW s \in Sessions, pc[s] \in Inserting
    PROVE  /\ RequestOf(s) \in Requests
           /\ book[RequestOf(s)] \in couponBooks /\ couponBooks \subseteq Books
           /\ s \in Requests => Kind[s] # "create" /\ times[s] = 0
           /\ s \in Handlers => IsJob(job[s])
<1>1. couponBooks \subseteq Books
  BY DEF IInv, TypeOK, StoreTypeOK
<1>2. CASE s \in Requests
  BY <1>1, <1>2 DEF IInv, Control, RequestOf
<1>3. CASE s \in Handlers
  <2>1. IsJob(job[s]) /\ s \notin Requests
    BY <1>3 DEF IInv, JobsKnown, Alive
  <2> QED
    BY <1>1, <1>3, <2>1 DEF RequestOf, IsJob
<1> QED
  BY <1>2, <1>3

(* What a transaction does keeps the types of the collections.              *)
LEMMA AbortsStoreType ==
    ASSUME StoreTypeOK, NEW s \in Sessions, Abort(s)
    PROVE  StoreTypeOK'
  BY DEF StoreTypeOK, Abort, EndTransaction

LEMMA InsertsStoreType ==
    ASSUME StoreTypeOK, NEW s \in Sessions, NEW l, Inserts(s, l)
    PROVE  StoreTypeOK'
<1>1. inserts' \in [Sessions -> SUBSET Codes]
  BY DEF StoreTypeOK, Inserts, Fresh
<1> QED
  BY <1>1 DEF StoreTypeOK, Inserts

LEMMA CommitsStoreType ==
    ASSUME IInv, NEW s \in Sessions, NEW n \in Nat, NEW l, Commits(s, n, l)
    PROVE  StoreTypeOK'
<1>1. PICK b \in Books : b = book[RequestOf(s)]
  BY Busy DEF Commits
<1>2. StoreTypeOK /\ Commit(s, b, n)
  BY <1>1 DEF IInv, TypeOK, Commits
<1>3. bookOf' \in [Codes -> Books \cup {NoBook}] /\ couponBooks' \subseteq Books
  BY <1>1, <1>2 DEF StoreTypeOK, Commit
<1>4. totalCodes' \in [Books -> Nat]
  BY <1>1, <1>2 DEF StoreTypeOK, Commit
<1>5. /\ inserts' \in [Sessions -> SUBSET Codes]
      /\ counted' \in [Sessions -> Books \cup {NoBook}] /\ reading' \subseteq Sessions
  BY <1>1, <1>2 DEF StoreTypeOK, Commit, EndTransaction
<1>6. changed' \in [Sessions -> SUBSET Books]
  BY <1>1, <1>2 DEF StoreTypeOK, Commit, EndTransaction
<1> QED
  BY <1>3, <1>4, <1>5, <1>6 DEF StoreTypeOK

LEMMA StoreTypeStep ==
    ASSUME IInv
    PROVE  /\ \A r \in Requests : RequestEffect(r) => StoreTypeOK'
           /\ \A h \in Handlers : HandlerEffect(h) => StoreTypeOK'
           /\ \A w \in Workers : WorkerEffect(w) => StoreTypeOK'
<1>0. StoreTypeOK
  BY DEF IInv, TypeOK
<1>1. ASSUME UNCHANGED <<store, txn>>
      PROVE  StoreTypeOK'
  BY <1>0, <1>1 DEF StoreTypeOK
<1>2. ASSUME NEW s \in Sessions, NEW from, NEW l, Aborts(s, from, l) \/ Inserts(s, l) \/ Proceeds(s, l)
      PROVE  StoreTypeOK'
  <2>1. CASE Proceeds(s, l)
    BY <1>0, <2>1 DEF StoreTypeOK, Proceeds
  <2> QED
    BY <1>0, <1>2, <2>1, AbortsStoreType, InsertsStoreType DEF Aborts
<1>3. ASSUME NEW r \in Requests, RequestEffect(r)
      PROVE  StoreTypeOK'
  <2>1. CASE Begins(r)
    BY <1>0, <2>1 DEF StoreTypeOK, Begins
  <2>2. CASE Publish(r)
    BY <1>1, <2>2 DEF Publish
  <2>3. quantity[r] \in Nat
    BY DEF IInv, TypeOK
  <2> QED
    BY <1>2, <1>3, <2>1, <2>2, <2>3, CommitsStoreType DEF RequestEffect
<1>4. ASSUME NEW h \in Handlers, HandlerEffect(h)
      PROVE  StoreTypeOK'
  <2>1. CASE Deliver(h) \/ Releases(h)
    BY <1>1, <2>1 DEF Deliver, Releases
  <2>2. Cardinality(inserts[h]) * Unit \in Nat
    BY <1>0, CardinalityNat, ProductNat DEF StoreTypeOK
  <2> QED
    BY <1>2, <1>4, <2>1, <2>2, CommitsStoreType DEF HandlerEffect
<1>5. ASSUME NEW w \in Workers, WorkerEffect(w)
      PROVE  StoreTypeOK'
  BY <1>1, <1>5 DEF WorkerEffect, LoseConnection, Connect, Crash
<1> QED
  BY <1>3, <1>4, <1>5

(* A delivery that goes back to the queue becomes its head.                 *)
LEMMA PushBackSeq ==
    ASSUME NEW q \in Seq(Jobs), NEW j \in Jobs
    PROVE  /\ <<j>> \o q \in Seq(Jobs) /\ Len(<<j>> \o q) = Len(q) + 1
           /\ (<<j>> \o q)[1] = j
           /\ \A i \in 1 .. Len(q) : (<<j>> \o q)[i + 1] = q[i]
           /\ \A i \in 1 .. Len(q) + 1 : i # 1 => i - 1 \in 1 .. Len(q) /\ (<<j>> \o q)[i] = q[i - 1]
  OBVIOUS

LEMMA TagNat ==
    ASSUME QueueTypeOK, NEW w \in Workers
    PROVE  NextTag(w) \in 0 .. MaxTag
  BY DEF QueueTypeOK, NextTag

LEMMA LostType ==
    ASSUME QueueTypeOK, NEW w \in Workers, Lost(w)
    PROVE  QueueTypeOK'
<1>1. ready' \in Seq(Jobs)
  <2>1. CASE unacked[w] = NoJob
    BY <2>1 DEF QueueTypeOK, Lost, PushBack
  <2>2. CASE unacked[w] # NoJob
    BY <2>2, PushBackSeq DEF QueueTypeOK, Lost, PushBack
  <2> QED
    BY <2>1, <2>2
<1> QED
  BY <1>1 DEF QueueTypeOK, Lost

LEMMA QueueTypeStep ==
    ASSUME IInv
    PROVE  /\ \A r \in Requests : RequestEffect(r) => QueueTypeOK'
           /\ \A h \in Handlers : HandlerEffect(h) => QueueTypeOK'
           /\ \A w \in Workers : WorkerEffect(w) => QueueTypeOK'
<1>0. QueueTypeOK
  BY DEF IInv, TypeOK
<1>1. ASSUME UNCHANGED queue
      PROVE  QueueTypeOK'
  BY <1>0, <1>1 DEF QueueTypeOK
<1>2. ASSUME NEW r \in Requests, RequestEffect(r)
      PROVE  QueueTypeOK'
  <2>1. CASE Publish(r)
    <3>1. CASE Enqueue(r)
      BY <1>0, <3>1 DEF QueueTypeOK, Enqueue
    <3> QED
      BY <1>1, <2>1, <3>1 DEF Publish
  <2> QED
    BY <1>1, <1>2, <2>1 DEF RequestEffect, Begins, Aborts, Inserts, Proceeds, Commits
<1>3. ASSUME NEW h \in Handlers, HandlerEffect(h)
      PROVE  QueueTypeOK'
  <2>0. WorkerOf[h] \in Workers
    OBVIOUS
  <2>1. CASE Deliver(h)
    <3>1. ready # <<>> /\ Delivered(WorkerOf[h])
      BY <2>1 DEF Deliver, CanDeliver
    <3>2. Head(ready) \in Jobs /\ Tail(ready) \in Seq(Jobs)
      BY <1>0, <3>1 DEF QueueTypeOK
    <3> QED
      BY <1>0, <2>0, <3>1, <3>2, TagNat DEF QueueTypeOK, Delivered
  <2>2. CASE Releases(h)
    <3>1. CASE Lost(WorkerOf[h])
      BY <1>0, <2>0, <3>1, LostType
    <3>2. ASSUME unacked' = [unacked EXCEPT ![WorkerOf[h]] = NoJob],
                 UNCHANGED <<up, tag, losses>>,
                 UNCHANGED ready \/ PushBack(WorkerOf[h])
          PROVE  QueueTypeOK'
      <4>1. ready' \in Seq(Jobs)
        <5>1. CASE ready' = ready
          BY <1>0, <5>1 DEF QueueTypeOK
        <5>2. CASE unacked[WorkerOf[h]] # NoJob /\ PushBack(WorkerOf[h])
          BY <1>0, <2>0, <5>2, PushBackSeq DEF QueueTypeOK, PushBack
        <5> QED
          BY <3>2, <5>1, <5>2 DEF PushBack
      <4> QED
        BY <1>0, <3>2, <4>1 DEF QueueTypeOK
    <3> QED
      BY <1>1, <2>2, <3>1, <3>2 DEF Releases, Ack, Nack, Unexpected
  <2> QED
    BY <1>1, <1>3, <2>1, <2>2 DEF HandlerEffect, Aborts, Inserts, Proceeds, Commits
<1>4. ASSUME NEW w \in Workers, WorkerEffect(w)
      PROVE  QueueTypeOK'
  <2>1. CASE Reconnect(w)
    BY <1>0, <2>1 DEF QueueTypeOK, Reconnect
  <2> QED
    BY <1>0, <1>1, <1>4, <2>1, LostType DEF WorkerEffect, LoseConnection, Connect, Crash
<1> QED
  BY <1>2, <1>3, <1>4

LEMMA LocalTypeStep ==
    ASSUME IInv
    PROVE  /\ \A r \in Requests : RequestEffect(r) => LocalTypeOK'
           /\ \A h \in Handlers : HandlerEffect(h) => LocalTypeOK'
           /\ \A w \in Workers : WorkerEffect(w) => LocalTypeOK'
<1>0. LocalTypeOK
  BY TypeParts DEF IInv
<1>2. ASSUME NEW r \in Requests, RequestEffect(r)
      PROVE  LocalTypeOK'
  <2>1. CASE Begins(r)
    <3>1. PICK l, a : Starts(r, l, a)
      BY <2>1 DEF Begins
    <3>2. pc' = [pc EXCEPT ![r] = l] /\ reply' = [reply EXCEPT ![r] = a]
      BY <3>1 DEF Starts
    <3>3. l \in {"publish", "insert", "done"} /\ a \in {0, 201, 500}
      BY <3>1 DEF Starts
    <3> QED
      BY <1>0, <2>1, <3>2, <3>3 DEF LocalTypeOK, Begins
  <2>2. CASE Publish(r)
    BY <1>0, <2>2 DEF LocalTypeOK, Publish, Answer, Refuse
  <2>3. CASE \/ Aborts(r, Inserting, "done") \/ Inserts(r, "count")
             \/ Proceeds(r, "commit")
    BY <1>0, <2>3 DEF LocalTypeOK, Aborts, Inserts, Proceeds
  <2>4. CASE Commits(r, quantity[r], "done")
    BY <1>0, <2>4 DEF LocalTypeOK, Commits
  <2> QED
    BY <1>2, <2>1, <2>2, <2>3, <2>4 DEF RequestEffect
<1>3. ASSUME NEW h \in Handlers, HandlerEffect(h)
      PROVE  LocalTypeOK'
  <2>0. WorkerOf[h] \in Workers /\ h \notin Requests
    OBVIOUS
  <2>1. CASE Deliver(h)
    <3>1. ready # <<>> /\ QueueTypeOK
      BY <2>1 DEF Deliver, CanDeliver, IInv, TypeOK
    <3>2. Head(ready) \in Jobs /\ NextTag(WorkerOf[h]) \in 0 .. MaxTag
      BY <2>0, <3>1, TagNat DEF QueueTypeOK
    <3> QED
      BY <1>0, <2>1, <3>2 DEF LocalTypeOK, Deliver
  <2>2. CASE Releases(h)
    BY <1>0, <2>2 DEF LocalTypeOK, Releases
  <2>3. ASSUME NEW from, NEW l \in {"ack", "nack", "idle", "insert", "count", "commit"},
               NEW n, Aborts(h, from, l) \/ Inserts(h, l) \/ Proceeds(h, l) \/ Commits(h, n, l)
        PROVE  LocalTypeOK'
    BY <1>0, <2>0, <2>3 DEF LocalTypeOK, Aborts, Inserts, Proceeds, Commits
  <2> QED
    BY <1>3, <2>1, <2>2, <2>3 DEF HandlerEffect
<1>4. ASSUME NEW w \in Workers, WorkerEffect(w)
      PROVE  LocalTypeOK'
  BY <1>0, <1>4 DEF LocalTypeOK, WorkerEffect, LoseConnection, Connect, Crash
<1> QED
  BY <1>2, <1>3, <1>4

LEMMA HistoryTypeStep ==
    ASSUME IInv
    PROVE  /\ \A r \in Requests : RequestEffect(r) => HistoryTypeOK'
           /\ \A h \in Handlers : HandlerEffect(h) => HistoryTypeOK'
           /\ \A w \in Workers : WorkerEffect(w) => HistoryTypeOK'
<1>0. HistoryTypeOK
  BY TypeParts DEF IInv
<1>1. ASSUME UNCHANGED history
      PROVE  HistoryTypeOK'
  BY <1>0, <1>1 DEF HistoryTypeOK
<1>2. ASSUME NEW s \in Sessions, NEW n, NEW l, Commits(s, n, l)
      PROVE  HistoryTypeOK'
  <2>1. RequestOf(s) \in Requests /\ Made(s, RequestOf(s))
    BY <1>2, Busy DEF Commits
  <2> QED
    BY <1>0, <2>1 DEF HistoryTypeOK, Made
<1> QED
  BY <1>1, <1>2 DEF RequestEffect, Begins, Publish, Aborts, Inserts, Proceeds,
     HandlerEffect, Deliver, Releases, WorkerEffect, LoseConnection, Connect, Crash

--------------------------------------------------------------------------------
(* What a request has checked, and what a job is *)

(* A step leaves the answered requests as they are, and no book goes.       *)
Settled ==
    /\ couponBooks \subseteq couponBooks'
    /\ \A r \in Requests : pc[r] = "done" =>
         /\ pc'[r] = "done" /\ reply'[r] = reply[r]
         /\ book'[r] = book[r] /\ quantity'[r] = quantity[r]

LEMMA SettledStep ==
    ASSUME IInv
    PROVE  /\ \A r \in Requests : RequestEffect(r) => Settled
           /\ \A h \in Handlers : HandlerEffect(h) => Settled
           /\ \A w \in Workers : WorkerEffect(w) => Settled
<1>0. LocalTypeOK
  BY TypeParts DEF IInv
<1>1. ASSUME NEW r \in Requests, RequestEffect(r)
      PROVE  Settled
  <2>1. CASE Begins(r)
    <3>1. PICK l, a : Starts(r, l, a)
      BY <2>1 DEF Begins
    <3>2. /\ pc' = [pc EXCEPT ![r] = l] /\ reply' = [reply EXCEPT ![r] = a]
          /\ pc[r] = "idle"
      BY <2>1, <3>1 DEF Starts, Begins
    <3> QED
      BY <1>0, <2>1, <3>2 DEF LocalTypeOK, Settled, Begins
  <2>2. CASE Publish(r)
    BY <1>0, <2>2 DEF LocalTypeOK, Settled, Publish, Answer, Refuse
  <2>3. CASE \/ Aborts(r, Inserting, "done") \/ Inserts(r, "count")
             \/ Proceeds(r, "commit")
    BY <1>0, <2>3 DEF LocalTypeOK, Settled, Aborts, Abort, Inserts, Proceeds
  <2>4. CASE Commits(r, quantity[r], "done")
    BY <1>0, <2>4 DEF LocalTypeOK, Settled, Commits, Commit
  <2> QED
    BY <1>1, <2>1, <2>2, <2>3, <2>4 DEF RequestEffect
<1>2. ASSUME NEW h \in Handlers, HandlerEffect(h)
      PROVE  Settled
  <2>0. h \notin Requests
    OBVIOUS
  <2>1. CASE Deliver(h) \/ Releases(h)
    BY <1>0, <2>0, <2>1 DEF LocalTypeOK, Settled, Deliver, Releases
  <2>3. ASSUME NEW from, NEW l, NEW n,
               Aborts(h, from, l) \/ Inserts(h, l) \/ Proceeds(h, l) \/ Commits(h, n, l)
        PROVE  Settled
    BY <1>0, <2>0, <2>3
    DEF LocalTypeOK, Settled, Aborts, Abort, Inserts, Proceeds, Commits, Commit
  <2> QED
    BY <1>2, <2>1, <2>3 DEF HandlerEffect
<1>3. ASSUME NEW w \in Workers, WorkerEffect(w)
      PROVE  Settled
  BY <1>0, <1>3 DEF LocalTypeOK, Settled, WorkerEffect, LoseConnection, Connect, Crash
<1> QED
  BY <1>1, <1>2, <1>3

LEMMA JobsStayJobs ==
    ASSUME Settled, NEW r, IsJob(r)
    PROVE  IsJob(r)'
  BY DEF Settled, IsJob, Accepted

LEMMA ControlStep ==
    ASSUME IInv
    PROVE  /\ \A r \in Requests : RequestEffect(r) => Control'
           /\ \A h \in Handlers : HandlerEffect(h) => Control'
           /\ \A w \in Workers : WorkerEffect(w) => Control'
<1>0. LocalTypeOK /\ HistoryTypeOK /\ Control
  BY TypeParts DEF IInv
<1> DEFINE Half(r) ==
             /\ pc[r] \in {"idle", "publish", "done"} \cup Inserting
             /\ pc[r] \notin {"idle", "done"} => Kind[r] # "create" /\ book[r] \in couponBooks
             /\ pc[r] = "publish" => Kind[r] = "generate" /\ quantity[r] > MaxSync * Unit
             /\ pc[r] \in Inserting => Kind[r] = "upload" \/ quantity[r] <= MaxSync * Unit
             /\ pc[r] # "done" => reply[r] = 0 /\ times[r] = 0
           Steps(h) == pc[h] \in {"idle", "begin", "ack", "nack", "dead"} \cup Inserting
<1>a. Control <=> (\A r \in Requests : Half(r)) /\ (\A h \in Handlers : Steps(h))
  BY DEF Control
<1>b. Control' <=> (\A r \in Requests : Half(r)') /\ (\A h \in Handlers : Steps(h)')
  BY DEF Control
<1>1. ASSUME NEW r \in Requests, RequestEffect(r)
      PROVE  Control'
  <2>1. PICK l \in {"publish", "insert", "count", "commit", "done"} :
          pc' = [pc EXCEPT ![r] = l]
    <3>1. CASE Begins(r)
      BY <3>1 DEF Begins, Starts
    <3>2. CASE Publish(r)
      BY <3>2 DEF Publish, Answer, Refuse
    <3> QED
      BY <1>1, <3>1, <3>2 DEF RequestEffect, Aborts, Inserts, Proceeds, Commits
  <2>2. \A h \in Handlers : Steps(h)'
    BY <1>0, <1>a, <2>1 DEF LocalTypeOK
  <2>3. couponBooks \subseteq couponBooks'
    BY <1>1, SettledStep DEF Settled
  <2>4. ASSUME NEW t \in Requests, t # r
        PROVE  Half(t)'
    <3>1. /\ book'[t] = book[t] /\ quantity'[t] = quantity[t] /\ pc'[t] = pc[t]
          /\ reply'[t] = reply[t] /\ times'[t] = times[t]
      <4>1. CASE Begins(r)
        <5>1. PICK k, a : Starts(r, k, a)
          BY <4>1 DEF Begins
        <5>2. reply' = [reply EXCEPT ![r] = a]
          BY <5>1 DEF Starts
        <5> QED
          BY <1>0, <2>1, <2>4, <4>1, <5>2 DEF LocalTypeOK, Begins
      <4>2. CASE Publish(r)
        BY <1>0, <2>1, <2>4, <4>2 DEF LocalTypeOK, Publish, Answer, Refuse
      <4>3. CASE \/ Aborts(r, Inserting, "done") \/ Inserts(r, "count")
                 \/ Proceeds(r, "commit")
        BY <1>0, <2>1, <2>4, <4>3 DEF LocalTypeOK, Aborts, Inserts, Proceeds
      <4>4. CASE Commits(r, quantity[r], "done")
        BY <1>0, <2>1, <2>4, <4>4
        DEF LocalTypeOK, HistoryTypeOK, Commits, Made, RequestOf
      <4> QED
        BY <1>1, <4>1, <4>2, <4>3, <4>4 DEF RequestEffect
    <3> QED
      BY <1>0, <1>a, <2>3, <3>1
  <2>5. Half(r)'
    <3>1. CASE l = "done"
      BY <1>0, <2>1, <3>1 DEF LocalTypeOK
    <3>2. CASE Begins(r) /\ l # "done"
      <4>1. PICK k, a : Starts(r, k, a)
        BY <3>2 DEF Begins
      <4>2. k = l
        BY <1>0, <2>1, <4>1 DEF LocalTypeOK, Starts
      <4>3. /\ pc'[r] = l /\ l \in {"publish", "insert"} /\ reply'[r] = 0
            /\ times'[r] = times[r] /\ times[r] = 0
        BY <1>0, <1>a, <2>1, <3>2, <4>1, <4>2 DEF LocalTypeOK, Starts, Begins
      <4> QED
        BY <2>3, <3>2, <4>1, <4>2, <4>3 DEF Starts
    <3>3. CASE (Inserts(r, "count") \/ Proceeds(r, "commit")) /\ l # "done"
      BY <1>0, <1>a, <2>1, <2>3, <3>3 DEF LocalTypeOK, Inserts, Proceeds
    <3>4. CASE Publish(r) \/ Aborts(r, Inserting, "done") \/ Commits(r, quantity[r], "done")
      <4>1. pc'[r] = "done"
        BY <1>0, <3>4 DEF LocalTypeOK, Publish, Answer, Refuse, Aborts, Commits
      <4> QED
        BY <1>0, <2>1, <3>1, <4>1 DEF LocalTypeOK
    <3> QED
      BY <1>1, <3>1, <3>2, <3>3, <3>4 DEF RequestEffect
  <2> HIDE DEF Half, Steps
  <2> QED
    BY <1>b, <2>2, <2>4, <2>5
<1>2. ASSUME UNCHANGED <<book, quantity, reply>>, couponBooks \subseteq couponBooks',
             \A r \in Requests : pc'[r] = pc[r] /\ (pc[r] # "done" => times'[r] = times[r]),
             \A h \in Handlers : Steps(h)'
      PROVE  Control'
  BY <1>0, <1>a, <1>b, <1>2
<1>3. ASSUME NEW h \in Handlers, HandlerEffect(h)
      PROVE  Control'
  <2>0. h \notin Requests
    OBVIOUS
  <2>1. couponBooks \subseteq couponBooks' /\ UNCHANGED <<book, quantity, reply>>
    <3>1. couponBooks \subseteq couponBooks'
      BY <1>3, SettledStep DEF Settled
    <3> QED
      BY <1>3, <2>0, <3>1 DEF HandlerEffect, Deliver, Releases, Aborts, Inserts, Proceeds, Commits
  <2>2. PICK l \in {"begin", "idle", "insert", "count", "commit", "ack", "nack"} :
          pc' = [pc EXCEPT ![h] = l]
    BY <1>3 DEF HandlerEffect, Deliver, Releases, Aborts, Inserts, Proceeds, Commits
  <2>3. \A r \in Requests : pc[r] # "done" => times'[r] = times[r]
    <3>1. ASSUME NEW n, NEW k, Commits(h, n, k)
          PROVE  \A r \in Requests : pc[r] # "done" => times'[r] = times[r]
      <4>1. IsJob(job[h]) /\ RequestOf(h) = job[h]
        BY <2>0, <3>1, Busy DEF Commits, RequestOf
      <4> QED
        BY <1>0, <3>1, <4>1 DEF HistoryTypeOK, Commits, Made, IsJob
    <3> QED
      BY <1>3, <3>1 DEF HandlerEffect, Deliver, Releases, Aborts, Inserts, Proceeds
  <2>4. \A g \in Handlers : Steps(g)'
    BY <1>0, <1>a, <2>2 DEF LocalTypeOK
  <2>5. \A r \in Requests : pc'[r] = pc[r]
    BY <1>0, <2>2 DEF LocalTypeOK
  <2> QED
    BY <1>2, <2>1, <2>3, <2>4, <2>5
<1>4. ASSUME NEW w \in Workers, WorkerEffect(w)
      PROVE  Control'
  <2>1. /\ UNCHANGED <<store, request, history>>
        /\ \A s \in Sessions : pc'[s] = pc[s] \/ (s \in Handlers /\ pc'[s] = "dead")
    BY <1>0, <1>4 DEF LocalTypeOK, WorkerEffect, LoseConnection, Connect, Crash
  <2> QED
    BY <1>0, <1>a, <1>2, <2>1
<1> QED
  BY <1>1, <1>3, <1>4

(* A step of the queue moves what is there about, or adds a request to it.  *)
Moves(new) ==
    /\ \A i \in 1 .. Len(ready') :
         \/ ready'[i] \in new
         \/ \E k \in 1 .. Len(ready) : ready'[i] = ready[k]
         \/ \E w \in Workers : ready'[i] = unacked[w] /\ unacked[w] # NoJob
    /\ \A w \in Workers : unacked'[w] # NoJob =>
         \/ unacked'[w] = unacked[w]
         \/ \E k \in 1 .. Len(ready) : unacked'[w] = ready[k]

LEMMA PushBackMoves ==
    ASSUME QueueTypeOK, NEW w \in Workers, PushBack(w),
           unacked' = [unacked EXCEPT ![w] = NoJob]
    PROVE  Moves({})
<1>1. \A v \in Workers : unacked'[v] # NoJob => unacked'[v] = unacked[v]
  BY DEF QueueTypeOK
<1>2. CASE unacked[w] = NoJob
  BY <1>1, <1>2 DEF PushBack, Moves
<1>3. CASE unacked[w] # NoJob
  <2>1. ready \in Seq(Jobs) /\ unacked[w] \in Jobs /\ ready' = <<unacked[w]>> \o ready
    BY <1>3 DEF QueueTypeOK, PushBack
  <2>2. ASSUME NEW i \in 1 .. Len(ready')
        PROVE  ready'[i] = unacked[w] \/ \E k \in 1 .. Len(ready) : ready'[i] = ready[k]
    BY <2>1, PushBackSeq
  <2> QED
    BY <1>1, <1>3, <2>2 DEF Moves
<1> QED
  BY <1>2, <1>3

LEMMA LostMoves ==
    ASSUME QueueTypeOK, NEW w \in Workers, Lost(w)
    PROVE  Moves({})
  BY PushBackMoves DEF Lost

LEMMA DeliveredMoves ==
    ASSUME QueueTypeOK, NEW w \in Workers, ready # <<>>, Delivered(w)
    PROVE  Moves({}) /\ 1 \in 1 .. Len(ready) /\ Head(ready) = ready[1]
<1>1. /\ 1 \in 1 .. Len(ready) /\ Head(ready) = ready[1] /\ Len(Tail(ready)) = Len(ready) - 1
      /\ \A i \in 1 .. Len(Tail(ready)) : i + 1 \in 1 .. Len(ready) /\ Tail(ready)[i] = ready[i + 1]
  BY DEF QueueTypeOK
<1>2. ready' = Tail(ready) /\ unacked' = [unacked EXCEPT ![w] = ready[1]]
  BY <1>1 DEF Delivered
<1> QED
  BY <1>1, <1>2 DEF QueueTypeOK, Moves

LEMMA ReleasesMoves ==
    ASSUME QueueTypeOK, NEW h \in Handlers, Releases(h)
    PROVE  Moves({})
<1>0. WorkerOf[h] \in Workers
  OBVIOUS
<1>1. CASE UNCHANGED queue
  BY <1>1 DEF Moves
<1>2. CASE UNCHANGED ready /\ unacked' = [unacked EXCEPT ![WorkerOf[h]] = NoJob]
  BY <1>0, <1>2 DEF Moves, QueueTypeOK
<1>3. CASE PushBack(WorkerOf[h]) /\ unacked' = [unacked EXCEPT ![WorkerOf[h]] = NoJob]
  BY <1>0, <1>3, PushBackMoves
<1> QED
  BY <1>0, <1>1, <1>2, <1>3, LostMoves DEF Releases, Ack, Nack, Unexpected

LEMMA MovedJobsKnown ==
    ASSUME IInv, Settled, NEW new, Moves(new), \A r \in new : IsJob(r)'
    PROVE  /\ \A i \in 1 .. Len(ready') : IsJob(ready[i])'
           /\ \A w \in Workers : unacked'[w] # NoJob => IsJob(unacked[w])'
<1>1. /\ \A i \in 1 .. Len(ready) : IsJob(ready[i])
      /\ \A w \in Workers : unacked[w] # NoJob => IsJob(unacked[w])
  BY DEF IInv, JobsKnown
<1>2. \A r : IsJob(r) => /\ r \in Requests /\ pc'[r] = "done" /\ Accepted(r)'
                         /\ book'[r] \in couponBooks'
  BY DEF Settled, IsJob, Accepted
<1>3. \A r : r \in Requests /\ pc'[r] = "done" /\ Accepted(r)' /\ book'[r] \in couponBooks'
             <=> IsJob(r)'
  BY DEF IsJob
<1> QED
  BY <1>1, <1>2, <1>3 DEF Moves, IsJob

LEMMA JobsKnownStep ==
    ASSUME IInv
    PROVE  /\ \A r \in Requests : RequestEffect(r) => JobsKnown'
           /\ \A h \in Handlers : HandlerEffect(h) => JobsKnown'
           /\ \A w \in Workers : WorkerEffect(w) => JobsKnown'
<1>0. LocalTypeOK /\ QueueTypeOK /\ JobsKnown /\ Control
  BY TypeParts DEF IInv
<1>1. ASSUME UNCHANGED queue
      PROVE  Moves({})
  BY <1>1 DEF Moves
<1>2. ASSUME Settled, NEW new, Moves(new), \A r \in new : IsJob(r)',
             \A h \in Handlers : Alive(h)' => job'[h] = job[h] /\ Alive(h)
      PROVE  JobsKnown'
  BY <1>0, <1>2, MovedJobsKnown, JobsStayJobs DEF JobsKnown
<1>3. ASSUME NEW r \in Requests, RequestEffect(r)
      PROVE  JobsKnown'
  <2>1. Settled
    BY <1>3, SettledStep
  <2>2. UNCHANGED job /\ \A h \in Handlers : pc'[h] = pc[h]
    <3>1. CASE Begins(r)
      BY <1>0, <3>1 DEF LocalTypeOK, Begins, Starts
    <3>2. CASE Publish(r)
      BY <1>0, <3>2 DEF LocalTypeOK, Publish, Answer, Refuse
    <3> QED
      BY <1>0, <1>3, <3>1, <3>2
      DEF RequestEffect, LocalTypeOK, Aborts, Inserts, Proceeds, Commits
  <2>3. CASE Publish(r) /\ Enqueue(r)
    <3>1. IsJob(r)'
      <4>1. /\ pc[r] = "publish" /\ pc'[r] = "done" /\ UNCHANGED <<couponBooks, book, quantity>>
        BY <1>0, <2>3 DEF LocalTypeOK, Publish, Answer, Refuse
      <4>2. reply'[r] = 201
        BY <1>0, <2>3, <4>1 DEF LocalTypeOK, Publish, Answer, Refuse, Enqueue, QueueTypeOK
      <4> QED
        BY <1>0, <4>1, <4>2 DEF Control, IsJob, Accepted
    <3>2. Moves({r})
      <4>1. /\ ready' = Append(ready, r) /\ Len(ready') = Len(ready) + 1
            /\ \A i \in 1 .. Len(ready) + 1 :
                 ready'[i] = r \/ (i \in 1 .. Len(ready) /\ ready'[i] = ready[i])
        BY <1>0, <2>3 DEF QueueTypeOK, Enqueue
      <4> QED
        BY <2>3, <4>1 DEF Moves, Enqueue
    <3> QED
      BY <1>2, <2>1, <2>2, <3>1, <3>2 DEF Alive
  <2>4. CASE UNCHANGED queue
    BY <1>1, <1>2, <2>1, <2>2, <2>4 DEF Alive
  <2> QED
    BY <1>3, <2>3, <2>4
    DEF RequestEffect, Begins, Publish, Aborts, Inserts, Proceeds, Commits
<1>4. ASSUME NEW h \in Handlers, HandlerEffect(h)
      PROVE  JobsKnown'
  <2>1. Settled
    BY <1>4, SettledStep
  <2>2. CASE Deliver(h)
    <3>1. /\ Moves({}) /\ 1 \in 1 .. Len(ready) /\ Head(ready) = ready[1]
      BY <1>0, <2>2, DeliveredMoves DEF Deliver, CanDeliver
    <3>2. /\ \A g \in Handlers : g # h => pc'[g] = pc[g] /\ job'[g] = job[g]
          /\ job'[h] = ready[1]
      BY <1>0, <2>2, <3>1 DEF LocalTypeOK, Deliver
    <3>3. IsJob(job[h])'
      BY <1>0, <2>1, <3>1, <3>2, JobsStayJobs DEF JobsKnown, IsJob, Accepted, Settled
    <3>4. \A g \in Handlers : g # h /\ Alive(g)' => IsJob(job[g])'
      BY <1>0, <2>1, <3>2 DEF JobsKnown, Alive, IsJob, Accepted, Settled
    <3> QED
      BY <2>1, <3>1, <3>3, <3>4, MovedJobsKnown DEF JobsKnown
  <2>3. CASE Releases(h)
    BY <1>0, <1>2, <2>1, <2>3, ReleasesMoves DEF LocalTypeOK, Releases, Alive
  <2>4. ASSUME UNCHANGED <<queue, job>>, pc[h] \notin {"idle", "dead"},
               \E l : pc' = [pc EXCEPT ![h] = l]
        PROVE  JobsKnown'
    BY <1>0, <1>1, <1>2, <2>1, <2>4 DEF LocalTypeOK, Alive
  <2>5. CASE Aborts(h, {"dead"}, "idle")
    BY <1>0, <1>1, <1>2, <2>1, <2>5 DEF LocalTypeOK, Alive, Aborts
  <2> QED
    BY <1>4, <2>2, <2>3, <2>4, <2>5 DEF HandlerEffect, Aborts, Inserts, Proceeds, Commits
<1>5. ASSUME NEW w \in Workers, WorkerEffect(w)
      PROVE  JobsKnown'
  <2>1. Settled
    BY <1>5, SettledStep
  <2>2. Moves({})
    <3>1. CASE Reconnect(w)
      BY <3>1 DEF Reconnect, Moves
    <3> QED
      BY <1>0, <1>1, <1>5, <3>1, LostMoves DEF WorkerEffect, LoseConnection, Connect, Crash
  <2>3. \A h \in Handlers : Alive(h)' => job'[h] = job[h] /\ Alive(h)
    BY <1>0, <1>5 DEF LocalTypeOK, Alive, WorkerEffect, LoseConnection, Connect, Crash
  <2> QED
    BY <1>2, <2>1, <2>2, <2>3
<1> QED
  BY <1>3, <1>4, <1>5

--------------------------------------------------------------------------------
(* What transactions hold *)

(* A step that leaves the coupons alone, lets no transaction insert, and    *)
(* moves only on to where what is inserted fits.                            *)
LEMMA TransactionsFrame ==
    ASSUME IInv, Settled, bookOf' = bookOf,
           NEW s \in Sessions, NEW l, pc' = [pc EXCEPT ![s] = l],
           \A t \in Sessions : t # s => inserts'[t] = inserts[t],
           \A h \in Handlers : h # s => job'[h] = job[h],
           \A r \in Requests : r # s => quantity'[r] = quantity[r],
           inserts'[s] = {} \/ (inserts'[s] = inserts[s] /\ l \in Inserting),
           l = "insert" => IF s \in Requests THEN inserts'[s] = {}
                           ELSE inserts'[s] = {} /\ CodesToMake(job[s])' \in Nat,
           l \in {"count", "commit"} =>
             Cardinality(inserts'[s]) = CodesToMake(RequestOf(s))'
    PROVE  Transactions'
<1>0. LocalTypeOK /\ StoreTypeOK /\ Transactions
  BY TypeParts DEF IInv
<1>1. \A t \in Sessions : t # s => pc'[t] = pc[t]
  BY <1>0 DEF LocalTypeOK
<1>2. pc'[s] = l
  BY <1>0 DEF LocalTypeOK
<1>3. \A t \in Sessions : inserts'[t] \subseteq inserts[t]
  OBVIOUS
<1>4. /\ \A t \in Sessions : inserts'[t] # {} => pc'[t] \in Inserting \cup {"dead"}
      /\ \A r \in Requests : pc'[r] = "insert" => inserts'[r] = {}
  BY <1>0, <1>1, <1>2 DEF Transactions
<1>5. /\ \A t \in Sessions : \A c \in inserts'[t] : bookOf'[c] = NoBook
      /\ \A t, u \in Sessions : t # u => inserts'[t] \cap inserts'[u] = {}
  BY <1>0, <1>3 DEF Transactions
<1>6. ASSUME NEW t \in Sessions, t # s, pc[t] \in Inserting
      PROVE  CodesToMake(RequestOf(t))' = CodesToMake(RequestOf(t))
  <2>1. CASE t \in Requests
    BY <1>6, <2>1 DEF RequestOf, CodesToMake
  <2>2. CASE t \in Handlers
    <3>1. job'[t] = job[t] /\ pc[job[t]] = "done" /\ job[t] \in Requests /\ t \notin Requests
      BY <1>6, <2>2, Busy DEF IsJob
    <3> QED
      BY <3>1 DEF RequestOf, CodesToMake, Settled
  <2> QED
    BY <2>1, <2>2
<1>7. \A t \in Sessions : pc'[t] \in {"count", "commit"} =>
         Cardinality(inserts'[t]) = CodesToMake(RequestOf(t))'
  BY <1>0, <1>1, <1>2, <1>6 DEF Transactions
<1>8. \A h \in Handlers : pc'[h] = "insert" =>
         Cardinality(inserts'[h]) <= CodesToMake(job[h])'
  <2>1. ASSUME NEW h \in Handlers, h # s, pc'[h] = "insert"
        PROVE  Cardinality(inserts'[h]) <= CodesToMake(job[h])'
    BY <1>0, <1>1, <1>6, <2>1 DEF Transactions, RequestOf
  <2>2. ASSUME s \in Handlers, l = "insert"
        PROVE  Cardinality(inserts'[s]) <= CodesToMake(job[s])'
    <3>1. Cardinality(inserts'[s]) = 0
      BY <2>2, FS_EmptySet
    <3> QED
      BY <2>2, <3>1
  <2> QED
    BY <1>2, <2>1, <2>2
<1> QED
  BY <1>4, <1>5, <1>7, <1>8 DEF Transactions

LEMMA InsertsTransactions ==
    ASSUME IInv, Settled, NEW s \in Sessions, NEW l \in {"insert", "count"}, Inserts(s, l),
           s \in Requests => l = "count"
    PROVE  Transactions'
<1>0. LocalTypeOK /\ StoreTypeOK /\ Transactions
  BY TypeParts DEF IInv
<1>1. PICK cs \in SUBSET Fresh :
        /\ inserts' = [inserts EXCEPT ![s] = @ \cup cs]
        /\ IF l = "count"
           THEN Cardinality(inserts[s]) + Cardinality(cs) = CodesToMake(RequestOf(s))
           ELSE Cardinality(inserts[s]) + Cardinality(cs) <= CodesToMake(RequestOf(s))
  BY DEF Inserts
<1>2. /\ pc'[s] = l /\ inserts'[s] = inserts[s] \cup cs /\ pc[s] = "insert"
      /\ \A t \in Sessions : t # s => pc'[t] = pc[t] /\ inserts'[t] = inserts[t]
  BY <1>0, <1>1 DEF LocalTypeOK, StoreTypeOK, Inserts
<1>3. /\ cs \subseteq Codes /\ \A c \in cs : bookOf[c] = NoBook
      /\ \A c \in cs : \A t \in Sessions : c \notin inserts[t]
  BY DEF Fresh
<1>4. bookOf' = bookOf
  BY DEF Inserts
<1>5. Cardinality(inserts'[s]) = Cardinality(inserts[s]) + Cardinality(cs)
  <2>1. inserts[s] \cap cs = {} /\ inserts[s] \in SUBSET Codes
    BY <1>0, <1>3 DEF StoreTypeOK
  <2> QED
    BY <1>2, <1>3, <2>1, DisjointUnion
<1>6. \A t \in Sessions : CodesToMake(RequestOf(t))' = CodesToMake(RequestOf(t))
  BY DEF Inserts, CodesToMake, RequestOf
<1>7. /\ \A t \in Sessions : inserts'[t] # {} => pc'[t] \in Inserting \cup {"dead"}
      /\ \A r \in Requests : pc'[r] = "insert" => inserts'[r] = {}
  BY <1>0, <1>2 DEF Transactions
<1>8. /\ \A t \in Sessions : \A c \in inserts'[t] : bookOf'[c] = NoBook
      /\ \A t, u \in Sessions : t # u => inserts'[t] \cap inserts'[u] = {}
  BY <1>0, <1>2, <1>3, <1>4 DEF Transactions
<1>9. \A t \in Sessions : pc'[t] \in {"count", "commit"} =>
         Cardinality(inserts'[t]) = CodesToMake(RequestOf(t))'
  <2>1. ASSUME NEW t \in Sessions, t # s, pc'[t] \in {"count", "commit"}
        PROVE  Cardinality(inserts'[t]) = CodesToMake(RequestOf(t))'
    <3>1. Cardinality(inserts[t]) = CodesToMake(RequestOf(t))
      BY <1>0, <1>2, <2>1 DEF Transactions
    <3> QED
      BY <1>2, <1>6, <2>1, <3>1
  <2>2. CASE l = "count"
    <3>1. Cardinality(inserts'[s]) = CodesToMake(RequestOf(s))'
      BY <1>1, <1>5, <1>6, <2>2
    <3> QED
      BY <2>1, <3>1
  <2> QED
    BY <1>2, <2>1, <2>2
<1>10. ASSUME NEW h \in Handlers, pc'[h] = "insert"
       PROVE  Cardinality(inserts'[h]) <= CodesToMake(job[h])'
  <2>1. /\ CodesToMake(RequestOf(h))' = CodesToMake(job[h])'
        /\ CodesToMake(RequestOf(h)) = CodesToMake(job[h])
    BY DEF RequestOf
  <2>2. CASE h = s
    <3>1. Cardinality(inserts'[s]) <= CodesToMake(RequestOf(s))
      BY <1>1, <1>2, <1>5, <1>10, <2>2
    <3> QED
      BY <1>6, <2>1, <2>2, <3>1
  <2>3. CASE h # s
    <3>1. Cardinality(inserts[h]) <= CodesToMake(job[h])
      BY <1>0, <1>2, <1>10, <2>3 DEF Transactions
    <3> QED
      BY <1>2, <1>6, <2>1, <2>3, <3>1
  <2> QED
    BY <2>2, <2>3
<1> QED
  BY <1>7, <1>8, <1>9, <1>10 DEF Transactions

LEMMA CommitsTransactions ==
    ASSUME IInv, Settled, NEW s \in Sessions, NEW n, NEW l, Commits(s, n, l),
           l \notin Inserting
    PROVE  Transactions'
<1>0. LocalTypeOK /\ StoreTypeOK /\ Transactions
  BY TypeParts DEF IInv
<1>1. /\ bookOf' = [c \in Codes |-> IF c \in inserts[s] THEN book[RequestOf(s)] ELSE bookOf[c]]
      /\ inserts' = [inserts EXCEPT ![s] = {}]
      /\ pc' = [pc EXCEPT ![s] = l]
      /\ UNCHANGED <<quantity, job>>
  BY DEF Commits, Commit, EndTransaction
<1>2. /\ pc'[s] = l /\ inserts'[s] = {}
      /\ \A t \in Sessions : t # s => pc'[t] = pc[t] /\ inserts'[t] = inserts[t]
  BY <1>0, <1>1 DEF LocalTypeOK, StoreTypeOK
<1>3. \A t \in Sessions : CodesToMake(RequestOf(t))' = CodesToMake(RequestOf(t))
  BY <1>1 DEF CodesToMake, RequestOf
<1>4. /\ \A t \in Sessions : inserts'[t] # {} => pc'[t] \in Inserting \cup {"dead"}
      /\ \A r \in Requests : pc'[r] = "insert" => inserts'[r] = {}
  BY <1>0, <1>2 DEF Transactions
<1>5. \A t, u \in Sessions : t # u => inserts'[t] \cap inserts'[u] = {}
  BY <1>0, <1>2 DEF Transactions
<1>6. \A t \in Sessions : \A c \in inserts'[t] : bookOf'[c] = NoBook
  BY <1>0, <1>1, <1>2 DEF Transactions, StoreTypeOK
<1>7. \A t \in Sessions : pc'[t] \in {"count", "commit"} =>
         Cardinality(inserts'[t]) = CodesToMake(RequestOf(t))'
  BY <1>0, <1>2, <1>3 DEF Transactions
<1>8. \A h \in Handlers : pc'[h] = "insert" =>
         Cardinality(inserts'[h]) <= CodesToMake(job[h])'
  BY <1>0, <1>1, <1>2 DEF Transactions, CodesToMake
<1> QED
  BY <1>4, <1>5, <1>6, <1>7, <1>8 DEF Transactions

LEMMA TransactionsStep ==
    ASSUME IInv
    PROVE  /\ \A r \in Requests : RequestEffect(r) => Transactions'
           /\ \A h \in Handlers : HandlerEffect(h) => Transactions'
           /\ \A w \in Workers : WorkerEffect(w) => Transactions'
<1>0. LocalTypeOK /\ StoreTypeOK /\ Transactions
  BY TypeParts DEF IInv
<1>1. ASSUME NEW s \in Sessions, pc[s] \in {"idle", "publish", "begin", "ack", "nack"}
      PROVE  inserts[s] = {}
  BY <1>0, <1>1 DEF Transactions
<1>2. ASSUME Settled, NEW s \in Sessions, NEW from, NEW l \in {"done", "nack", "idle"},
             Aborts(s, from, l)
      PROVE  Transactions'
  <2>1. inserts'[s] = {} /\ \A t \in Sessions : t # s => inserts'[t] = inserts[t]
    BY <1>0, <1>2 DEF StoreTypeOK, Aborts, Abort, EndTransaction
  <2> QED
    BY <1>2, <2>1, TransactionsFrame DEF Aborts, Abort
<1>3. ASSUME NEW r \in Requests, RequestEffect(r)
      PROVE  Transactions'
  <2>0. Settled
    BY <1>3, SettledStep
  <2>1. CASE Begins(r)
    <3>1. PICK l, a : Starts(r, l, a)
      BY <2>1 DEF Begins
    <3>2. \A t \in Requests : t # r => quantity'[t] = quantity[t]
      BY <1>0, <2>1 DEF LocalTypeOK, Begins
    <3>3. inserts'[r] = {} /\ inserts' = inserts
      BY <1>1, <2>1 DEF Begins
    <3>4. l \in {"publish", "insert", "done"} /\ pc' = [pc EXCEPT ![r] = l]
      BY <3>1 DEF Starts
    <3> QED
      BY <2>0, <2>1, <3>2, <3>3, <3>4, TransactionsFrame DEF Begins
  <2>2. CASE Publish(r)
    <3>1. inserts[r] = {} /\ pc' = [pc EXCEPT ![r] = "done"]
      BY <1>1, <2>2 DEF Publish, Answer, Refuse
    <3> QED
      BY <2>0, <2>2, <3>1, TransactionsFrame DEF Publish
  <2>3. CASE Proceeds(r, "commit")
    <3>1. Cardinality(inserts[r]) = CodesToMake(RequestOf(r))
      BY <1>0, <2>3 DEF Transactions, Proceeds
    <3>2. CodesToMake(RequestOf(r))' = CodesToMake(RequestOf(r))
      BY <2>3 DEF CodesToMake, RequestOf, Proceeds
    <3> QED
      BY <2>0, <2>3, <3>1, <3>2, TransactionsFrame DEF Proceeds
  <2> QED
    BY <1>2, <1>3, <2>0, <2>1, <2>2, <2>3, InsertsTransactions, CommitsTransactions
    DEF RequestEffect
<1>4. ASSUME NEW h \in Handlers, HandlerEffect(h)
      PROVE  Transactions'
  <2>0. Settled /\ h \notin Requests
    BY <1>4, SettledStep
  <2>1. CASE Deliver(h) \/ Releases(h)
    <3>1. inserts'[h] = {} /\ inserts' = inserts
      BY <1>1, <2>1 DEF Deliver, Releases
    <3>2. /\ \A g \in Handlers : g # h => job'[g] = job[g]
          /\ bookOf' = bookOf /\ quantity' = quantity
      BY <1>0, <2>1 DEF LocalTypeOK, Deliver, Releases
    <3>3. PICK l \in {"begin", "idle"} : pc' = [pc EXCEPT ![h] = l]
      BY <2>1 DEF Deliver, Releases
    <3> QED
      BY <2>0, <3>1, <3>2, <3>3, TransactionsFrame
  <2>2. CASE Proceeds(h, "insert")
    <3>1. pc[h] = "begin" /\ inserts' = inserts /\ inserts[h] = {}
      BY <1>1, <2>2 DEF Proceeds
    <3>2. CodesToMake(job[h])' \in Nat
      <4>1. job[h] \in Requests
        BY <3>1 DEF IInv, JobsKnown, IsJob, Alive
      <4>2. CodesToMake(job[h]) \in Nat
        BY <1>0, <4>1, CodesToMakeNat DEF LocalTypeOK
      <4> QED
        BY <2>2, <4>2 DEF CodesToMake, Proceeds
    <3> QED
      BY <2>0, <2>2, <3>1, <3>2, TransactionsFrame DEF Proceeds
  <2>3. CASE Proceeds(h, "commit")
    <3>1. Cardinality(inserts[h]) = CodesToMake(RequestOf(h))
      BY <1>0, <2>3 DEF Transactions, Proceeds
    <3>2. CodesToMake(RequestOf(h))' = CodesToMake(RequestOf(h))
      BY <2>3 DEF CodesToMake, RequestOf, Proceeds
    <3> QED
      BY <2>0, <2>3, <3>1, <3>2, TransactionsFrame DEF Proceeds
  <2> QED
    BY <1>2, <1>4, <2>0, <2>1, <2>2, <2>3, InsertsTransactions, CommitsTransactions
    DEF HandlerEffect
<1>5. ASSUME NEW w \in Workers, WorkerEffect(w)
      PROVE  Transactions'
  <2>1. /\ UNCHANGED <<store, txn, request, handler>>
        /\ \A s \in Sessions : pc'[s] = pc[s] \/ pc'[s] = "dead"
    BY <1>0, <1>5 DEF LocalTypeOK, WorkerEffect, LoseConnection, Connect, Crash
  <2> QED
    BY <1>0, <2>1 DEF Transactions, RequestOf, CodesToMake
<1> QED
  BY <1>3, <1>4, <1>5

--------------------------------------------------------------------------------
(* What commits leave behind *)

(* A step without a commit: no request that made codes changes.             *)
LEMMA HistoryFrame ==
    ASSUME IInv, Settled, UNCHANGED <<bookOf, history>>,
           \A r \in Requests :
             quantity'[r] = quantity[r] \/ (times[r] = 0 /\ quantity'[r] \in Nat)
    PROVE  History'
<1>0. HistoryTypeOK /\ LocalTypeOK /\ History
  BY TypeParts DEF IInv
<1>1. ASSUME NEW c \in Codes
      PROVE  IF maker'[c] = NoJob THEN bookOf'[c] = NoBook
             ELSE /\ pc'[maker'[c]] = "done"
                  /\ bookOf'[c] = book'[maker'[c]] /\ book'[maker'[c]] \in couponBooks'
  BY <1>0 DEF HistoryTypeOK, History, Settled
<1>2. ASSUME NEW r \in Requests
      PROVE  Cardinality(CodesFor(r)') = times'[r] * CodesToMake(r)'
  <2>1. CodesFor(r)' = CodesFor(r) /\ times'[r] = times[r]
    BY DEF CodesFor
  <2>2. CASE quantity'[r] = quantity[r]
    BY <1>0, <2>1, <2>2 DEF History, CodesToMake
  <2>3. CASE times[r] = 0 /\ quantity'[r] \in Nat
    <3>1. IsFiniteSet(CodesFor(r)) /\ CodesFor(r) \in SUBSET Codes
      BY CardinalityNat DEF CodesFor
    <3>2. CodesToMake(r) = CodesToMake(r) /\ Cardinality(CodesFor(r)) = times[r] * CodesToMake(r)
      BY <1>0 DEF History
    <3>3. CodesToMake(r) \in Nat
      BY <1>0, CodesToMakeNat DEF LocalTypeOK
    <3>4. Cardinality(CodesFor(r)) = 0
      BY <2>3, <3>2, <3>3
    <3>5. \A x \in Int : 0 * x = 0
      OBVIOUS
    <3>6. CodesToMake(r)' \in Int
      BY <2>3 DEF CodesToMake
    <3> QED
      BY <2>1, <2>3, <3>4, <3>5, <3>6
  <2> QED
    BY <2>2, <2>3
<1> QED
  BY <1>1, <1>2 DEF History

LEMMA CommitsHistory ==
    ASSUME IInv, Settled, NEW s \in Sessions, NEW n, NEW l, Commits(s, n, l),
           s \in Requests => l = "done"
    PROVE  History'
<1>0. HistoryTypeOK /\ LocalTypeOK /\ StoreTypeOK /\ History /\ Transactions
  BY TypeParts DEF IInv
<1> DEFINE q == RequestOf(s)
<1>1. /\ q \in Requests /\ book[q] \in couponBooks /\ couponBooks \subseteq Books
      /\ pc[s] = "commit" /\ (s \in Handlers => pc[q] = "done")
  BY Busy DEF Commits, IsJob, RequestOf
<1>2. pc'[q] = "done"
  <2>1. CASE s \in Requests
    BY <1>0, <2>1 DEF LocalTypeOK, Commits, RequestOf
  <2>2. CASE s \in Handlers
    BY <1>1, <2>2 DEF Settled
  <2> QED
    BY <2>1, <2>2
<1> HIDE DEF q
<1>3. /\ times' = [times EXCEPT ![q] = @ + 1]
      /\ maker' = [c \in Codes |-> IF c \in inserts[s] THEN q ELSE maker[c]]
      /\ bookOf' = [c \in Codes |-> IF c \in inserts[s] THEN book[q] ELSE bookOf[c]]
      /\ UNCHANGED <<couponBooks, book, quantity>>
  BY DEF Commits, Commit, Made, q
<1>4. \A c \in inserts[s] : c \in Codes /\ maker[c] = NoJob
  <2>1. \A c \in inserts[s] : c \in Codes /\ bookOf[c] = NoBook
    BY <1>0 DEF Transactions, StoreTypeOK
  <2>2. \A c \in Codes : bookOf[c] = NoBook => maker[c] = NoJob
    BY <1>0, <1>1 DEF History
  <2> QED
    BY <2>1, <2>2
<1>5. ASSUME NEW c \in Codes
      PROVE  IF maker'[c] = NoJob THEN bookOf'[c] = NoBook
             ELSE /\ pc'[maker'[c]] = "done"
                  /\ bookOf'[c] = book'[maker'[c]] /\ book'[maker'[c]] \in couponBooks'
  <2>1. CASE c \in inserts[s]
    BY <1>1, <1>2, <1>3, <2>1
  <2>2. CASE c \notin inserts[s]
    BY <1>0, <1>3, <2>2 DEF HistoryTypeOK, History, Settled
  <2> QED
    BY <2>1, <2>2
<1>6. ASSUME NEW r \in Requests
      PROVE  Cardinality(CodesFor(r)') = times'[r] * CodesToMake(r)'
  <2>1. CodesToMake(r)' = CodesToMake(r)
    BY <1>3 DEF CodesToMake
  <2>2. Cardinality(CodesFor(r)) = times[r] * CodesToMake(r)
    BY <1>0 DEF History
  <2>3. CASE r # q
    <3>1. CodesFor(r)' = CodesFor(r)
      BY <1>1, <1>3, <1>4, <2>3 DEF CodesFor
    <3>2. times'[r] = times[r]
      BY <1>0, <1>3, <2>3 DEF HistoryTypeOK
    <3> QED
      BY <2>1, <2>2, <3>1, <3>2
  <2>4. CASE r = q
    <3>1. CodesFor(r)' = CodesFor(r) \cup inserts[s]
      <4>1. \A c \in Codes : maker'[c] = r <=> maker[c] = r \/ c \in inserts[s]
        BY <1>1, <1>3, <1>4, <2>4
      <4>2. \A c \in inserts[s] : c \in Codes
        BY <1>4
      <4> QED
        <5>1. CodesFor(r)' = {c \in Codes : maker'[c] = r}
          BY DEF CodesFor
        <5>2. CodesFor(r) = {c \in Codes : maker[c] = r}
          BY DEF CodesFor
        <5> QED
          BY <4>1, <4>2, <5>1, <5>2
    <3>2. CodesFor(r) \in SUBSET Codes /\ inserts[s] \in SUBSET Codes
          /\ CodesFor(r) \cap inserts[s] = {}
      BY <1>1, <1>4, <2>4 DEF CodesFor
    <3>3. Cardinality(CodesFor(r)') = Cardinality(CodesFor(r)) + Cardinality(inserts[s])
      BY <3>1, <3>2, DisjointUnion
    <3>4. Cardinality(inserts[s]) = CodesToMake(q)
      BY <1>0, <1>1 DEF Transactions, q
    <3>5. times'[q] = times[q] + 1 /\ times[q] \in Nat /\ CodesToMake(q) \in Nat
      BY <1>0, <1>1, <1>3, CodesToMakeNat DEF HistoryTypeOK, LocalTypeOK
    <3>6. \A m, k \in Nat : (m + 1) * k = m * k + k
      OBVIOUS
    <3>7. Cardinality(CodesFor(r)') = (times[q] + 1) * CodesToMake(q)
      <4>1. Cardinality(CodesFor(r)) = times[q] * CodesToMake(q)
        BY <2>2, <2>4
      <4>2. (times[q] + 1) * CodesToMake(q) = times[q] * CodesToMake(q) + CodesToMake(q)
        BY <3>5, <3>6, Zenon
      <4> QED
        BY <3>3, <3>4, <4>1, <4>2
    <3> QED
      BY <2>1, <2>4, <3>5, <3>7
  <2> QED
    BY <2>3, <2>4
<1> QED
  BY <1>5, <1>6 DEF History

LEMMA HistoryStep ==
    ASSUME IInv
    PROVE  /\ \A r \in Requests : RequestEffect(r) => History'
           /\ \A h \in Handlers : HandlerEffect(h) => History'
           /\ \A w \in Workers : WorkerEffect(w) => History'
<1>0. LocalTypeOK /\ Control
  BY TypeParts DEF IInv
<1>1. ASSUME NEW r \in Requests, RequestEffect(r)
      PROVE  History'
  <2>1. Settled
    BY <1>1, SettledStep
  <2>2. CASE Begins(r)
    <3>1. \A t \in Requests :
            quantity'[t] = quantity[t] \/ (times[t] = 0 /\ quantity'[t] \in Nat)
      BY <1>0, <2>2 DEF LocalTypeOK, Control, Begins
    <3> QED
      BY <2>1, <2>2, <3>1, HistoryFrame DEF Begins
  <2>3. CASE Publish(r) \/ Aborts(r, Inserting, "done") \/ Inserts(r, "count") \/ Proceeds(r, "commit")
    <3>1. UNCHANGED <<bookOf, history, quantity>>
      BY <2>3 DEF Publish, Aborts, Abort, Inserts, Proceeds
    <3> QED
      BY <2>1, <3>1, HistoryFrame
  <2> QED
    BY <1>1, <2>1, <2>2, <2>3, CommitsHistory DEF RequestEffect
<1>2. ASSUME NEW h \in Handlers, HandlerEffect(h)
      PROVE  History'
  <2>1. Settled /\ h \notin Requests
    BY <1>2, SettledStep
  <2>2. ASSUME UNCHANGED <<bookOf, history, quantity>>
        PROVE  History'
    BY <2>1, <2>2, HistoryFrame
  <2> QED
    BY <1>2, <2>1, <2>2, CommitsHistory
    DEF HandlerEffect, Deliver, Releases, Aborts, Abort, Inserts, Proceeds
<1>3. ASSUME NEW w \in Workers, WorkerEffect(w)
      PROVE  History'
  <2>1. Settled /\ UNCHANGED <<bookOf, history, quantity>>
    BY <1>3, SettledStep DEF WorkerEffect, LoseConnection, Connect, Crash
  <2> QED
    BY <2>1, HistoryFrame
<1> QED
  BY <1>1, <1>2, <1>3

--------------------------------------------------------------------------------
(* The theorems *)

LEMMA InitIInv == Init => IInv
<1> SUFFICES ASSUME Init PROVE IInv
  OBVIOUS
<1>1. TypeOK
  BY DEF Init, StoreInit, QueueInit, TypeOK, StoreTypeOK, QueueTypeOK
<1>2. Control
  BY DEF Init, Control
<1>3. JobsKnown
  BY DEF Init, QueueInit, JobsKnown, Alive
<1>4. Transactions
  BY DEF Init, StoreInit, Transactions
<1>5. History
  <2>1. \A c \in Codes : maker[c] = NoJob /\ bookOf[c] = NoBook
    BY DEF Init, StoreInit
  <2>2. ASSUME NEW r \in Requests
        PROVE  Cardinality(CodesFor(r)) = times[r] * CodesToMake(r)
    <3>1. CodesFor(r) = {}
      BY <2>1 DEF CodesFor
    <3>2. Cardinality(CodesFor(r)) = 0
      BY <3>1, FS_EmptySet
    <3>3. times[r] = 0 /\ CodesToMake(r) \in Nat
      BY <1>1, CodesToMakeNat DEF Init, TypeOK
    <3>4. 0 * CodesToMake(r) = 0
      BY <3>3
    <3> QED
      BY <3>2, <3>3, <3>4
  <2> QED
    BY <2>1, <2>2 DEF History
<1> QED
  BY <1>1, <1>2, <1>3, <1>4, <1>5 DEF IInv

LEMMA StutterIInv == IInv /\ UNCHANGED vars => IInv'
<1> SUFFICES ASSUME IInv, UNCHANGED vars PROVE IInv'
  OBVIOUS
<1>1. TypeOK'
  BY DEF IInv, vars, TypeOK, StoreTypeOK, QueueTypeOK
<1>2. Control' /\ JobsKnown'
  BY DEF IInv, vars, Control, JobsKnown, IsJob, Accepted, Alive
<1>3. Transactions'
  BY DEF IInv, vars, Transactions, RequestOf, CodesToMake
<1>4. History'
  BY DEF IInv, vars, History, CodesFor, CodesToMake
<1> QED
  BY <1>1, <1>2, <1>3, <1>4 DEF IInv

LEMMA NextEffect ==
    ASSUME IInv, Next
    PROVE  \/ \E r \in Requests : RequestEffect(r)
           \/ \E h \in Handlers : HandlerEffect(h)
           \/ \E w \in Workers : WorkerEffect(w)
  BY ServeEffect, WorkEffect DEF Next, WorkerEffect

LEMMA NextIInv == IInv /\ [Next]_vars => IInv'
<1>1. ASSUME IInv, Next
      PROVE  IInv'
  <2>1. TypeOK'
    <3>1. StoreTypeOK' /\ QueueTypeOK' /\ LocalTypeOK' /\ HistoryTypeOK'
      BY <1>1, NextEffect, StoreTypeStep, QueueTypeStep, LocalTypeStep, HistoryTypeStep
    <3> QED
      BY <3>1 DEF TypeOK, LocalTypeOK, HistoryTypeOK
  <2>2. Control' /\ JobsKnown'
    BY <1>1, NextEffect, ControlStep, JobsKnownStep
  <2>3. Transactions' /\ History'
    BY <1>1, NextEffect, TransactionsStep, HistoryStep
  <2> QED
    BY <2>1, <2>2, <2>3 DEF IInv
<1> QED
  BY <1>1, StutterIInv

LEMMA AlwaysIInv == Spec => []IInv
  BY InitIInv, NextIInv, PTL DEF Spec

(* Types: every variable of the requests, the handlers, the transactions    *)
(* and the queue has its type.                                              *)
THEOREM TypesHold == Spec => []TypeOK
<1>1. IInv => TypeOK
  BY DEF IInv
<1> QED
  BY <1>1, AlwaysIInv, PTL

(* All or nothing: after any failures, crashes and repeated deliveries, the *)
(* coupons of a request are a whole number of times what it asked for, in   *)
(* its book, and no coupon is in a book that does not exist.                *)
THEOREM WholeRequests == Spec => []AllOrNothing
<1>1. ASSUME IInv
      PROVE  AllOrNothing
  <2>1. TypeOK /\ History
    BY <1>1 DEF IInv
  <2>2. \A c \in Codes : bookOf[c] = IF maker[c] = NoJob THEN NoBook ELSE book[maker[c]]
    BY <2>1 DEF History
  <2>3. \A c \in Codes : bookOf[c] \in couponBooks \cup {NoBook}
    BY <2>1 DEF History
  <2> QED
    BY <2>1, <2>2, <2>3 DEF AllOrNothing, History
<1> QED
  BY <1>1, AlwaysIInv, PTL

--------------------------------------------------------------------------------
(* The counters of the books *)

WholeQuantities == \A q \in Quantities : \E n \in Nat : q = n * Unit

(* What a commit of a request adds to the counter is what it inserted.      *)
Exact == \A r \in Requests : pc[r] \in Inserting => quantity[r] = CodesToMake(r) * Unit

LEMMA WholeQuotient ==
    ASSUME NEW n \in Nat
    PROVE  (n * Unit + Unit - 1) \div Unit = n
<1> DEFINE x == n * Unit + Unit - 1
           d == x \div Unit
<1>1. x \in Nat /\ d \in Int
  BY ProductNat
<1>2. d * Unit <= x /\ x < d * Unit + Unit
  BY <1>1
<1>3. CASE d > n
  <2>1. d * Unit >= (n + 1) * Unit
    BY <1>1, <1>3
  <2> QED
    BY <1>2, <2>1
<1>4. CASE d < n
  <2>1. (d + 1) * Unit <= n * Unit
    BY <1>1, <1>4
  <2> QED
    BY <1>2, <2>1
<1> QED
  BY <1>1, <1>3, <1>4

LEMMA ExactStep ==
    ASSUME WholeQuantities, IInv, Exact, Next
    PROVE  Exact'
<1>0. LocalTypeOK
  BY TypeParts DEF IInv
<1>1. ASSUME NEW r \in Requests, RequestEffect(r)
      PROVE  Exact'
  <2>1. ASSUME UNCHANGED quantity, \A t \in Requests : pc'[t] \in Inserting => pc[t] \in Inserting
        PROVE  Exact'
    BY <2>1 DEF Exact, CodesToMake
  <2>2. CASE Begins(r)
    <3>1. PICK l, a : Starts(r, l, a)
      BY <2>2 DEF Begins
    <3>2. PICK q \in Nat : quantity' = [quantity EXCEPT ![r] = q]
      BY <2>2 DEF Begins
    <3>3. /\ pc'[r] = l /\ quantity'[r] = q
          /\ \A t \in Requests : t # r => pc'[t] = pc[t] /\ quantity'[t] = quantity[t]
      BY <1>0, <3>1, <3>2 DEF LocalTypeOK, Starts
    <3>4. ASSUME l \in Inserting
          PROVE  q = CodesToMake(r)' * Unit
      <4>1. PICK n \in Nat : q = n * Unit
        BY <3>1, <3>3, <3>4 DEF Starts, WholeQuantities
      <4>2. CodesToMake(r)' = (q + Unit - 1) \div Unit
        BY <3>3 DEF CodesToMake
      <4>3. CodesToMake(r)' = n
        BY <4>1, <4>2, WholeQuotient
      <4> QED
        BY <4>1, <4>3
    <3> QED
      BY <3>3, <3>4 DEF Exact, CodesToMake
  <2>3. CASE Publish(r)
    BY <1>0, <2>1, <2>3 DEF LocalTypeOK, Publish, Answer, Refuse
  <2>4. CASE \/ Aborts(r, Inserting, "done") \/ Inserts(r, "count")
             \/ Proceeds(r, "commit")
    BY <1>0, <2>1, <2>4 DEF LocalTypeOK, Aborts, Inserts, Proceeds
  <2>5. CASE Commits(r, quantity[r], "done")
    BY <1>0, <2>1, <2>5 DEF LocalTypeOK, Commits
  <2> QED
    BY <1>1, <2>2, <2>3, <2>4, <2>5 DEF RequestEffect
<1>2. ASSUME UNCHANGED quantity, \A r \in Requests : pc'[r] = pc[r]
      PROVE  Exact'
  BY <1>2 DEF Exact, CodesToMake
<1>3. ASSUME NEW h \in Handlers, HandlerEffect(h)
      PROVE  Exact'
  <2>1. \E l : pc' = [pc EXCEPT ![h] = l]
    BY <1>3 DEF HandlerEffect, Deliver, Releases, Aborts, Inserts, Proceeds, Commits
  <2>2. UNCHANGED quantity
    BY <1>3 DEF HandlerEffect, Deliver, Releases, Aborts, Inserts, Proceeds, Commits
  <2> QED
    BY <1>0, <1>2, <2>1, <2>2 DEF LocalTypeOK
<1>4. ASSUME NEW w \in Workers, WorkerEffect(w)
      PROVE  Exact'
  BY <1>0, <1>2, <1>4 DEF LocalTypeOK, WorkerEffect, LoseConnection, Connect, Crash
<1> QED
  BY <1>1, <1>3, <1>4, NextEffect

LEMMA CommitsTotal ==
    ASSUME IInv, TotalCodesAgree, NEW s \in Sessions, NEW l,
           Commits(s, Cardinality(inserts[s]) * Unit, l)
    PROVE  TotalCodesAgree'
<1>0. StoreTypeOK /\ Transactions
  BY TypeParts DEF IInv
<1>1. PICK b \in Books : b = book[RequestOf(s)]
  BY Busy DEF Commits
<1>2. /\ bookOf' = [c \in Codes |-> IF c \in inserts[s] THEN b ELSE bookOf[c]]
      /\ totalCodes' = [totalCodes EXCEPT ![b] = @ + Cardinality(inserts[s]) * Unit]
  BY <1>1 DEF Commits, Commit
<1>3. inserts[s] \in SUBSET Codes /\ \A c \in inserts[s] : bookOf[c] = NoBook
  BY <1>0 DEF StoreTypeOK, Transactions
<1>4. ASSUME NEW a \in Books, a # b
      PROVE  totalCodes'[a] = Cardinality(CodesOf(a)') * Unit
  <2>1. \A c \in Codes : bookOf'[c] = a <=> bookOf[c] = a
    BY <1>2, <1>3, <1>4
  <2>2. CodesOf(a)' = CodesOf(a)
    BY <2>1 DEF CodesOf
  <2>3. totalCodes'[a] = totalCodes[a]
    BY <1>0, <1>2, <1>4 DEF StoreTypeOK
  <2> QED
    BY <2>2, <2>3 DEF TotalCodesAgree
<1>5. totalCodes'[b] = Cardinality(CodesOf(b)') * Unit
  <2>1. \A c \in Codes : bookOf'[c] = b <=> bookOf[c] = b \/ c \in inserts[s]
    BY <1>2, <1>3
  <2>2. CodesOf(b)' = CodesOf(b) \cup inserts[s]
    BY <1>3, <2>1 DEF CodesOf
  <2>3. CodesOf(b) \in SUBSET Codes /\ CodesOf(b) \cap inserts[s] = {}
    BY <1>3 DEF CodesOf
  <2>4. Cardinality(CodesOf(b)') = Cardinality(CodesOf(b)) + Cardinality(inserts[s])
    BY <1>3, <2>2, <2>3, DisjointUnion
  <2>5. Cardinality(CodesOf(b)) \in Nat /\ Cardinality(inserts[s]) \in Nat
    BY <1>3, <2>3, CardinalityNat
  <2>6. totalCodes'[b] = Cardinality(CodesOf(b)) * Unit + Cardinality(inserts[s]) * Unit
    BY <1>0, <1>2 DEF StoreTypeOK, TotalCodesAgree
  <2>7. ASSUME NEW m \in Nat, NEW n \in Nat
        PROVE  (m + n) * Unit = m * Unit + n * Unit
    OBVIOUS
  <2> QED
    BY <2>4, <2>5, <2>6, <2>7, Zenon
<1> QED
  BY <1>4, <1>5 DEF TotalCodesAgree

LEMMA TotalCodesStep ==
    ASSUME IInv, Exact, TotalCodesAgree, Next
    PROVE  TotalCodesAgree'
<1>1. ASSUME UNCHANGED <<bookOf, totalCodes>>
      PROVE  TotalCodesAgree'
  BY <1>1 DEF TotalCodesAgree, CodesOf
<1>2. ASSUME NEW r \in Requests, RequestEffect(r)
      PROVE  TotalCodesAgree'
  <2>1. CASE Commits(r, quantity[r], "done")
    <3>1. quantity[r] = Cardinality(inserts[r]) * Unit
      BY <2>1 DEF IInv, Transactions, Exact, Commits, RequestOf
    <3> QED
      BY <2>1, <3>1, CommitsTotal
  <2> QED
    BY <1>1, <1>2, <2>1
    DEF RequestEffect, Begins, Publish, Aborts, Abort, Inserts, Proceeds
<1>3. ASSUME NEW h \in Handlers, HandlerEffect(h)
      PROVE  TotalCodesAgree'
  BY <1>1, <1>3, CommitsTotal
  DEF HandlerEffect, Deliver, Releases, Aborts, Abort, Inserts, Proceeds
<1>4. ASSUME NEW w \in Workers, WorkerEffect(w)
      PROVE  TotalCodesAgree'
  BY <1>1, <1>4 DEF WorkerEffect, LoseConnection, Connect, Crash
<1> QED
  BY <1>2, <1>3, <1>4, NextEffect

(* If every quantity is a whole number of codes, totalCodes of every book   *)
(* is the number of its coupons, whatever overlaps, fails or runs twice.    *)
THEOREM CountersAgree ==
    ASSUME WholeQuantities
    PROVE  Spec => []TotalCodesAgree
<1>1. Init => Exact /\ TotalCodesAgree
  <2> SUFFICES ASSUME Init PROVE Exact /\ TotalCodesAgree
    OBVIOUS
  <2>1. Exact
    BY DEF Init, Exact
  <2>2. ASSUME NEW b \in Books
        PROVE  totalCodes[b] = Cardinality(CodesOf(b)) * Unit
    <3>1. CodesOf(b) = {} /\ totalCodes[b] = 0
      BY DEF Init, StoreInit, CodesOf
    <3>2. Cardinality(CodesOf(b)) = 0
      BY <3>1, FS_EmptySet
    <3> QED
      BY <3>1, <3>2
  <2> QED
    BY <2>1, <2>2 DEF TotalCodesAgree
<1>2. IInv /\ Exact /\ TotalCodesAgree /\ [Next]_vars => (Exact /\ TotalCodesAgree)'
  <2>1. ASSUME IInv, Exact, TotalCodesAgree, Next
        PROVE  (Exact /\ TotalCodesAgree)'
    BY <2>1, ExactStep, TotalCodesStep
  <2>2. ASSUME IInv, Exact, TotalCodesAgree, UNCHANGED vars
        PROVE  (Exact /\ TotalCodesAgree)'
    BY <2>2 DEF vars, Exact, TotalCodesAgree, CodesOf, CodesToMake
  <2> QED
    BY <2>1, <2>2
<1> QED
  BY <1>1, <1>2, AlwaysIInv, PTL DEF Spec

--------------------------------------------------------------------------------
(* The answers of the requests *)

(* A request that is not a job commits at most once; its 201 says that it   *)
(* did, its error that it did not unless a reply of MongoDB was lost.       *)
Truthful(r) ==
    /\ reply[r] = 201 => times[r] = IF Kind[r] # "create" THEN 1 ELSE 0
    /\ reply[r] # 201 /\ "mongo" \notin Faults => times[r] = 0
    /\ times[r] <= 1

Truth == \A r \in Requests : pc[r] = "done" /\ ~Accepted(r) => Truthful(r)

(* What is done stays true, for no handler commits for such a request.      *)
LEMMA TruthFrame ==
    ASSUME IInv, Truth, Settled, NEW r \in Requests, pc[r] = "done", times'[r] = times[r]
    PROVE  ~Accepted(r)' => Truthful(r)'
  BY DEF Truth, Truthful, Settled, Accepted

LEMMA TruthStep ==
    ASSUME IInv, Truth, Next
    PROVE  Truth'
<1>0. LocalTypeOK /\ HistoryTypeOK /\ Control
  BY TypeParts DEF IInv
<1>1. Settled
  BY NextEffect, SettledStep
<1>2. ASSUME NEW r \in Requests, RequestEffect(r)
      PROVE  Truth'
  <2>1. \A t \in Requests : t # r => pc'[t] = pc[t] /\ times'[t] = times[t]
    <3>1. CASE Begins(r)
      BY <1>0, <3>1 DEF LocalTypeOK, Begins, Starts
    <3>2. CASE Publish(r)
      BY <1>0, <3>2 DEF LocalTypeOK, Publish, Answer, Refuse
    <3>3. CASE \/ Aborts(r, Inserting, "done") \/ Inserts(r, "count")
               \/ Proceeds(r, "commit")
      BY <1>0, <3>3 DEF LocalTypeOK, Aborts, Inserts, Proceeds
    <3>4. CASE Commits(r, quantity[r], "done")
      BY <1>0, <3>4 DEF LocalTypeOK, HistoryTypeOK, Commits, Made, RequestOf
    <3> QED
      BY <1>2, <3>1, <3>2, <3>3, <3>4 DEF RequestEffect
  <2>2. ASSUME pc'[r] = "done", ~Accepted(r)'
        PROVE  Truthful(r)'
    <3>1. CASE Begins(r)
      <4>1. PICK l, a : Starts(r, l, a)
        BY <3>1 DEF Begins
      <4>2. l = "done" /\ reply'[r] = a /\ times'[r] = 0
        BY <1>0, <2>2, <3>1, <4>1 DEF LocalTypeOK, Control, Starts, Begins
      <4> QED
        BY <4>1, <4>2 DEF Starts, Truthful
    <3>2. CASE Publish(r)
      <4>1. /\ Kind[r] = "generate" /\ quantity'[r] > MaxSync * Unit /\ times'[r] = 0
            /\ reply'[r] \in {201, 500}
        BY <1>0, <3>2 DEF LocalTypeOK, Control, Publish, Answer, Refuse
      <4> QED
        BY <2>2, <4>1 DEF Truthful, Accepted
    <3>3. CASE Aborts(r, Inserting, "done")
      <4>1. reply'[r] = 500 /\ times'[r] = 0
        BY <1>0, <3>3 DEF LocalTypeOK, Control, Aborts
      <4> QED
        BY <4>1 DEF Truthful
    <3>4. CASE Inserts(r, "count") \/ Proceeds(r, "commit")
      BY <1>0, <2>2, <3>4 DEF LocalTypeOK, Inserts, Proceeds
    <3>5. CASE Commits(r, quantity[r], "done")
      <4>1. Kind[r] # "create" /\ times[r] = 0
        BY <3>5, Busy DEF Commits
      <4>2. times'[r] = 1
        BY <1>0, <3>5, <4>1 DEF HistoryTypeOK, Commits, Made, RequestOf
      <4>3. reply'[r] = 201 \/ (reply'[r] = 500 /\ "mongo" \in Faults)
        BY <1>0, <3>5 DEF LocalTypeOK, Commits
      <4> QED
        BY <4>1, <4>2, <4>3 DEF Truthful
    <3> QED
      BY <1>2, <3>1, <3>2, <3>3, <3>4, <3>5 DEF RequestEffect
  <2> QED
    BY <1>1, <2>1, <2>2, TruthFrame DEF Truth
<1>3. ASSUME NEW h \in Handlers, HandlerEffect(h)
      PROVE  Truth'
  <2>1. \E l : pc' = [pc EXCEPT ![h] = l]
    BY <1>3 DEF HandlerEffect, Deliver, Releases, Aborts, Inserts, Proceeds, Commits
  <2>2. \A r \in Requests : pc'[r] = pc[r]
    BY <1>0, <2>1 DEF LocalTypeOK
  <2>3. ASSUME NEW r \in Requests, pc[r] = "done", ~Accepted(r)
        PROVE  times'[r] = times[r]
    <3>1. ASSUME NEW n, NEW l, Commits(h, n, l)
          PROVE  times'[r] = times[r]
      <4>1. RequestOf(h) = job[h] /\ IsJob(job[h])
        BY <3>1, Busy DEF Commits, RequestOf
      <4> QED
        BY <1>0, <2>3, <3>1, <4>1 DEF HistoryTypeOK, Commits, Made, IsJob
    <3> QED
      BY <1>3, <3>1 DEF HandlerEffect, Deliver, Releases, Aborts, Inserts, Proceeds
  <2>4. \A r \in Requests : pc[r] = "done" /\ ~Accepted(r)' => ~Accepted(r)
    BY <1>1 DEF Settled, Accepted
  <2> QED
    BY <1>1, <2>2, <2>3, <2>4, TruthFrame DEF Truth
<1>4. ASSUME NEW w \in Workers, WorkerEffect(w)
      PROVE  Truth'
  <2>1. UNCHANGED times /\ \A r \in Requests : pc'[r] = pc[r]
    BY <1>0, <1>4 DEF LocalTypeOK, WorkerEffect, LoseConnection, Connect, Crash
  <2> QED
    BY <1>1, <2>1, TruthFrame DEF Truth
<1> QED
  BY <1>2, <1>3, <1>4, NextEffect

LEMMA AlwaysTruth == Spec => []Truth
<1>1. Init => Truth
  BY DEF Init, Truth
<1>2. IInv /\ Truth /\ [Next]_vars => Truth'
  <2>1. ASSUME IInv, Truth, UNCHANGED vars
        PROVE  Truth'
    BY <2>1 DEF vars, Truth, Truthful, Accepted
  <2> QED
    BY <2>1, TruthStep
<1> QED
  BY <1>1, <1>2, AlwaysIInv, PTL DEF Spec

(* As long as no reply of MongoDB is lost, the status a request answers     *)
(* says whether its codes were made: once for a 201, never for an error.    *)
THEOREM AnswersAreTrue ==
    ASSUME "mongo" \notin Faults
    PROVE  Spec => []AnswersTellTheTruth
<1>1. IInv /\ Truth => AnswersTellTheTruth
  BY DEF IInv, TypeOK, Truth, Truthful, AnswersTellTheTruth
<1> QED
  BY <1>1, AlwaysIInv, AlwaysTruth, PTL

(* What a request that is not a job has made, when any call may fail.       *)
CreatedMeansMade ==
    \A r \in Requests : pc[r] = "done" /\ ~Accepted(r) =>
        /\ times[r] <= 1
        /\ reply[r] = 201 /\ Kind[r] # "create" => times[r] = 1

(* Whatever fails: a request that is not a job commits its codes at most    *)
(* once, and a 201 means that it did.                                       *)
THEOREM CreatedIsMade == Spec => []CreatedMeansMade
<1>1. Truth => CreatedMeansMade
  BY DEF Truth, Truthful, CreatedMeansMade
<1> QED
  BY <1>1, AlwaysTruth, PTL
================================================================================
