------------------------------- MODULE CodeSupply ------------------------------
(***************************************************************************)
(* How coupons come into being: the requests of coupon-book.service.ts     *)
(* that generate codes or upload them, and the handlers of                 *)
(* workers/rabbitMQ/code-generator.ts that generate the codes of the large *)
(* requests, which reach them through the queue.                           *)
(*                                                                         *)
(* A quantity is counted in units, Unit of them to a code: the DTO accepts *)
(* any number from 1, so Unit > 1 gives the runs fractional quantities.    *)
(***************************************************************************)
EXTENDS CodeStore, JobQueue

CONSTANTS
    Kind,           \* Kind[r]: what request r does
    Pool,           \* Pool[b]: the codes the pattern of book b can make
    Closed,         \* the books that are inactive or past their endDate
    Quantities,     \* the quantities that requests ask for, in units
    Unit,           \* units to a code
    MaxSync,        \* config couponBook.maxSyncGenerator
    BatchSize,      \* config couponBook.batchSize
    WorkerOf,       \* WorkerOf[h]: the process that handler h is in
    Faults          \* the kinds of failure a run allows

FaultKinds == {"mongo", "publish", "connection", "crash"}

ASSUME SupplyAssumption ==
    /\ Kind \in [Requests -> {"create", "generate", "upload"}]
    /\ Pool \in [Books -> SUBSET Codes]
    /\ Unit \in Nat \ {0} /\ MaxSync \in Nat /\ BatchSize \in Nat \ {0}
    /\ \A q \in Quantities : q \in Nat /\ q >= Unit
    /\ WorkerOf \in [Handlers -> Workers]
    /\ Jobs = Requests
    /\ Faults \subseteq FaultKinds

VARIABLES
    pc,             \* the call a request or handler is about to make
    book,           \* book[r]: the couponBookId of the request
    quantity,       \* quantity[r]: its quantity, or the length of its codes
    codes,          \* codes[r]: the codes it uploads
    reply,          \* reply[r]: the status it answers, 0 while there is none
    job,            \* job[h]: the message a handler works on
    handlerTag,     \* handlerTag[h]: the number of its delivery
    times,          \* history: how often the codes of a request were committed
    maker           \* history: the request each coupon was made for

vars == <<store, txn, queue, pc, book, quantity, codes, reply, job,
          handlerTag, times, maker>>
request == <<book, quantity, codes, reply>>
handler == <<job, handlerTag>>
history == <<times, maker>>

TypeOK ==
    /\ StoreTypeOK
    /\ QueueTypeOK
    /\ pc \in [Sessions -> {"idle", "publish", "begin", "insert", "count", "commit",
                            "ack", "nack", "done", "dead"}]
    /\ book \in [Requests -> Books \cup {NoBook}]
    /\ quantity \in [Requests -> Nat]
    /\ codes \in [Requests -> SUBSET Codes]
    /\ reply \in [Requests -> {0, 201, 500}]
    /\ job \in [Handlers -> Jobs \cup {NoJob}]
    /\ handlerTag \in [Handlers -> 0 .. MaxTag]
    /\ times \in [Requests -> Nat]
    /\ maker \in [Codes -> Requests \cup {NoJob}]

Init ==
    /\ StoreInit
    /\ QueueInit
    /\ pc = [s \in Sessions |-> "idle"]
    /\ book = [r \in Requests |-> NoBook]
    /\ quantity = [r \in Requests |-> 0]
    /\ codes = [r \in Requests |-> {}]
    /\ reply = [r \in Requests |-> 0]
    /\ job = [h \in Handlers |-> NoJob]
    /\ handlerTag = [h \in Handlers |-> 0]
    /\ times = [r \in Requests |-> 0]
    /\ maker = [c \in Codes |-> NoJob]

Goto(s, l) == pc' = [pc EXCEPT ![s] = l]
Answer(r, s) == Goto(r, "done") /\ reply' = [reply EXCEPT ![r] = s]

(* The loops run while i < quantity: a fraction makes a code of its own.    *)
CodesToMake(r) == (quantity[r] + Unit - 1) \div Unit

--------------------------------------------------------------------------------
(* create, generateCouponsForBook and uploadCouponsForBook *)

(* A book gets an id of its own, and no other field of a book is unique.    *)
Create(r) ==
    /\ pc[r] = "idle" /\ Kind[r] = "create"
    /\ \/ \E b \in Books \ couponBooks :
            /\ couponBooks' = couponBooks \cup {b}
            /\ book' = [book EXCEPT ![r] = b]
            /\ Answer(r, 201) \/ ("mongo" \in Faults /\ Answer(r, 500))
       \/ "mongo" \in Faults /\ Answer(r, 500) /\ UNCHANGED <<couponBooks, book>>
    /\ UNCHANGED <<bookOf, totalCodes, txn, queue, quantity, codes, handler, history>>

(* Mutant: the catch does not abort what has not begun.                     *)
RefuseAsThrown(r) == Answer(r, 404)

(* An error before startTransaction: abortTransaction has no transaction to *)
(* abort and throws an error of its own, which is the one answered in place *)
(* of the 403 or 404.                                                       *)
Refuse(r) == Answer(r, 500)

BeginGenerate(r) ==
    /\ pc[r] = "idle" /\ Kind[r] = "generate"
    /\ \E b \in Books \cup {NoBook}, q \in Quantities :
         /\ book' = [book EXCEPT ![r] = b]
         /\ quantity' = [quantity EXCEPT ![r] = q]
         /\ \/ b \notin couponBooks \ Closed /\ Refuse(r)
            \/ /\ b \in couponBooks \ Closed
               /\ Goto(r, IF q > MaxSync * Unit THEN "publish" ELSE "insert")
               /\ UNCHANGED reply
    /\ UNCHANGED <<store, txn, queue, codes, handler, history>>

(* The array may name a code twice, and is then longer than its set.        *)
BeginUpload(r) ==
    /\ pc[r] = "idle" /\ Kind[r] = "upload"
    /\ \E b \in Books \cup {NoBook}, cs \in SUBSET Codes \ {{}}, twice \in {0, 1} :
         /\ book' = [book EXCEPT ![r] = b]
         /\ codes' = [codes EXCEPT ![r] = cs]
         /\ quantity' = [quantity EXCEPT ![r] = (Cardinality(cs) + twice) * Unit]
         /\ \/ b \notin couponBooks /\ Refuse(r)
            \/ b \in couponBooks /\ Goto(r, "insert") /\ UNCHANGED reply
    /\ UNCHANGED <<store, txn, queue, handler, history>>

(* publishMessage: the request answers 201 when the message is in the       *)
(* queue, but also when there is no channel to send it on while another     *)
(* call is connecting, or when the connection breaks before the broker has  *)
(* it.  When connecting fails, it answers an error.                         *)
Publish(r) ==
    /\ pc[r] = "publish"
    /\ \/ Enqueue(r) /\ Answer(r, 201)
       \/ "publish" \in Faults /\ Answer(r, 201) /\ UNCHANGED queue
       \/ "publish" \in Faults /\ Refuse(r) /\ UNCHANGED queue
    /\ UNCHANGED <<store, txn, book, quantity, codes, handler, history>>

(* The codes that the insertion of r names; any of its pattern, for a       *)
(* generation.                                                              *)
Choices(r) ==
    IF Kind[r] = "upload" THEN {codes[r]}
    ELSE {cs \in SUBSET Pool[book[r]] : Cardinality(cs) = CodesToMake(r)}

(* Whether n codes drawn from set cs can collide with one another or with   *)
(* what is there already.                                                   *)
MayCollide(cs, n) == n > 1 \/ ~(cs \subseteq Fresh)

InsertCollides(r) ==
    IF Kind[r] = "upload"
    THEN Cardinality(codes[r]) # CodesToMake(r) \/ ~(codes[r] \subseteq Fresh)
    ELSE MayCollide(Pool[book[r]], CodesToMake(r))

(* Mutant: the catch does not throw its error again.                        *)
FailSwallowed(r) ==
    /\ Abort(r)
    /\ Answer(r, 201)
    /\ UNCHANGED <<queue, book, quantity, codes, handler, history>>

(* catch of a request: its transaction is aborted, the error is answered.   *)
Fail(r) ==
    /\ Abort(r)
    /\ Answer(r, 500)
    /\ UNCHANGED <<queue, book, quantity, codes, handler, history>>

(* Mutant: insertMany skips the codes that collide.                         *)
InsertUnordered(r) ==
    /\ pc[r] = "insert"
    /\ \E cs \in Choices(r) : InsertMany(r, cs \cap Fresh)
    /\ reading' = reading \cup {r}
    /\ Goto(r, "count")
    /\ UNCHANGED <<store, queue, counted, changed, request, handler, history>>

(* insertMany is the first operation of the transaction.                    *)
Insert(r) ==
    /\ pc[r] = "insert"
    /\ \/ /\ InsertCollides(r) \/ "mongo" \in Faults
          /\ Fail(r)
       \/ \E cs \in Choices(r) :
            /\ cs \subseteq Fresh /\ Cardinality(cs) = CodesToMake(r)
            /\ InsertMany(r, cs)
            /\ reading' = reading \cup {r}
            /\ Goto(r, "count")
            /\ UNCHANGED <<store, queue, counted, changed, request, handler, history>>

Count(r) ==
    /\ pc[r] = "count"
    /\ \/ /\ CountConflict(r, book[r]) \/ "mongo" \in Faults
          /\ Fail(r)
       \/ /\ ~CountConflict(r, book[r])
          /\ counted' = [counted EXCEPT ![r] = book[r]]
          /\ Goto(r, "commit")
          /\ UNCHANGED <<store, queue, inserts, reading, changed, request, handler, history>>

(* What a commit by s of the codes of request r adds to the history.        *)
Made(s, r) ==
    /\ times' = [times EXCEPT ![r] = @ + 1]
    /\ maker' = [c \in Codes |-> IF c \in inserts[s] THEN r ELSE maker[c]]

(* The counter grows by the quantity, not by the number of codes made.      *)
CommitCodes(r) ==
    /\ pc[r] = "commit"
    /\ \/ /\ Commit(r, book[r], quantity[r])
          /\ Made(r, r)
          /\ Answer(r, 201) \/ ("mongo" \in Faults /\ Answer(r, 500))
          /\ UNCHANGED <<queue, book, quantity, codes, handler>>
       \/ "mongo" \in Faults /\ Fail(r)

--------------------------------------------------------------------------------
(* processCodeGeneration, in the consumer of RabbitMQService *)

(* Where a channel can be lost under a handler, and its number outlive it,  *)
(* MaxTag bounds the numbers themselves.                                    *)
Deliver(h) ==
    /\ pc[h] = "idle" /\ CanDeliver(WorkerOf[h])
    /\ "connection" \in Faults => tag[WorkerOf[h]] < MaxTag
    /\ Delivered(WorkerOf[h])
    /\ job' = [job EXCEPT ![h] = Head(ready)]
    /\ handlerTag' = [handlerTag EXCEPT ![h] = NextTag(WorkerOf[h])]
    /\ Goto(h, "begin")
    /\ UNCHANGED <<store, txn, request, history>>

(* findById reads the book, which nothing deletes, in the transaction.      *)
WorkBegin(h) ==
    /\ pc[h] = "begin"
    /\ reading' = reading \cup {h}
    /\ Goto(h, "insert")
    /\ UNCHANGED <<store, queue, inserts, counted, changed, request, handler, history>>

(* Mutant: the error does not reach the consumer, which acknowledges.       *)
WorkFailsSilently(h) ==
    /\ Abort(h)
    /\ Goto(h, "ack")
    /\ UNCHANGED <<queue, request, handler, history>>

(* A call of the transaction fails: abort, and throw to the consumer.       *)
WorkFails(h) ==
    /\ Abort(h)
    /\ Goto(h, "nack")
    /\ UNCHANGED <<queue, request, handler, history>>

(* How many codes of the job are missing, and the next batch.               *)
Missing(h) == CodesToMake(job[h]) - Cardinality(inserts[h])
Batch(h) == IF Missing(h) < BatchSize THEN Missing(h) ELSE BatchSize

(* Mutant: a batch is inserted outside the transaction.                     *)
WorkInsertNoSession(h) ==
    /\ pc[h] = "insert"
    /\ \E c \in Pool[book[job[h]]] \cap Fresh :
         /\ bookOf' = [bookOf EXCEPT ![c] = book[job[h]]]
         /\ maker' = [maker EXCEPT ![c] = job[h]]
    /\ Goto(h, "count")
    /\ UNCHANGED <<couponBooks, totalCodes, txn, queue, request, handler, times>>

WorkInsert(h) ==
    /\ pc[h] = "insert"
    /\ \E cs \in SUBSET (Pool[book[job[h]]] \cap Fresh) :
         /\ Cardinality(cs) = Batch(h)
         /\ InsertMany(h, cs)
         /\ Goto(h, IF Missing(h) = Batch(h) THEN "count" ELSE "insert")
    /\ UNCHANGED <<store, queue, counted, reading, changed, request, handler, history>>

WorkInsertFails(h) ==
    /\ pc[h] = "insert"
    /\ MayCollide(Pool[book[job[h]]], Batch(h)) \/ "mongo" \in Faults
    /\ WorkFails(h)

WorkCount(h) ==
    LET b == book[job[h]] IN
    /\ pc[h] = "count"
    /\ \/ (CountConflict(h, b) \/ "mongo" \in Faults) /\ WorkFails(h)
       \/ /\ ~CountConflict(h, b)
          /\ counted' = [counted EXCEPT ![h] = b]
          /\ Goto(h, "commit")
          /\ UNCHANGED <<store, queue, inserts, reading, changed, request, handler, history>>

(* The counter grows by the codes made.  A lost reply makes it an error.    *)
WorkCommit(h) ==
    /\ pc[h] = "commit"
    /\ \/ /\ Commit(h, book[job[h]], Cardinality(inserts[h]) * Unit)
          /\ Made(h, job[h])
          /\ Goto(h, "ack") \/ ("mongo" \in Faults /\ Goto(h, "nack"))
          /\ UNCHANGED <<queue, request, handler>>
       \/ "mongo" \in Faults /\ WorkFails(h)

(* Mutant: what is done goes back to the queue.                             *)
WorkAckRequeues(h) ==
    /\ pc[h] = "ack"
    /\ Nack(WorkerOf[h], handlerTag[h])
    /\ Goto(h, "idle")
    /\ UNCHANGED <<store, txn, request, handler, history>>

(* this.channel is the channel of now, the number is that of the delivery.  *)
WorkAck(h) ==
    /\ pc[h] = "ack"
    /\ Ack(WorkerOf[h], handlerTag[h])
    /\ Goto(h, "idle")
    /\ UNCHANGED <<store, txn, request, handler, history>>

WorkNack(h) ==
    /\ pc[h] = "nack"
    /\ Nack(WorkerOf[h], handlerTag[h])
    /\ Goto(h, "idle")
    /\ UNCHANGED <<store, txn, request, handler, history>>

--------------------------------------------------------------------------------
(* Connections and processes *)

LoseConnection(w) ==
    /\ "connection" \in Faults /\ losses < MaxLosses
    /\ up[w] /\ Lost(w)
    /\ UNCHANGED <<store, txn, pc, request, handler, history>>

Connect(w) ==
    /\ Reconnect(w)
    /\ UNCHANGED <<store, txn, pc, request, handler, history>>

(* A worker process dies, with its connection and all its handlers.         *)
Crash(w) ==
    /\ "crash" \in Faults /\ losses < MaxLosses
    /\ \/ up[w] /\ Lost(w)
       \/ ~up[w] /\ UNCHANGED queue
    /\ pc' = [s \in Sessions |->
                IF s \in Handlers /\ WorkerOf[s] = w /\ pc[s] # "idle" THEN "dead" ELSE pc[s]]
    /\ UNCHANGED <<store, txn, request, handler, history>>

(* MongoDB aborts the transaction of a handler that is gone.                *)
Reap(h) ==
    /\ pc[h] = "dead"
    /\ Abort(h)
    /\ Goto(h, "idle")
    /\ UNCHANGED <<queue, request, handler, history>>

--------------------------------------------------------------------------------

Serve(r) ==
    \/ Create(r) \/ BeginGenerate(r) \/ BeginUpload(r) \/ Publish(r)
    \/ Insert(r) \/ Count(r) \/ CommitCodes(r)

Work(h) ==
    \/ WorkBegin(h) \/ WorkInsert(h) \/ WorkInsertFails(h) \/ WorkCount(h)
    \/ WorkCommit(h) \/ WorkAck(h) \/ WorkNack(h)

Next ==
    \/ \E r \in Requests : Serve(r)
    \/ \E h \in Handlers : Deliver(h) \/ Work(h) \/ Reap(h)
    \/ \E w \in Workers : LoseConnection(w) \/ Connect(w) \/ Crash(w)

Spec == Init /\ [][Next]_vars

(* Node runs what it has, the broker delivers, connections come back; codes *)
(* are random, so a batch that can succeed again and again once does.       *)
Fairness ==
    /\ \A r \in Requests : WF_vars(Serve(r))
    /\ \A h \in Handlers : /\ WF_vars(Deliver(h)) /\ WF_vars(Work(h)) /\ WF_vars(Reap(h))
                           /\ SF_vars(WorkInsert(h))
    /\ \A w \in Workers : WF_vars(Connect(w))

FairSpec == Spec /\ Fairness
================================================================================
