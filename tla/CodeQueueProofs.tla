----------------------------- MODULE CodeQueueProofs ---------------------------
(***************************************************************************)
(* Machine-checked proofs about what becomes of a job of CodeSupply: that  *)
(* it is kept until it is done, and done once unless a channel is lost.    *)
(***************************************************************************)
EXTENDS CodeSupplyProofs

(* A handler that is alive has its delivery outstanding on the channel of   *)
(* its process, and is alone there.                                         *)
DeliveriesMatch ==
    /\ \A h \in Handlers : Alive(h) =>
         /\ up[WorkerOf[h]]
         /\ unacked[WorkerOf[h]] = job[h] /\ handlerTag[h] = tag[WorkerOf[h]]
    /\ \A g, h \in Handlers : Alive(g) /\ Alive(h) /\ WorkerOf[g] = WorkerOf[h] => g = h

(* A handler acknowledges what is done.                                     *)
Acknowledged == \A h \in Handlers : pc[h] = "ack" => times[job[h]] > 0

KeptInv == DeliveriesMatch /\ Acknowledged /\ JobIsKept

(* As long as no channel was lost, there is one copy of each job.           *)
OneCopy ==
    /\ \A w \in Workers : up[w]
    /\ \A i, j \in 1 .. Len(ready) : ready[i] = ready[j] => i = j
    /\ \A v, w \in Workers : unacked[v] = unacked[w] /\ unacked[v] # NoJob => v = w
    /\ \A i \in 1 .. Len(ready), w \in Workers : ready[i] # unacked[w]

(* ... and the copy of a job that was done is about to be acknowledged.     *)
Once ==
    /\ \A r \in Requests : times[r] <= 1
    /\ \A i \in 1 .. Len(ready) : times[ready[i]] = 0
    /\ \A h \in Handlers : Alive(h) /\ pc[h] # "ack" => times[job[h]] = 0

OnceInv == losses = 0 => DeliveriesMatch /\ OneCopy /\ Once

--------------------------------------------------------------------------------
USE CodeStoreAssumption, QueueAssumption, SupplyAssumption
    DEF Sessions, FaultKinds, Goto, Inserting, store, txn, queue, request, handler, history


(* Answering with the number of its own delivery, a handler finds it        *)
(* outstanding: what it does is what it means to do.                        *)
LEMMA ReleasesOwn ==
    ASSUME IInv, DeliveriesMatch, NEW h \in Handlers, Releases(h)
    PROVE  /\ WorkerOf[h] \in Workers /\ Alive(h) /\ IsJob(job[h])
           /\ unacked[WorkerOf[h]] = job[h] /\ job[h] # NoJob
           /\ unacked' = [unacked EXCEPT ![WorkerOf[h]] = NoJob]
           /\ UNCHANGED <<up, tag, losses, job, handlerTag>>
           /\ pc' = [pc EXCEPT ![h] = "idle"]
           /\ \/ pc[h] = "ack" /\ ready' = ready
              \/ pc[h] = "nack" /\ ready' = <<job[h]>> \o ready
<1>1. WorkerOf[h] \in Workers /\ Alive(h)
  BY DEF Releases, Alive
<1>2. IsJob(job[h]) /\ job[h] # NoJob
  BY <1>1 DEF IInv, JobsKnown, IsJob
<1>3. /\ up[WorkerOf[h]] /\ unacked[WorkerOf[h]] = job[h]
      /\ Outstanding(WorkerOf[h], handlerTag[h])
  BY <1>1, <1>2 DEF DeliveriesMatch, Outstanding
<1> QED
  BY <1>1, <1>2, <1>3 DEF Releases, Ack, Nack, Unexpected, PushBack

(* Without a loss of a channel under a running process, deliveries keep     *)
(* matching their handlers.                                                 *)
LEMMA DeliveriesMatchStep ==
    ASSUME IInv, DeliveriesMatch, Next, \A w \in Workers : ~LoseConnection(w)
    PROVE  DeliveriesMatch'
<1>0. LocalTypeOK /\ QueueTypeOK /\ JobsKnown
  BY TypeParts DEF IInv
<1>1. ASSUME UNCHANGED <<up, unacked, tag, job, handlerTag>>,
             \A h \in Handlers : Alive(h)' => Alive(h)
      PROVE  DeliveriesMatch'
  BY <1>1 DEF DeliveriesMatch
<1>2. ASSUME NEW r \in Requests, RequestEffect(r)
      PROVE  DeliveriesMatch'
  <2>1. PICK l : pc' = [pc EXCEPT ![r] = l]
    BY <1>2
    DEF RequestEffect, Begins, Starts, Publish, Answer, Refuse, Aborts, Inserts, Proceeds, Commits
  <2>2. UNCHANGED <<up, unacked, tag, job, handlerTag>>
    BY <1>2 DEF RequestEffect, Begins, Publish, Enqueue, Aborts, Inserts, Proceeds, Commits
  <2> QED
    BY <1>0, <1>1, <2>1, <2>2 DEF LocalTypeOK, Alive
<1>3. ASSUME NEW h \in Handlers, HandlerEffect(h)
      PROVE  DeliveriesMatch'
  <2>1. CASE Deliver(h)
    <3>1. /\ WorkerOf[h] \in Workers /\ up[WorkerOf[h]] /\ unacked[WorkerOf[h]] = NoJob
          /\ unacked' = [unacked EXCEPT ![WorkerOf[h]] = Head(ready)]
          /\ tag' = [tag EXCEPT ![WorkerOf[h]] = NextTag(WorkerOf[h])]
          /\ job' = [job EXCEPT ![h] = Head(ready)]
          /\ handlerTag' = [handlerTag EXCEPT ![h] = NextTag(WorkerOf[h])]
          /\ pc' = [pc EXCEPT ![h] = "begin"]
          /\ up' = up
      BY <2>1 DEF Deliver, CanDeliver, Delivered
    <3>2. \A g \in Handlers : Alive(g) => WorkerOf[g] # WorkerOf[h] /\ WorkerOf[g] \in Workers
      BY <1>0, <3>1 DEF DeliveriesMatch, JobsKnown, IsJob
    <3>3. \A g \in Handlers : g # h /\ Alive(g)' =>
            Alive(g) /\ job'[g] = job[g] /\ handlerTag'[g] = handlerTag[g]
      BY <1>0, <3>1 DEF LocalTypeOK, Alive
    <3>4. \A w \in Workers : w # WorkerOf[h] => unacked'[w] = unacked[w] /\ tag'[w] = tag[w]
      BY <1>0, <3>1 DEF QueueTypeOK
    <3>5. /\ unacked'[WorkerOf[h]] = job'[h] /\ handlerTag'[h] = tag'[WorkerOf[h]]
      BY <1>0, <3>1 DEF LocalTypeOK, QueueTypeOK
    <3> QED
      BY <3>1, <3>2, <3>3, <3>4, <3>5 DEF DeliveriesMatch
  <2>2. CASE Releases(h)
    <3>1. /\ WorkerOf[h] \in Workers /\ Alive(h)
          /\ unacked' = [unacked EXCEPT ![WorkerOf[h]] = NoJob]
          /\ UNCHANGED <<up, tag, losses, job, handlerTag>>
          /\ pc' = [pc EXCEPT ![h] = "idle"]
      BY <2>2, ReleasesOwn
    <3>2. \A g \in Handlers : Alive(g)' => Alive(g) /\ g # h
      BY <1>0, <3>1 DEF LocalTypeOK, Alive
    <3>3. \A g \in Handlers : Alive(g)' => WorkerOf[g] # WorkerOf[h] /\ WorkerOf[g] \in Workers
      BY <3>1, <3>2 DEF DeliveriesMatch
    <3>4. \A w \in Workers : w # WorkerOf[h] => unacked'[w] = unacked[w]
      BY <1>0, <3>1 DEF QueueTypeOK
    <3> QED
      BY <3>1, <3>2, <3>3, <3>4 DEF DeliveriesMatch
  <2>3. ASSUME UNCHANGED <<queue, job, handlerTag>>,
               \E l : pc' = [pc EXCEPT ![h] = l] /\ (Alive(h) \/ l = "idle")
        PROVE  DeliveriesMatch'
    BY <1>0, <1>1, <2>3 DEF LocalTypeOK, Alive
  <2> QED
    BY <1>3, <2>1, <2>2, <2>3 DEF HandlerEffect, Aborts, Inserts, Proceeds, Commits, Alive
<1>4. ASSUME NEW w \in Workers, WorkerEffect(w)
      PROVE  DeliveriesMatch'
  <2>1. UNCHANGED handler
    BY <1>4 DEF WorkerEffect, LoseConnection, Connect, Crash
  <2>2. CASE Connect(w)
    <3>1. /\ ~up[w] /\ up' = [up EXCEPT ![w] = TRUE] /\ tag' = [tag EXCEPT ![w] = 0]
          /\ UNCHANGED <<unacked, pc>>
      BY <2>2 DEF Connect, Reconnect
    <3>2. \A h \in Handlers : Alive(h) => WorkerOf[h] # w /\ WorkerOf[h] \in Workers
      BY <3>1 DEF DeliveriesMatch
    <3> QED
      BY <1>0, <2>1, <3>1, <3>2 DEF QueueTypeOK, DeliveriesMatch, Alive
  <2>3. CASE Crash(w)
    <3>1. \A v \in Workers : v # w =>
            up'[v] = up[v] /\ unacked'[v] = unacked[v] /\ tag'[v] = tag[v]
      BY <1>0, <2>3 DEF QueueTypeOK, Crash, Lost
    <3>2. \A h \in Handlers : Alive(h)' => Alive(h) /\ WorkerOf[h] # w /\ WorkerOf[h] \in Workers
      BY <1>0, <2>3 DEF LocalTypeOK, Alive, Crash
    <3> QED
      BY <2>1, <3>1, <3>2 DEF DeliveriesMatch
  <2> QED
    BY <1>4, <2>2, <2>3 DEF WorkerEffect
<1> QED
  BY <1>2, <1>3, <1>4, NextEffect

--------------------------------------------------------------------------------
(* No job is lost *)

Kept(r) ==
    \/ \E i \in DOMAIN ready : ready[i] = r
    \/ \E w \in Workers : unacked[w] = r

LEMMA KeptForm == JobIsKept <=> \A r \in Requests : Accepted(r) /\ times[r] = 0 => Kept(r)
  BY DEF JobIsKept, Kept

LEMMA TimesGrow ==
    ASSUME IInv, Next, NEW r \in Requests
    PROVE  times[r] \in Nat /\ times'[r] \in Nat /\ times'[r] >= times[r]
<1>1. HistoryTypeOK
  BY TypeParts DEF IInv
<1>2. CASE UNCHANGED times
  BY <1>1, <1>2 DEF HistoryTypeOK
<1>3. ASSUME NEW s \in Sessions, NEW n, NEW l, Commits(s, n, l)
      PROVE  times[r] \in Nat /\ times'[r] \in Nat /\ times'[r] >= times[r]
  BY <1>1, <1>3 DEF HistoryTypeOK, Commits, Made
<1> QED
  BY <1>2, <1>3, NextEffect
  DEF RequestEffect, Begins, Publish, Aborts, Inserts, Proceeds, HandlerEffect, Deliver,
      Releases, WorkerEffect, LoseConnection, Connect, Crash

(* A job is accepted when its message is in the queue.                      *)
LEMMA NewlyAccepted ==
    ASSUME "publish" \notin Faults, IInv, Next, NEW r \in Requests,
           Accepted(r)', times'[r] = 0
    PROVE  (Accepted(r) /\ times[r] = 0) \/ Enqueue(r)
<1>0. LocalTypeOK /\ HistoryTypeOK /\ Control
  BY TypeParts DEF IInv
<1>1. times[r] = 0
  BY TimesGrow
<1>2. ASSUME reply'[r] = reply[r], quantity'[r] = quantity[r]
      PROVE  Accepted(r)
  BY <1>2 DEF Accepted
<1>3. ASSUME NEW t \in Requests, RequestEffect(t), t # r
      PROVE  Accepted(r)
  <2>1. CASE Begins(t)
    BY <1>0, <1>2, <1>3, <2>1 DEF LocalTypeOK, Begins, Starts
  <2>2. CASE Publish(t)
    BY <1>0, <1>2, <1>3, <2>2 DEF LocalTypeOK, Publish, Answer, Refuse
  <2>3. CASE Aborts(t, Inserting, "done") \/ Inserts(t, "count") \/ Proceeds(t, "commit")
    BY <1>0, <1>2, <1>3, <2>3 DEF LocalTypeOK, Aborts, Inserts, Proceeds
  <2>4. CASE Commits(t, quantity[t], "done")
    BY <1>0, <1>2, <1>3, <2>4 DEF LocalTypeOK, Commits
  <2> QED
    BY <1>3, <2>1, <2>2, <2>3, <2>4 DEF RequestEffect
<1>4. ASSUME RequestEffect(r)
      PROVE  Accepted(r) \/ Enqueue(r)
  <2>1. CASE Begins(r)
    <3>1. PICK l, a : Starts(r, l, a)
      BY <2>1 DEF Begins
    <3>2. reply'[r] = a
      BY <1>0, <3>1 DEF LocalTypeOK, Starts
    <3> QED
      BY <3>1, <3>2 DEF Starts, Accepted
  <2>2. CASE Publish(r)
    BY <2>2 DEF Publish
  <2>3. CASE Aborts(r, Inserting, "done")
    BY <1>0, <2>3 DEF LocalTypeOK, Aborts, Accepted
  <2>4. CASE Inserts(r, "count") \/ Proceeds(r, "commit")
    BY <1>0, <1>2, <2>4 DEF Inserts, Proceeds
  <2>5. CASE Commits(r, quantity[r], "done")
    BY <1>0, <1>1, <2>5 DEF HistoryTypeOK, Commits, Made, RequestOf
  <2> QED
    BY <1>4, <2>1, <2>2, <2>3, <2>4, <2>5 DEF RequestEffect
<1>5. ASSUME NEW h \in Handlers, HandlerEffect(h)
      PROVE  Accepted(r)
  <2>1. h \notin Requests
    OBVIOUS
  <2>2. UNCHANGED <<reply, quantity>>
    BY <1>5, <2>1
    DEF HandlerEffect, Deliver, Releases, Aborts, Inserts, Proceeds, Commits
  <2> QED
    BY <1>2, <2>2
<1>6. ASSUME NEW w \in Workers, WorkerEffect(w)
      PROVE  Accepted(r)
  BY <1>2, <1>6 DEF WorkerEffect, LoseConnection, Connect, Crash
<1> QED
  BY <1>1, <1>3, <1>4, <1>5, <1>6, NextEffect

(* What the steps of the queue keep.                                        *)
LEMMA EnqueueKeeps ==
    ASSUME QueueTypeOK, NEW r \in Requests, Enqueue(r)
    PROVE  Kept(r)' /\ \A t \in Requests : Kept(t) => Kept(t)'
<1>1. /\ ready' = Append(ready, r) /\ Len(ready) + 1 \in 1 .. Len(ready')
      /\ ready'[Len(ready) + 1] = r /\ DOMAIN ready' = 1 .. Len(ready')
      /\ \A i \in DOMAIN ready : i \in 1 .. Len(ready') /\ ready'[i] = ready[i]
  BY DEF QueueTypeOK, Enqueue
<1> QED
  BY <1>1 DEF Kept, Enqueue

LEMMA PushBackKeeps ==
    ASSUME QueueTypeOK, NEW w \in Workers, PushBack(w),
           unacked' = [unacked EXCEPT ![w] = NoJob], NEW t \in Requests, Kept(t)
    PROVE  Kept(t)'
<1>1. CASE unacked[w] = NoJob
  BY <1>1 DEF QueueTypeOK, PushBack, Kept
<1>2. CASE unacked[w] # NoJob
  <2>1. ready \in Seq(Jobs) /\ unacked[w] \in Jobs /\ ready' = <<unacked[w]>> \o ready
    BY <1>2 DEF QueueTypeOK, PushBack
  <2>2. /\ DOMAIN ready' = 1 .. Len(ready) + 1 /\ DOMAIN ready = 1 .. Len(ready)
        /\ Len(ready) \in Nat
    BY <2>1
  <2>3. /\ ready'[1] = unacked[w]
        /\ \A i \in 1 .. Len(ready) : ready'[i + 1] = ready[i]
    BY <2>1, PushBackSeq
  <2>4. ASSUME NEW i \in DOMAIN ready
        PROVE  i + 1 \in DOMAIN ready' /\ ready'[i + 1] = ready[i]
    BY <2>2, <2>3
  <2>5. 1 \in DOMAIN ready'
    BY <2>2
  <2>6. CASE \E i \in DOMAIN ready : ready[i] = t
    BY <2>4, <2>6 DEF Kept
  <2>7. CASE unacked[w] = t
    BY <2>3, <2>5, <2>7 DEF Kept
  <2>8. ASSUME NEW v \in Workers, v # w, unacked[v] = t
        PROVE  Kept(t)'
    BY <2>8 DEF Kept, QueueTypeOK
  <2> QED
    BY <2>6, <2>7, <2>8 DEF Kept
<1> QED
  BY <1>1, <1>2

LEMMA DeliveredKeeps ==
    ASSUME QueueTypeOK, NEW w \in Workers, ready # <<>>, unacked[w] = NoJob, Delivered(w),
           NEW t \in Requests, Kept(t)
    PROVE  Kept(t)'
<1>1. /\ ready' = Tail(ready) /\ unacked' = [unacked EXCEPT ![w] = ready[1]]
      /\ DOMAIN ready = 1 .. Len(ready) /\ Len(ready) \in Nat
      /\ DOMAIN ready' = 1 .. Len(ready) - 1
      /\ \A i \in 1 .. Len(ready) - 1 : ready'[i] = ready[i + 1]
  BY DEF QueueTypeOK, Delivered
<1>2. ASSUME NEW i \in DOMAIN ready, ready[i] = t
      PROVE  Kept(t)'
  <2>1. CASE i = 1
    BY <1>1, <1>2, <2>1 DEF QueueTypeOK, Kept
  <2>2. CASE i # 1
    <3>1. i - 1 \in DOMAIN ready' /\ ready'[i - 1] = ready[i]
      BY <1>1, <2>2
    <3> QED
      BY <1>2, <3>1 DEF Kept
  <2> QED
    BY <2>1, <2>2
<1>3. ASSUME NEW v \in Workers, unacked[v] = t
      PROVE  Kept(t)'
  <2>1. v # w
    BY <1>3
  <2> QED
    BY <1>1, <1>3, <2>1 DEF QueueTypeOK, Kept
<1> QED
  BY <1>2, <1>3 DEF Kept

LEMMA AcknowledgedStep ==
    ASSUME IInv, Acknowledged, Next
    PROVE  Acknowledged'
<1>0. LocalTypeOK /\ HistoryTypeOK /\ JobsKnown
  BY TypeParts DEF IInv
<1>1. ASSUME NEW h \in Handlers, pc'[h] = "ack", pc[h] = "ack", job'[h] = job[h]
      PROVE  times'[job'[h]] > 0
  <2>1. times[job[h]] > 0 /\ job[h] \in Requests
    BY <1>0, <1>1 DEF Acknowledged, JobsKnown, IsJob, Alive
  <2> QED
    BY <1>1, <2>1, TimesGrow
<1>2. ASSUME NEW r \in Requests, RequestEffect(r)
      PROVE  Acknowledged'
  <2>1. PICK l : pc' = [pc EXCEPT ![r] = l]
    BY <1>2
    DEF RequestEffect, Begins, Starts, Publish, Answer, Refuse, Aborts, Inserts, Proceeds, Commits
  <2>2. UNCHANGED job
    BY <1>2 DEF RequestEffect, Begins, Publish, Aborts, Inserts, Proceeds, Commits
  <2> QED
    BY <1>0, <1>1, <2>1, <2>2 DEF LocalTypeOK, Acknowledged
<1>3. ASSUME NEW h \in Handlers, HandlerEffect(h)
      PROVE  Acknowledged'
  <2>1. /\ \A g \in Handlers : g # h => pc'[g] = pc[g] /\ job'[g] = job[g]
    BY <1>0, <1>3
    DEF LocalTypeOK, HandlerEffect, Deliver, Releases, Aborts, Inserts, Proceeds, Commits
  <2>2. \A g \in Handlers : g # h /\ pc'[g] = "ack" => times'[job'[g]] > 0
    BY <1>1, <2>1
  <2>3. ASSUME pc'[h] = "ack"
        PROVE  times'[job'[h]] > 0
    <3>1. Commits(h, Cardinality(inserts[h]) * Unit, "ack")
      BY <1>0, <1>3, <2>3
      DEF LocalTypeOK, HandlerEffect, Deliver, Releases, Aborts, Inserts, Proceeds, Commits
    <3>2. RequestOf(h) = job[h] /\ job[h] \in Requests /\ job'[h] = job[h]
      BY <3>1, Busy DEF Commits, RequestOf, IsJob
    <3> QED
      BY <1>0, <3>1, <3>2 DEF HistoryTypeOK, Commits, Made
  <2> QED
    BY <2>2, <2>3 DEF Acknowledged
<1>4. ASSUME NEW w \in Workers, WorkerEffect(w)
      PROVE  Acknowledged'
  <2>1. /\ UNCHANGED job
        /\ \A h \in Handlers : pc'[h] = "ack" => pc[h] = "ack"
    BY <1>0, <1>4 DEF LocalTypeOK, WorkerEffect, LoseConnection, Connect, Crash
  <2> QED
    BY <1>1, <2>1 DEF Acknowledged
<1> QED
  BY <1>2, <1>3, <1>4, NextEffect

LEMMA JobIsKeptStep ==
    ASSUME {"connection", "publish"} \cap Faults = {}, IInv, KeptInv, Next
    PROVE  JobIsKept'
<1>0. QueueTypeOK
  BY TypeParts DEF IInv
<1>1. ASSUME NEW t \in Requests, Kept(t), times'[t] = 0
      PROVE  Kept(t)'
  <2>1. CASE UNCHANGED <<ready, unacked>>
    BY <1>1, <2>1 DEF Kept
  <2>2. ASSUME NEW r \in Requests, Enqueue(r)
        PROVE  Kept(t)'
    BY <1>0, <1>1, <2>2, EnqueueKeeps
  <2>3. ASSUME NEW h \in Handlers, Deliver(h)
        PROVE  Kept(t)'
    BY <1>0, <1>1, <2>3, DeliveredKeeps DEF Deliver, CanDeliver
  <2>4. ASSUME NEW h \in Handlers, Releases(h)
        PROVE  Kept(t)'
    <3>1. /\ WorkerOf[h] \in Workers /\ unacked[WorkerOf[h]] = job[h] /\ job[h] # NoJob
          /\ unacked' = [unacked EXCEPT ![WorkerOf[h]] = NoJob]
      BY <2>4, ReleasesOwn DEF KeptInv
    <3>2. CASE pc[h] = "ack" /\ ready' = ready
      <4>1. job[h] # t
        <5>1. times[job[h]] > 0
          BY <3>2 DEF KeptInv, Acknowledged
        <5>2. times[t] = 0
          BY <1>1, TimesGrow
        <5> QED
          BY <5>1, <5>2
      <4> QED
        BY <1>0, <1>1, <3>1, <3>2, <4>1 DEF Kept, QueueTypeOK
    <3>3. CASE ready' = <<job[h]>> \o ready
      BY <1>0, <1>1, <3>1, <3>3, PushBackKeeps DEF PushBack
    <3> QED
      BY <2>4, <3>2, <3>3, ReleasesOwn DEF KeptInv
  <2>5. ASSUME NEW w \in Workers, WorkerEffect(w)
        PROVE  Kept(t)'
    <3>1. CASE Lost(w)
      BY <1>0, <1>1, <3>1, PushBackKeeps DEF Lost
    <3> QED
      BY <2>1, <2>5, <3>1 DEF WorkerEffect, LoseConnection, Connect, Crash, Reconnect
  <2> QED
    BY <2>1, <2>2, <2>3, <2>4, <2>5, NextEffect
    DEF RequestEffect, Begins, Publish, Aborts, Inserts, Proceeds, Commits, HandlerEffect
<1>2. ASSUME NEW t \in Requests, Accepted(t)', times'[t] = 0
      PROVE  Kept(t)'
  <2>1. CASE Accepted(t) /\ times[t] = 0
    BY <1>1, <1>2, <2>1, KeptForm DEF KeptInv
  <2>2. CASE Enqueue(t)
    BY <1>0, <2>2, EnqueueKeeps
  <2> QED
    BY <1>2, <2>1, <2>2, NewlyAccepted
<1>3. JobIsKept' <=> \A r \in Requests : Accepted(r)' /\ times'[r] = 0 => Kept(r)'
  BY DEF JobIsKept, Kept
<1> QED
  BY <1>2, <1>3

(* Where no message is lost on its way to the broker and no channel breaks  *)
(* under a running process, no crash, no failed batch and no lost reply of  *)
(* MongoDB loses a job: it is in the queue or delivered until it is done.   *)
THEOREM NoJobIsLost ==
    ASSUME {"connection", "publish"} \cap Faults = {}
    PROVE  Spec => []JobIsKept
<1>1. Init => KeptInv
  BY DEF Init, KeptInv, DeliveriesMatch, Acknowledged, JobIsKept, Accepted, Alive
<1>2. IInv /\ KeptInv /\ [Next]_vars => KeptInv'
  <2>1. ASSUME IInv, KeptInv, Next
        PROVE  KeptInv'
    <3>1. \A w \in Workers : ~LoseConnection(w)
      BY DEF LoseConnection
    <3> QED
      BY <2>1, <3>1, DeliveriesMatchStep, AcknowledgedStep, JobIsKeptStep DEF KeptInv
  <2>2. ASSUME KeptInv, UNCHANGED vars
        PROVE  KeptInv'
    BY <2>2 DEF vars, KeptInv, DeliveriesMatch, Acknowledged, JobIsKept, Accepted, Alive
  <2> QED
    BY <2>1, <2>2
<1>3. KeptInv => JobIsKept
  BY DEF KeptInv
<1> QED
  BY <1>1, <1>2, <1>3, AlwaysIInv, PTL DEF Spec

--------------------------------------------------------------------------------
(* No job is done twice before a channel is lost *)

(* One way to be in a queue of one copy each.                               *)
Single(q, u) ==
    /\ \A i, j \in 1 .. Len(q) : q[i] = q[j] => i = j
    /\ \A v, w \in Workers : u[v] = u[w] /\ u[v] # NoJob => v = w
    /\ \A i \in 1 .. Len(q), w \in Workers : q[i] # u[w]

LEMMA EnqueueSingle ==
    ASSUME QueueTypeOK, Single(ready, unacked), NEW r \in Requests, Enqueue(r),
           \A i \in 1 .. Len(ready) : ready[i] # r, \A w \in Workers : unacked[w] # r
    PROVE  Single(ready', unacked')
<1>1. /\ unacked' = unacked /\ Len(ready') = Len(ready) + 1 /\ Len(ready) \in Nat
      /\ ready'[Len(ready) + 1] = r
      /\ \A i \in 1 .. Len(ready) : ready'[i] = ready[i]
  BY DEF QueueTypeOK, Enqueue
<1>2. \A i \in 1 .. Len(ready') : i = Len(ready) + 1 \/ i \in 1 .. Len(ready)
  BY <1>1
<1>3. \A i \in 1 .. Len(ready') : ready'[i] = r \/ (i \in 1 .. Len(ready) /\ ready'[i] = ready[i])
  BY <1>1, <1>2
<1>4. \A i, j \in 1 .. Len(ready') : ready'[i] = ready'[j] => i = j
  BY <1>1, <1>2 DEF Single
<1>5. \A i \in 1 .. Len(ready'), w \in Workers : ready'[i] # unacked'[w]
  BY <1>1, <1>3 DEF Single
<1> QED
  BY <1>1, <1>4, <1>5 DEF Single

LEMMA DeliveredSingle ==
    ASSUME QueueTypeOK, Single(ready, unacked), NEW w \in Workers, ready # <<>>, Delivered(w)
    PROVE  Single(ready', unacked')
<1>1. /\ 1 \in 1 .. Len(ready) /\ Len(ready') = Len(ready) - 1 /\ Len(ready) \in Nat
      /\ unacked' = [unacked EXCEPT ![w] = ready[1]]
      /\ \A i \in 1 .. Len(ready) - 1 : ready'[i] = ready[i + 1] /\ i + 1 \in 1 .. Len(ready)
  BY DEF QueueTypeOK, Delivered
<1>2. unacked'[w] = ready[1] /\ \A v \in Workers : v # w => unacked'[v] = unacked[v]
  BY <1>1 DEF QueueTypeOK
<1>3. \A i, j \in 1 .. Len(ready') : ready'[i] = ready'[j] => i = j
  BY <1>1 DEF Single
<1>4. \A u, v \in Workers : unacked'[u] = unacked'[v] /\ unacked'[u] # NoJob => u = v
  BY <1>1, <1>2 DEF Single
<1>5. \A i \in 1 .. Len(ready') : i + 1 # 1 /\ ready'[i] = ready[i + 1] /\ i + 1 \in 1 .. Len(ready)
  BY <1>1
<1>6. \A i \in 1 .. Len(ready') : ready'[i] # ready[1]
  BY <1>1, <1>5 DEF Single
<1>7. \A i \in 1 .. Len(ready'), v \in Workers : ready'[i] # unacked'[v]
  BY <1>2, <1>5, <1>6 DEF Single
<1> QED
  BY <1>3, <1>4, <1>7 DEF Single

LEMMA ReleasedSingle ==
    ASSUME QueueTypeOK, Single(ready, unacked), NEW w \in Workers, unacked[w] \in Jobs,
           unacked' = [unacked EXCEPT ![w] = NoJob],
           ready' = ready \/ ready' = <<unacked[w]>> \o ready
    PROVE  Single(ready', unacked')
<1>1. unacked'[w] = NoJob /\ \A v \in Workers : v # w => unacked'[v] = unacked[v]
  BY DEF QueueTypeOK
<1>2. \A u, v \in Workers : unacked'[u] = unacked'[v] /\ unacked'[u] # NoJob => u = v
  BY <1>1 DEF Single
<1>3. \A i \in 1 .. Len(ready) : ready[i] \in Jobs
  BY DEF QueueTypeOK
<1>4. CASE ready' = ready
  BY <1>1, <1>2, <1>3, <1>4 DEF Single
<1>5. CASE ready' = <<unacked[w]>> \o ready
  <2>1. /\ Len(ready') = Len(ready) + 1 /\ Len(ready) \in Nat /\ ready'[1] = unacked[w]
        /\ \A i \in 1 .. Len(ready') : i # 1 => i - 1 \in 1 .. Len(ready) /\ ready'[i] = ready[i - 1]
    BY <1>5, PushBackSeq DEF QueueTypeOK
  <2>2. ASSUME NEW i \in 1 .. Len(ready'), i # 1
        PROVE  ready'[i] # unacked[w] /\ ready'[i] \in Jobs
    <3>1. i - 1 \in 1 .. Len(ready) /\ ready'[i] = ready[i - 1]
      BY <2>1, <2>2
    <3>2. ready[i - 1] # unacked[w] /\ ready[i - 1] \in Jobs
      BY <1>3, <3>1 DEF Single
    <3> QED
      BY <3>1, <3>2
  <2>3. ASSUME NEW i \in 1 .. Len(ready'), NEW j \in 1 .. Len(ready'), ready'[i] = ready'[j]
        PROVE  i = j
    <3>1. CASE i = 1 \/ j = 1
      BY <2>1, <2>2, <2>3, <3>1
    <3>2. CASE i # 1 /\ j # 1
      <4>1. /\ i - 1 \in 1 .. Len(ready) /\ j - 1 \in 1 .. Len(ready)
            /\ ready[i - 1] = ready[j - 1]
        BY <2>1, <2>3, <3>2
      <4>2. i - 1 = j - 1
        BY <4>1 DEF Single
      <4> QED
        BY <4>2
    <3> QED
      BY <3>1, <3>2
  <2>4. ASSUME NEW i \in 1 .. Len(ready'), NEW v \in Workers
        PROVE  ready'[i] # unacked'[v]
    <3>1. CASE v = w
      BY <1>1, <2>1, <2>2, <3>1
    <3>2. CASE v # w /\ i = 1
      BY <1>1, <2>1, <3>2 DEF Single
    <3>3. CASE v # w /\ i # 1
      BY <1>1, <2>1, <3>3 DEF Single
    <3> QED
      BY <3>1, <3>2, <3>3
  <2> QED
    BY <1>2, <2>3, <2>4 DEF Single
<1> QED
  BY <1>4, <1>5

LEMMA OneCopyForm == OneCopy <=> (\A w \in Workers : up[w]) /\ Single(ready, unacked)
  BY DEF OneCopy, Single

(* No channel was lost in this step either.                                 *)
LEMMA StillUp ==
    ASSUME IInv, OneCopy, losses = 0, losses' = 0, NEW w \in Workers
    PROVE  ~WorkerEffect(w)
  BY DEF OneCopy, WorkerEffect, LoseConnection, Connect, Reconnect, Crash, Lost

LEMMA OneCopyStep ==
    ASSUME IInv, DeliveriesMatch, OneCopy, losses = 0, losses' = 0, Next
    PROVE  OneCopy'
<1>0. QueueTypeOK /\ JobsKnown
  BY TypeParts DEF IInv
<1>1. CASE UNCHANGED queue
  BY <1>1 DEF OneCopy
<1>2. ASSUME NEW r \in Requests, Publish(r), Enqueue(r)
      PROVE  OneCopy'
  <2>1. /\ \A i \in 1 .. Len(ready) : ready[i] # r
        /\ \A w \in Workers : unacked[w] # r
    BY <1>0, <1>2 DEF Publish, JobsKnown, IsJob
  <2>2. Single(ready', unacked') /\ up' = up
    BY <1>0, <1>2, <2>1, EnqueueSingle, OneCopyForm DEF Enqueue
  <2> QED
    BY <2>2, OneCopyForm DEF OneCopy, Single
<1>3. ASSUME NEW h \in Handlers, Deliver(h)
      PROVE  OneCopy'
  <2>1. Single(ready', unacked') /\ up' = up
    BY <1>0, <1>3, DeliveredSingle, OneCopyForm DEF Deliver, CanDeliver, Delivered
  <2> QED
    BY <2>1, OneCopyForm DEF OneCopy, Single
<1>4. ASSUME NEW h \in Handlers, Releases(h)
      PROVE  OneCopy'
  <2>1. /\ WorkerOf[h] \in Workers /\ unacked[WorkerOf[h]] \in Jobs
        /\ unacked' = [unacked EXCEPT ![WorkerOf[h]] = NoJob] /\ up' = up
        /\ ready' = ready \/ ready' = <<unacked[WorkerOf[h]]>> \o ready
    BY <1>4, ReleasesOwn DEF IsJob
  <2>2. Single(ready', unacked') /\ up' = up
    BY <1>0, <2>1, ReleasedSingle, OneCopyForm
  <2> QED
    BY <2>2, OneCopyForm DEF OneCopy, Single
<1> QED
  BY <1>1, <1>2, <1>3, <1>4, StillUp, NextEffect
  DEF RequestEffect, Begins, Publish, Aborts, Inserts, Proceeds, Commits, HandlerEffect

LEMMA OnceStep ==
    ASSUME "mongo" \notin Faults, IInv, DeliveriesMatch, OneCopy, Once,
           losses = 0, losses' = 0, Next
    PROVE  Once'
<1>0. LocalTypeOK /\ HistoryTypeOK /\ QueueTypeOK /\ JobsKnown /\ Control
  BY TypeParts DEF IInv
<1>1. \A i \in 1 .. Len(ready) : ready[i] \in Requests /\ pc[ready[i]] = "done"
  BY <1>0 DEF JobsKnown, IsJob
<1>2. \A h \in Handlers : Alive(h) => job[h] \in Requests /\ pc[job[h]] = "done"
  BY <1>0 DEF JobsKnown, IsJob
<1>3. ASSUME UNCHANGED <<ready, job, times>>,
             \A h \in Handlers : Alive(h)' /\ pc'[h] # "ack" => Alive(h) /\ pc[h] # "ack"
      PROVE  Once'
  BY <1>3 DEF Once
<1>4. ASSUME NEW r \in Requests, RequestEffect(r)
      PROVE  Once'
  <2>1. PICK l : pc' = [pc EXCEPT ![r] = l]
    BY <1>4
    DEF RequestEffect, Begins, Starts, Publish, Answer, Refuse, Aborts, Inserts, Proceeds, Commits
  <2>2. UNCHANGED job /\ \A h \in Handlers : pc'[h] = pc[h]
    BY <1>0, <1>4, <2>1
    DEF LocalTypeOK, RequestEffect, Begins, Publish, Aborts, Inserts, Proceeds, Commits
  <2>3. CASE UNCHANGED <<ready, times>>
    BY <1>3, <2>2, <2>3 DEF Alive
  <2>4. CASE Publish(r) /\ Enqueue(r)
    <3>1. times[r] = 0 /\ times' = times
      BY <1>0, <2>4 DEF Control, Publish
    <3>2. \A i \in 1 .. Len(ready') : ready'[i] = r \/ (i \in 1 .. Len(ready) /\ ready'[i] = ready[i])
      BY <1>0, <2>4 DEF QueueTypeOK, Enqueue
    <3> QED
      BY <2>2, <3>1, <3>2 DEF Once, Alive
  <2>5. CASE Commits(r, quantity[r], "done")
    <3>1. pc[r] = "commit" /\ times[r] = 0 /\ ready' = ready
      BY <1>0, <2>5 DEF Control, Commits
    <3>2. times'[r] = 1 /\ \A t \in Requests : t # r => times'[t] = times[t]
      BY <1>0, <2>5, <3>1 DEF HistoryTypeOK, Commits, Made, RequestOf
    <3>3. \A i \in 1 .. Len(ready) : ready[i] # r
      BY <1>1, <3>1
    <3>4. \A h \in Handlers : Alive(h) => job[h] # r
      BY <1>2, <3>1
    <3>5. \A t \in Requests : times'[t] <= 1
      BY <3>2 DEF Once
    <3>6. \A i \in 1 .. Len(ready') : times'[ready'[i]] = 0
      BY <1>1, <3>1, <3>2, <3>3 DEF Once
    <3>7. \A h \in Handlers : Alive(h)' /\ pc'[h] # "ack" => times'[job'[h]] = 0
      BY <1>2, <2>2, <3>2, <3>4 DEF Once, Alive
    <3> QED
      BY <3>5, <3>6, <3>7 DEF Once
  <2> QED
    BY <1>4, <2>3, <2>4, <2>5 DEF RequestEffect, Begins, Publish, Aborts, Inserts, Proceeds
<1>5. ASSUME NEW h \in Handlers, HandlerEffect(h)
      PROVE  Once'
  <2>1. CASE Deliver(h)
    <3>1. /\ 1 \in 1 .. Len(ready) /\ Len(ready) \in Nat /\ Head(ready) = ready[1]
          /\ Len(ready') = Len(ready) - 1
          /\ \A i \in 1 .. Len(ready) - 1 : ready'[i] = ready[i + 1] /\ i + 1 \in 1 .. Len(ready)
      BY <1>0, <2>1 DEF QueueTypeOK, Deliver, CanDeliver, Delivered
    <3>2. /\ job'[h] = ready[1] /\ times' = times
          /\ \A g \in Handlers : g # h => pc'[g] = pc[g] /\ job'[g] = job[g]
      BY <1>0, <2>1, <3>1 DEF LocalTypeOK, Deliver
    <3>3. \A i \in 1 .. Len(ready') : times'[ready'[i]] = 0
      BY <3>1, <3>2 DEF Once
    <3>4. \A g \in Handlers : Alive(g)' /\ pc'[g] # "ack" => times'[job'[g]] = 0
      BY <3>1, <3>2 DEF Once, Alive
    <3> QED
      BY <3>2, <3>3, <3>4 DEF Once
  <2>2. CASE Releases(h)
    <3>1. /\ times' = times /\ job' = job /\ job[h] \in Jobs
          /\ Alive(h) /\ pc' = [pc EXCEPT ![h] = "idle"]
          /\ ready' = ready \/ (pc[h] = "nack" /\ ready' = <<job[h]>> \o ready)
      BY <2>2, ReleasesOwn DEF Releases, IsJob
    <3>2. \A g \in Handlers : Alive(g)' /\ pc'[g] # "ack" => Alive(g) /\ pc[g] # "ack"
      BY <1>0, <3>1 DEF LocalTypeOK, Alive
    <3>3. CASE ready' = ready
      BY <1>3, <3>1, <3>2, <3>3
    <3>4. CASE pc[h] = "nack" /\ ready' = <<job[h]>> \o ready
      <4>1. times[job[h]] = 0
        BY <3>1, <3>4 DEF Once
      <4>2. \A i \in 1 .. Len(ready') :
              ready'[i] = job[h] \/ (i - 1 \in 1 .. Len(ready) /\ ready'[i] = ready[i - 1])
        BY <1>0, <3>1, <3>4, PushBackSeq DEF QueueTypeOK
      <4> QED
        <5>1. \A i \in 1 .. Len(ready') : times'[ready'[i]] = 0
          BY <3>1, <4>1, <4>2 DEF Once
        <5>2. \A g \in Handlers : Alive(g)' /\ pc'[g] # "ack" => times'[job'[g]] = 0
          BY <3>1, <3>2 DEF Once
        <5> QED
          BY <3>1, <5>1, <5>2 DEF Once
    <3> QED
      BY <3>1, <3>3, <3>4
  <2>3. ASSUME UNCHANGED <<queue, job, times>>,
               \E l : pc' = [pc EXCEPT ![h] = l] /\ (pc[h] \in Inserting \cup {"begin"} \/ l = "idle")
        PROVE  Once'
    BY <1>0, <1>3, <2>3 DEF LocalTypeOK, Alive
  <2>4. ASSUME NEW l \in {"ack", "nack"}, l = "nack" => "mongo" \in Faults,
               Commits(h, Cardinality(inserts[h]) * Unit, l)
        PROVE  Once'
    <3>1. /\ pc[h] = "commit" /\ Alive(h) /\ RequestOf(h) = job[h] /\ job[h] \in Requests
          /\ job' = job /\ ready' = ready /\ times[job[h]] = 0
      BY <1>2, <2>4, Busy DEF Commits, Alive, RequestOf, IsJob, Once
    <3>2. times'[job[h]] = 1 /\ \A t \in Requests : t # job[h] => times'[t] = times[t]
      BY <1>0, <2>4, <3>1 DEF HistoryTypeOK, Commits, Made
    <3>3. pc'[h] = "ack" /\ \A g \in Handlers : g # h => pc'[g] = pc[g]
      BY <1>0, <2>4 DEF LocalTypeOK, Commits
    <3>4. unacked[WorkerOf[h]] = job[h] /\ WorkerOf[h] \in Workers
      BY <3>1 DEF DeliveriesMatch
    <3>5. \A i \in 1 .. Len(ready) : ready[i] # job[h]
      BY <3>4 DEF OneCopy
    <3>6. ASSUME NEW g \in Handlers, g # h, Alive(g)
          PROVE  job[g] # job[h]
      <4>1. unacked[WorkerOf[g]] = job[g] /\ WorkerOf[g] \in Workers /\ WorkerOf[g] # WorkerOf[h]
        BY <3>1, <3>6 DEF DeliveriesMatch
      <4>2. job[h] # NoJob
        BY <3>1
      <4> QED
        BY <3>4, <4>1, <4>2 DEF OneCopy
    <3>7. \A t \in Requests : times'[t] <= 1
      BY <3>2 DEF Once
    <3>8. \A i \in 1 .. Len(ready') : times'[ready'[i]] = 0
      BY <1>1, <3>1, <3>2, <3>5 DEF Once
    <3>9. \A g \in Handlers : Alive(g)' /\ pc'[g] # "ack" => times'[job'[g]] = 0
      BY <1>2, <3>1, <3>2, <3>3, <3>6 DEF Once, Alive
    <3> QED
      BY <3>7, <3>8, <3>9 DEF Once
  <2> QED
    BY <1>5, <2>1, <2>2, <2>3, <2>4 DEF HandlerEffect, Aborts, Inserts, Proceeds
<1> QED
  BY <1>4, <1>5, StillUp, NextEffect

LEMMA LossesGrow ==
    ASSUME IInv, Next, losses' = 0
    PROVE  losses = 0
<1>0. QueueTypeOK
  BY TypeParts DEF IInv
<1>1. CASE losses' = losses
  BY <1>1
<1>2. ASSUME NEW w, Lost(w)
      PROVE  losses = 0
  BY <1>0, <1>2 DEF QueueTypeOK, Lost
<1> QED
  BY <1>1, <1>2, NextEffect
  DEF RequestEffect, Begins, Publish, Enqueue, Aborts, Inserts, Proceeds, Commits,
      HandlerEffect, Deliver, Delivered, Releases, Ack, Nack, Unexpected,
      WorkerEffect, LoseConnection, Connect, Reconnect, Crash

(* As long as no reply of MongoDB is lost: codes are made a second time for *)
(* a request only after a channel was lost, however handlers overlap, fail  *)
(* and return their jobs.                                                   *)
THEOREM OnlyLossesRepeat ==
    ASSUME "mongo" \notin Faults
    PROVE  Spec => []RepeatedOnlyAfterLoss
<1>1. Init => OnceInv
  BY DEF Init, QueueInit, OnceInv, DeliveriesMatch, OneCopy, Once, Alive
<1>2. IInv /\ OnceInv /\ [Next]_vars => OnceInv'
  <2>1. ASSUME IInv, OnceInv, Next, losses' = 0
        PROVE  OnceInv'
    <3>1. losses = 0 /\ DeliveriesMatch /\ OneCopy /\ Once
      BY <2>1, LossesGrow DEF OnceInv
    <3>2. \A w \in Workers : ~LoseConnection(w)
      BY <2>1, <3>1, StillUp DEF WorkerEffect
    <3> QED
      BY <2>1, <3>1, <3>2, DeliveriesMatchStep, OneCopyStep, OnceStep DEF OnceInv
  <2>2. ASSUME OnceInv, UNCHANGED vars
        PROVE  OnceInv'
    BY <2>2 DEF vars, OnceInv, DeliveriesMatch, OneCopy, Once, Alive
  <2> QED
    BY <2>1, <2>2 DEF OnceInv
<1>3. IInv /\ OnceInv => RepeatedOnlyAfterLoss
  <2>1. IInv => losses \in Nat /\ \A r \in Requests : times[r] \in Nat
    BY DEF IInv, TypeOK, QueueTypeOK
  <2> QED
    BY <2>1 DEF OnceInv, Once, RepeatedOnlyAfterLoss
<1> QED
  BY <1>1, <1>2, <1>3, AlwaysIInv, PTL DEF Spec
================================================================================
