-------------------------------- MODULE JobQueue -------------------------------
(***************************************************************************)
(* The queue coupon-service.code-generation, as the consumers of           *)
(* lib/rabbitMQ.ts see it: durable, with persistent messages; one delivery *)
(* at a time per channel (prefetch 1); a delivery that is not acknowledged *)
(* goes back to the head of the queue when its channel is lost.  A channel *)
(* numbers its deliveries.  The handlers of RabbitMQService acknowledge by *)
(* number on the channel their process has then, which need not be the one *)
(* that made the delivery.                                                 *)
(***************************************************************************)
EXTENDS Integers, Sequences

CONSTANTS
    Jobs,           \* the messages
    NoJob,
    Workers,        \* the worker processes
    MaxTag,         \* bound: numbers from MaxTag on look the same; see Deliver
    MaxLosses       \* bound: no channel is opened after that many losses

ASSUME QueueAssumption ==
    /\ NoJob \notin Jobs
    /\ MaxTag \in Nat \ {0} /\ MaxLosses \in Nat

VARIABLES
    ready,          \* the messages in the queue
    up,             \* up[w]: process w has a channel with its consumer
    unacked,        \* unacked[w]: the delivery outstanding on that channel
    tag,            \* tag[w]: the number of its last delivery
    losses          \* history: how often a channel was lost

queue == <<ready, up, unacked, tag, losses>>

QueueTypeOK ==
    /\ ready \in Seq(Jobs)
    /\ up \in [Workers -> BOOLEAN]
    /\ unacked \in [Workers -> Jobs \cup {NoJob}]
    /\ tag \in [Workers -> 0 .. MaxTag]
    /\ losses \in Nat

QueueInit ==
    /\ ready = <<>>
    /\ up = [w \in Workers |-> TRUE]
    /\ unacked = [w \in Workers |-> NoJob]
    /\ tag = [w \in Workers |-> 0]
    /\ losses = 0

(* The number of the next delivery.                                         *)
NextTag(w) == IF tag[w] < MaxTag THEN tag[w] + 1 ELSE MaxTag

(* sendToQueue on an open channel.                                          *)
Enqueue(j) == ready' = Append(ready, j) /\ UNCHANGED <<up, unacked, tag, losses>>

PushBack(w) ==
    ready' = IF unacked[w] = NoJob THEN ready ELSE <<unacked[w]>> \o ready

(* The broker delivers the head of the queue to process w.                  *)
CanDeliver(w) == up[w] /\ unacked[w] = NoJob /\ ready # <<>>

Delivered(w) ==
    /\ unacked' = [unacked EXCEPT ![w] = Head(ready)]
    /\ ready' = Tail(ready)
    /\ tag' = [tag EXCEPT ![w] = NextTag(w)]
    /\ UNCHANGED <<up, losses>>

(* The connection of process w closes, and its channel with it.             *)
Lost(w) ==
    /\ up' = [up EXCEPT ![w] = FALSE]
    /\ PushBack(w)
    /\ unacked' = [unacked EXCEPT ![w] = NoJob]
    /\ losses' = losses + 1
    /\ UNCHANGED tag

(* initialize, again, after a close: a new channel, the consumer restored.  *)
Reconnect(w) ==
    /\ ~up[w] /\ losses <= MaxLosses
    /\ up' = [up EXCEPT ![w] = TRUE]
    /\ tag' = [tag EXCEPT ![w] = 0]
    /\ UNCHANGED <<ready, unacked, losses>>

Outstanding(w, t) == unacked[w] # NoJob /\ tag[w] = t

(* The broker closes the channel on a number it is not waiting for; amqplib *)
(* has no listener for that and gives up the connection.                    *)
Unexpected(w, t) == up[w] /\ ~Outstanding(w, t) /\ Lost(w)

Ack(w, t) ==
    \/ ~up[w] /\ UNCHANGED queue
    \/ /\ up[w] /\ Outstanding(w, t)
       /\ unacked' = [unacked EXCEPT ![w] = NoJob]
       /\ UNCHANGED <<ready, up, tag, losses>>
    \/ Unexpected(w, t)

(* Mutant: nack with requeue = false.                                       *)
NackDrops(w, t) == Ack(w, t)

(* nack with requeue = true.                                                *)
Nack(w, t) ==
    \/ ~up[w] /\ UNCHANGED queue
    \/ /\ up[w] /\ Outstanding(w, t)
       /\ PushBack(w)
       /\ unacked' = [unacked EXCEPT ![w] = NoJob]
       /\ UNCHANGED <<up, tag, losses>>
    \/ Unexpected(w, t)
================================================================================
