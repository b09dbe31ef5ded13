-------------------------- MODULE LifecycleProperties --------------------------
(***************************************************************************)
(* What a process keeps of its connection to RabbitMQ.                     *)
(***************************************************************************)
EXTENDS ServiceLifecycle

Reconnecting == \E t \in Tasks : pc[t] \in Initializing

(* A service that has lost its connection never sits there: unless it was   *)
(* stopped, a timer runs or an initialize is under way whenever a field is  *)
(* null, or isConnecting keeps others from connecting.                      *)
NeverStuck ==
    stage \notin {"off", "database"} /\ ~Stopped /\ (Broken \/ isConnecting)
        => reconnectTimeout \/ Reconnecting

(* A worker never has two connections, nor two consumers of the queue,      *)
(* however often it reconnects: its prefetch of one is one job at a time.   *)
OneConsumer ==
    role = "worker" =>
        /\ Cardinality(open) <= 1
        /\ \A c \in Conns : registered[c] <= 1

(* While nothing breaks, no message is dropped and none fails.              *)
Undisturbed ==
    failures = 0 /\ ~Stopped =>
        \A t \in Publishers : pc[t] \notin {"dropped", "failed"}

(* Once nothing breaks any more, a process that came up and was not stopped *)
(* has a connection and a channel again, and keeps them.                    *)
Recovers ==
    []([](stage = "up" /\ ~Stopped)
        => <>[](connection # NoConn /\ channel # NoConn /\ Usable(connection) /\ Usable(channel)))

(* ... and a worker has its consumer on that channel.                       *)
ConsumerKept ==
    [](stage = "up" /\ role = "worker" => <>[](channel # NoConn /\ registered[channel] = 1))
================================================================================
