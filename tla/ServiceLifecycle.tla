---------------------------- MODULE ServiceLifecycle ----------------------------
(***************************************************************************)
(* A process of the service around its RabbitMQService: API.start and      *)
(* API.stop (lib/index.ts), called by workers/api/index.ts, or the start   *)
(* of a code generation worker (workers/rabbitMQ/rabbit-worker.ts).        *)
(*                                                                         *)
(* Each initialize returns to its caller here: the start of the process, a *)
(* request that publishes a message, or a reconnect timer.                 *)
(***************************************************************************)
EXTENDS RabbitConnection

VARIABLES
    role,           \* "api" or "worker"
    stage,          \* how far the start of the process has come
    isRunning,
    listening       \* whether the process accepts requests

process == <<role, stage, isRunning, listening>>
vars == <<service, broker, tasks, failures, process>>

Stages == {"off", "database", "initialize", "consume", "listen", "up", "failed"}

TypeOK ==
    /\ ConnectionTypeOK
    /\ role \in {"api", "worker"} /\ stage \in Stages
    /\ isRunning \in BOOLEAN /\ listening \in BOOLEAN
    /\ role = "worker" => ~isRunning /\ ~listening /\ pc[Stopper] = "idle"
                          /\ \A t \in Publishers : pc[t] = "idle"
    /\ role = "api" => ~consumers /\ \A c \in Conns : registered[c] = 0
    /\ \A t \in Timers : pc[t] \in Initializing \cup {"idle"}
    /\ pc[Main] \in Initializing => stage \in {"initialize", "consume"} /\ isConnecting
    /\ pc[Main] \in Registering => stage = "consume"

Init ==
    /\ ConnectionInit
    /\ role \in {"api", "worker"} /\ stage = "off"
    /\ isRunning = FALSE /\ listening = FALSE

Stopped == pc[Stopper] # "idle"

--------------------------------------------------------------------------------
(* The start of the process *)

Start ==
    /\ stage = "off"
    /\ stage' = "database" /\ isRunning' = (role = "api")
    /\ Await(Main, "database", NoConn)
    /\ UNCHANGED <<role, listening, service, broker, failures>>

(* Database.connect logs its error and returns all the same.                *)
DatabaseReturns ==
    /\ pc[Main] = "database"
    /\ stage' = "initialize"
    /\ BeginConnect(Main)
    /\ failures' \in {failures} \cup {n \in 0 .. MaxFailures : n = failures + 1}
    /\ UNCHANGED <<role, isRunning, listening, connection, channel, reconnectTimeout,
                   consumers, broker>>

(* What startCodeGenerationWorker, or else listen, does next.               *)
MainContinues ==
    /\ UNCHANGED <<role, isRunning, listening>>
    /\ \/ /\ role = "api"
          /\ stage' = "listen" /\ Ends(Main, "listen")
          /\ isConnecting' = FALSE /\ UNCHANGED consumers
       \/ /\ role = "worker" /\ stage = "initialize" /\ Broken
          /\ stage' = "consume" /\ BeginConnect(Main)
          /\ UNCHANGED consumers
       \/ /\ role = "worker" /\ (stage = "consume" \/ ~Broken)
          /\ stage' = "consume" /\ Register(Main)
          /\ isConnecting' = FALSE

(* initialize returns to whoever called it.                                 *)
Finish(t) ==
    /\ Completes(t)
    /\ \/ /\ t \in Timers
          /\ Ends(t, "idle") /\ isConnecting' = FALSE
          /\ UNCHANGED <<consumers, process>>
       \/ /\ t \in Publishers
          /\ Send(t) /\ isConnecting' = FALSE
          /\ UNCHANGED <<consumers, process>>
       \/ /\ t = Main
          /\ MainContinues
    /\ UNCHANGED <<connection, channel, reconnectTimeout, open, closing, failures>>

(* A call of Main has failed: start() rejects, which is only logged; the    *)
(* worker disconnects the database and lives on as long as it has a timer   *)
(* or a connection.                                                         *)
MainFails == Ends(Main, "failed") /\ stage' = "failed" /\ UNCHANGED <<role, isRunning, listening>>

(* initialize schedules the timer and rejects.                              *)
Throw(t) ==
    /\ Fails(t) /\ Catch
    /\ \/ t \in Timers /\ Ends(t, "idle") /\ UNCHANGED process
       \/ t \in Publishers /\ Ends(t, "failed") /\ UNCHANGED process
       \/ t = Main /\ MainFails
    /\ UNCHANGED broker

(* The consumer of consumeMessages is registered, or that fails and leaves  *)
(* it in the map.                                                           *)
Registered ==
    /\ pc[Main] = "ownConsume" /\ Reached(on[Main])
    /\ AddConsumer(on[Main])
    /\ Ends(Main, "done") /\ stage' = "up"
    /\ UNCHANGED <<role, isRunning, listening, service, open, closing, failures>>

RegisteringFails ==
    /\ pc[Main] \in Registering /\ ~Reached(on[Main])
    /\ MainFails
    /\ UNCHANGED <<service, broker, failures>>

Listens ==
    /\ pc[Main] = "listen"
    /\ \/ /\ Ends(Main, "done") /\ stage' = "up" /\ listening' = TRUE
          /\ UNCHANGED <<role, isRunning, failures>>
       \/ Breaks /\ MainFails
    /\ UNCHANGED <<service, broker>>

--------------------------------------------------------------------------------
(* A running process *)

(* Mutant: start() does not await initialize before it listens.             *)
RequestEarly(t) ==
    role = "api" /\ stage \in {"initialize", "listen", "up"} /\ Publish(t) /\ UNCHANGED process

(* Requests that came in before stop may still publish.                     *)
Request(t) == role = "api" /\ stage = "up" /\ Publish(t) /\ UNCHANGED process

(* API.stop, at a signal.  disconnect is not awaited; throng's disconnect   *)
(* closes the HTTP server.  The signals of a worker do nothing.             *)
Stop ==
    /\ role = "api" /\ isRunning
    /\ isRunning' = FALSE /\ listening' = FALSE
    /\ Disconnect(Stopper)
    /\ UNCHANGED <<role, stage>>

Connection(t) ==
    \/ Connected(t) \/ ChannelOpened(t) \/ QueueAsserted(t) \/ Prefetched(t)
    \/ ChannelClosed(t) \/ ConnectionClosed(t)

Next ==
    \/ Start \/ DatabaseReturns \/ Registered \/ RegisteringFails \/ Listens \/ Stop
    \/ \E t \in Tasks :
         \/ Finish(t) \/ Throw(t)
         \/ (Connection(t) /\ UNCHANGED process)
         \/ (Timer(t) /\ UNCHANGED process)
         \/ Request(t)
    \/ \E c \in Conns : (Lose(c) \/ Closed(c)) /\ UNCHANGED process

Spec == Init /\ [][Next]_vars

(* A call on a connection is answered or fails with it, a timer goes off,   *)
(* and a connection that is being closed closes in the end.                 *)
FairSpec ==
    /\ Spec
    /\ WF_vars(Start \/ DatabaseReturns \/ Registered \/ RegisteringFails \/ Listens)
    /\ \A t \in Tasks :
         /\ WF_vars(Finish(t) \/ Throw(t) \/ (Connection(t) /\ UNCHANGED process))
         /\ WF_vars(Timer(t) /\ UNCHANGED process)
    /\ \A c \in Conns : WF_vars(Closed(c) /\ UNCHANGED process)
================================================================================
