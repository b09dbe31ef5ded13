---------------------------- MODULE RabbitConnection ---------------------------
(***************************************************************************)
(* RabbitMQService of lib/rabbitMQ.ts, one object per process: how         *)
(* initialize opens a connection and a channel and restores the consumer,  *)
(* what the handlers of a lost connection and the retry timer do to that,  *)
(* and the publications, registrations and disconnects in between.         *)
(*                                                                         *)
(* A task is an asynchronous call in progress; it runs from one await to   *)
(* the next.  initialize and its callers share all the fields below.       *)
(***************************************************************************)
EXTENDS Integers, FiniteSets

CONSTANTS
    Conns,          \* connections the broker can have open to the process
    NoConn,
    Main,           \* the task that starts the process
    Stopper,        \* the task that stops it
    Timers,         \* the tasks of reconnect timers that went off
    Publishers,     \* the tasks of requests that publish a message
    MaxFailures     \* bound: how often something breaks

Tasks == {Main, Stopper} \cup Timers \cup Publishers

ASSUME ConnectionAssumption ==
    /\ NoConn \notin Conns /\ IsFiniteSet(Conns)
    /\ Main # Stopper /\ {Main, Stopper} \cap (Timers \cup Publishers) = {}
    /\ Timers \cap Publishers = {}
    /\ MaxFailures \in Nat

VARIABLES
    connection, channel,    \* a channel is named by its connection
    isConnecting,
    reconnectTimeout,       \* whether a timer is running
    consumers,              \* whether the map has the consumer of the queue
    open,           \* broker: the connections that are open
    closing,        \* broker: those that this process is closing
    registered,     \* broker: registered[c]: consumers on the channel of c
    pc,             \* pc[t]: the call task t awaits, or how it ended
    on,             \* on[t]: the connection that call is made on
    failures        \* history: how often something broke

service == <<connection, channel, isConnecting, reconnectTimeout, consumers>>
broker  == <<open, closing, registered>>
tasks   == <<pc, on>>

Initializing == {"connect", "channel", "assert", "prefetch", "consume"}
Registering  == {"ownPrefetch", "ownConsume"}
Closing      == {"closeChannel", "closeConnection"}

ConnectionTypeOK ==
    /\ connection \in Conns \cup {NoConn} /\ channel \in Conns \cup {NoConn}
    /\ isConnecting \in BOOLEAN /\ reconnectTimeout \in BOOLEAN /\ consumers \in BOOLEAN
    /\ open \subseteq Conns /\ closing \subseteq open
    /\ registered \in [Conns -> Nat]
    /\ pc \in [Tasks -> Initializing \cup Registering \cup Closing \cup
                        {"idle", "database", "listen", "sent", "dropped", "failed", "done"}]
    /\ on \in [Tasks -> Conns \cup {NoConn}]
    /\ failures \in 0 .. MaxFailures

ConnectionInit ==
    /\ connection = NoConn /\ channel = NoConn
    /\ isConnecting = FALSE /\ reconnectTimeout = FALSE /\ consumers = FALSE
    /\ open = {} /\ closing = {} /\ registered = [c \in Conns |-> 0]
    /\ pc = [t \in Tasks |-> "idle"]
    /\ on = [t \in Tasks |-> NoConn]
    /\ failures = 0

Usable(c) == c \in open \ closing

(* Mutant: ensureConnection initializes whatever there is.                  *)
BrokenAlways == TRUE

(* What makes ensureConnection call initialize.                             *)
Broken == connection = NoConn \/ channel = NoConn

Await(t, l, c) == pc' = [pc EXCEPT ![t] = l] /\ on' = [on EXCEPT ![t] = c]
Ends(t, l) == Await(t, l, NoConn)
Breaks == failures < MaxFailures /\ failures' = failures + 1

--------------------------------------------------------------------------------
(* initialize *)

(* Mutant: isConnecting is not set.                                         *)
BeginConnectUnmarked(t) == UNCHANGED isConnecting /\ Await(t, "connect", NoConn)

(* Entered while isConnecting is false.                                     *)
BeginConnect(t) == isConnecting' = TRUE /\ Await(t, "connect", NoConn)

Unused == Conns \ (open \cup {connection, channel} \cup {on[t] : t \in Tasks})

(* The connection replaces the one that was there, which stays open.        *)
Connected(t) ==
    /\ pc[t] = "connect" /\ Unused # {}
    /\ LET c == CHOOSE c \in Unused : TRUE IN
       /\ open' = open \cup {c}
       /\ connection' = c
       /\ Await(t, "channel", c)
    /\ UNCHANGED <<channel, isConnecting, reconnectTimeout, consumers, closing,
                   registered, failures>>

ChannelOpened(t) ==
    /\ pc[t] = "channel" /\ Usable(on[t])
    /\ channel' = on[t]
    /\ Await(t, "assert", on[t])
    /\ UNCHANGED <<connection, isConnecting, reconnectTimeout, consumers, broker, failures>>

(* With a consumer in the map it is registered again, each call of          *)
(* _setupConsumer on the channel of its moment, if there is one.            *)
QueueAsserted(t) ==
    /\ pc[t] = "assert" /\ Usable(on[t]) /\ consumers
    /\ Await(t, "prefetch", channel)
    /\ UNCHANGED <<service, broker, failures>>

Reached(c) == c = NoConn \/ Usable(c)

Prefetched(t) ==
    /\ pc[t] \in {"prefetch", "ownPrefetch"} /\ Reached(on[t])
    /\ Await(t, IF pc[t] = "prefetch" THEN "consume" ELSE "ownConsume", channel)
    /\ UNCHANGED <<service, broker, failures>>

AddConsumer(c) ==
    registered' = IF c = NoConn THEN registered ELSE [registered EXCEPT ![c] = @ + 1]

(* The last call of initialize succeeds; what its caller does then, and     *)
(* isConnecting, is in ServiceLifecycle.                                    *)
Completes(t) ==
    \/ /\ pc[t] = "assert" /\ Usable(on[t]) /\ ~consumers
       /\ UNCHANGED registered
    \/ /\ pc[t] = "consume" /\ Reached(on[t])
       /\ AddConsumer(on[t])

(* A call of initialize fails: it cannot connect, or its connection is gone.*)
Fails(t) ==
    \/ pc[t] = "connect" /\ Breaks
    \/ /\ pc[t] \in Initializing \ {"connect"} /\ ~Reached(on[t])
       /\ UNCHANGED failures

(* catch: isConnecting stays true until the timer goes off.                 *)
Catch == reconnectTimeout' = TRUE /\ UNCHANGED <<connection, channel, isConnecting, consumers>>

(* Calls on a connection that is gone are rejected as it goes, and not      *)
(* seconds later when the timer is due.                                     *)
Settled == \A t \in Tasks :
    pc[t] \in Initializing \cup Registering /\ on[t] # NoConn => on[t] \in open

(* Mutant: the timer calls initialize and leaves isConnecting as it is.     *)
TimerLeavesFlag(t) ==
    /\ t \in Timers /\ pc[t] = "idle" /\ reconnectTimeout /\ Settled
    /\ reconnectTimeout' = FALSE
    /\ \/ isConnecting /\ UNCHANGED <<isConnecting, tasks>>
       \/ ~isConnecting /\ BeginConnect(t)
    /\ UNCHANGED <<connection, channel, consumers, broker, failures>>

(* The timer goes off: isConnecting is reset, whoever is connecting.        *)
Timer(t) ==
    /\ t \in Timers /\ pc[t] = "idle" /\ reconnectTimeout /\ Settled
    /\ reconnectTimeout' = FALSE
    /\ BeginConnect(t)
    /\ UNCHANGED <<connection, channel, consumers, broker, failures>>

--------------------------------------------------------------------------------
(* publishMessage and consumeMessages *)

Send(t) ==
    Ends(t, IF channel = NoConn THEN "dropped" ELSE IF Usable(channel) THEN "sent" ELSE "failed")

Publish(t) ==
    /\ t \in Publishers /\ pc[t] = "idle"
    /\ IF Broken /\ ~isConnecting
       THEN BeginConnect(t)
       ELSE Send(t) /\ UNCHANGED isConnecting
    /\ UNCHANGED <<connection, channel, reconnectTimeout, consumers, broker, failures>>

(* Mutant: the consumer is put into the map only once it is registered.     *)
RegisterUnmapped(t) == UNCHANGED consumers /\ Await(t, "ownPrefetch", channel)

(* consumeMessages, once its ensureConnection has returned.                 *)
Register(t) == consumers' = TRUE /\ Await(t, "ownPrefetch", channel)

--------------------------------------------------------------------------------
(* What happens to connections *)

(* Mutant: the close handler leaves alone the fields that name another      *)
(* connection, and schedules nothing for them.                              *)
HandleOwnClose(c) ==
    /\ connection' = IF connection = c THEN NoConn ELSE connection
    /\ channel' = IF channel = c THEN NoConn ELSE channel
    /\ reconnectTimeout' = (reconnectTimeout \/ connection = c)
    /\ UNCHANGED <<isConnecting, consumers>>

(* The 'close' handler: whichever connection it is that closed.             *)
HandleClose(c) ==
    /\ connection' = NoConn /\ channel' = NoConn
    /\ reconnectTimeout' = TRUE
    /\ UNCHANGED <<isConnecting, consumers>>

Gone(c) == open' = open \ {c} /\ registered' = [registered EXCEPT ![c] = 0]

(* The broker or the network ends a connection.  If that is an error, the   *)
(* 'error' handler first closes this.connection, whichever that is.         *)
Lose(c) ==
    /\ c \in open /\ Breaks
    /\ HandleClose(c) /\ Gone(c)
    /\ \/ closing' = closing \ {c}
       \/ closing' = (closing \cup ({connection} \ {NoConn})) \ {c}
    /\ UNCHANGED tasks

--------------------------------------------------------------------------------
(* disconnect *)

BeginCloseConnection(t) ==
    IF connection = NoConn
    THEN Ends(t, "done") /\ UNCHANGED closing
    ELSE /\ closing' = closing \cup {connection}
         /\ Await(t, "closeConnection", connection)

Disconnect(t) ==
    /\ reconnectTimeout' = FALSE /\ consumers' = FALSE
    /\ IF channel = NoConn
       THEN BeginCloseConnection(t)
       ELSE IF Usable(channel)
            THEN closing' = closing \cup {channel} /\ Await(t, "closeChannel", channel)
            ELSE Ends(t, "failed") /\ UNCHANGED closing
    /\ UNCHANGED <<connection, channel, isConnecting, open, registered, failures>>

(* this.channel is reset to null even if it is another one by now.          *)
ChannelClosed(t) ==
    /\ pc[t] = "closeChannel"
    /\ \/ /\ on[t] \in open
          /\ channel' = NoConn
          /\ BeginCloseConnection(t)
          /\ registered' = [registered EXCEPT ![on[t]] = 0]
       \/ /\ on[t] \notin open
          /\ Ends(t, "failed")
          /\ UNCHANGED <<channel, closing, registered>>
    /\ UNCHANGED <<connection, isConnecting, reconnectTimeout, consumers, open, failures>>

(* A connection that was being closed is closed, and its handler runs.      *)
Closed(c) ==
    /\ c \in closing
    /\ \A t \in Tasks : pc[t] = "closeChannel" => on[t] # c
    /\ HandleClose(c) /\ Gone(c)
    /\ closing' = closing \ {c}
    /\ UNCHANGED <<tasks, failures>>

(* disconnect returns; its own reset of this.connection comes right after   *)
(* the handler and changes nothing more.                                    *)
ConnectionClosed(t) ==
    /\ pc[t] = "closeConnection" /\ on[t] \notin open
    /\ Ends(t, "done")
    /\ UNCHANGED <<service, broker, failures>>
================================================================================
