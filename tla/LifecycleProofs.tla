-------------------------- MODULE LifecycleProofs --------------------------
(***************************************************************************)
(* Proofs that a process which has lost its connection never sits there,   *)
(* that a worker has one consumer, and that undisturbed messages arrive,   *)
(* for any number of connections, timers, requests and failures.           *)
(***************************************************************************)
EXTENDS LifecycleProperties, FiniteSetTheorems, TLAPS

Active(t) == pc[t] \in Initializing \cup Registering

(* The fields name open connections or none.                               *)
FieldsOpen ==
    /\ ConnectionTypeOK
    /\ connection \in open \cup {NoConn} /\ channel \in open \cup {NoConn}

(* How far the start has come says which call Main awaits, and the other   *)
(* tasks only make the calls that are theirs.                              *)
Control ==
    /\ role \in {"api", "worker"} /\ stage \in Stages
    /\ isRunning \in BOOLEAN /\ listening \in BOOLEAN
    /\ stage = "off" => pc[Main] = "idle"
    /\ stage = "database" => pc[Main] = "database"
    /\ stage = "initialize" => pc[Main] \in Initializing
    /\ stage = "consume" => role = "worker" /\ Active(Main)
    /\ stage = "listen" => role = "api" /\ pc[Main] = "listen"
    /\ stage = "up" => pc[Main] = "done"
    /\ stage = "failed" => pc[Main] = "failed"
    /\ pc[Stopper] \in Closing \cup {"idle", "done", "failed"}
    /\ \A t \in Timers : pc[t] \in Initializing \cup {"idle"}
    /\ \A t \in Publishers :
         /\ pc[t] \in Initializing \cup {"idle", "sent", "dropped", "failed"}
         /\ pc[t] # "idle" => stage = "up"
    /\ stage = "off" => ~isRunning

Roles ==
    /\ role = "worker" => /\ ~isRunning /\ ~listening /\ pc[Stopper] = "idle"
                          /\ \A t \in Publishers : pc[t] = "idle"
    /\ role = "api" => /\ ~consumers
                       /\ \A c \in Conns : registered[c] = 0
                       /\ \A t \in Tasks : pc[t] \notin {"prefetch", "consume"} \cup Registering

(* While requests cannot come in, one task at a time is at the connection.  *)
Exclusive == role = "worker" \/ stage \in {"off", "database", "initialize"}

OneTask ==
    /\ \A t, u \in Tasks : Active(t) /\ Active(u) => t = u
    /\ open \subseteq {connection}
    /\ reconnectTimeout => open = {}
    /\ \A t \in Tasks : pc[t] = "connect" => open = {} /\ ~reconnectTimeout
    /\ \A t \in Tasks : Active(t) /\ pc[t] # "connect" => on[t] # NoConn /\ open \subseteq {on[t]}
    /\ \A t \in Tasks : pc[t] \in Initializing => isConnecting
    /\ stage \in {"off", "database"} => open = {} /\ ~reconnectTimeout /\ \A t \in Tasks : ~Active(t)

(* ... and what a worker knows besides.                                     *)
OneRegistration ==
    /\ closing = {}
    /\ \A t \in Tasks :
         Active(t) /\ pc[t] \notin {"connect", "channel"} /\ on[t] \in open => channel = on[t]
    /\ \A t \in Tasks : Active(t) => \A c \in Conns : registered[c] = 0
    /\ \A c \in Conns : registered[c] <= 1 /\ (c \notin open => registered[c] = 0)
    /\ pc[Main] \notin {"prefetch", "consume"}
    /\ pc[Main] \in Initializing \cup {"idle", "database"} => ~consumers

(* What makes up for each field that is null or set.                        *)
Recovering ==
    /\ connection = NoConn => reconnectTimeout \/ \E t \in Tasks : pc[t] = "connect"
    /\ channel = NoConn => reconnectTimeout \/ \E t \in Tasks : pc[t] \in {"connect", "channel"}
    /\ isConnecting => reconnectTimeout \/ Reconnecting

(* As long as nothing has broken, an API has its connection from the        *)
(* moment it listens.                                                       *)
Intact ==
    /\ closing = {} /\ ~reconnectTimeout
    /\ \A t \in Timers : pc[t] = "idle"
    /\ \A t \in Publishers : pc[t] \in {"idle", "sent"}
    /\ stage \in {"listen", "up"} => ~Broken /\ ~isConnecting
    /\ stage = "initialize" /\ pc[Main] # "connect" =>
         /\ on[Main] \in open /\ connection = on[Main]
         /\ pc[Main] # "channel" => channel = on[Main]

IInv ==
    /\ FieldsOpen
    /\ Control
    /\ Roles
    /\ Exclusive => OneTask
    /\ role = "worker" => OneRegistration
    /\ stage \notin {"off", "database"} /\ ~Stopped => Recovering
    /\ role = "api" /\ failures = 0 /\ ~Stopped => Intact

--------------------------------------------------------------------------------
USE ConnectionAssumption
    DEF Initializing, Registering, Closing, Stages, Tasks, Active, Await, Ends,
        service, broker, tasks, process

(* The start of the process *)

LEMMA StartStep ==
    ASSUME IInv, Start
    PROVE  IInv'
<1>1. FieldsOpen'
  BY DEF IInv, FieldsOpen, ConnectionTypeOK, Start
<1>2. Control'
  BY DEF IInv, FieldsOpen, ConnectionTypeOK, Control, Roles, Start
<1>3. Roles'
  BY DEF IInv, FieldsOpen, ConnectionTypeOK, Control, Roles, Start
<1>4. (Exclusive => OneTask)'
  BY DEF IInv, FieldsOpen, ConnectionTypeOK, Control, Roles, Exclusive, OneTask,
         Start
<1>5. (role = "worker" => OneRegistration)'
  BY DEF IInv, FieldsOpen, ConnectionTypeOK, Control, Roles, Exclusive, OneTask,
         OneRegistration, Start
<1>6. (stage \notin {"off", "database"} /\ ~Stopped => Recovering)'
  BY DEF IInv, FieldsOpen, ConnectionTypeOK, Control, Recovering, Reconnecting,
         Stopped, Start
<1>7. (role = "api" /\ failures = 0 /\ ~Stopped => Intact)'
  BY DEF IInv, FieldsOpen, ConnectionTypeOK, Control, Roles, Intact, Broken,
         Stopped, Start
<1>8. QED
  BY <1>1, <1>2, <1>3, <1>4, <1>5, <1>6, <1>7 DEF IInv

LEMMA DatabaseReturnsStep ==
    ASSUME IInv, DatabaseReturns
    PROVE  IInv'
<1>1. FieldsOpen'
  BY DEF IInv, FieldsOpen, ConnectionTypeOK, DatabaseReturns, BeginConnect
<1>2. Control'
  BY DEF IInv, FieldsOpen, ConnectionTypeOK, Control, Roles, DatabaseReturns,
         BeginConnect
<1>3. Roles'
  BY DEF IInv, FieldsOpen, ConnectionTypeOK, Control, Roles, DatabaseReturns,
         BeginConnect
<1>4. (Exclusive => OneTask)'
  BY DEF IInv, FieldsOpen, ConnectionTypeOK, Control, Roles, Exclusive, OneTask,
         DatabaseReturns, BeginConnect
<1>5. (role = "worker" => OneRegistration)'
  BY DEF IInv, FieldsOpen, ConnectionTypeOK, Control, Roles, Exclusive, OneTask,
         OneRegistration, DatabaseReturns, BeginConnect
<1>6. (stage \notin {"off", "database"} /\ ~Stopped => Recovering)'
  BY DEF IInv, FieldsOpen, ConnectionTypeOK, Control, Recovering, Reconnecting,
         Stopped, DatabaseReturns, BeginConnect
<1>7. (role = "api" /\ failures = 0 /\ ~Stopped => Intact)'
  BY DEF IInv, FieldsOpen, ConnectionTypeOK, Control, Roles, Intact, Broken,
         Stopped, DatabaseReturns, BeginConnect
<1>8. QED
  BY <1>1, <1>2, <1>3, <1>4, <1>5, <1>6, <1>7 DEF IInv

LEMMA RegisteredStep ==
    ASSUME IInv, Registered
    PROVE  IInv'
<1>1. FieldsOpen'
  BY DEF IInv, FieldsOpen, ConnectionTypeOK, Registered, Reached, AddConsumer
<1>2. Control'
  BY DEF IInv, FieldsOpen, ConnectionTypeOK, Control, Roles, Registered, Reached,
         AddConsumer
<1>3. Roles'
  BY DEF IInv, FieldsOpen, ConnectionTypeOK, Control, Roles, Registered, Reached,
         AddConsumer
<1>4. (Exclusive => OneTask)'
  BY DEF IInv, FieldsOpen, ConnectionTypeOK, Control, Roles, Exclusive, OneTask,
         Registered, Reached, AddConsumer
<1>5. (role = "worker" => OneRegistration)'
  <2> SUFFICES ASSUME role = "worker"
               PROVE  OneRegistration'
      BY DEF Registered
  <2>1. Main \in Tasks /\ Active(Main) /\ on[Main] \in Conns \cup {NoConn}
      BY DEF IInv, FieldsOpen, ConnectionTypeOK, Registered
  <2>2. on[Main] = NoConn \/ on[Main] \in open
      BY DEF Registered, Reached, Usable
  <2>3. \A c \in Conns : registered[c] = 0
      BY <2>1 DEF IInv, OneRegistration
  <2>4. \A c \in Conns : registered'[c] <= 1 /\ (c \notin open => registered'[c] = 0)
      BY <2>1, <2>2, <2>3 DEF IInv, FieldsOpen, ConnectionTypeOK, Registered, AddConsumer
  <2>5. \A t \in Tasks : Active(t)' => Active(t) /\ t # Main
      BY <2>1 DEF IInv, FieldsOpen, ConnectionTypeOK, Registered
  <2>6. \A t \in Tasks : ~Active(t)'
      BY <2>1, <2>5 DEF IInv, Exclusive, OneTask
  <2> QED
      BY <2>1, <2>4, <2>6
      DEF IInv, FieldsOpen, ConnectionTypeOK, OneRegistration, Registered
<1>6. (stage \notin {"off", "database"} /\ ~Stopped => Recovering)'
  BY DEF IInv, FieldsOpen, ConnectionTypeOK, Control, Recovering, Reconnecting,
         Stopped, Registered, Reached, AddConsumer
<1>7. (role = "api" /\ failures = 0 /\ ~Stopped => Intact)'
  BY DEF IInv, FieldsOpen, ConnectionTypeOK, Control, Roles, Intact, Broken,
         Stopped, Registered, Reached, AddConsumer
<1>8. QED
  BY <1>1, <1>2, <1>3, <1>4, <1>5, <1>6, <1>7 DEF IInv

LEMMA RegisteringFailsStep ==
    ASSUME IInv, RegisteringFails
    PROVE  IInv'
<1>1. FieldsOpen'
  BY DEF IInv, FieldsOpen, ConnectionTypeOK, RegisteringFails, MainFails, Reached
<1>2. Control'
  BY DEF IInv, FieldsOpen, ConnectionTypeOK, Control, Roles, RegisteringFails,
         MainFails, Reached
<1>3. Roles'
  BY DEF IInv, FieldsOpen, ConnectionTypeOK, Control, Roles, RegisteringFails,
         MainFails, Reached
<1>4. (Exclusive => OneTask)'
  BY DEF IInv, FieldsOpen, ConnectionTypeOK, Control, Roles, Exclusive, OneTask,
         RegisteringFails, MainFails, Reached
<1>5. (role = "worker" => OneRegistration)'
  BY DEF IInv, FieldsOpen, ConnectionTypeOK, Control, Roles, Exclusive, OneTask,
         OneRegistration, RegisteringFails, MainFails, Reached
<1>6. (stage \notin {"off", "database"} /\ ~Stopped => Recovering)'
  BY DEF IInv, FieldsOpen, ConnectionTypeOK, Control, Recovering, Reconnecting,
         Stopped, RegisteringFails, MainFails, Reached
<1>7. (role = "api" /\ failures = 0 /\ ~Stopped => Intact)'
  BY DEF IInv, FieldsOpen, ConnectionTypeOK, Control, Roles, Intact, Broken,
         Stopped, RegisteringFails, MainFails, Reached
<1>8. QED
  BY <1>1, <1>2, <1>3, <1>4, <1>5, <1>6, <1>7 DEF IInv

LEMMA ListensStep ==
    ASSUME IInv, Listens
    PROVE  IInv'
<1>1. FieldsOpen'
  BY DEF IInv, FieldsOpen, ConnectionTypeOK, Listens, MainFails, Breaks
<1>2. Control'
  BY DEF IInv, FieldsOpen, ConnectionTypeOK, Control, Roles, Listens, MainFails,
         Breaks
<1>3. Roles'
  BY DEF IInv, FieldsOpen, ConnectionTypeOK, Control, Roles, Listens, MainFails,
         Breaks
<1>4. (Exclusive => OneTask)'
  BY DEF IInv, FieldsOpen, ConnectionTypeOK, Control, Roles, Exclusive, OneTask,
         Listens, MainFails, Breaks
<1>5. (role = "worker" => OneRegistration)'
  BY DEF IInv, FieldsOpen, ConnectionTypeOK, Control, Roles, Exclusive, OneTask,
         OneRegistration, Listens, MainFails, Breaks
<1>6. (stage \notin {"off", "database"} /\ ~Stopped => Recovering)'
  BY DEF IInv, FieldsOpen, ConnectionTypeOK, Control, Recovering, Reconnecting,
         Stopped, Listens, MainFails, Breaks
<1>7. (role = "api" /\ failures = 0 /\ ~Stopped => Intact)'
  BY DEF IInv, FieldsOpen, ConnectionTypeOK, Control, Roles, Intact, Broken,
         Stopped, Listens, MainFails, Breaks
<1>8. QED
  BY <1>1, <1>2, <1>3, <1>4, <1>5, <1>6, <1>7 DEF IInv

LEMMA StopStep ==
    ASSUME IInv, Stop
    PROVE  IInv'
<1>1. FieldsOpen'
  <2>1. closing' \in {closing, closing \cup {channel}, closing \cup {connection}}
        /\ closing' \subseteq open
      BY DEF IInv, FieldsOpen, ConnectionTypeOK, Stop, Disconnect, BeginCloseConnection, Usable
  <2>2. \E l \in Closing \cup {"failed", "done"}, c \in Conns \cup {NoConn} :
             pc' = [pc EXCEPT ![Stopper] = l] /\ on' = [on EXCEPT ![Stopper] = c]
      BY DEF IInv, FieldsOpen, ConnectionTypeOK, Stop, Disconnect, BeginCloseConnection
  <2>3. /\ UNCHANGED <<connection, channel, isConnecting, open, registered, failures>>
        /\ reconnectTimeout' = FALSE /\ consumers' = FALSE
      BY DEF Stop, Disconnect
  <2>4. pc' \in [Tasks -> Initializing \cup Registering \cup Closing \cup
                {"idle", "database", "listen", "sent", "dropped", "failed", "done"}]
        /\ on' \in [Tasks -> Conns \cup {NoConn}]
      BY <2>2 DEF IInv, FieldsOpen, ConnectionTypeOK
  <2> QED
      BY <2>1, <2>3, <2>4 DEF IInv, FieldsOpen, ConnectionTypeOK
<1>2. Control'
  <2>1. pc' \in {[pc EXCEPT ![Stopper] = l] : l \in Closing \cup {"failed", "done"}}
      BY DEF Stop, Disconnect, BeginCloseConnection
  <2> QED
      BY <2>1 DEF IInv, FieldsOpen, ConnectionTypeOK, Control, Stop, Disconnect
<1>3. Roles'
  BY DEF IInv, FieldsOpen, ConnectionTypeOK, Control, Roles, Stop, Disconnect,
         BeginCloseConnection, Usable
<1>4. (Exclusive => OneTask)'
  BY DEF IInv, FieldsOpen, ConnectionTypeOK, Control, Roles, Exclusive, OneTask,
         Stop, Disconnect, BeginCloseConnection, Usable
<1>5. (role = "worker" => OneRegistration)'
  BY DEF IInv, FieldsOpen, ConnectionTypeOK, Control, Roles, Exclusive, OneTask,
         OneRegistration, Stop, Disconnect, BeginCloseConnection, Usable
<1>6. (stage \notin {"off", "database"} /\ ~Stopped => Recovering)'
  BY DEF IInv, FieldsOpen, ConnectionTypeOK, Control, Recovering, Reconnecting,
         Stopped, Stop, Disconnect, BeginCloseConnection, Usable
<1>7. (role = "api" /\ failures = 0 /\ ~Stopped => Intact)'
  BY DEF IInv, FieldsOpen, ConnectionTypeOK, Control, Roles, Intact, Broken,
         Stopped, Stop, Disconnect, BeginCloseConnection, Usable
<1>8. QED
  BY <1>1, <1>2, <1>3, <1>4, <1>5, <1>6, <1>7 DEF IInv

--------------------------------------------------------------------------------
(* initialize, and what its callers do with it *)

LEMMA FinishStep ==
    ASSUME IInv, NEW t \in Tasks, Finish(t)
    PROVE  IInv'
<1>1. FieldsOpen'
  <2>1. registered' \in [Conns -> Nat]
      BY DEF IInv, FieldsOpen, ConnectionTypeOK, Finish, Completes, AddConsumer
  <2>2. /\ isConnecting' \in BOOLEAN /\ consumers' \in BOOLEAN
        /\ \E l \in {"idle", "sent", "dropped", "failed", "listen", "connect", "ownPrefetch"},
              c \in Conns \cup {NoConn} :
             pc' = [pc EXCEPT ![t] = l] /\ on' = [on EXCEPT ![t] = c]
      BY DEF IInv, FieldsOpen, ConnectionTypeOK, Finish, MainContinues, BeginConnect, Register, Send
  <2> QED
      BY <2>1, <2>2 DEF IInv, FieldsOpen, ConnectionTypeOK, Finish
<1>2. Control'
  BY DEF IInv, FieldsOpen, ConnectionTypeOK, Control, Roles, Finish, Completes,
         MainContinues, BeginConnect, Register, Send, AddConsumer, Reached, Usable
<1>3. Roles'
  BY DEF IInv, FieldsOpen, ConnectionTypeOK, Control, Roles, Finish, Completes,
         MainContinues, BeginConnect, Register, Send, AddConsumer, Reached, Usable
<1>4. (Exclusive => OneTask)'
  BY DEF IInv, FieldsOpen, ConnectionTypeOK, Control, Roles, Exclusive, OneTask,
         OneRegistration, Broken, Finish, Completes, MainContinues, BeginConnect,
         Register, Send, AddConsumer, Reached, Usable
<1>5. (role = "worker" => OneRegistration)'
  BY DEF IInv, FieldsOpen, ConnectionTypeOK, Control, Roles, Exclusive, OneTask,
         OneRegistration, Finish, Completes, MainContinues, BeginConnect, Register,
         Send, AddConsumer, Reached, Usable
<1>6. (stage \notin {"off", "database"} /\ ~Stopped => Recovering)'
  BY DEF IInv, FieldsOpen, ConnectionTypeOK, Control, Recovering, Reconnecting,
         Stopped, Finish, Completes, MainContinues, BeginConnect, Register, Send,
         AddConsumer, Reached, Usable
<1>7. (role = "api" /\ failures = 0 /\ ~Stopped => Intact)'
  BY DEF IInv, FieldsOpen, ConnectionTypeOK, Control, Roles, Intact, Broken,
         Stopped, Finish, Completes, MainContinues, BeginConnect, Register, Send,
         AddConsumer, Reached, Usable
<1>8. QED
  BY <1>1, <1>2, <1>3, <1>4, <1>5, <1>6, <1>7 DEF IInv

LEMMA ThrowStep ==
    ASSUME IInv, NEW t \in Tasks, Throw(t)
    PROVE  IInv'
<1>1. FieldsOpen'
  BY DEF IInv, FieldsOpen, ConnectionTypeOK, Throw, Fails, Catch, MainFails, Breaks,
         Reached, Usable
<1>2. Control'
  BY DEF IInv, FieldsOpen, ConnectionTypeOK, Control, Roles, Throw, Fails, Catch,
         MainFails, Breaks, Reached, Usable
<1>3. Roles'
  BY DEF IInv, FieldsOpen, ConnectionTypeOK, Control, Roles, Throw, Fails, Catch,
         MainFails, Breaks, Reached, Usable
<1>4. (Exclusive => OneTask)'
  BY DEF IInv, FieldsOpen, ConnectionTypeOK, Control, Roles, Exclusive, OneTask,
         OneRegistration, Throw, Fails, Catch, MainFails, Breaks, Reached, Usable
<1>5. (role = "worker" => OneRegistration)'
  BY DEF IInv, FieldsOpen, ConnectionTypeOK, Control, Roles, Exclusive, OneTask,
         OneRegistration, Throw, Fails, Catch, MainFails, Breaks, Reached, Usable
<1>6. (stage \notin {"off", "database"} /\ ~Stopped => Recovering)'
  BY DEF IInv, FieldsOpen, ConnectionTypeOK, Control, Recovering, Reconnecting,
         Stopped, Throw, Fails, Catch, MainFails, Breaks, Reached, Usable
<1>7. (role = "api" /\ failures = 0 /\ ~Stopped => Intact)'
  BY DEF IInv, FieldsOpen, ConnectionTypeOK, Control, Roles, Intact, Broken,
         Stopped, Throw, Fails, Catch, MainFails, Breaks, Reached, Usable
<1>8. QED
  BY <1>1, <1>2, <1>3, <1>4, <1>5, <1>6, <1>7 DEF IInv

LEMMA ConnectedStep ==
    ASSUME IInv, NEW t \in Tasks, Connected(t) /\ UNCHANGED process
    PROVE  IInv'
<1>1. FieldsOpen'
  BY DEF IInv, FieldsOpen, ConnectionTypeOK, Connected, Unused
<1>2. Control'
  BY DEF IInv, FieldsOpen, ConnectionTypeOK, Control, Roles, Connected, Unused
<1>3. Roles'
  BY DEF IInv, FieldsOpen, ConnectionTypeOK, Control, Roles, Connected, Unused
<1>4. (Exclusive => OneTask)'
  BY DEF IInv, FieldsOpen, ConnectionTypeOK, Control, Roles, Exclusive, OneTask,
         Connected, Unused
<1>5. (role = "worker" => OneRegistration)'
  BY DEF IInv, FieldsOpen, ConnectionTypeOK, Control, Roles, Exclusive, OneTask,
         OneRegistration, Connected, Unused
<1>6. (stage \notin {"off", "database"} /\ ~Stopped => Recovering)'
  BY DEF IInv, FieldsOpen, ConnectionTypeOK, Control, Recovering, Reconnecting,
         Stopped, Connected, Unused
<1>7. (role = "api" /\ failures = 0 /\ ~Stopped => Intact)'
  BY DEF IInv, FieldsOpen, ConnectionTypeOK, Control, Roles, Intact, Broken,
         Stopped, Connected, Unused
<1>8. QED
  BY <1>1, <1>2, <1>3, <1>4, <1>5, <1>6, <1>7 DEF IInv

LEMMA ChannelOpenedStep ==
    ASSUME IInv, NEW t \in Tasks, ChannelOpened(t) /\ UNCHANGED process
    PROVE  IInv'
<1>1. FieldsOpen'
  BY DEF IInv, FieldsOpen, ConnectionTypeOK, ChannelOpened, Usable
<1>2. Control'
  BY DEF IInv, FieldsOpen, ConnectionTypeOK, Control, Roles, ChannelOpened, Usable
<1>3. Roles'
  BY DEF IInv, FieldsOpen, ConnectionTypeOK, Control, Roles, ChannelOpened, Usable
<1>4. (Exclusive => OneTask)'
  BY DEF IInv, FieldsOpen, ConnectionTypeOK, Control, Roles, Exclusive, OneTask,
         ChannelOpened, Usable
<1>5. (role = "worker" => OneRegistration)'
  BY DEF IInv, FieldsOpen, ConnectionTypeOK, Control, Roles, Exclusive, OneTask,
         OneRegistration, ChannelOpened, Usable
<1>6. (stage \notin {"off", "database"} /\ ~Stopped => Recovering)'
  BY DEF IInv, FieldsOpen, ConnectionTypeOK, Control, Recovering, Reconnecting,
         Stopped, ChannelOpened, Usable
<1>7. (role = "api" /\ failures = 0 /\ ~Stopped => Intact)'
  BY DEF IInv, FieldsOpen, ConnectionTypeOK, Control, Roles, Intact, Broken,
         Stopped, ChannelOpened, Usable
<1>8. QED
  BY <1>1, <1>2, <1>3, <1>4, <1>5, <1>6, <1>7 DEF IInv

LEMMA QueueAssertedStep ==
    ASSUME IInv, NEW t \in Tasks, QueueAsserted(t) /\ UNCHANGED process
    PROVE  IInv'
<1>1. FieldsOpen'
  BY DEF IInv, FieldsOpen, ConnectionTypeOK, QueueAsserted, Usable
<1>2. Control'
  BY DEF IInv, FieldsOpen, ConnectionTypeOK, Control, Roles, QueueAsserted, Usable
<1>3. Roles'
  BY DEF IInv, FieldsOpen, ConnectionTypeOK, Control, Roles, QueueAsserted, Usable
<1>4. (Exclusive => OneTask)'
  BY DEF IInv, FieldsOpen, ConnectionTypeOK, Control, Roles, Exclusive, OneTask,
         OneRegistration, QueueAsserted, Usable
<1>5. (role = "worker" => OneRegistration)'
  BY DEF IInv, FieldsOpen, ConnectionTypeOK, Control, Roles, Exclusive, OneTask,
         OneRegistration, QueueAsserted, Usable
<1>6. (stage \notin {"off", "database"} /\ ~Stopped => Recovering)'
  BY DEF IInv, FieldsOpen, ConnectionTypeOK, Control, Recovering, Reconnecting,
         Stopped, QueueAsserted, Usable
<1>7. (role = "api" /\ failures = 0 /\ ~Stopped => Intact)'
  BY DEF IInv, FieldsOpen, ConnectionTypeOK, Control, Roles, Intact, Broken,
         Stopped, QueueAsserted, Usable
<1>8. QED
  BY <1>1, <1>2, <1>3, <1>4, <1>5, <1>6, <1>7 DEF IInv

LEMMA PrefetchedStep ==
    ASSUME IInv, NEW t \in Tasks, Prefetched(t) /\ UNCHANGED process
    PROVE  IInv'
<1>1. FieldsOpen'
  BY DEF IInv, FieldsOpen, ConnectionTypeOK, Prefetched, Reached, Usable
<1>2. Control'
  BY DEF IInv, FieldsOpen, ConnectionTypeOK, Control, Roles, Prefetched, Reached,
         Usable
<1>3. Roles'
  BY DEF IInv, FieldsOpen, ConnectionTypeOK, Control, Roles, Prefetched, Reached,
         Usable
<1>4. (Exclusive => OneTask)'
  BY DEF IInv, FieldsOpen, ConnectionTypeOK, Control, Roles, Exclusive, OneTask,
         OneRegistration, Prefetched, Reached, Usable
<1>5. (role = "worker" => OneRegistration)'
  BY DEF IInv, FieldsOpen, ConnectionTypeOK, Control, Roles, Exclusive, OneTask,
         OneRegistration, Prefetched, Reached, Usable
<1>6. (stage \notin {"off", "database"} /\ ~Stopped => Recovering)'
  BY DEF IInv, FieldsOpen, ConnectionTypeOK, Control, Recovering, Reconnecting,
         Stopped, Prefetched, Reached, Usable
<1>7. (role = "api" /\ failures = 0 /\ ~Stopped => Intact)'
  BY DEF IInv, FieldsOpen, ConnectionTypeOK, Control, Roles, Intact, Broken,
         Stopped, Prefetched, Reached, Usable
<1>8. QED
  BY <1>1, <1>2, <1>3, <1>4, <1>5, <1>6, <1>7 DEF IInv

--------------------------------------------------------------------------------
(* disconnect, timers, requests and lost connections *)

LEMMA ChannelClosedStep ==
    ASSUME IInv, NEW t \in Tasks, ChannelClosed(t) /\ UNCHANGED process
    PROVE  IInv'
<1>1. FieldsOpen'
  BY DEF IInv, FieldsOpen, ConnectionTypeOK, ChannelClosed, BeginCloseConnection
<1>2. Control'
  BY DEF IInv, FieldsOpen, ConnectionTypeOK, Control, Roles, ChannelClosed,
         BeginCloseConnection
<1>3. Roles'
  BY DEF IInv, FieldsOpen, ConnectionTypeOK, Control, Roles, ChannelClosed,
         BeginCloseConnection
<1>4. (Exclusive => OneTask)'
  BY DEF IInv, FieldsOpen, ConnectionTypeOK, Control, Roles, Exclusive, OneTask,
         ChannelClosed, BeginCloseConnection
<1>5. (role = "worker" => OneRegistration)'
  BY DEF IInv, FieldsOpen, ConnectionTypeOK, Control, Roles, Exclusive, OneTask,
         OneRegistration, ChannelClosed, BeginCloseConnection
<1>6. (stage \notin {"off", "database"} /\ ~Stopped => Recovering)'
  BY DEF IInv, FieldsOpen, ConnectionTypeOK, Control, Recovering, Reconnecting,
         Stopped, ChannelClosed, BeginCloseConnection
<1>7. (role = "api" /\ failures = 0 /\ ~Stopped => Intact)'
  BY DEF IInv, FieldsOpen, ConnectionTypeOK, Control, Roles, Intact, Broken,
         Stopped, ChannelClosed, BeginCloseConnection
<1>8. QED
  BY <1>1, <1>2, <1>3, <1>4, <1>5, <1>6, <1>7 DEF IInv

LEMMA ConnectionClosedStep ==
    ASSUME IInv, NEW t \in Tasks, ConnectionClosed(t) /\ UNCHANGED process
    PROVE  IInv'
<1>1. FieldsOpen'
  BY DEF IInv, FieldsOpen, ConnectionTypeOK, ConnectionClosed
<1>2. Control'
  BY DEF IInv, FieldsOpen, ConnectionTypeOK, Control, Roles, ConnectionClosed
<1>3. Roles'
  BY DEF IInv, FieldsOpen, ConnectionTypeOK, Control, Roles, ConnectionClosed
<1>4. (Exclusive => OneTask)'
  BY DEF IInv, FieldsOpen, ConnectionTypeOK, Control, Roles, Exclusive, OneTask,
         ConnectionClosed
<1>5. (role = "worker" => OneRegistration)'
  BY DEF IInv, FieldsOpen, ConnectionTypeOK, Control, Roles, Exclusive, OneTask,
         OneRegistration, ConnectionClosed
<1>6. (stage \notin {"off", "database"} /\ ~Stopped => Recovering)'
  BY DEF IInv, FieldsOpen, ConnectionTypeOK, Control, Recovering, Reconnecting,
         Stopped, ConnectionClosed
<1>7. (role = "api" /\ failures = 0 /\ ~Stopped => Intact)'
  BY DEF IInv, FieldsOpen, ConnectionTypeOK, Control, Roles, Intact, Broken,
         Stopped, ConnectionClosed
<1>8. QED
  BY <1>1, <1>2, <1>3, <1>4, <1>5, <1>6, <1>7 DEF IInv

LEMMA TimerStep ==
    ASSUME IInv, NEW t \in Tasks, Timer(t) /\ UNCHANGED process
    PROVE  IInv'
<1>1. FieldsOpen'
  BY DEF IInv, FieldsOpen, ConnectionTypeOK, Timer, Settled, BeginConnect
<1>2. Control'
  BY DEF IInv, FieldsOpen, ConnectionTypeOK, Control, Roles, Timer, Settled,
         BeginConnect
<1>3. Roles'
  BY DEF IInv, FieldsOpen, ConnectionTypeOK, Control, Roles, Timer, Settled,
         BeginConnect
<1>4. (Exclusive => OneTask)'
  BY DEF IInv, FieldsOpen, ConnectionTypeOK, Control, Roles, Exclusive, OneTask,
         Timer, Settled, BeginConnect
<1>5. (role = "worker" => OneRegistration)'
  BY DEF IInv, FieldsOpen, ConnectionTypeOK, Control, Roles, Exclusive, OneTask,
         OneRegistration, Timer, Settled, BeginConnect
<1>6. (stage \notin {"off", "database"} /\ ~Stopped => Recovering)'
  BY DEF IInv, FieldsOpen, ConnectionTypeOK, Control, Recovering, Reconnecting,
         Stopped, Timer, Settled, BeginConnect
<1>7. (role = "api" /\ failures = 0 /\ ~Stopped => Intact)'
  BY DEF IInv, FieldsOpen, ConnectionTypeOK, Control, Roles, Intact, Broken,
         Stopped, Timer, Settled, BeginConnect
<1>8. QED
  BY <1>1, <1>2, <1>3, <1>4, <1>5, <1>6, <1>7 DEF IInv

LEMMA RequestStep ==
    ASSUME IInv, NEW t \in Tasks, Request(t)
    PROVE  IInv'
<1>1. FieldsOpen'
  BY DEF IInv, FieldsOpen, ConnectionTypeOK, Request, Publish, BeginConnect, Send,
         Usable
<1>2. Control'
  BY DEF IInv, FieldsOpen, ConnectionTypeOK, Control, Roles, Request, Publish,
         BeginConnect, Send, Usable
<1>3. Roles'
  BY DEF IInv, FieldsOpen, ConnectionTypeOK, Control, Roles, Request, Publish,
         BeginConnect, Send, Usable
<1>4. (Exclusive => OneTask)'
  BY DEF IInv, FieldsOpen, ConnectionTypeOK, Control, Roles, Exclusive, OneTask,
         Request, Publish, BeginConnect, Send, Usable
<1>5. (role = "worker" => OneRegistration)'
  BY DEF IInv, FieldsOpen, ConnectionTypeOK, Control, Roles, Exclusive, OneTask,
         OneRegistration, Request, Publish, BeginConnect, Send, Usable
<1>6. (stage \notin {"off", "database"} /\ ~Stopped => Recovering)'
  BY DEF IInv, FieldsOpen, ConnectionTypeOK, Control, Recovering, Reconnecting,
         Stopped, Request, Publish, BeginConnect, Send, Usable
<1>7. (role = "api" /\ failures = 0 /\ ~Stopped => Intact)'
  BY DEF IInv, FieldsOpen, ConnectionTypeOK, Control, Roles, Intact, Broken,
         Stopped, Request, Publish, BeginConnect, Send, Usable
<1>8. QED
  BY <1>1, <1>2, <1>3, <1>4, <1>5, <1>6, <1>7 DEF IInv

LEMMA LoseStep ==
    ASSUME IInv, NEW c \in Conns, Lose(c) /\ UNCHANGED process
    PROVE  IInv'
<1>1. FieldsOpen'
  BY DEF IInv, FieldsOpen, ConnectionTypeOK, Lose, Breaks, HandleClose, Gone
<1>2. Control'
  BY DEF IInv, FieldsOpen, ConnectionTypeOK, Control, Roles, Lose, Breaks,
         HandleClose, Gone
<1>3. Roles'
  BY DEF IInv, FieldsOpen, ConnectionTypeOK, Control, Roles, Lose, Breaks,
         HandleClose, Gone
<1>4. (Exclusive => OneTask)'
  BY DEF IInv, FieldsOpen, ConnectionTypeOK, Control, Roles, Exclusive, OneTask,
         Lose, Breaks, HandleClose, Gone
<1>5. (role = "worker" => OneRegistration)'
  BY DEF IInv, FieldsOpen, ConnectionTypeOK, Control, Roles, Exclusive, OneTask,
         OneRegistration, Lose, Breaks, HandleClose, Gone
<1>6. (stage \notin {"off", "database"} /\ ~Stopped => Recovering)'
  BY DEF IInv, FieldsOpen, ConnectionTypeOK, Control, Recovering, Reconnecting,
         Stopped, Lose, Breaks, HandleClose, Gone
<1>7. (role = "api" /\ failures = 0 /\ ~Stopped => Intact)'
  BY DEF IInv, FieldsOpen, ConnectionTypeOK, Control, Roles, Intact, Broken,
         Stopped, Lose, Breaks, HandleClose, Gone
<1>8. QED
  BY <1>1, <1>2, <1>3, <1>4, <1>5, <1>6, <1>7 DEF IInv

LEMMA ClosedStep ==
    ASSUME IInv, NEW c \in Conns, Closed(c) /\ UNCHANGED process
    PROVE  IInv'
<1>1. FieldsOpen'
  BY DEF IInv, FieldsOpen, ConnectionTypeOK, Closed, HandleClose, Gone
<1>2. Control'
  BY DEF IInv, FieldsOpen, ConnectionTypeOK, Control, Roles, Closed, HandleClose,
         Gone
<1>3. Roles'
  BY DEF IInv, FieldsOpen, ConnectionTypeOK, Control, Roles, Closed, HandleClose,
         Gone
<1>4. (Exclusive => OneTask)'
  BY DEF IInv, FieldsOpen, ConnectionTypeOK, Control, Roles, Exclusive, OneTask,
         Closed, HandleClose, Gone
<1>5. (role = "worker" => OneRegistration)'
  BY DEF IInv, FieldsOpen, ConnectionTypeOK, Control, Roles, Exclusive, OneTask,
         OneRegistration, Closed, HandleClose, Gone
<1>6. (stage \notin {"off", "database"} /\ ~Stopped => Recovering)'
  BY DEF IInv, FieldsOpen, ConnectionTypeOK, Control, Recovering, Reconnecting,
         Stopped, Closed, HandleClose, Gone
<1>7. (role = "api" /\ failures = 0 /\ ~Stopped => Intact)'
  BY DEF IInv, FieldsOpen, ConnectionTypeOK, Control, Roles, Intact, Broken,
         Stopped, Closed, HandleClose, Gone
<1>8. QED
  BY <1>1, <1>2, <1>3, <1>4, <1>5, <1>6, <1>7 DEF IInv

LEMMA InitIInv == Init => IInv
<1> SUFFICES ASSUME Init
             PROVE  IInv
  OBVIOUS
<1>1. FieldsOpen
  <2>1. failures \in 0 .. MaxFailures /\ registered \in [Conns -> Nat]
    BY DEF Init, ConnectionInit
  <2> QED
    BY <2>1 DEF Init, ConnectionInit, FieldsOpen, ConnectionTypeOK
<1>2. Control
  BY DEF Init, ConnectionInit, Control
<1>3. Roles
  BY DEF Init, ConnectionInit, Roles
<1>4. OneTask /\ OneRegistration
  BY DEF Init, ConnectionInit, OneTask, OneRegistration
<1>5. Intact
  BY DEF Init, ConnectionInit, Intact
<1> QED
  BY <1>1, <1>2, <1>3, <1>4, <1>5 DEF Init, IInv

LEMMA StutterStep ==
    ASSUME IInv, UNCHANGED vars
    PROVE  IInv'
  BY DEF vars, IInv, FieldsOpen, ConnectionTypeOK, Control, Roles, Exclusive, OneTask,
         OneRegistration, Recovering, Reconnecting, Intact, Broken, Stopped

LEMMA NextIInv == IInv /\ [Next]_vars => IInv'
<1> SUFFICES ASSUME IInv, [Next]_vars
             PROVE  IInv'
  OBVIOUS
<1>1. CASE Start \/ DatabaseReturns \/ Registered \/ RegisteringFails \/ Listens \/ Stop
  BY <1>1, StartStep, DatabaseReturnsStep, RegisteredStep, RegisteringFailsStep,
     ListensStep, StopStep
<1>2. ASSUME NEW t \in Tasks, Finish(t) \/ Throw(t) \/ Request(t)
      PROVE  IInv'
  BY <1>2, FinishStep, ThrowStep, RequestStep
<1>3. ASSUME NEW t \in Tasks, (Connection(t) \/ Timer(t)) /\ UNCHANGED process
      PROVE  IInv'
  BY <1>3, ConnectedStep, ChannelOpenedStep, QueueAssertedStep, PrefetchedStep,
     ChannelClosedStep, ConnectionClosedStep, TimerStep DEF Connection
<1>4. ASSUME NEW c \in Conns, (Lose(c) \/ Closed(c)) /\ UNCHANGED process
      PROVE  IInv'
  BY <1>4, LoseStep, ClosedStep
<1>5. CASE UNCHANGED vars
  BY <1>5, StutterStep
<1> QED
  BY <1>1, <1>2, <1>3, <1>4, <1>5 DEF Next

(* The invariant holds in every behaviour, fair or not.                     *)
THEOREM LifecycleInvariance == Spec => []IInv
  BY InitIInv, NextIInv, PTL DEF Spec

--------------------------------------------------------------------------------
(* Every state has its type: the start of the process waits only where      *)
(* API.start and the worker wait, and while its initialize is under way     *)
(* nothing else has reset isConnecting.                                     *)
THEOREM LifecycleTypeCorrect == Spec => []TypeOK
<1>1. IInv => TypeOK
  BY DEF IInv, FieldsOpen, ConnectionTypeOK, Control, Roles, Exclusive, OneTask, TypeOK
<1> QED
  BY <1>1, LifecycleInvariance, PTL

(* A service without its connection is connecting, or has a timer that      *)
(* will, however the close handlers, timers and requests overlap.           *)
THEOREM ServiceIsNeverStuck == Spec => []NeverStuck
<1>1. IInv => NeverStuck
  BY DEF IInv, FieldsOpen, ConnectionTypeOK, Recovering, Reconnecting, NeverStuck, Broken
<1> QED
  BY <1>1, LifecycleInvariance, PTL

(* A worker has one connection and one consumer on it, however often it     *)
(* loses them: the close handler and the timer never bring a second one.    *)
THEOREM WorkerHasOneConsumer == Spec => []OneConsumer
<1>1. IInv => OneConsumer
  <2> SUFFICES ASSUME IInv, role = "worker"
               PROVE  Cardinality(open) <= 1 /\ \A c \in Conns : registered[c] <= 1
    BY DEF OneConsumer
  <2>1. open = {} \/ open = {connection}
    BY DEF IInv, Exclusive, OneTask
  <2>2. Cardinality(open) <= 1
    <3>1. Cardinality({}) = 0 /\ Cardinality({connection}) = 1
      BY FS_EmptySet, FS_Singleton
    <3> QED
      BY <2>1, <3>1
  <2> QED
    BY <2>2 DEF IInv, OneRegistration
<1> QED
  BY <1>1, LifecycleInvariance, PTL

(* Until something breaks, every message of a request reaches the broker:   *)
(* API.start listens only when initialize has returned.                     *)
THEOREM UndisturbedMessagesArrive == Spec => []Undisturbed
<1>1. IInv => Undisturbed
  BY DEF IInv, Control, Roles, Intact, Undisturbed
<1> QED
  BY <1>1, LifecycleInvariance, PTL
================================================================================
