----------------------------- MODULE TcpClient -----------------------------
(***************************************************************************)
(* muduo/net/TcpClient.cpp with its Connector: user code connects, stops   *)
(* and disconnects a client on its loop or from another thread and         *)
(* destroys it on its loop; the server accepts, refuses and closes.  A     *)
(* TcpConnection (module TcpConnection) is here the socket it owns, which  *)
(* is closed when connectDestroyed() has run.                              *)
(*                                                                         *)
(* What user code does on the loop thread is one step; a call on another   *)
(* thread is one step per access to what the loop also uses.               *)
(***************************************************************************)
EXTENDS Connector

CONSTANTS MaxCalls,  \* calls user code makes
          Careless   \* whether user code connects or destroys at any moment

ASSUME ClientAssumption == MaxCalls \in Nat /\ Careless \in BOOLEAN

VARIABLES
    alive,       \* the TcpClient exists
    retry_,      \* enableRetry() was called
    clientConnect, \* TcpClient::connect_
    connection,  \* the descriptor of connection_, 0 when it is NULL
    up,          \* descriptors of TcpConnections that are not closed
    callback,    \* close callback of the connection: "client" or "detached"
    keepAlive,   \* the timer of ~TcpClient() that holds connector_
    upc,         \* how far the call on the other thread got
    calls,       \* calls made so far
    \* history
    stopped,     \* stop() has returned and no other call has begun since
    raced,       \* where the loop was when stop() wrote Connector::connect_
    stalled      \* in this round a timer has overtaken functors queued before it

clientVars == <<alive, retry_, clientConnect, connection, up, callback, keepAlive>>
userVars == <<upc, calls, stopped, raced>>
vars == <<connectorVars, loopVars, failed, clientVars, userVars, stalled>>

Init ==
    /\ ConnectorInit
    /\ alive = TRUE /\ retry_ \in BOOLEAN /\ clientConnect = TRUE
    /\ connection = 0 /\ up = {} /\ callback = "client" /\ keepAlive = FALSE
    /\ upc = "idle" /\ calls = 0 /\ stopped = FALSE /\ raced = "none"
    /\ stalled = FALSE

(* Somebody holds connector_.                                                *)
Held == alive \/ keepAlive \/ timers > 0 \/ within \in {"start", "connect"}

-----------------------------------------------------------------------------
(* The loop.                                                                 *)

Free == within = "none"

Swap ==
    /\ phase = "events" /\ Free /\ queue # <<>>
    /\ batch' = queue /\ queue' = <<>> /\ phase' = "functors"
    /\ UNCHANGED <<connectorVars, within, failed, clientVars, userVars, stalled>>

BatchDone ==
    /\ phase = "functors" /\ Free /\ batch = <<>>
    /\ phase' = "events" /\ stalled' = FALSE
    /\ UNCHANGED <<connectorVars, queue, batch, within, failed, clientVars, userVars>>

(* startInLoop() after restart() or from a retry timer.                      *)
Starts ==
    /\ within = "start"
    /\ startInLoop
    /\ UNCHANGED <<batch, phase, clientVars, userVars, stalled>>

(* The call of connect() in startInLoop(), after the test of connect_.       *)
Connects ==
    /\ within = "connect"
    /\ within' = "none"
    /\ connect
    /\ UNCHANGED <<batch, phase, clientVars, userVars, stalled>>

(* The call of restart() in removeConnection(), after the test of connect_.  *)
Restarts ==
    /\ within = "restart"
    /\ within' = "start"
    /\ restart
    /\ UNCHANGED <<batch, phase, clientVars, userVars, stalled>>

(* A retry timer expires half a second or more after retry() has set it.     *)
(* The functor that retry()'s caller queued has run by then, unless handlers *)
(* of the same round took that long.                                         *)
TimerExpires ==
    /\ phase = "events" /\ Free
    /\ within' = "start"
    /\ RetryTimerExpires
    /\ stalled' = (stalled \/ Waiting("resetChannel"))
    /\ UNCHANGED <<batch, phase, clientVars, userVars>>

(* The channel reports an error and room together ...                        *)
ChannelError ==
    /\ phase = "events" /\ Free /\ watched
    /\ within' = "write"
    /\ handleError
    /\ UNCHANGED <<batch, phase, clientVars, userVars, stalled>>

(* ... or room alone.                                                        *)
ChannelWritable(found) ==
    /\ \/ phase = "events" /\ Free /\ watched
       \/ within = "write" /\ found = "error"
    /\ handleWrite(found)
    /\ UNCHANGED <<batch, phase, clientVars, userVars, stalled>>

(* TcpClient::newConnection(), which handleWrite() calls when it has found   *)
(* connect_ set.                                                             *)
newConnection ==
    /\ within = "given"
    /\ within' = "none"
    /\ connection' = channel /\ up' = up \cup {channel} /\ callback' = "client"
    /\ UNCHANGED <<connectorVars, queue, batch, phase, failed, alive, retry_, clientConnect,
                   keepAlive, userVars, stalled>>

(* handleClose() of a connection: its close callback is                      *)
(* TcpClient::removeConnection() or detail::removeConnection().              *)
removeConnection(fd) ==
    /\ up' = up \ {fd}
    /\ IF callback = "client"
       THEN /\ failed' = IF connection = fd THEN {} ELSE {"removeConnection"}
            /\ connection' = 0
            /\ within' = IF retry_ /\ clientConnect THEN "restart" ELSE "none"
       ELSE UNCHANGED <<failed, connection, within>>
    /\ queue' = Append(queue, <<"connectDestroyed", fd>>)
    /\ UNCHANGED <<connectorVars, alive, retry_, clientConnect, callback, keepAlive, userVars>>

(* The peer closes the connection, or it fails.  The poller reports it       *)
(* from the round after the one that made it, whose functors have run.       *)
ConnectionCloses ==
    /\ phase = "events" /\ Free /\ ~Waiting("resetChannel")
    /\ \E fd \in up : removeConnection(fd)
    /\ UNCHANGED <<batch, phase, stalled>>

(* The functors of the connector are bound to a raw pointer.                 *)
RawFunctors == {"startInLoop", "stopInLoop", "resetChannel"}
FunctorBody(name, fd) ==
    \/ /\ name \in RawFunctors /\ ~Held
       /\ Fails("dead") /\ UNCHANGED <<within, clientVars, userVars>>
    \/ /\ Held
       /\ \/ name = "startInLoop" /\ startInLoop
          \/ name = "stopInLoop" /\ stopInLoop /\ UNCHANGED within
          \/ name = "resetChannel" /\ resetChannel /\ UNCHANGED within
       /\ UNCHANGED <<clientVars, userVars>>
    \/ /\ name = "forceClose"
       /\ IF fd \in up
          THEN removeConnection(fd)
          ELSE UNCHANGED <<connectorVars, queue, within, failed, clientVars, userVars>>
    \/ /\ name = "connectDestroyed"
       /\ open' = open \ {fd}
       /\ UNCHANGED <<connect_, state, channel, watched, retryDelayMs, timers, gaveUp, queue,
                      within, failed, clientVars, userVars>>

RunFunctor ==
    /\ phase = "functors" /\ Free /\ batch # <<>>
    /\ batch' = Tail(batch)
    /\ FunctorBody(Head(batch)[1], Head(batch)[2])
    /\ UNCHANGED <<phase, stalled>>

(* One second after ~TcpClient().  The loop has run the functors that stop() *)
(* queued by then, unless handlers of one round took that long.              *)
KeepAliveExpires ==
    /\ phase = "events" /\ Free /\ keepAlive
    /\ keepAlive' = FALSE
    /\ stalled' = (stalled \/ \E name \in RawFunctors : Waiting(name))
    /\ UNCHANGED <<connectorVars, loopVars, failed, alive, retry_, clientConnect, connection,
                   up, callback, userVars>>

-----------------------------------------------------------------------------
(* User code.                                                                *)

(* The moments at which connect() finds the connector as it was made: no     *)
(* attempt, retry timer or functor of an earlier one is left.                *)
Settled ==
    /\ state = "kDisconnected" /\ channel = 0 /\ timers = 0 /\ within = "none"
    /\ ~Waiting("startInLoop") /\ ~Waiting("stopInLoop") /\ upc = "idle"

MayCall == alive /\ calls < MaxCalls

(* connect() and stop() on the loop.                                         *)
LoopConnects ==
    /\ MayCall /\ Free /\ (Careless \/ Settled)
    /\ connect_' = TRUE /\ clientConnect' = TRUE
    /\ within' = "start"
    /\ calls' = calls + 1 /\ stopped' = FALSE
    /\ UNCHANGED <<state, channel, watched, retryDelayMs, timers, open, gaveUp, queue, batch,
                   phase, failed, alive, retry_, connection, up, callback, keepAlive, upc, raced,
                   stalled>>

(* Mutation: leaves connect_ as it is.                                       *)
StopKeepsConnecting == UNCHANGED connect_
(* Connector::stop() forbids further attempts before it queues stopInLoop(). *)
StopForbids == connect_' = FALSE

LoopStops ==
    /\ MayCall /\ Free
    /\ clientConnect' = FALSE /\ StopForbids
    /\ queue' = Append(queue, Functor("stopInLoop"))
    /\ calls' = calls + 1 /\ stopped' = TRUE /\ raced' = within
    /\ UNCHANGED <<state, channel, watched, retryDelayMs, timers, open, gaveUp, batch, phase,
                   within, failed, alive, retry_, connection, up, callback, keepAlive, upc,
                   stalled>>

(* disconnect(), on any thread: the half close is the connection's affair.   *)
Disconnects ==
    /\ MayCall /\ upc = "idle"
    /\ clientConnect' = FALSE
    /\ calls' = calls + 1
    /\ UNCHANGED <<connectorVars, loopVars, failed, alive, retry_, connection, up, callback,
                   keepAlive, upc, stopped, raced, stalled>>

(* ~TcpClient(), on the loop.  unique: nobody else has the connection.       *)
Destructs(unique) ==
    /\ alive /\ Free /\ upc = "idle" /\ calls > 0
    /\ Careless \/ connection = 0 \/ \A name \in RawFunctors : ~Waiting(name)
    /\ alive' = FALSE
    /\ IF connection # 0
       THEN /\ callback' = "detached" /\ connection' = 0
            /\ queue' = IF unique THEN Append(queue, <<"forceClose", connection>>) ELSE queue
            /\ UNCHANGED <<connect_, keepAlive>>
       ELSE /\ StopForbids
            /\ queue' = Append(queue, Functor("stopInLoop"))
            /\ keepAlive' = TRUE
            /\ UNCHANGED <<callback, connection>>
    /\ UNCHANGED <<state, channel, watched, retryDelayMs, timers, open, gaveUp, batch, phase,
                   within, failed, retry_, clientConnect, up, userVars, stalled>>

(* The same calls on another thread.                                         *)
CallBegins(op) ==
    /\ MayCall /\ upc = "idle" /\ op \in {"connect", "stop"}
    /\ op = "connect" => Careless \/ Settled
    /\ clientConnect' = (op = "connect")
    /\ upc' = op /\ calls' = calls + 1
    /\ stopped' = FALSE
    /\ UNCHANGED <<connectorVars, loopVars, failed, alive, retry_, connection, up, callback,
                   keepAlive, raced, stalled>>

CallSetsFlag ==
    /\ \/ /\ upc = "connect" /\ connect_' = TRUE /\ upc' = "queueStart"
          /\ stopped' = FALSE /\ UNCHANGED raced
       \/ /\ upc = "stop" /\ StopForbids /\ upc' = "queueStop"
          /\ raced' = within /\ UNCHANGED stopped
    /\ UNCHANGED <<state, channel, watched, retryDelayMs, timers, open, gaveUp, loopVars, failed,
                   clientVars, calls, stalled>>

CallQueues ==
    /\ \/ upc = "queueStart" /\ queue' = Append(queue, Functor("startInLoop")) /\ stopped' = FALSE
       \/ upc = "queueStop" /\ queue' = Append(queue, Functor("stopInLoop")) /\ stopped' = TRUE
    /\ upc' = "idle"
    /\ UNCHANGED <<connectorVars, batch, phase, within, failed, clientVars, calls, raced, stalled>>

-----------------------------------------------------------------------------
LoopStep ==
    \/ Swap \/ RunFunctor \/ BatchDone \/ Starts \/ Connects \/ Restarts \/ TimerExpires
    \/ KeepAliveExpires \/ newConnection

ChannelStep == ChannelError \/ \E found \in WriteFinds : ChannelWritable(found)

UserStep ==
    \/ LoopConnects \/ LoopStops \/ Disconnects \/ \E unique \in BOOLEAN : Destructs(unique)
    \/ \E op \in {"connect", "stop"} : CallBegins(op)

(* An assert has failed: one of those in failed, or that of ~Connector(),    *)
(* whose last holder is gone while there is still a channel.                 *)
Aborted == failed # {} \/ ~(Held \/ channel = 0)

(* Nothing follows a failed assert.                                          *)
Next ==
    /\ ~Aborted
    /\ \/ LoopStep \/ ChannelStep \/ ConnectionCloses \/ UserStep
       \/ CallSetsFlag \/ CallQueues

Spec == Init /\ [][Next]_vars

(* The loop goes on, a round ends with its functors however many events it   *)
(* has, timers expire, a call under way is finished, and a server that is    *)
(* tried again and again is reached at last: neither connect(2) nor the      *)
(* connection fails for ever.                                                *)
FairSpec ==
    /\ Spec
    /\ WF_vars(~Aborted /\ LoopStep) /\ WF_vars(~Aborted /\ (CallSetsFlag \/ CallQueues))
    /\ WF_vars(~Aborted /\ ChannelStep) /\ SF_vars(~Aborted /\ Swap)
    /\ SF_vars(~Aborted /\ Connects /\ state' = "kConnecting")
    /\ SF_vars(~Aborted /\ ChannelWritable("connected"))

-----------------------------------------------------------------------------
(* Properties.                                                               *)

Names == RawFunctors \cup {"forceClose", "connectDestroyed"}
Points == {"none", "write", "given", "restart", "start", "connect"}
Closing(fd) ==
    \E q \in {queue, batch} : \E i \in DOMAIN q : q[i] = <<"connectDestroyed", fd>>

(* The members of Connector and TcpClient; the delay stays within its limit. *)
TypeOK ==
    /\ connect_ \in BOOLEAN /\ state \in States /\ channel \in Fds \cup {0}
    /\ watched \in BOOLEAN /\ timers \in Nat /\ open \subseteq Fds /\ gaveUp \in BOOLEAN
    /\ retryDelayMs \in kInitRetryDelayMs..kMaxRetryDelayMs
    /\ queue \in Seq(Names \X (Fds \cup {0})) /\ batch \in Seq(Names \X (Fds \cup {0}))
    /\ phase \in {"events", "functors"} /\ within \in Points
    /\ alive \in BOOLEAN /\ retry_ \in BOOLEAN /\ clientConnect \in BOOLEAN
    /\ connection \in Fds \cup {0} /\ up \subseteq Fds /\ callback \in {"client", "detached"}
    /\ keepAlive \in BOOLEAN /\ calls \in 0..MaxCalls
    /\ upc \in {"idle", "connect", "stop", "queueStart", "queueStop"}
    /\ stopped \in BOOLEAN /\ raced \in Points /\ stalled \in BOOLEAN

(* Connector.cpp 38, 53, 143, 215 and TcpClient.cpp 171: no assert fires and *)
(* no functor with a raw pointer meets a connector that is gone, whatever    *)
(* the order of events, timers, functors and calls of other threads, as long *)
(* as functors queued before a timer was set run before it expires.  A round *)
(* that takes longer (the HACK at TcpClient.cpp 98) can only run into the    *)
(* asserts at 38 and 143 or into the dead connector.                         *)
AssertsHold ==
    /\ ~stalled => ~Aborted
    /\ failed \subseteq {"connecting", "dead"}
    /\ connection # 0 => alive

(* The socket of an attempt: the channel watches it, or handleWrite() has    *)
(* taken it from the channel to give it away.                                *)
Attempted == IF watched \/ within = "given" THEN {channel} ELSE {}

(* Lines 158-167 and 233-240: every open socket has one owner, the attempt   *)
(* or a connection, and the channel watches only during an attempt.  Nothing *)
(* leaks and nothing is closed twice.                                        *)
SocketsOwned ==
    LET dying == {fd \in Fds : Closing(fd)}
    IN  /\ open = Attempted \cup up \cup dying
        /\ Attempted \cap up = {} /\ Attempted \cap dying = {} /\ up \cap dying = {}
        /\ watched <=> state = "kConnecting"

(* Lines 233-256: an attempt, a retry timer and a connection exclude each    *)
(* other, and there is never a second one of any of them.                    *)
SingleAttempt == timers + Cardinality(Attempted) + Cardinality(up) <= 1

(* stop (65-70): once it has returned, no step begins an attempt or makes a  *)
(* connection, except where the loop had tested connect_ before stop() wrote *)
(* it.  removeConnection() then undoes it with restart() (TcpClient.cpp      *)
(* 176-180), startInLoop() begins one attempt (54-56) and handleWrite()      *)
(* makes one connection (202-204).                                           *)
StopHolds ==
    [][stopped =>
        /\ (state' = "kConnecting" /\ state # "kConnecting" => raced \in {"restart", "connect"})
        /\ (connection' # 0 /\ connection = 0 => raced \in {"restart", "given"})]_vars

(* retry (233-256): an attempt, or the timer of the next one, ends with a    *)
(* connection unless someone stops it, connect(2) fails for good or a stall  *)
(* makes an assert fail.                                                     *)
AttemptsConnect ==
    (connect_ /\ (timers > 0 \/ state = "kConnecting"))
        ~> (connection # 0 \/ ~connect_ \/ gaveUp \/ Aborted)

(* Attempts and sockets together: each socket has one owner, and there is    *)
(* one attempt, timer or connection at a time.                               *)
OneOwner == TypeOK /\ SocketsOwned /\ SingleAttempt
=============================================================================
