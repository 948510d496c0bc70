----------------------------- MODULE Connector -----------------------------
(***************************************************************************)
(* muduo/net/Connector.cpp: the active side of a connection.  A connector  *)
(* creates a socket, watches it until the connection is made and gives it  *)
(* away, or closes it and tries again after a delay that doubles.  It      *)
(* lives in one loop: a round handles events and expired timers, then the  *)
(* functors that were queued before the swap.                              *)
(*                                                                         *)
(* A handler is one step up to its test of connect_, the only member that  *)
(* other threads write, and one step after it.  In retry() the two are one *)
(* step: a stop() between them has the effect of one after them, since the *)
(* timer's startInLoop() tests connect_ again.  An assert that fires       *)
(* aborts: its name is put in failed and nothing follows.  A call of a     *)
(* member function on a connector that is gone is recorded there as well.  *)
(***************************************************************************)
EXTENDS Naturals, Sequences, FiniteSets

CONSTANTS Fds,                \* descriptors the kernel hands out
          kInitRetryDelayMs,
          kMaxRetryDelayMs

ASSUME ConnectorAssumption ==
    /\ Fds \subseteq Nat \ {0} /\ IsFiniteSet(Fds)
    /\ kInitRetryDelayMs \in Nat \ {0} /\ kMaxRetryDelayMs \in Nat
    /\ kInitRetryDelayMs <= kMaxRetryDelayMs

VARIABLES
    connect_,      \* Connector::connect_
    state,         \* state_
    channel,       \* the descriptor of channel_, 0 when it is NULL
    watched,       \* whether the channel is registered with the poller
    retryDelayMs,  \* retryDelayMs_
    timers,        \* retry timers that are pending; each holds a shared_ptr
    open,          \* descriptors that are open
    gaveUp,        \* history: connect(2) failed for good
    \* the loop
    queue,         \* pendingFunctors_, as <<name, descriptor>>
    batch,         \* functors swapped out and not yet run
    phase,         \* "events" or "functors"
    within,        \* what a handler that has begun does next, or "none"
    failed         \* asserts that fired, dead objects that were used

connectorVars == <<connect_, state, channel, watched, retryDelayMs, timers, open, gaveUp>>
loopVars == <<queue, batch, phase, within>>

States == {"kDisconnected", "kConnecting", "kConnected"}
Functor(name) == <<name, 0>>
Waiting(name) == \E q \in {queue, batch} : \E i \in DOMAIN q : q[i][1] = name

ConnectorInit ==
    /\ connect_ = FALSE /\ state = "kDisconnected" /\ channel = 0 /\ watched = FALSE
    /\ retryDelayMs = kInitRetryDelayMs /\ timers = 0 /\ open = {} /\ gaveUp = FALSE
    /\ queue = <<>> /\ batch = <<>> /\ phase = "events" /\ within = "none"
    /\ failed = {}

Fails(name) == failed' = {name} /\ UNCHANGED <<connectorVars, queue>>
LowestFree == CHOOSE f \in Fds \ open : \A g \in Fds \ open : f <= g

-----------------------------------------------------------------------------
(* std::min(retryDelayMs_ * 2, kMaxRetryDelayMs).                            *)
NextDelay == IF retryDelayMs * 2 < kMaxRetryDelayMs THEN retryDelayMs * 2 ELSE kMaxRetryDelayMs

(* Mutation: gives up when the delay has reached its limit.                  *)
retryUntilLimit(fd) ==
    /\ open' = open \ {fd}
    /\ state' = "kDisconnected"
    /\ timers' = IF connect_ /\ retryDelayMs < kMaxRetryDelayMs THEN timers + 1 ELSE timers
    /\ retryDelayMs' = NextDelay

(* retry(): close the socket, and unless stopped try again later.            *)
retry(fd) ==
    /\ open' = open \ {fd}
    /\ state' = "kDisconnected"
    /\ timers' = IF connect_ THEN timers + 1 ELSE timers
    /\ retryDelayMs' = IF connect_ THEN NextDelay ELSE retryDelayMs

(* connecting(): a new channel waits for the socket to become writable.      *)
connecting(fd) ==
    IF channel # 0
    THEN Fails("connecting")
    ELSE /\ state' = "kConnecting" /\ channel' = fd /\ watched' = TRUE
         /\ open' = open \cup {fd}
         /\ UNCHANGED <<connect_, retryDelayMs, timers, gaveUp, queue, failed>>

(* connect(): the three groups of errno.  A socket that cannot be used is    *)
(* closed in the same step that created it.  createNonblockingOrDie() ends   *)
(* the program when no descriptor is free: nothing follows.                  *)
ConnectBegins == connecting(LowestFree)
ConnectRefused ==
    /\ retry(LowestFree)
    /\ UNCHANGED <<connect_, channel, watched, gaveUp, queue, failed>>
ConnectFatal ==
    /\ gaveUp' = TRUE
    /\ UNCHANGED <<connect_, state, channel, watched, retryDelayMs, timers, open, queue, failed>>
connect == Fds \ open # {} /\ (ConnectBegins \/ ConnectRefused \/ ConnectFatal)

(* startInLoop(): the assert and the test of connect_; the call of connect() *)
(* is a step of its own.                                                     *)
startInLoop ==
    IF state # "kDisconnected"
    THEN Fails("startInLoop") /\ within' = "none"
    ELSE /\ within' = IF connect_ THEN "connect" ELSE "none"
         /\ UNCHANGED <<connectorVars, queue, failed>>

(* Mutation: the channel is taken from the poller and never reset.           *)
removeAndKeepChannel == watched' = FALSE /\ UNCHANGED <<channel, queue>>

(* removeAndResetChannel(): reset later, since a handler of the channel may  *)
(* be running.                                                               *)
removeAndResetChannel ==
    /\ watched' = FALSE
    /\ queue' = Append(queue, Functor("resetChannel"))
    /\ UNCHANGED channel

(* Mutation: forgets the socket.                                             *)
stopInLoopKeepsSocket ==
    IF state = "kConnecting"
    THEN /\ removeAndResetChannel /\ state' = "kDisconnected"
         /\ UNCHANGED <<connect_, retryDelayMs, timers, open, gaveUp, failed>>
    ELSE UNCHANGED <<connectorVars, queue, failed>>

stopInLoop ==
    IF state = "kConnecting"
    THEN /\ removeAndResetChannel /\ retry(channel)
         /\ UNCHANGED <<connect_, gaveUp, failed>>
    ELSE UNCHANGED <<connectorVars, queue, failed>>

resetChannel ==
    /\ channel' = 0
    /\ UNCHANGED <<connect_, state, watched, retryDelayMs, timers, open, gaveUp, queue, failed>>

-----------------------------------------------------------------------------
(* The channel's handlers.  A failed connection reports POLLERR and POLLOUT  *)
(* together: handleError() runs first, handleWrite() after it.               *)

handleError ==
    IF state = "kConnecting"
    THEN removeAndResetChannel /\ retry(channel) /\ UNCHANGED <<connect_, gaveUp, failed>>
    ELSE UNCHANGED <<connectorVars, queue, failed>>

(* The test at the head of handleWrite().                                    *)
IsConnecting == state = "kConnecting"

(* handleWrite(): SO_ERROR is set or the socket is connected to itself; it   *)
(* is connected but stop() was called; it is connected and the next step     *)
(* gives it away; or handleError() has dealt with it before.                 *)
WriteFinds == {"error", "connected"}
handleWrite(found) ==
    \/ /\ IsConnecting /\ found = "error"
       /\ removeAndResetChannel /\ retry(channel) /\ within' = "none"
       /\ UNCHANGED <<connect_, gaveUp, failed>>
    \/ /\ IsConnecting /\ found = "connected"
       /\ removeAndResetChannel
       /\ state' = "kConnected"
       /\ within' = IF connect_ THEN "given" ELSE "none"
       /\ open' = IF connect_ THEN open ELSE open \ {channel}
       /\ UNCHANGED <<connect_, retryDelayMs, timers, gaveUp, failed>>
    \/ /\ ~IsConnecting /\ within' = "none"
       /\ failed' = IF state = "kDisconnected" THEN {} ELSE {"handleWrite"}
       /\ UNCHANGED <<connectorVars, queue>>

(* restart(), which the owner calls on the loop; startInLoop() comes next.   *)
restart ==
    /\ state' = "kDisconnected" /\ retryDelayMs' = kInitRetryDelayMs /\ connect_' = TRUE
    /\ UNCHANGED <<channel, watched, timers, open, gaveUp, queue, failed>>

(* A retry timer expires; it keeps its shared_ptr until startInLoop() is     *)
(* over.                                                                     *)
RetryTimerExpires ==
    /\ timers > 0 /\ timers' = timers - 1
    /\ UNCHANGED <<connect_, state, channel, watched, retryDelayMs, open, gaveUp, queue, failed>>
=============================================================================
