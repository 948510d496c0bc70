--------------------------- MODULE TcpConnection ---------------------------
(***************************************************************************)
(* muduo/net/TcpConnection.cpp and the part of TcpServer.cpp that owns a   *)
(* connection: one connection, the IO loop it lives in, the base loop its  *)
(* TcpServer lives in, user code in callbacks and on other threads, the    *)
(* socket and its peer.                                                    *)
(*                                                                         *)
(* The IO loop polls, handles the events of the channel, then swaps out    *)
(* and runs the queued functors (the order module EventLoop is about).     *)
(* User code runs inside callbacks; a callback is open from the step that  *)
(* calls it until CallbackReturns.  A call from another thread is one step *)
(* per access to shared state: state_ is a plain member, so the test, the  *)
(* assignment and the queueing are separate steps.                         *)
(*                                                                         *)
(* Reference counts: the connection lives while the server's map, a bound  *)
(* shared_ptr in a queue or in the batch being run, a running handler or   *)
(* user code refers to it.  Functors bound to `this' do not count.  The    *)
(* name of every assert that would fire is collected in failed, and the    *)
(* run goes on as it does with NDEBUG.                                     *)
(***************************************************************************)
EXTENDS Naturals, Sequences, SequencesExt, Channel

CONSTANTS Users,       \* threads other than the IO loop that hold the connection
          LoopOps,     \* operations user code calls on the IO loop
          CrossOps,    \* operations user code calls on Users
          KeepsRef,    \* whether Users keep their pointer until what they queued has run
          SameLoops,   \* values of sameLoop to follow
          ServerDtor,  \* whether the TcpServer may be destructed
          MsgLen,      \* bytes of a message
          MaxSends,    \* messages each thread sends
          HighWater,   \* highWaterMark_
          MaxQueue,    \* functors in the IO loop's queue when user code adds one
          MaxDowns     \* runs of handleClose() that are followed: one is right

Ops == {"send", "shutdown", "forceClose", "forceCloseWithDelay", "startRead", "stopRead"}
LoopUser == "loop"   \* user code on the IO loop, as a sender

ASSUME ConnectionAssumption ==
    /\ LoopUser \notin Users
    /\ LoopOps \subseteq Ops /\ CrossOps \subseteq Ops \ {"forceCloseWithDelay"}
    /\ KeepsRef \in BOOLEAN /\ SameLoops \subseteq BOOLEAN /\ ServerDtor \in BOOLEAN
    /\ MsgLen \in Nat \ {0} /\ MaxSends \in Nat /\ HighWater \in Nat \ {0} /\ MaxQueue \in Nat
    /\ MaxDowns \in Nat \ {0}

VARIABLES
    \* TcpServer, on the base loop
    sameLoop,   \* setThreadNum(0): the base loop is the IO loop
    server,     \* whether it is alive
    inMap,      \* connections_ holds the connection
    baseQueue,  \* removeConnectionInLoop functors queued in the base loop
    \* TcpConnection
    created,    \* whether newConnection() has made it
    st,         \* state_
    reading,    \* reading_
    ev,         \* events_ of channel_
    index,      \* index_ of channel_
    out,        \* outputBuffer_, as a sequence of bytes
    delayed,    \* a timer of forceCloseWithDelay() is pending
    \* the socket and the peer
    wire,       \* bytes the kernel has taken, in order
    shutWr,     \* shutdownWrite() was called
    inData,     \* the receive buffer is not empty
    peerFin,    \* the peer has closed its side
    rst,        \* "no"; "err" after a reset; "eof" once SO_ERROR was fetched
    \* the IO loop
    queue,      \* pendingFunctors_
    batch,      \* functors swapped out and not yet run
    batchRef,   \* the vector swapped out holds a shared_ptr to the connection
    phase,      \* "poll", "reported" (in activeChannels_), "event" or "functors"
    todo,       \* handlers still to run for the event
    cb,         \* the user callback that is open
    \* user code
    held,       \* user code keeps a TcpConnectionPtr
    tpc,        \* tpc[u]: how far the call of thread u got
    sent,       \* sent[s]: messages that sender s has sent
    \* history
    accepted,   \* bytes sendInLoop() took responsibility for, in order
    ups, downs, \* how often connectionCallback_ reported up and down
    failed      \* asserts that would have fired, dead objects that were used

serverVars == <<server, inMap, baseQueue, created>>
socketVars == <<wire, shutWr, inData, peerFin, rst>>
channelVars == <<ev, index>>
loopVars == <<batch, batchRef, phase, todo>>
userVars == <<held, tpc>>
outVars == <<out, wire, accepted>>
vars == <<sameLoop, server, inMap, baseQueue, created, st, reading, ev, index, out, delayed,
          wire, shutWr, inData, peerFin, rst, queue, batch, batchRef, phase, todo, cb, held,
          tpc, sent, accepted, ups, downs, failed>>

States == {"kDisconnected", "kConnecting", "kConnected", "kDisconnecting"}
Senders == Users \cup {LoopUser}

(* Mutation: connectDestroyed() is bound to the raw pointer.                 *)
OwningButDestroyed == {"established", "forceClose", "writeComplete", "highWater"}
(* Functors that boost::bind(..., shared_from_this()) or conn made.          *)
Owning == {"established", "forceClose", "writeComplete", "highWater", "destroyed"}
Functor(name) == [name |-> name, by |-> LoopUser, no |-> 0]
Owns(q) == \E i \in DOMAIN q : q[i].name \in Owning

Init ==
    /\ sameLoop \in SameLoops
    /\ server = TRUE /\ inMap = FALSE /\ baseQueue = 0 /\ created = FALSE
    /\ st = "kConnecting" /\ reading = TRUE /\ ev = {} /\ index = "new"
    /\ out = <<>> /\ delayed = FALSE
    /\ wire = <<>> /\ shutWr = FALSE /\ inData = FALSE /\ peerFin = FALSE /\ rst = "no"
    /\ queue = <<>> /\ batch = <<>> /\ batchRef = FALSE
    /\ phase = "poll" /\ todo = <<>> /\ cb = "none"
    /\ held = FALSE /\ tpc = [u \in Users |-> "idle"] /\ sent = [s \in Senders |-> 0]
    /\ accepted = <<>> /\ ups = 0 /\ downs = 0 /\ failed = {}

(* Who refers to the connection.                                             *)
Referenced ==
    \/ inMap \/ held \/ baseQueue > 0 \/ batchRef \/ Owns(queue)
    \/ (phase = "event" /\ todo # <<>>) \/ cb # "none"
Dead == created /\ ~Referenced

Fail(names) == failed' = failed \cup names
AssertThat(cond, name) == IF cond THEN {} ELSE {name}

-----------------------------------------------------------------------------
(* Operations of the connection, as the IO loop executes them.               *)

setEvents(new) == ev' = new /\ index' = updateChannel(index, new)

Bytes(s, k) == [i \in 1..MsgLen |-> <<s, k, i>>]

(* A write to a socket that was shut down or reset fails with EPIPE or       *)
(* ECONNRESET.                                                               *)
WriteFails == shutWr \/ rst # "no"

(* Mutation: writes at once although the output buffer is not empty.         *)
TriesWriteAlways == TRUE
(* sendInLoop(): write at once only when nothing waits in the output buffer. *)
TriesWrite == ~isWriting(ev) /\ out = <<>>

(* The kernel takes n bytes, 0 standing for EWOULDBLOCK.                     *)
Written == IF TriesWrite THEN 0..MsgLen ELSE {0}

(* What is left goes to outputBuffer_, and the channel starts writing.       *)
Buffer(data) ==
    /\ out' = out \o data
    /\ IF isWriting(ev) THEN UNCHANGED channelVars ELSE setEvents(ev \cup {"w"})

sendInLoop(data) ==
    /\ IF st = "kDisconnected" \/ (TriesWrite /\ WriteFails)
       THEN UNCHANGED <<outVars, channelVars, queue>>
       ELSE \E n \in Written :
              LET rest == SubSeq(data, n + 1, MsgLen)
                  high == Len(out) + Len(rest) >= HighWater /\ Len(out) < HighWater
              IN  /\ accepted' = accepted \o data
                  /\ wire' = wire \o SubSeq(data, 1, n)
                  /\ \/ /\ rest = <<>>
                        /\ queue' = Append(queue, Functor("writeComplete"))
                        /\ UNCHANGED <<out, channelVars>>
                     \/ /\ rest # <<>>
                        /\ queue' = IF high THEN Append(queue, Functor("highWater")) ELSE queue
                        /\ Buffer(rest)
    /\ UNCHANGED <<st, reading, delayed, shutWr, inData, peerFin, rst, cb, ups, downs, failed>>

(* Mutation: closes the write side with data still to go.                    *)
shutdownInLoopAtOnce == shutWr' = TRUE

shutdownInLoop == shutWr' = (shutWr \/ ~isWriting(ev))

startReadInLoop ==
    /\ reading' = TRUE
    /\ IF reading /\ isReading(ev) THEN UNCHANGED channelVars ELSE setEvents(ev \cup {"r"})

stopReadInLoop ==
    /\ reading' = FALSE
    /\ IF reading \/ isReading(ev) THEN setEvents(ev \ {"r"}) ELSE UNCHANGED channelVars

(* handleClose() up to connectionCallback_; closeCallback_ follows when the  *)
(* callback returns.                                                         *)
handleClose ==
    /\ downs < MaxDowns
    /\ Fail(AssertThat(st \in {"kConnected", "kDisconnecting"}, "handleClose"))
    /\ st' = "kDisconnected"
    /\ setEvents({})
    /\ cb' = "down" /\ downs' = downs + 1

(* The test of forceClose() and forceCloseInLoop().                          *)
MayClose == st \in {"kConnected", "kDisconnecting"}

(* connectEstablished(): register for reading, then connectionCallback_.     *)
connectEstablished ==
    /\ Fail(AssertThat(st = "kConnecting", "connectEstablished"))
    /\ st' = "kConnected"
    /\ setEvents(ev \cup {"r"})
    /\ cb' = "up" /\ ups' = ups + 1

(* Mutation: leaves the channel with the poller.                             *)
channelRemoveForgotten == Fail({}) /\ UNCHANGED channelVars

channelRemove ==
    /\ Fail(AssertThat(removeAllowed(index, ev), "remove"))
    /\ index' = "new" /\ UNCHANGED ev

(* connectDestroyed(): a connection that was not closed before is closed     *)
(* here, with its callback; then the channel leaves the poller.              *)
connectDestroyed ==
    IF st = "kConnected"
    THEN /\ st' = "kDisconnected" /\ setEvents({})
         /\ cb' = "destroyDown" /\ downs' = downs + 1
         /\ Fail({})
    ELSE channelRemove /\ UNCHANGED <<st, cb, downs>>

(* Mutation: leaves the connection in the map.                               *)
removeConnectionInLoopKeeps ==
    /\ queue' = Append(queue, Functor("destroyed"))
    /\ UNCHANGED <<inMap, failed>>

(* removeConnectionInLoop(); on a server that is gone it is only recorded.   *)
removeConnectionInLoop ==
    IF server
    THEN /\ inMap' = FALSE
         /\ Fail(AssertThat(inMap, "erase"))
         /\ queue' = Append(queue, Functor("destroyed"))
    ELSE Fail({"deadServer"}) /\ UNCHANGED <<inMap, queue>>

-----------------------------------------------------------------------------
(* The base loop.                                                            *)

BaseIdle == sameLoop => phase = "poll" /\ cb = "none"

(* connections_[connName] = conn.                                            *)
Insert == TRUE

(* TcpServer::newConnection(), from the acceptor's callback.                 *)
newConnection ==
    /\ ~created /\ server /\ BaseIdle
    /\ created' = TRUE /\ inMap' = Insert
    /\ IF sameLoop
       THEN connectEstablished /\ UNCHANGED queue
       ELSE /\ queue' = Append(queue, Functor("established"))
            /\ UNCHANGED <<st, channelVars, cb, ups, failed>>
    /\ UNCHANGED <<server, baseQueue, reading, out, delayed, socketVars, loopVars, userVars,
                   sent, accepted, downs>>

BaseRunsRemove ==
    /\ baseQueue > 0
    /\ baseQueue' = baseQueue - 1
    /\ removeConnectionInLoop
    /\ UNCHANGED <<server, created, st, reading, channelVars, out, delayed, socketVars,
                   loopVars, cb, userVars, sent, accepted, ups, downs>>

(* ~TcpServer(): connectDestroyed() for the connections still in the map.    *)
ServerDestructs ==
    /\ ServerDtor /\ server /\ BaseIdle
    /\ server' = FALSE /\ inMap' = FALSE
    /\ IF inMap /\ sameLoop
       THEN connectDestroyed /\ UNCHANGED queue
       ELSE /\ queue' = IF inMap THEN Append(queue, Functor("destroyed")) ELSE queue
            /\ UNCHANGED <<st, channelVars, cb, downs, failed>>
    /\ UNCHANGED <<baseQueue, created, reading, out, delayed, socketVars, loopVars, userVars,
                   sent, accepted, ups>>

-----------------------------------------------------------------------------
(* The IO loop: events.                                                      *)

Readable == inData \/ peerFin \/ rst # "no"
Hangup == rst # "no" \/ (shutWr /\ peerFin)
Events(room) ==
    Reported(index, ev, Readable, room \/ WriteFails, Hangup, rst = "err")

(* epoll_wait reports the channel; the peer decides whether there is room.   *)
Poll ==
    /\ phase = "poll" /\ cb = "none" /\ ~Dead
    /\ \E room \in BOOLEAN :
          /\ Events(room) # {}
          /\ todo' = handleEventWithGuard(Events(room))
    /\ phase' = "reported"
    /\ UNCHANGED <<serverVars, st, reading, channelVars, out, delayed, socketVars, queue,
                   batch, batchRef, cb, userVars, sent, accepted, ups, downs, failed>>

(* handleEvent(): tie_.lock() keeps the connection for the whole event.      *)
BeginEvent ==
    /\ phase = "reported"
    /\ phase' = "event"
    /\ todo' = IF Dead THEN <<>> ELSE todo
    /\ UNCHANGED <<serverVars, st, reading, channelVars, out, delayed, socketVars, queue,
                   batch, batchRef, cb, userVars, sent, accepted, ups, downs, failed>>

Handling(h) == phase = "event" /\ cb = "none" /\ todo # <<>> /\ Head(todo) = h

HandleCloseEvent ==
    /\ Handling("close")
    /\ todo' = Tail(todo)
    /\ handleClose
    /\ UNCHANGED <<serverVars, reading, out, delayed, socketVars, queue, batch, batchRef,
                   phase, userVars, sent, accepted, ups>>

(* handleError() fetches SO_ERROR, which clears it.                          *)
HandleErrorEvent ==
    /\ Handling("error")
    /\ todo' = Tail(todo)
    /\ rst' = IF rst = "err" THEN "eof" ELSE rst
    /\ UNCHANGED <<serverVars, st, reading, channelVars, out, delayed, wire, shutWr, inData,
                   peerFin, queue, batch, batchRef, phase, cb, userVars, sent, accepted,
                   ups, downs, failed>>

(* handleRead(): data, the end of the stream, or an error.                   *)
HandleReadEvent ==
    /\ Handling("read")
    /\ todo' = Tail(todo)
    /\ \/ /\ inData
          /\ inData' = FALSE /\ cb' = "message"
          /\ UNCHANGED <<st, channelVars, downs, failed, rst>>
       \/ /\ ~inData /\ rst # "err"
          /\ handleClose
          /\ UNCHANGED <<inData, rst>>
       \/ /\ ~inData /\ rst = "err"
          /\ rst' = "eof"
          /\ UNCHANGED <<inData, cb, st, channelVars, downs, failed>>
    /\ UNCHANGED <<serverVars, reading, out, delayed, wire, shutWr, peerFin, queue, batch,
                   batchRef, phase, userVars, sent, accepted, ups>>

(* Mutation: does not finish a shutdown() that waited for the data.          *)
DrainedForgetsShutdown ==
    /\ setEvents(ev \ {"w"})
    /\ queue' = Append(queue, Functor("writeComplete"))
    /\ UNCHANGED shutWr

(* The output buffer has become empty.                                       *)
Drained ==
    /\ setEvents(ev \ {"w"})
    /\ queue' = Append(queue, Functor("writeComplete"))
    /\ shutWr' = (shutWr \/ (st = "kDisconnecting" /\ ~isWriting(ev')))

(* handleWrite(): nothing any more if writing was disabled meanwhile.        *)
HandleWriteEvent ==
    /\ Handling("write")
    /\ todo' = Tail(todo)
    /\ IF isWriting(ev) /\ ~WriteFails
       THEN \E n \in 1..Len(out) :
              /\ wire' = wire \o SubSeq(out, 1, n)
              /\ out' = SubSeq(out, n + 1, Len(out))
              /\ IF n = Len(out) THEN Drained ELSE UNCHANGED <<channelVars, queue, shutWr>>
       ELSE UNCHANGED <<wire, out, channelVars, queue, shutWr>>
    /\ UNCHANGED <<serverVars, st, reading, delayed, inData, peerFin, rst, batch, batchRef,
                   phase, cb, userVars, sent, accepted, ups, downs, failed>>

-----------------------------------------------------------------------------
(* The IO loop: functors.                                                    *)

Swap ==
    /\ cb = "none"
    /\ \/ phase = "poll" /\ queue # <<>>
       \/ phase = "event" /\ todo = <<>>
    /\ batch' = queue /\ batchRef' = Owns(queue) /\ queue' = <<>>
    /\ phase' = "functors"
    /\ UNCHANGED <<serverVars, st, reading, channelVars, out, delayed, socketVars, todo, cb,
                   userVars, sent, accepted, ups, downs, failed>>

FunctorBody(f) ==
    \/ /\ f.name = "send"
       /\ sendInLoop(Bytes(f.by, f.no))
    \/ /\ f.name = "shutdown"
       /\ shutdownInLoop
       /\ UNCHANGED <<st, reading, channelVars, outVars, queue, delayed, inData, peerFin,
                      rst, cb, ups, downs, failed>>
    \/ /\ f.name \in {"startRead", "stopRead"}
       /\ IF f.name = "startRead" THEN startReadInLoop ELSE stopReadInLoop
       /\ UNCHANGED <<st, outVars, queue, delayed, shutWr, inData, peerFin, rst, cb, ups,
                      downs, failed>>
    \/ /\ f.name = "forceClose"
       /\ IF MayClose THEN handleClose ELSE UNCHANGED <<st, channelVars, cb, downs, failed>>
       /\ UNCHANGED <<reading, outVars, queue, delayed, shutWr, inData, peerFin, rst, ups>>
    \/ /\ f.name = "established"
       /\ connectEstablished
       /\ UNCHANGED <<reading, outVars, queue, delayed, shutWr, inData, peerFin, rst, downs>>
    \/ /\ f.name = "destroyed"
       /\ connectDestroyed
       /\ UNCHANGED <<reading, outVars, queue, delayed, shutWr, inData, peerFin, rst, ups>>
    \/ /\ f.name \in {"writeComplete", "highWater"}
       /\ cb' = "note"
       /\ UNCHANGED <<st, reading, channelVars, outVars, queue, delayed, shutWr, inData,
                      peerFin, rst, ups, downs, failed>>

(* A functor bound to `this' of a connection that is gone does what it does: *)
(* here it is only recorded.                                                 *)
RunFunctor ==
    /\ phase = "functors" /\ cb = "none" /\ batch # <<>>
    /\ batch' = Tail(batch)
    /\ IF Dead
       THEN /\ Fail({"deadFunctor"})
            /\ UNCHANGED <<st, reading, channelVars, outVars, queue, delayed, shutWr, inData,
                           peerFin, rst, cb, ups, downs>>
       ELSE FunctorBody(Head(batch))
    /\ UNCHANGED <<serverVars, batchRef, phase, todo, userVars, sent>>

BatchDone ==
    /\ phase = "functors" /\ cb = "none" /\ batch = <<>>
    /\ batchRef' = FALSE /\ phase' = "poll"
    /\ UNCHANGED <<serverVars, st, reading, channelVars, out, delayed, socketVars, queue,
                   batch, todo, cb, userVars, sent, accepted, ups, downs, failed>>

(* What follows connectionCallback_ in handleClose(): closeCallback_, which  *)
(* is TcpServer::removeConnection().                                         *)
removeConnection ==
    IF sameLoop
    THEN removeConnectionInLoop /\ UNCHANGED baseQueue
    ELSE /\ Fail(AssertThat(server, "deadServer"))
         /\ baseQueue' = IF server THEN baseQueue + 1 ELSE baseQueue
         /\ UNCHANGED <<inMap, queue>>

CallbackReturns ==
    /\ cb # "none"
    /\ cb' = "none"
    /\ \/ /\ cb = "down"
          /\ removeConnection /\ UNCHANGED channelVars
       \/ /\ cb = "destroyDown"
          /\ channelRemove /\ UNCHANGED <<inMap, baseQueue, queue>>
       \/ /\ cb \notin {"down", "destroyDown"}
          /\ UNCHANGED <<inMap, baseQueue, queue, channelVars, failed>>
    /\ UNCHANGED <<server, created, st, reading, out, delayed, socketVars, loopVars, userVars,
                   sent, accepted, ups, downs>>

(* The timer of forceCloseWithDelay() calls forceClose() if the connection   *)
(* is still there (WeakCallback).                                            *)
DelayExpires ==
    /\ delayed /\ phase = "poll" /\ cb = "none"
    /\ delayed' = FALSE
    /\ IF ~Dead /\ MayClose
       THEN st' = "kDisconnecting" /\ queue' = Append(queue, Functor("forceClose"))
       ELSE UNCHANGED <<st, queue>>
    /\ UNCHANGED <<serverVars, reading, channelVars, out, socketVars, loopVars, cb, userVars,
                   sent, accepted, ups, downs, failed>>

-----------------------------------------------------------------------------
(* User code on the IO loop: inside a callback of the connection, or inside  *)
(* another one with a pointer it has kept.                                   *)

OnLoop(op) ==
    /\ op \in LoopOps
    /\ cb # "none" \/ (phase \in {"poll", "reported"} /\ held)
    /\ Len(queue) < MaxQueue

LoopSends ==
    /\ OnLoop("send") /\ st = "kConnected"
    /\ sent[LoopUser] < MaxSends
    /\ sent' = [sent EXCEPT ![LoopUser] = @ + 1]
    /\ sendInLoop(Bytes(LoopUser, sent[LoopUser] + 1))
    /\ UNCHANGED <<serverVars, loopVars, userVars>>

LoopShutsDown ==
    /\ OnLoop("shutdown") /\ st = "kConnected"
    /\ st' = "kDisconnecting"
    /\ shutdownInLoop
    /\ UNCHANGED <<serverVars, reading, channelVars, outVars, queue, delayed, inData, peerFin,
                   rst, loopVars, cb, userVars, sent, ups, downs, failed>>

LoopForcesClose ==
    /\ OnLoop("forceClose") /\ MayClose
    /\ st' = "kDisconnecting"
    /\ queue' = Append(queue, Functor("forceClose"))
    /\ UNCHANGED <<serverVars, reading, channelVars, out, delayed, socketVars, loopVars, cb,
                   userVars, sent, accepted, ups, downs, failed>>

LoopForcesCloseWithDelay ==
    /\ OnLoop("forceCloseWithDelay") /\ MayClose /\ ~delayed
    /\ st' = "kDisconnecting" /\ delayed' = TRUE
    /\ UNCHANGED <<serverVars, reading, channelVars, out, socketVars, queue, loopVars, cb,
                   userVars, sent, accepted, ups, downs, failed>>

LoopStartsOrStopsRead ==
    /\ \E op \in {"startRead", "stopRead"} :
          OnLoop(op) /\ IF op = "startRead" THEN startReadInLoop ELSE stopReadInLoop
    /\ UNCHANGED <<serverVars, st, out, delayed, socketVars, queue, loopVars, cb, userVars,
                   sent, accepted, ups, downs, failed>>

-----------------------------------------------------------------------------
(* User code on other threads.                                               *)

UserKeepsPointer ==
    /\ cb # "none" /\ ~held
    /\ held' = TRUE
    /\ UNCHANGED <<serverVars, st, reading, channelVars, out, delayed, socketVars, queue,
                   loopVars, cb, tpc, sent, accepted, ups, downs, failed>>

FromUsers(q) == \E i \in DOMAIN q : q[i].name \notin Owning

UserDropsPointer ==
    /\ held /\ \A u \in Users : tpc[u] = "idle"
    /\ KeepsRef => ~FromUsers(queue) /\ ~FromUsers(batch)
    /\ held' = FALSE
    /\ UNCHANGED <<serverVars, st, reading, channelVars, out, delayed, socketVars, queue,
                   loopVars, cb, tpc, sent, accepted, ups, downs, failed>>

(* send(), shutdown() and forceClose() read state_ first.                    *)
UserChecks(u, op) ==
    /\ held /\ tpc[u] = "idle" /\ op \in CrossOps
    /\ \/ op \in {"send", "shutdown"} /\ st = "kConnected"
       \/ op = "forceClose" /\ MayClose
       \/ op \in {"startRead", "stopRead"}
    /\ op = "send" => sent[u] < MaxSends
    /\ tpc' = [tpc EXCEPT ![u] = op]
    /\ UNCHANGED <<serverVars, st, reading, channelVars, out, delayed, socketVars, queue,
                   loopVars, cb, held, sent, accepted, ups, downs, failed>>

(* setState(kDisconnecting), after the test and without a lock.              *)
UserSetsState(u) ==
    /\ tpc[u] \in {"shutdown", "forceClose"}
    /\ st' = "kDisconnecting"
    /\ tpc' = [tpc EXCEPT ![u] = IF @ = "shutdown" THEN "queueShutdown" ELSE "queueForceClose"]
    /\ UNCHANGED <<serverVars, reading, channelVars, out, delayed, socketVars, queue,
                   loopVars, cb, held, sent, accepted, ups, downs, failed>>

Queues == [send |-> "send", startRead |-> "startRead", stopRead |-> "stopRead",
           queueShutdown |-> "shutdown", queueForceClose |-> "forceClose"]

UserQueues(u) ==
    /\ tpc[u] \in DOMAIN Queues
    /\ Len(queue) < MaxQueue
    /\ sent' = IF tpc[u] = "send" THEN [sent EXCEPT ![u] = @ + 1] ELSE sent
    /\ queue' = Append(queue, [name |-> Queues[tpc[u]], by |-> u, no |-> sent'[u]])
    /\ tpc' = [tpc EXCEPT ![u] = "idle"]
    /\ UNCHANGED <<serverVars, st, reading, channelVars, out, delayed, socketVars, loopVars,
                   cb, held, accepted, ups, downs, failed>>

-----------------------------------------------------------------------------
(* The peer: sends (its data is read in one go), closes, or resets.          *)

PeerActs ==
    /\ created /\ ~Dead
    /\ \/ /\ ~inData /\ ~peerFin /\ rst = "no"
          /\ inData' = TRUE /\ UNCHANGED <<peerFin, rst>>
       \/ /\ ~peerFin /\ rst = "no"
          /\ peerFin' = TRUE /\ UNCHANGED <<inData, rst>>
       \/ /\ rst = "no"
          /\ rst' = "err" /\ UNCHANGED <<inData, peerFin>>
    /\ UNCHANGED <<serverVars, st, reading, channelVars, out, delayed, wire, shutWr, queue,
                   loopVars, cb, userVars, sent, accepted, ups, downs, failed>>

-----------------------------------------------------------------------------
LoopStep ==
    \/ BeginEvent \/ HandleCloseEvent \/ HandleErrorEvent \/ HandleReadEvent \/ HandleWriteEvent
    \/ Swap \/ RunFunctor \/ BatchDone \/ CallbackReturns

LoopUserStep ==
    \/ LoopSends \/ LoopShutsDown \/ LoopForcesClose \/ LoopForcesCloseWithDelay
    \/ LoopStartsOrStopsRead

Next ==
    /\ \/ newConnection \/ BaseRunsRemove \/ ServerDestructs
       \/ Poll \/ LoopStep \/ DelayExpires \/ LoopUserStep
       \/ UserKeepsPointer \/ UserDropsPointer
       \/ \E u \in Users :
             \/ \E op \in Ops : UserChecks(u, op)
             \/ UserSetsState(u) \/ UserQueues(u)
       \/ PeerActs
    /\ UNCHANGED sameLoop

Spec == Init /\ [][Next]_vars

(* The loops keep running, timers fire, and epoll keeps reporting what stays *)
(* ready; the peer reads, so the socket keeps getting room.                  *)
PollWritable == Poll /\ (isWriting(ev) => \E i \in DOMAIN todo' : todo'[i] = "write")
FairSpec ==
    /\ Spec
    /\ WF_vars(LoopStep /\ UNCHANGED sameLoop) /\ WF_vars(BaseRunsRemove /\ UNCHANGED sameLoop)
    /\ SF_vars(DelayExpires /\ UNCHANGED sameLoop) /\ SF_vars(PollWritable /\ UNCHANGED sameLoop)

-----------------------------------------------------------------------------
(* Properties.                                                               *)

AllBytes == Senders \X (1..MaxSends) \X (1..MsgLen)
Functors == [name : Owning \cup (Ops \ {"forceClose", "forceCloseWithDelay"}),
             by : Senders, no : 0..MaxSends]

(* The members of TcpConnection and the state around it; the base loop never *)
(* has more than one removal of it to run.                                   *)
TypeOK ==
    /\ server \in BOOLEAN /\ inMap \in BOOLEAN /\ created \in BOOLEAN /\ baseQueue \in 0..1
    /\ st \in States /\ reading \in BOOLEAN /\ ev \in Interests /\ index \in Indices
    /\ out \in Seq(AllBytes) /\ wire \in Seq(AllBytes) /\ accepted \in Seq(AllBytes)
    /\ delayed \in BOOLEAN /\ shutWr \in BOOLEAN /\ inData \in BOOLEAN /\ peerFin \in BOOLEAN
    /\ rst \in {"no", "err", "eof"}
    /\ queue \in Seq(Functors) /\ batch \in Seq(Functors) /\ batchRef \in BOOLEAN
    /\ phase \in {"poll", "reported", "event", "functors"}
    /\ todo \in Seq({"close", "error", "read", "write"})
    /\ cb \in {"none", "up", "message", "down", "destroyDown", "note"}
    /\ held \in BOOLEAN /\ sent \in [Senders -> 0..MaxSends]
    /\ tpc \in [Users -> Ops \cup {"idle", "queueShutdown", "queueForceClose"}]
    /\ ups \in Nat /\ downs \in Nat

(* sendInLoop (175-259) and handleWrite (487-535): what the kernel took and  *)
(* what waits in the output buffer are, in this order, what was accepted;    *)
(* and the messages of one thread keep the order it sent them in, whether    *)
(* they went to the socket at once, through the buffer or through the queue. *)
StreamInOrder ==
    /\ accepted = wire \o out
    /\ \A i, j \in DOMAIN accepted :
          i < j /\ accepted[i][1] = accepted[j][1] =>
             \/ accepted[i][2] < accepted[j][2]
             \/ accepted[i][2] = accepted[j][2] /\ accepted[i][3] < accepted[j][3]

(* shutdown (263-284) and handleWrite (498-519): the write side is closed    *)
(* only when all accepted data has reached the kernel, and nothing is        *)
(* accepted after that.                                                      *)
HalfCloseFlushes == shutWr => out = <<>>

(* While the connection is up, epoll watches for room exactly when data      *)
(* waits: neither a stuck buffer nor a busy loop (line 500).                 *)
WriteInterestMatches ==
    created /\ st # "kDisconnected" => (isWriting(ev) <=> out # <<>>)

(* The close path (116-124 of TcpServer.cpp): no assert of TcpConnection,    *)
(* Channel, EPollPoller or TcpServer on the way fires and no dead object is  *)
(* used; the user hears of the connection's end once, after its start.       *)
CloseOnce == failed = {} /\ downs <= ups /\ ups <= 1

(* Channel* are raw in activeChannels_: a channel that epoll has reported    *)
(* is alive when its turn comes, whatever other callbacks do meanwhile.      *)
ActiveChannelLives == phase = "reported" => ~Dead

(* ~TcpConnection and ~Channel: when the last reference goes, the connection *)
(* is kDisconnected, its channel has left the poller and both callbacks were *)
(* made.                                                                     *)
CleanDestruction == Dead => st = "kDisconnected" /\ index = "new" /\ downs = ups

(* A shutdown() ends with the write side closed, or with the connection.     *)
ShutdownCompletes == (st = "kDisconnecting") ~> (shutWr \/ st = "kDisconnected")

(* A closed connection is destroyed once user code lets go of it.            *)
ClosedIsReleased == (created /\ st = "kDisconnected") ~> (Dead \/ held)

(* Data in the output buffer is written, or the connection goes down.        *)
BufferDrains == (out # <<>>) ~> (out = <<>> \/ st = "kDisconnected")

(* The output path, sendInLoop to shutdownInLoop: order, flush before the    *)
(* half close, and interest in room exactly while data waits.                *)
OutputSound == TypeOK /\ StreamInOrder /\ HalfCloseFlushes /\ WriteInterestMatches

(* The life of the object: no reported channel of a dead connection, and a   *)
(* destructor that finds everything taken down.                              *)
LifetimeSound == ActiveChannelLives /\ CleanDestruction

(* The output path goes on: buffers drain and shutdowns complete.            *)
OutputFlows == ShutdownCompletes /\ BufferDrains
=============================================================================
