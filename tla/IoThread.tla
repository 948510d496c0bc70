------------------------------ MODULE IoThread ------------------------------
(***************************************************************************)
(* examples/tstlesrv: the listening thread of tcpserver.cpp accepts client *)
(* sockets and deals them out in turn (iothreadmanager.cpp) to IO threads  *)
(* (iothread.cpp), each with a queue of new connections and a socketpair   *)
(* (PipeEventWatcher of muduo/base/event_watcher.cpp) that wakes its       *)
(* libevent loop.  Each IO thread keeps the ClientCtx objects of closed    *)
(* connections for new ones.                                               *)
(*                                                                         *)
(* A connection is the number of the accept() that made it.  An Item_t is  *)
(* named by its connection.  What a ClientCtx does with its socket is left *)
(* to its clients: a connection is open until somebody closes it.          *)
(***************************************************************************)
EXTENDS Naturals, Sequences, FiniteSets, FiniteSetsExt, SequencesExt

CONSTANTS NumThreads,  \* m_nthreads
          MaxConns,    \* connections ever accepted
          NumCtxs,     \* ClientCtx objects an IO thread ever makes
          ReadMax,     \* size of the buffer HandlerFn() reads into
          PipeMax      \* bytes the socketpair holds

ASSUME IoAssumption ==
    /\ NumThreads \in Nat \ {0} /\ MaxConns \in Nat /\ NumCtxs \in Nat
    /\ ReadMax \in Nat \ {0} /\ PipeMax \in Nat \ {0}

IoThreads == 0..(NumThreads - 1)
Conns == 1..MaxConns
Ctxs == 1..NumCtxs
None == 0
NoThread == NumThreads

VARIABLES accepted,     \* how many connections were accepted
          listener,     \* where handle_event() is: "accept", "notify" or "fillItem"
          nextThread,   \* m_nextthreads
          target,       \* target[c]: the IO thread connection c was given to
          connQueue,    \* connQueue[t]: m_connQueue
          pipe,         \* pipe[t]: bytes in the socketpair
          creating,     \* creating[t]: the connection t has taken from its queue
          serving,      \* serving[t][x]: the connection ctx x serves, None if not in use
          idleCtxs,     \* idleCtxs[t]: m_idleCtxs
          made,         \* made[t]: how many ClientCtx objects t has made
          status        \* status[c]: "new", "waiting", "open" or "closed"

vars == <<accepted, listener, nextThread, target, connQueue, pipe, creating,
          serving, idleCtxs, made, status>>

Init ==
    /\ accepted = 0 /\ listener = "accept" /\ nextThread = 0
    /\ target = [c \in Conns |-> NoThread]
    /\ connQueue = [t \in IoThreads |-> <<>>]
    /\ pipe = [t \in IoThreads |-> 0]
    /\ creating = [t \in IoThreads |-> None]
    /\ serving = [t \in IoThreads |-> [x \in Ctxs |-> None]]
    /\ idleCtxs = [t \in IoThreads |-> <<>>]
    /\ made = [t \in IoThreads |-> 0]
    /\ status = [c \in Conns |-> "new"]

-----------------------------------------------------------------------------
(* The listening thread.                                                     *)

Advance(n) == (n + 1) % NumThreads

(* set_item() up to the end of its lock.                                     *)
set_item(t, c) == connQueue' = [connQueue EXCEPT ![t] = Append(@, c)]

(* dispatch_item() chooses the thread whose turn it is.  It returns false    *)
(* only when no thread was started, which NumThreads > 0 leaves out.         *)
dispatch_item(c) ==
    /\ target' = [target EXCEPT ![c] = nextThread]
    /\ nextThread' = Advance(nextThread)
    /\ set_item(nextThread, c)

(* accept() and dispatch_item(), up to the notification.                     *)
Dispatch ==
    /\ listener = "accept" /\ accepted < MaxConns
    /\ accepted' = accepted + 1
    /\ dispatch_item(accepted + 1)
    /\ status' = [status EXCEPT ![accepted + 1] = "waiting"]
    /\ listener' = "notify"
    /\ UNCHANGED <<pipe, creating, serving, idleCtxs, made>>

(* fcntl(O_NONBLOCK) fails: the socket is closed and handle_event() returns. *)
AcceptFails ==
    /\ listener = "accept" /\ accepted < MaxConns
    /\ accepted' = accepted + 1
    /\ status' = [status EXCEPT ![accepted + 1] = "closed"]
    /\ UNCHANGED <<listener, nextThread, target, connQueue, pipe, creating, serving,
                   idleCtxs, made>>

(* Mutation: does not write.                                                 *)
NotifySilently ==
    /\ listener = "notify"
    /\ listener' = "fillItem"
    /\ UNCHANGED <<accepted, nextThread, target, connQueue, pipe, creating, serving,
                   idleCtxs, made, status>>

(* Notify(): a byte, which a full socketpair refuses.                        *)
Notify ==
    /\ listener = "notify"
    /\ pipe' = [pipe EXCEPT ![target[accepted]] = IF @ < PipeMax THEN @ + 1 ELSE @]
    /\ listener' = "fillItem"
    /\ UNCHANGED <<accepted, nextThread, target, connQueue, creating, serving, idleCtxs,
                   made, status>>

(* OutPeerIpInfo() writes the peer's address into the item only now.         *)
FillItem ==
    /\ listener = "fillItem"
    /\ listener' = "accept"
    /\ UNCHANGED <<accepted, nextThread, target, connQueue, pipe, creating, serving,
                   idleCtxs, made, status>>

-----------------------------------------------------------------------------
(* An IO thread.                                                             *)

(* Mutation: takes an item for each byte and keeps the last.                 *)
HandleNotifyKeepsLast(t) ==
    /\ pipe[t] > 0 /\ creating[t] = None
    /\ pipe' = [pipe EXCEPT ![t] = IF @ < ReadMax THEN 0 ELSE @ - ReadMax]
    /\ IF Len(connQueue[t]) < ReadMax
       THEN UNCHANGED <<connQueue, creating>>
       ELSE /\ creating' = [creating EXCEPT ![t] = connQueue[t][ReadMax]]
            /\ connQueue' = [connQueue EXCEPT ![t] = SubSeq(@, ReadMax + 1, Len(@))]
    /\ UNCHANGED <<accepted, listener, nextThread, target, serving, idleCtxs, made, status>>

(* get_connitem() takes the first item, if there is one.                     *)
get_connitem(t) ==
    IF connQueue[t] = <<>>
    THEN UNCHANGED <<connQueue, creating>>
    ELSE /\ creating' = [creating EXCEPT ![t] = Head(connQueue[t])]
         /\ connQueue' = [connQueue EXCEPT ![t] = Tail(@)]

(* HandlerFn() reads up to ReadMax bytes, and the handler looks at the first *)
(* of them only: one call of get_connitem().                                 *)
HandleNotify(t) ==
    /\ pipe[t] > 0 /\ creating[t] = None
    /\ pipe' = [pipe EXCEPT ![t] = IF @ < ReadMax THEN 0 ELSE @ - ReadMax]
    /\ get_connitem(t)
    /\ UNCHANGED <<accepted, listener, nextThread, target, serving, idleCtxs, made, status>>

InUse(t, x) == serving[t][x] # None

(* get_clientctx() drops ctxs in use until the first that is free.           *)
SkipInUse(t) ==
    LET free == {i \in DOMAIN idleCtxs[t] : ~InUse(t, idleCtxs[t][i])}
    IN  IF free = {} THEN <<>> ELSE SubSeq(idleCtxs[t], Min(free), Len(idleCtxs[t]))

(* create_connection(): an idle ctx or a new one; if init() fails the ctx is *)
(* deleted and the socket closed.  The item is deleted at the end.           *)
CreateConnection(t) ==
    /\ creating[t] # None
    /\ creating' = [creating EXCEPT ![t] = None]
    /\ LET idle == SkipInUse(t)
           fresh == idle = <<>>
           ctx == IF fresh THEN made[t] + 1 ELSE Head(idle)
       IN  /\ ctx \in Ctxs
           /\ made' = [made EXCEPT ![t] = IF fresh THEN ctx ELSE @]
           /\ idleCtxs' = [idleCtxs EXCEPT ![t] = IF fresh THEN <<>> ELSE Tail(idle)]
           /\ \/ /\ serving' = [serving EXCEPT ![t][ctx] = creating[t]]
                 /\ status' = [status EXCEPT ![creating[t]] = "open"]
              \/ /\ status' = [status EXCEPT ![creating[t]] = "closed"]
                 /\ UNCHANGED serving
    /\ UNCHANGED <<accepted, listener, nextThread, target, connQueue, pipe>>

return_clientctx(t, x) == idleCtxs' = [idleCtxs EXCEPT ![t] = Append(@, x)]

(* close_connection(true), from a read or write event of the connection.     *)
CloseConnection(t, x) ==
    /\ InUse(t, x) /\ creating[t] = None
    /\ status' = [status EXCEPT ![serving[t][x]] = "closed"]
    /\ serving' = [serving EXCEPT ![t][x] = None]
    /\ return_clientctx(t, x)
    /\ UNCHANGED <<accepted, listener, nextThread, target, connQueue, pipe, creating, made>>

-----------------------------------------------------------------------------
Done == accepted = MaxConns /\ UNCHANGED vars

Next ==
    \/ Dispatch \/ AcceptFails \/ Notify \/ FillItem \/ Done
    \/ \E t \in IoThreads :
          \/ HandleNotify(t) \/ CreateConnection(t)
          \/ \E x \in Ctxs : CloseConnection(t, x)

Spec == Init /\ [][Next]_vars

(* The threads run and libevent reports a readable socketpair.  Clients need *)
(* not come, and need not go.                                                *)
FairSpec ==
    /\ Spec /\ WF_vars(Notify) /\ WF_vars(FillItem)
    /\ \A t \in IoThreads : WF_vars(HandleNotify(t)) /\ WF_vars(CreateConnection(t))

-----------------------------------------------------------------------------
(* Properties.                                                               *)

(* The state of the listener and of the IO threads; no byte is written to a  *)
(* full socketpair.                                                          *)
TypeOK ==
    /\ accepted \in 0..MaxConns /\ listener \in {"accept", "notify", "fillItem"}
    /\ nextThread \in IoThreads /\ target \in [Conns -> IoThreads \cup {NoThread}]
    /\ \A t \in IoThreads : connQueue[t] \in Seq(Conns) /\ idleCtxs[t] \in Seq(Ctxs)
    /\ pipe \in [IoThreads -> 0..PipeMax]
    /\ creating \in [IoThreads -> Conns \cup {None}]
    /\ serving \in [IoThreads -> [Ctxs -> Conns \cup {None}]]
    /\ made \in [IoThreads -> 0..NumCtxs]
    /\ status \in [Conns -> {"new", "waiting", "open", "closed"}]

Given(t) == {c \in Conns : target[c] = t}

(* get_clientctx (112-128): what the pool hands out is free: an idle ctx is  *)
(* in the pool once and serves nobody, so that two connections never share   *)
(* one, and the error branch for a ctx in use is never taken.                *)
CtxPoolSound ==
    \A t \in IoThreads :
        /\ \A i, j \in DOMAIN idleCtxs[t] : idleCtxs[t][i] = idleCtxs[t][j] => i = j
        /\ \A i \in DOMAIN idleCtxs[t] : ~InUse(t, idleCtxs[t][i])
        /\ \A x, y \in Ctxs : InUse(t, x) /\ serving[t][x] = serving[t][y] => x = y

(* Every socket that was accepted is, until it is closed, in one place: a    *)
(* queue, the hands of the thread it was given to, or a ctx of that thread.  *)
NoSocketLost ==
    \A c \in {d \in Conns : target[d] # NoThread} :
        LET t == target[c]
            queued == {i \in DOMAIN connQueue[t] : connQueue[t][i] = c}
        IN  /\ status[c] = "waiting" =>
                 Cardinality(queued) + (IF creating[t] = c THEN 1 ELSE 0) = 1
            /\ status[c] = "open" => \E x \in Ctxs : serving[t][x] = c

(* Notify() and HandlerFn(): a notification that is written, or about to be, *)
(* gets the oldest socket waiting for that thread taken up, also when the    *)
(* socketpair is full or the byte is read together with others.              *)
OldestIsServed ==
    \A t \in IoThreads, c \in Conns :
        (/\ connQueue[t] # <<>> /\ Head(connQueue[t]) = c
         /\ pipe[t] > 0 \/ (listener = "notify" /\ target[accepted] = t))
            ~> (status[c] \in {"open", "closed"})

(* dispatch_item (51-69) deals in turn: of any two IO threads, one is never  *)
(* given more than one connection more than the other.                       *)
DealtInTurn ==
    \A s, t \in IoThreads : Cardinality(Given(s)) <= Cardinality(Given(t)) + 1

(* Sockets and ctxs on their way from handle_event() to close_connection():  *)
(* none is lost, shared or given to a thread out of turn.                    *)
DispatchSound == TypeOK /\ CtxPoolSound /\ NoSocketLost /\ DealtInTurn
=============================================================================
