--------------------------- MODULE ConnectionPool ---------------------------
(***************************************************************************)
(* muduo/base/thrift_connection_pool.h: threads share client connections   *)
(* to several hosts.  mMutex is held for the whole of each call, but for   *)
(* the wait on mCond; new_client() connects with the mutex held, which is  *)
(* the one part of a call that takes a step of its own.                    *)
(***************************************************************************)
EXTENDS Integers, Sequences, SequencesExt, FiniteSets

CONSTANTS Threads, Hosts,
          Clients,            \* addresses new_client() can return
          MaxConn, MaxConnPerHost

NoClient == "NoClient"
NoHost == "NoHost"

ASSUME PoolAssumption ==
    /\ MaxConn \in Nat \ {0} /\ MaxConnPerHost \in Nat \ {0}
    /\ IsFiniteSet(Clients) /\ Cardinality(Clients) >= MaxConn
    /\ NoClient \notin Clients /\ NoHost \notin Hosts

VARIABLES
    mIdleConns, mActiveConns,  \* by host
    mTotalConn,
    pc,         \* where each thread is
    host,       \* the host it asks for or is connected to, if any
    mClient,    \* the client in its ThriftConnection, if any
    overslept   \* history: threads asleep since before some destroy_connection()

vars == <<mIdleConns, mActiveConns, mTotalConn, pc, host, mClient, overslept>>
conns == <<mIdleConns, mActiveConns, mTotalConn>>

Init ==
    /\ mIdleConns = [h \in Hosts |-> <<>>]
    /\ mActiveConns = [h \in Hosts |-> {}]
    /\ mTotalConn = 0
    /\ pc = [t \in Threads |-> "out"]
    /\ host = [t \in Threads |-> NoHost]
    /\ mClient = [t \in Threads |-> NoClient]
    /\ overslept = {}

Idle(h) == Range(mIdleConns[h])
Alive == UNION {Idle(h) \cup mActiveConns[h] : h \in Hosts}
Count(h) == Len(mIdleConns[h]) + Cardinality(mActiveConns[h])

(* Nobody else is inside a call with the mutex held.                         *)
MutexFree == \A t \in Threads : pc[t] # "connecting"
Goto(t, l) == pc' = [pc EXCEPT ![t] = l]
(* The call or the use of the connection ends; p is pc for the others.       *)
Leave(t, p) == pc' = [p EXCEPT ![t] = "out"] /\ host' = [host EXCEPT ![t] = NoHost]
Asleep == {t \in Threads : pc[t] = "waiting"}

-----------------------------------------------------------------------------
(* get_connection().                                                         *)

(* There is room for another connection to host h.                           *)
HasRoom(h) == Count(h) < MaxConnPerHost /\ mTotalConn < MaxConn

(* connIdle.pop_front().                                                     *)
PopFront(s) == Tail(s)

TakeIdle(t) ==
    LET h == host[t]
    IN  /\ mIdleConns[h] # <<>>
        /\ mIdleConns' = [mIdleConns EXCEPT ![h] = PopFront(@)]
        /\ mActiveConns' = [mActiveConns EXCEPT ![h] = @ \cup {Head(mIdleConns[h])}]
        /\ mClient' = [mClient EXCEPT ![t] = Head(mIdleConns[h])]
        /\ Goto(t, "holding") /\ UNCHANGED mTotalConn

(* One turn of the loop, the mutex just acquired: by the call, or by         *)
(* timed_wait() when it returns true.                                        *)
Turn(t) ==
    /\ pc[t] \in {"entering", "woken"} /\ MutexFree
    /\ \/ TakeIdle(t)
       \/ /\ mIdleConns[host[t]] = <<>> /\ HasRoom(host[t])
          /\ Goto(t, "connecting") /\ UNCHANGED <<conns, mClient>>
       \/ /\ mIdleConns[host[t]] = <<>> /\ ~HasRoom(host[t])
          /\ Goto(t, "waiting") /\ UNCHANGED <<conns, mClient>>
    /\ UNCHANGED <<host, overslept>>

Call(t, h) ==
    /\ pc[t] = "out"
    /\ host' = [host EXCEPT ![t] = h] /\ Goto(t, "entering")
    /\ UNCHANGED <<conns, mClient, overslept>>

(* new_client() connects, or throws: then nothing was changed.               *)
Connected(t, c) ==
    /\ pc[t] = "connecting"
    /\ mActiveConns' = [mActiveConns EXCEPT ![host[t]] = @ \cup {c}]
    /\ mTotalConn' = mTotalConn + 1
    /\ mClient' = [mClient EXCEPT ![t] = c]
    /\ Goto(t, "holding") /\ UNCHANGED <<mIdleConns, host, overslept>>
ConnectFails(t) ==
    /\ pc[t] = "connecting"
    /\ Leave(t, pc) /\ UNCHANGED <<conns, mClient, overslept>>

new_client(t) == (\E c \in Clients \ Alive : Connected(t, c)) \/ ConnectFails(t)

(* The end of timed_wait(), before it has the mutex again: by the deadline,  *)
(* or for no reason.  notify_all() is in return_connection().                *)
Expires(t) ==
    /\ pc[t] = "waiting" /\ Goto(t, "late")
    /\ overslept' = overslept \ {t} /\ UNCHANGED <<conns, host, mClient>>
WakesUp(t) ==
    /\ pc[t] = "waiting" /\ Goto(t, "woken")
    /\ overslept' = overslept \ {t} /\ UNCHANGED <<conns, host, mClient>>

(* Mutation: the result of timed_wait() is ignored.                          *)
TimedOutRetries(t) ==
    /\ pc[t] = "late" /\ MutexFree
    /\ Goto(t, "entering") /\ UNCHANGED <<conns, host, mClient, overslept>>
(* After a timeout interf is NULL and the call throws, without another look  *)
(* at the queue.                                                             *)
TimedOut(t) ==
    /\ pc[t] = "late" /\ MutexFree
    /\ Leave(t, pc) /\ UNCHANGED <<conns, mClient, overslept>>

-----------------------------------------------------------------------------
(* Mutation: notify_one(), to a waiter for whichever host.                   *)
NotifiedOne == IF Asleep = {} THEN pc ELSE [pc EXCEPT ![CHOOSE u \in Asleep : TRUE] = "woken"]
(* notify_all().                                                             *)
NotifiedAll == [u \in Threads |-> IF u \in Asleep THEN "woken" ELSE pc[u]]

(* ~ThriftConnection() gives the client back.                                *)
return_connection(t) ==
    LET h == host[t]
    IN  /\ pc[t] = "holding" /\ MutexFree
        /\ mIdleConns' = [mIdleConns EXCEPT ![h] = <<mClient[t]>> \o @]
        /\ mActiveConns' = [mActiveConns EXCEPT ![h] = @ \ {mClient[t]}]
        /\ mClient' = [mClient EXCEPT ![t] = NoClient]
        /\ Leave(t, NotifiedAll) /\ overslept' = {}
        /\ UNCHANGED mTotalConn

(* Mutation: the counter is forgotten.                                       *)
DestroyedNotCounted(n) == n
(* mTotalConn--.                                                             *)
Destroyed(n) == n - 1
(* destroy() after a failure, then ~ThriftConnection(), which finds mClient  *)
(* NULL.  Nobody is notified.                                                *)
destroy_connection(t) ==
    /\ pc[t] = "holding" /\ MutexFree
    /\ mActiveConns' = [mActiveConns EXCEPT ![host[t]] = @ \ {mClient[t]}]
    /\ mTotalConn' = Destroyed(mTotalConn)
    /\ mClient' = [mClient EXCEPT ![t] = NoClient]
    /\ Leave(t, pc) /\ overslept' = overslept \cup Asleep
    /\ UNCHANGED mIdleConns

-----------------------------------------------------------------------------
Next ==
    \E t \in Threads :
        \/ \E h \in Hosts : Call(t, h)
        \/ Turn(t) \/ new_client(t) \/ Expires(t) \/ WakesUp(t) \/ TimedOut(t)
        \/ return_connection(t) \/ destroy_connection(t)

(* A thread that wants the mutex gets it if it is free again and again, a    *)
(* connect ends (mConnTimeoutMs).  The deadline is fixed when the call       *)
(* begins, so that a thread that waits again and again finds it passed: the  *)
(* fairness of Expires is strong.  How long a connection is held is up to    *)
(* its user.                                                                 *)
Fairness ==
    \A t \in Threads :
        /\ SF_vars(Turn(t) \/ TimedOut(t))
        /\ SF_vars(Expires(t)) /\ WF_vars(new_client(t))

Spec == Init /\ [][Next]_vars
FairSpec == Spec /\ Fairness

-----------------------------------------------------------------------------
TypeOK ==
    /\ mIdleConns \in [Hosts -> Seq(Clients)]
    /\ mActiveConns \in [Hosts -> SUBSET Clients]
    /\ mTotalConn \in 0..MaxConn
    /\ pc \in [Threads -> {"out", "entering", "connecting", "waiting", "woken", "late", "holding"}]
    /\ host \in [Threads -> Hosts \cup {NoHost}]
    /\ mClient \in [Threads -> Clients \cup {NoClient}]
    /\ overslept \subseteq Asleep

(* The counter is the number of clients in the maps, through every           *)
(* interleaving of connects, failures, returns and destroys; neither limit   *)
(* is ever exceeded and no client is in two places (get_connection():134-138,*)
(* destroy_connection():191-194).                                            *)
CountsAgree ==
    /\ mTotalConn = Cardinality(Alive)
    /\ \A h \in Hosts :
          /\ Count(h) <= MaxConnPerHost
          /\ Count(h) = Cardinality(Idle(h) \cup mActiveConns[h])
          /\ \A g \in Hosts \ {h} :
                (Idle(h) \cup mActiveConns[h]) \cap (Idle(g) \cup mActiveConns[g]) = {}

(* A client in use is active for the host it was asked for and belongs to    *)
(* one thread; an active client has a user, so none leaks.                   *)
OneUser ==
    /\ \A t \in Threads : (pc[t] = "holding") <=> (mClient[t] # NoClient)
    /\ \A h \in Hosts : \A c \in mActiveConns[h] :
          \E t \in Threads : mClient[t] = c /\ host[t] = h
    /\ \A t, u \in Threads :
          mClient[t] # NoClient => /\ mClient[t] \in mActiveConns[host[t]]
                                   /\ mClient[t] = mClient[u] => t = u

(* No thread sleeps in timed_wait() while an idle connection to its host     *)
(* waits for it, nor while there is room to make one, unless the room came   *)
(* from destroy_connection(), which notifies nobody (:194).                  *)
SleepersHaveReason ==
    \A t \in Asleep :
        /\ mIdleConns[host[t]] = <<>>
        /\ HasRoom(host[t]) => t \in overslept

(* Every get_connection() returns a connection or throws, however long the   *)
(* others keep theirs (the deadline is computed once, at :123).              *)
GetEnds ==
    \A t \in Threads : pc[t] \in {"entering", "waiting", "woken"} ~> pc[t] \in {"holding", "out"}

(* The bookkeeping of get, return and destroy: counters, limits, places of   *)
(* the clients and their users agree.                                        *)
PoolSound == TypeOK /\ CountsAgree /\ OneUser
=============================================================================
