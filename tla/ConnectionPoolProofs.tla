------------------------ MODULE ConnectionPoolProofs ------------------------
(***************************************************************************)
(* Proofs about ConnectionPool for every set of threads and hosts, every   *)
(* finite set of clients and all limits.                                   *)
(***************************************************************************)
EXTENDS ConnectionPool, SequenceTheorems, FiniteSetTheorems, TLAPS

Pcs == {"out", "entering", "connecting", "waiting", "woken", "late", "holding"}
Distinct(s) == \A i, j \in 1..Len(s) : s[i] = s[j] => i = j
Conns(h) == Idle(h) \cup mActiveConns[h]

(* The members and the threads, without what the limits say.                 *)
Typed ==
    /\ mIdleConns \in [Hosts -> Seq(Clients)]
    /\ mActiveConns \in [Hosts -> SUBSET Clients]
    /\ pc \in [Threads -> Pcs]
    /\ host \in [Threads -> Hosts \cup {NoHost}]
    /\ mClient \in [Threads -> Clients \cup {NoClient}]
    /\ overslept \subseteq Asleep

(* A thread inside a call or with a connection has a host.                   *)
HostKnown == \A t \in Threads : pc[t] # "out" => host[t] \in Hosts

(* new_client() runs with the mutex held, so that what get_connection() saw  *)
(* of the queue and the limits still holds when the client is entered.       *)
ConnectingAlone ==
    \A t \in Threads : pc[t] = "connecting" =>
        /\ HasRoom(host[t])
        /\ \A u \in Threads : pc[u] = "connecting" => u = t

(* A client is at most once in one queue, and then not active.               *)
Places ==
    /\ \A h \in Hosts :
          /\ Distinct(mIdleConns[h])
          /\ Len(mIdleConns[h]) = Cardinality(Idle(h))
          /\ Idle(h) \cap mActiveConns[h] = {}
    /\ \A g, h \in Hosts : g # h => Conns(g) \cap Conns(h) = {}

(* The counter and the limits.                                               *)
Limits ==
    /\ mTotalConn = Cardinality(Alive) /\ mTotalConn <= MaxConn
    /\ \A h \in Hosts : Count(h) <= MaxConnPerHost

IInv == Typed /\ HostKnown /\ ConnectingAlone /\ Places /\ Limits /\ OneUser /\ SleepersHaveReason

-----------------------------------------------------------------------------
(* What pop_front() and push_front() do to the clients of a queue.           *)

(* connIdle.pop_front() removes its first client, and only that.             *)
LEMMA PopOne ==
  ASSUME NEW s \in Seq(Clients), s # <<>>, Distinct(s)
  PROVE  /\ PopFront(s) \in Seq(Clients) /\ Head(s) \in Clients
         /\ Head(s) \in Range(s) /\ Range(PopFront(s)) = Range(s) \ {Head(s)}
         /\ Distinct(PopFront(s)) /\ Len(PopFront(s)) = Len(s) - 1
<1> DEFINE r == Tail(s)
<1>1. /\ Head(s) \in Clients /\ r \in Seq(Clients) /\ Len(r) = Len(s) - 1
      /\ \A i \in 1..Len(r) : r[i] = s[i + 1]
      /\ Len(s) \in Nat \ {0} /\ Head(s) = s[1]
      /\ DOMAIN s = 1..Len(s) /\ DOMAIN r = 1..Len(r)
  BY HeadTailProperties, EmptySeq, LenProperties
<1>2. Head(s) \in Range(s)
  BY <1>1 DEF Range
<1> HIDE DEF r
<1>3. Distinct(r)
  BY <1>1 DEF Distinct
<1>4. ASSUME NEW x PROVE x \in Range(r) <=> x \in Range(s) \ {Head(s)}
  <2>1. ASSUME x \in Range(r) PROVE x \in Range(s) \ {Head(s)}
    <3>1. PICK i \in 1..Len(r) : x = r[i]
      BY <1>1, <2>1 DEF Range
    <3>2. x = s[i + 1] /\ i + 1 \in 1..Len(s) /\ i + 1 # 1 /\ 1 \in 1..Len(s)
      BY <1>1, <3>1
    <3> QED
      BY <1>1, <3>2 DEF Range, Distinct
  <2>2. ASSUME x \in Range(s) \ {Head(s)} PROVE x \in Range(r)
    <3>1. PICK i \in 1..Len(s) : x = s[i] /\ i # 1
      BY <1>1, <2>2 DEF Range
    <3>2. i - 1 \in 1..Len(r) /\ r[i - 1] = x
      BY <1>1, <3>1
    <3> QED
      BY <1>1, <3>2 DEF Range
  <2> QED
    BY <2>1, <2>2
<1>5. Range(r) = Range(s) \ {Head(s)}
  BY <1>4
<1> QED
  BY <1>1, <1>2, <1>3, <1>5 DEF PopFront, r

(* connIdle.push_front(c) adds c, and only that.                             *)
LEMMA PushOne ==
  ASSUME NEW s \in Seq(Clients), NEW c \in Clients, c \notin Range(s), Distinct(s)
  PROVE  /\ <<c>> \o s \in Seq(Clients)
         /\ Range(<<c>> \o s) = Range(s) \cup {c}
         /\ Distinct(<<c>> \o s) /\ Len(<<c>> \o s) = Len(s) + 1
<1> DEFINE r == <<c>> \o s
<1>1. <<c>> \in Seq(Clients) /\ Len(<<c>>) = 1 /\ <<c>>[1] = c
  OBVIOUS
<1>2. /\ r \in Seq(Clients) /\ Len(r) = Len(s) + 1 /\ Len(s) \in Nat
      /\ DOMAIN r = 1..Len(r) /\ DOMAIN s = 1..Len(s)
      /\ \A i \in 1..Len(r) : r[i] = IF i = 1 THEN c ELSE s[i - 1]
  BY <1>1, ConcatProperties, LenProperties
<1> HIDE DEF r
<1>3. ASSUME NEW i \in 1..Len(r) PROVE i = 1 \/ (i - 1 \in 1..Len(s) /\ r[i] = s[i - 1])
  BY <1>2
<1>4. \A i \in 1..Len(s) : s[i] # c
  BY <1>2 DEF Range
<1>5. Distinct(r)
  BY <1>2, <1>3, <1>4 DEF Distinct
<1>6. Range(r) \subseteq Range(s) \cup {c}
  BY <1>2, <1>3 DEF Range
<1>7. ASSUME NEW i \in 1..Len(s) PROVE i + 1 \in 1..Len(r) /\ r[i + 1] = s[i]
  BY <1>2
<1>8. Range(s) \subseteq Range(r)
  BY <1>2, <1>7 DEF Range
<1>9. 1 \in DOMAIN r /\ r[1] = c
  BY <1>2
<1>10. c \in Range(r)
  BY <1>9 DEF Range
<1> QED
  BY <1>2, <1>5, <1>6, <1>8, <1>10 DEF r

(* The sets of clients are finite.                                           *)
LEMMA FiniteConns ==
  ASSUME NEW S \in SUBSET Clients
  PROVE  IsFiniteSet(S) /\ Cardinality(S) \in Nat
  BY PoolAssumption, FS_Subset, FS_CardinalityType DEF PoolAssumption

(* One client more.                                                          *)
LEMMA OneMore ==
  ASSUME NEW S \in SUBSET Clients, NEW c \in Clients \ S
  PROVE  Cardinality(S \cup {c}) = Cardinality(S) + 1 /\ Cardinality(S) \in Nat
  BY FiniteConns, FS_AddElement

(* One client less.                                                          *)
LEMMA OneLess ==
  ASSUME NEW S \in SUBSET Clients, NEW c \in S
  PROVE  Cardinality(S \ {c}) = Cardinality(S) - 1 /\ Cardinality(S) \in Nat
  BY FiniteConns, FS_RemoveElement

-----------------------------------------------------------------------------
(* Count() counts.                                                           *)
CountsAreSizes ==
    \A h \in Hosts :
        /\ Idle(h) \in SUBSET Clients /\ Conns(h) \in SUBSET Clients
        /\ Count(h) = Cardinality(Conns(h)) /\ Count(h) \in Nat

(* The clients of the maps are clients, and those of one host are counted by *)
(* Count().                                                                  *)
LEMMA CountIsCardinality == Typed /\ Places => CountsAreSizes
<1> SUFFICES ASSUME Typed, Places, NEW h \in Hosts
             PROVE  /\ Idle(h) \in SUBSET Clients /\ Conns(h) \in SUBSET Clients
                    /\ Count(h) = Cardinality(Conns(h)) /\ Count(h) \in Nat
  BY DEF CountsAreSizes
<1>1. mIdleConns[h] \in Seq(Clients) /\ mActiveConns[h] \in SUBSET Clients
  BY DEF Typed
<1>2. Idle(h) \in SUBSET Clients
  BY <1>1, RangeOfSeq DEF Idle
<1>3. /\ IsFiniteSet(Idle(h)) /\ Cardinality(Idle(h)) \in Nat
      /\ IsFiniteSet(mActiveConns[h]) /\ Cardinality(mActiveConns[h]) \in Nat
  BY <1>1, <1>2, FiniteConns
<1>4. Cardinality(Idle(h) \cap mActiveConns[h]) = 0
  BY FS_EmptySet DEF Places
<1>5. Cardinality(Conns(h)) = Cardinality(Idle(h)) + Cardinality(mActiveConns[h])
  <2>1. Cardinality(Conns(h)) = Cardinality(Idle(h)) + Cardinality(mActiveConns[h])
                                  - Cardinality(Idle(h) \cap mActiveConns[h])
    BY <1>3, FS_Union DEF Conns
  <2> QED
    BY <1>3, <1>4, <2>1
<1> QED
  BY <1>1, <1>2, <1>3, <1>5 DEF Count, Conns, Places

(* The constructor leaves the pool empty.                                    *)
LEMMA PoolInit == Init => IInv
<1> USE PoolAssumption DEF PoolAssumption
<1> SUFFICES ASSUME Init PROVE IInv
  OBVIOUS
<1>1. Typed
  BY DEF Init, Typed, Pcs
<1>2. HostKnown /\ ConnectingAlone /\ OneUser
  BY DEF Init, HostKnown, ConnectingAlone, OneUser
<1>3. \A h \in Hosts : Idle(h) = {} /\ mActiveConns[h] = {} /\ mIdleConns[h] = <<>>
  BY DEF Init, Idle, Range
<1>4. Alive = {}
  BY <1>3 DEF Alive
<1>5. Cardinality({}) = 0
  BY FS_EmptySet
<1>6. Places
  <2>1. \A h \in Hosts : Conns(h) = {} /\ Distinct(mIdleConns[h]) /\ Len(mIdleConns[h]) = 0
    BY <1>3 DEF Distinct, Conns
  <2> QED
    BY <1>3, <1>5, <2>1 DEF Places
<1>7. Limits
  BY <1>3, <1>4, <1>5 DEF Init, Limits, Count
<1>8. SleepersHaveReason
  BY DEF Init, SleepersHaveReason, Asleep
<1> QED
  BY <1>1, <1>2, <1>6, <1>7, <1>8 DEF IInv

(* A step that leaves the maps, the counter and the clients of the threads   *)
(* alone keeps what is said of them.                                         *)
LEMMA ConnsUntouched ==
  ASSUME IInv, UNCHANGED <<conns, mClient>>, Typed',
         \A t \in Threads : mClient[t] # NoClient => host'[t] = host[t],
         \A t \in Threads : (pc[t] = "holding") <=> (pc'[t] = "holding")
  PROVE  Places' /\ Limits' /\ OneUser'
<1> USE DEF conns
<1>1. Places'
  BY DEF IInv, Places, Idle, Conns
<1>2. Limits'
  BY DEF IInv, Limits, Alive, Idle, Count
<1>3. OneUser'
  <2>1. \A h \in Hosts : \A c \in mActiveConns[h] : c # NoClient
    BY PoolAssumption DEF PoolAssumption, IInv, Typed
  <2> QED
    BY <2>1 DEF IInv, OneUser
<1> QED
  BY <1>1, <1>2, <1>3

(* get_connection() takes an idle client.                                    *)
LEMMA TakeIdleStep ==
  ASSUME IInv, NEW t \in Threads, Turn(t), TakeIdle(t)
  PROVE  IInv'
<1>h. PICK h \in Hosts : h = host[t]
  BY DEF Turn, IInv, HostKnown
<1>c. PICK c : c = Head(mIdleConns[h])
  OBVIOUS
<1>0. /\ pc[t] \in {"entering", "woken"} /\ MutexFree
      /\ UNCHANGED <<mTotalConn, host, overslept>>
      /\ mIdleConns[h] # <<>>
      /\ mIdleConns[h] \in Seq(Clients) /\ Distinct(mIdleConns[h])
      /\ mActiveConns[h] \in SUBSET Clients
  BY <1>h DEF Turn, TakeIdle, IInv, Places, Typed
<1>1. /\ mIdleConns' = [mIdleConns EXCEPT ![h] = PopFront(mIdleConns[h])]
      /\ mActiveConns' = [mActiveConns EXCEPT ![h] = mActiveConns[h] \cup {c}]
      /\ mClient' = [mClient EXCEPT ![t] = c]
      /\ pc' = [pc EXCEPT ![t] = "holding"]
  BY <1>h, <1>c DEF TakeIdle, Goto
<1>2. /\ PopFront(mIdleConns[h]) \in Seq(Clients) /\ c \in Clients /\ c \in Idle(h)
      /\ Range(PopFront(mIdleConns[h])) = Idle(h) \ {c}
      /\ Distinct(PopFront(mIdleConns[h]))
      /\ Len(PopFront(mIdleConns[h])) = Len(mIdleConns[h]) - 1
  BY <1>0, <1>c, PopOne DEF Idle
<1>3. Typed'
  BY <1>0, <1>1, <1>2 DEF IInv, Typed, Pcs, Asleep
<1>4. HostKnown' /\ ConnectingAlone'
  BY <1>0, <1>1 DEF IInv, Typed, HostKnown, ConnectingAlone, MutexFree
<1>5. /\ Idle(h)' = Idle(h) \ {c} /\ mActiveConns'[h] = mActiveConns[h] \cup {c}
      /\ \A g \in Hosts \ {h} : /\ Idle(g)' = Idle(g) /\ mActiveConns'[g] = mActiveConns[g]
                                /\ mIdleConns'[g] = mIdleConns[g]
  BY <1>0, <1>1, <1>2 DEF IInv, Typed, Idle
<1>6. \A g \in Hosts : Conns(g)' = Conns(g)
  BY <1>2, <1>5 DEF Conns
<1>7. c \notin mActiveConns[h] /\ \A g \in Hosts \ {h} : c \notin Conns(g)
  BY <1>0, <1>2 DEF IInv, Places, Conns
<1>8. /\ Len(mIdleConns'[h]) = Cardinality(Idle(h)') /\ Distinct(mIdleConns'[h])
      /\ Idle(h)' \cap mActiveConns'[h] = {}
  <2>1. Cardinality(Idle(h) \ {c}) = Cardinality(Idle(h)) - 1 /\ Cardinality(Idle(h)) \in Nat
    BY <1>2, OneLess, CountIsCardinality DEF IInv, CountsAreSizes
  <2>2. mIdleConns'[h] = PopFront(mIdleConns[h])
    BY <1>0, <1>1 DEF IInv, Typed
  <2> QED
    BY <1>0, <1>2, <1>5, <1>7, <2>1, <2>2 DEF IInv, Places
<1>9. Places'
  BY <1>5, <1>6, <1>8 DEF IInv, Places
<1>10. \A g \in Hosts : Count(g)' = Count(g)
  <2>1. CountsAreSizes'
    BY <1>3, <1>9, CountIsCardinality, PTL
  <2> QED
    BY <2>1, <1>6, CountIsCardinality DEF IInv, CountsAreSizes
<1>11. Alive' = Alive
  BY <1>6 DEF Alive, Conns
<1>12. Limits'
  BY <1>0, <1>10, <1>11 DEF IInv, Limits
<1>13. OneUser'
  <2>1. /\ c # NoClient /\ mClient'[t] = c /\ mClient[t] = NoClient
        /\ \A u \in Threads \ {t} : mClient'[u] = mClient[u] /\ pc'[u] = pc[u]
        /\ pc'[t] = "holding"
    BY <1>0, <1>1, <1>2, PoolAssumption DEF IInv, Typed, OneUser, PoolAssumption
  <2>2. \A u \in Threads : mClient[u] # NoClient => host[u] \in Hosts /\ mClient[u] \in mActiveConns[host[u]]
    BY DEF IInv, OneUser, HostKnown
  <2>3. \A u \in Threads \ {t} : mClient[u] # c
    BY <1>7, <2>1, <2>2 DEF Conns
  <2>4. \A u \in Threads : (pc'[u] = "holding") <=> (mClient'[u] # NoClient)
    BY <2>1 DEF IInv, OneUser
  <2>5. \A g \in Hosts : \A d \in mActiveConns'[g] :
            \E u \in Threads : mClient'[u] = d /\ host[u] = g
    <3> TAKE g \in Hosts
    <3> TAKE d \in mActiveConns'[g]
    <3>1. CASE d = c /\ g = h
      BY <3>1, <2>1, <1>h
    <3>2. CASE ~(d = c /\ g = h)
      <4>1. d \in mActiveConns[g] /\ d # NoClient
        BY <3>2, <1>5, PoolAssumption DEF IInv, Typed, PoolAssumption
      <4>2. PICK u \in Threads : mClient[u] = d /\ host[u] = g
        BY <4>1 DEF IInv, OneUser
      <4> QED
        BY <4>1, <4>2, <2>1
    <3> QED
      BY <3>1, <3>2
  <2>6. \A u \in Threads : mClient'[u] # NoClient => mClient'[u] \in mActiveConns'[host[u]]
    BY <1>h, <1>5, <2>1, <2>2
  <2>7. \A u, v \in Threads : mClient'[u] # NoClient /\ mClient'[u] = mClient'[v] => u = v
    BY <2>1, <2>3 DEF IInv, OneUser
  <2> QED
    BY <1>0, <2>4, <2>5, <2>6, <2>7 DEF OneUser
<1>14. SleepersHaveReason'
  <2>1. Asleep' = Asleep
    BY <1>0, <1>1 DEF IInv, Typed, Asleep
  <2>2. ASSUME NEW u \in Asleep PROVE mIdleConns'[host[u]] = <<>> /\ (HasRoom(host[u])' => u \in overslept)
    <3>1. host[u] \in Hosts /\ host[u] # h
      BY <1>0 DEF IInv, SleepersHaveReason, Asleep, HostKnown
    <3> QED
      BY <1>0, <1>5, <1>10, <3>1 DEF IInv, SleepersHaveReason, HasRoom
  <2> QED
    BY <1>0, <2>1, <2>2 DEF SleepersHaveReason
<1> QED
  BY <1>3, <1>4, <1>9, <1>12, <1>13, <1>14 DEF IInv

(* new_client() has connected, with the mutex held since get_connection()    *)
(* found room.                                                               *)
LEMMA ConnectedStep ==
  ASSUME IInv, NEW t \in Threads, NEW c \in Clients \ Alive, Connected(t, c)
  PROVE  IInv'
<1>0. PICK h \in Hosts : h = host[t]
  BY DEF Connected, IInv, HostKnown
<1>1. /\ pc[t] = "connecting" /\ UNCHANGED <<mIdleConns, host, overslept>>
      /\ mActiveConns' = [mActiveConns EXCEPT ![h] = mActiveConns[h] \cup {c}]
      /\ mTotalConn' = mTotalConn + 1
      /\ mClient' = [mClient EXCEPT ![t] = c]
      /\ pc' = [pc EXCEPT ![t] = "holding"]
  BY <1>0 DEF Connected, Goto
<1>2. \A g \in Hosts : c \notin Conns(g) /\ c \notin mActiveConns[g]
  BY DEF Alive, Conns
<1>3. Typed'
  BY <1>1 DEF IInv, Typed, Pcs, Asleep
<1>4. HostKnown' /\ ConnectingAlone'
  BY <1>1 DEF IInv, Typed, HostKnown, ConnectingAlone
<1>5. /\ mActiveConns'[h] = mActiveConns[h] \cup {c}
      /\ \A g \in Hosts \ {h} : mActiveConns'[g] = mActiveConns[g]
      /\ \A g \in Hosts : Idle(g)' = Idle(g)
  BY <1>1 DEF IInv, Typed, Idle
<1>6. /\ Conns(h)' = Conns(h) \cup {c}
      /\ \A g \in Hosts \ {h} : Conns(g)' = Conns(g)
  BY <1>5 DEF Conns
<1>7. Places'
  <2>1. \A g, k \in Hosts : g # k => Conns(g)' \cap Conns(k)' = {}
    BY <1>2, <1>6 DEF IInv, Places
  <2>2. \A g \in Hosts : Idle(g)' \cap mActiveConns'[g] = {}
    BY <1>2, <1>5 DEF IInv, Places, Conns
  <2> QED
    BY <1>1, <1>5, <2>1, <2>2 DEF IInv, Places
<1>8. /\ Count(h)' = Count(h) + 1 /\ Count(h) \in Nat
      /\ \A g \in Hosts \ {h} : Count(g)' = Count(g)
  <2>1. CountsAreSizes' /\ CountsAreSizes
    BY <1>3, <1>7, CountIsCardinality, PTL DEF IInv
  <2> QED
    BY <1>2, <1>6, <2>1, OneMore DEF CountsAreSizes
<1>9. Alive \in SUBSET Clients /\ Alive' = Alive \cup {c}
  <2>1. CountsAreSizes
    BY CountIsCardinality DEF IInv
  <2> QED
    BY <1>6, <2>1 DEF Alive, Conns, CountsAreSizes
<1>10. HasRoom(h)
  BY <1>0, <1>1 DEF IInv, ConnectingAlone
<1>11. Limits'
  <2>1. Cardinality(Alive') = Cardinality(Alive) + 1 /\ Cardinality(Alive) \in Nat
    BY <1>9, OneMore
  <2> QED
    BY <1>1, <1>8, <1>10, <2>1, PoolAssumption DEF IInv, Limits, HasRoom, PoolAssumption
<1>12. OneUser'
  <2>1. /\ c # NoClient /\ mClient'[t] = c /\ mClient[t] = NoClient
        /\ \A u \in Threads \ {t} : mClient'[u] = mClient[u] /\ pc'[u] = pc[u]
        /\ pc'[t] = "holding"
    BY <1>1, PoolAssumption DEF IInv, Typed, OneUser, PoolAssumption
  <2>2. \A u \in Threads : mClient[u] # NoClient => host[u] \in Hosts /\ mClient[u] \in mActiveConns[host[u]]
    BY DEF IInv, OneUser, HostKnown
  <2>3. \A u \in Threads \ {t} : mClient[u] # c
    BY <1>2, <2>1, <2>2
  <2>4. \A u \in Threads : (pc'[u] = "holding") <=> (mClient'[u] # NoClient)
    BY <2>1 DEF IInv, OneUser
  <2>5. \A g \in Hosts : \A d \in mActiveConns'[g] :
            \E u \in Threads : mClient'[u] = d /\ host[u] = g
    <3> TAKE g \in Hosts
    <3> TAKE d \in mActiveConns'[g]
    <3>1. CASE d = c /\ g = h
      BY <3>1, <2>1, <1>0
    <3>2. CASE ~(d = c /\ g = h)
      <4>1. d \in mActiveConns[g] /\ d # NoClient
        BY <3>2, <1>5, PoolAssumption DEF IInv, Typed, PoolAssumption
      <4>2. PICK u \in Threads : mClient[u] = d /\ host[u] = g
        BY <4>1 DEF IInv, OneUser
      <4> QED
        BY <4>1, <4>2, <2>1
    <3> QED
      BY <3>1, <3>2
  <2>6. \A u \in Threads : mClient'[u] # NoClient => mClient'[u] \in mActiveConns'[host[u]]
    BY <1>0, <1>5, <2>1, <2>2
  <2>7. \A u, v \in Threads : mClient'[u] # NoClient /\ mClient'[u] = mClient'[v] => u = v
    BY <2>1, <2>3 DEF IInv, OneUser
  <2> QED
    BY <1>1, <2>4, <2>5, <2>6, <2>7 DEF OneUser
<1>13. SleepersHaveReason'
  <2>1. Asleep' = Asleep /\ \A u \in Asleep : host[u] \in Hosts
    BY <1>1 DEF IInv, Typed, Asleep, HostKnown
  <2>2. \A g \in Hosts : HasRoom(g)' => HasRoom(g)
    BY <1>1, <1>8, <1>9, FiniteConns, PoolAssumption DEF IInv, Limits, HasRoom, PoolAssumption
  <2> QED
    BY <1>1, <2>1, <2>2 DEF IInv, SleepersHaveReason
<1> QED
  BY <1>3, <1>4, <1>7, <1>11, <1>12, <1>13 DEF IInv

(* The end of a use: the client of t is active for t's host only, and t      *)
(* leaves it to nobody else.                                                 *)
LEMMA UseEnds ==
  ASSUME IInv, NEW t \in Threads, pc[t] = "holding", NEW h \in Hosts, h = host[t],
         NEW c, c = mClient[t], mActiveConns'[h] = mActiveConns[h] \ {c},
         \A g \in Hosts \ {h} : mActiveConns'[g] = mActiveConns[g],
         mClient'[t] = NoClient, pc'[t] = "out",
         \A u \in Threads \ {t} : /\ mClient'[u] = mClient[u] /\ host'[u] = host[u]
                                  /\ (pc'[u] = "holding") <=> (pc[u] = "holding")
  PROVE  /\ c \in mActiveConns[h] /\ c \in Clients /\ OneUser'
         /\ c \notin Idle(h) /\ \A g \in Hosts \ {h} : c \notin Conns(g)
<1>1. c \in mActiveConns[h] /\ c \in Clients /\ c # NoClient
  BY PoolAssumption DEF IInv, OneUser, Typed, PoolAssumption
<1>2. /\ mActiveConns'[h] = mActiveConns[h] \ {c}
      /\ \A g \in Hosts \ {h} : mActiveConns'[g] = mActiveConns[g] /\ c \notin Conns(g)
      /\ c \notin Idle(h)
  BY <1>1 DEF IInv, Typed, Places, Conns
<1>3. /\ mClient'[t] = NoClient /\ pc'[t] = "out"
      /\ \A u \in Threads \ {t} : mClient'[u] = mClient[u] /\ host'[u] = host[u]
  BY DEF IInv, Typed
<1>4. \A u \in Threads \ {t} : mClient[u] # c
  BY <1>1 DEF IInv, OneUser
<1>5. OneUser'
  <2>1. \A u \in Threads : (pc'[u] = "holding") <=> (mClient'[u] # NoClient)
    BY <1>3 DEF IInv, OneUser
  <2>2. \A g \in Hosts : \A d \in mActiveConns'[g] :
            \E u \in Threads : mClient'[u] = d /\ host'[u] = g
    <3> TAKE g \in Hosts
    <3> TAKE d \in mActiveConns'[g]
    <3>1. d \in mActiveConns[g] /\ d # c
      BY <1>2 DEF Conns
    <3>2. PICK u \in Threads : mClient[u] = d /\ host[u] = g
      BY <3>1 DEF IInv, OneUser
    <3> QED
      BY <1>3, <3>1, <3>2
  <2>3. \A u \in Threads : mClient'[u] # NoClient => mClient'[u] \in mActiveConns'[host'[u]]
    <3> SUFFICES ASSUME NEW u \in Threads, mClient'[u] # NoClient
                 PROVE  mClient'[u] \in mActiveConns'[host'[u]]
      OBVIOUS
    <3>1. u # t /\ mClient'[u] = mClient[u] /\ host'[u] = host[u]
      BY <1>3
    <3>2. host[u] \in Hosts /\ mClient[u] \in mActiveConns[host[u]] /\ mClient[u] # c
      BY <1>4, <3>1 DEF IInv, OneUser, HostKnown
    <3> QED
      BY <1>2, <3>1, <3>2
  <2>4. \A u, v \in Threads : mClient'[u] # NoClient /\ mClient'[u] = mClient'[v] => u = v
    BY <1>3 DEF IInv, OneUser
  <2> QED
    BY <2>1, <2>2, <2>3, <2>4 DEF OneUser
<1> QED
  BY <1>1, <1>2, <1>5

(* ~ThriftConnection() puts the client at the front of its host's queue.     *)
LEMMA ReturnStep ==
  ASSUME IInv, NEW t \in Threads, return_connection(t)
  PROVE  IInv'
<1>h. PICK h \in Hosts : h = host[t]
  BY DEF return_connection, IInv, HostKnown
<1>c. PICK c : c = mClient[t]
  OBVIOUS
<1>0. /\ pc[t] = "holding" /\ MutexFree
      /\ mIdleConns[h] \in Seq(Clients) /\ Distinct(mIdleConns[h])
      /\ NotifiedAll \in [Threads -> Pcs]
      /\ \A u \in Threads : (NotifiedAll[u] = "holding") <=> (pc[u] = "holding")
      /\ \A u \in Threads : NotifiedAll[u] # "waiting" /\ NotifiedAll[u] # "connecting"
  BY DEF return_connection, IInv, Typed, Places, NotifiedAll, Asleep, Pcs, MutexFree
<1>1. /\ mIdleConns' = [mIdleConns EXCEPT ![h] = <<c>> \o mIdleConns[h]]
      /\ mActiveConns' = [mActiveConns EXCEPT ![h] = mActiveConns[h] \ {c}]
      /\ mClient' = [mClient EXCEPT ![t] = NoClient]
      /\ pc' = [NotifiedAll EXCEPT ![t] = "out"] /\ host' = [host EXCEPT ![t] = NoHost]
      /\ overslept' = {} /\ UNCHANGED mTotalConn
  BY <1>h, <1>c DEF return_connection, Leave
<1>2. /\ mActiveConns'[h] = mActiveConns[h] \ {c}
      /\ \A g \in Hosts \ {h} : mActiveConns'[g] = mActiveConns[g]
      /\ c \in mActiveConns[h] /\ c \in Clients /\ OneUser'
      /\ c \notin Idle(h) /\ \A g \in Hosts \ {h} : c \notin Conns(g)
  <2>1. /\ mActiveConns'[h] = mActiveConns[h] \ {c}
        /\ \A g \in Hosts \ {h} : mActiveConns'[g] = mActiveConns[g]
        /\ mClient'[t] = NoClient /\ pc'[t] = "out"
        /\ \A u \in Threads \ {t} : /\ mClient'[u] = mClient[u] /\ host'[u] = host[u]
                                    /\ (pc'[u] = "holding") <=> (pc[u] = "holding")
    BY <1>0, <1>1 DEF IInv, Typed
  <2> QED
    BY <1>h, <1>c, <1>0, <1>1, <2>1, UseEnds
<1>3. /\ <<c>> \o mIdleConns[h] \in Seq(Clients)
      /\ Range(<<c>> \o mIdleConns[h]) = Idle(h) \cup {c}
      /\ Distinct(<<c>> \o mIdleConns[h])
      /\ Len(<<c>> \o mIdleConns[h]) = Len(mIdleConns[h]) + 1
  BY <1>0, <1>2, PushOne DEF Idle
<1>4. Asleep' = {}
  BY <1>0, <1>1 DEF Asleep
<1>5. Typed'
  BY <1>0, <1>1, <1>2, <1>3, <1>4 DEF IInv, Typed, Pcs
<1>6. HostKnown' /\ ConnectingAlone' /\ SleepersHaveReason'
  <2>1. HostKnown'
    BY <1>0, <1>1 DEF IInv, Typed, HostKnown, NotifiedAll, Asleep
  <2>2. ConnectingAlone'
    BY <1>0, <1>1 DEF ConnectingAlone
  <2> QED
    BY <2>1, <2>2, <1>4 DEF SleepersHaveReason
<1>7. /\ Idle(h)' = Idle(h) \cup {c}
      /\ \A g \in Hosts \ {h} : Idle(g)' = Idle(g) /\ mIdleConns'[g] = mIdleConns[g]
      /\ mIdleConns'[h] = <<c>> \o mIdleConns[h]
  BY <1>1, <1>3 DEF IInv, Typed, Idle
<1>8. \A g \in Hosts : Conns(g)' = Conns(g)
  BY <1>2, <1>7 DEF Conns
<1>9. Places'
  <2>1. Cardinality(Idle(h) \cup {c}) = Cardinality(Idle(h)) + 1
    BY <1>2, OneMore, CountIsCardinality DEF IInv, CountsAreSizes
  <2>2. /\ Len(mIdleConns'[h]) = Cardinality(Idle(h)') /\ Distinct(mIdleConns'[h])
        /\ Idle(h)' \cap mActiveConns'[h] = {}
    BY <1>2, <1>3, <1>7, <2>1 DEF IInv, Places
  <2> QED
    BY <1>2, <1>7, <1>8, <2>2 DEF IInv, Places
<1>10. Limits'
  <2>1. CountsAreSizes' /\ CountsAreSizes
    BY <1>5, <1>9, CountIsCardinality, PTL DEF IInv
  <2>2. Alive' = Alive
    BY <1>8 DEF Alive, Conns
  <2> QED
    BY <1>1, <1>8, <2>1, <2>2 DEF IInv, Limits, CountsAreSizes
<1> QED
  BY <1>2, <1>5, <1>6, <1>9, <1>10 DEF IInv

(* destroy() drops the client and tells nobody.                              *)
LEMMA DestroyStep ==
  ASSUME IInv, NEW t \in Threads, destroy_connection(t)
  PROVE  IInv'
<1>h. PICK h \in Hosts : h = host[t]
  BY DEF destroy_connection, IInv, HostKnown
<1>c. PICK c : c = mClient[t]
  OBVIOUS
<1>1. /\ pc[t] = "holding" /\ MutexFree /\ UNCHANGED mIdleConns
      /\ mActiveConns' = [mActiveConns EXCEPT ![h] = mActiveConns[h] \ {c}]
      /\ mTotalConn' = mTotalConn - 1
      /\ mClient' = [mClient EXCEPT ![t] = NoClient]
      /\ pc' = [pc EXCEPT ![t] = "out"] /\ host' = [host EXCEPT ![t] = NoHost]
      /\ overslept' = overslept \cup Asleep
  BY <1>h, <1>c DEF destroy_connection, Leave, Destroyed
<1>2. /\ mActiveConns'[h] = mActiveConns[h] \ {c}
      /\ \A g \in Hosts \ {h} : mActiveConns'[g] = mActiveConns[g]
      /\ c \in mActiveConns[h] /\ c \in Clients /\ OneUser'
      /\ c \notin Idle(h) /\ \A g \in Hosts \ {h} : c \notin Conns(g)
  <2>1. /\ mActiveConns'[h] = mActiveConns[h] \ {c}
        /\ \A g \in Hosts \ {h} : mActiveConns'[g] = mActiveConns[g]
        /\ mClient'[t] = NoClient /\ pc'[t] = "out"
        /\ \A u \in Threads \ {t} : /\ mClient'[u] = mClient[u] /\ host'[u] = host[u]
                                    /\ (pc'[u] = "holding") <=> (pc[u] = "holding")
    BY <1>1 DEF IInv, Typed
  <2> QED
    BY <1>h, <1>c, <1>1, <2>1, UseEnds
<1>3. Asleep' = Asleep /\ \A u \in Asleep : u # t /\ host'[u] = host[u]
  BY <1>1 DEF IInv, Typed, Asleep
<1>4. Typed'
  BY <1>1, <1>2, <1>3 DEF IInv, Typed, Pcs
<1>5. HostKnown' /\ ConnectingAlone'
  BY <1>1 DEF IInv, Typed, HostKnown, ConnectingAlone, MutexFree
<1>6. SleepersHaveReason'
  BY <1>1, <1>3 DEF IInv, SleepersHaveReason
<1>7. /\ \A g \in Hosts : Idle(g)' = Idle(g)
      /\ Conns(h)' = Conns(h) \ {c} /\ c \in Conns(h)
      /\ \A g \in Hosts \ {h} : Conns(g)' = Conns(g) \ {c}
  BY <1>1, <1>2 DEF Idle, Conns
<1>8. Places'
  BY <1>1, <1>2, <1>7 DEF IInv, Places
<1>9. /\ CountsAreSizes' /\ CountsAreSizes
      /\ \A g \in Hosts : Count(g)' <= Count(g)
  <2>1. CountsAreSizes' /\ CountsAreSizes
    BY <1>4, <1>8, CountIsCardinality, PTL DEF IInv
  <2>2. \A g \in Hosts : Cardinality(Conns(g)') <= Cardinality(Conns(g))
    BY <1>7, <2>1, FiniteConns, FS_Subset DEF CountsAreSizes
  <2> QED
    BY <2>1, <2>2 DEF CountsAreSizes
<1>10. Limits'
  <2>1. Alive' = Alive \ {c} /\ c \in Alive /\ Alive \in SUBSET Clients
    <3>1. Alive = UNION {Conns(g) : g \in Hosts} /\ Alive' = UNION {Conns(g)' : g \in Hosts}
      BY DEF Alive, Conns
    <3>2. \A g \in Hosts : Conns(g)' = Conns(g) \ {c} /\ Conns(g) \in SUBSET Clients
      BY <1>7, <1>9 DEF CountsAreSizes
    <3> QED
      BY <1>7, <3>1, <3>2
  <2>2. Cardinality(Alive') = Cardinality(Alive) - 1 /\ Cardinality(Alive) \in Nat
    BY <2>1, OneLess
  <2> QED
    BY <1>1, <1>9, <2>2, PoolAssumption DEF IInv, Limits, CountsAreSizes, PoolAssumption
<1> QED
  BY <1>2, <1>4, <1>5, <1>6, <1>8, <1>10 DEF IInv

-----------------------------------------------------------------------------
(* Threads that get, lose, return and destroy connections keep the maps, the *)
(* counter, the limits and each other's clients consistent; and nobody goes  *)
(* to sleep, or stays asleep, next to a connection that he could have, but   *)
(* for what destroy_connection() tells nobody.                               *)
THEOREM PoolInvariant == Spec => []IInv
<1>1. Init => IInv
  BY PoolInit
<1>2. IInv /\ [Next]_vars => IInv'
  <2> SUFFICES ASSUME IInv, [Next]_vars PROVE IInv'
    OBVIOUS
  <2>0. /\ Typed /\ HostKnown /\ ConnectingAlone /\ SleepersHaveReason
        /\ \A t \in Threads : (pc[t] = "holding") <=> (mClient[t] # NoClient)
    BY DEF IInv, OneUser
  <2>1. ASSUME NEW t \in Threads, NEW h \in Hosts, Call(t, h) PROVE IInv'
    <3>1. Typed' /\ HostKnown' /\ ConnectingAlone' /\ SleepersHaveReason'
      BY <2>0, <2>1 DEF Call, Goto, conns, Typed, Pcs, Asleep, HostKnown, ConnectingAlone, SleepersHaveReason, HasRoom, Count
    <3>2. Places' /\ Limits' /\ OneUser'
      BY <2>0, <2>1, <3>1, ConnsUntouched DEF Call, Goto, Typed
    <3> QED
      BY <3>1, <3>2 DEF IInv
  <2>2. ASSUME NEW t \in Threads, Turn(t) PROVE IInv'
    <3>1. CASE TakeIdle(t)
      BY <2>2, <3>1, TakeIdleStep
    <3>2. CASE ~TakeIdle(t)
      <4>1. /\ pc[t] \in {"entering", "woken"} /\ MutexFree
            /\ UNCHANGED <<conns, mClient, host, overslept>>
            /\ mIdleConns[host[t]] = <<>>
            /\ \/ HasRoom(host[t]) /\ pc' = [pc EXCEPT ![t] = "connecting"]
               \/ ~HasRoom(host[t]) /\ pc' = [pc EXCEPT ![t] = "waiting"]
        BY <2>2, <3>2 DEF Turn, Goto
      <4>2. Typed' /\ HostKnown'
        BY <2>0, <4>1 DEF conns, Typed, Pcs, Asleep, HostKnown
      <4>3. ConnectingAlone'
        BY <2>0, <4>1 DEF conns, Typed, ConnectingAlone, MutexFree, HasRoom, Count
      <4>4. SleepersHaveReason'
        BY <2>0, <4>1 DEF conns, Typed, SleepersHaveReason, Asleep, HasRoom, Count
      <4>5. Places' /\ Limits' /\ OneUser'
        BY <2>0, <4>1, <4>2, ConnsUntouched DEF Typed
      <4> QED
        BY <4>2, <4>3, <4>4, <4>5 DEF IInv
    <3> QED
      BY <3>1, <3>2
  <2>3. ASSUME NEW t \in Threads, new_client(t) PROVE IInv'
    <3>1. CASE ConnectFails(t)
      <4>1. Typed' /\ HostKnown' /\ ConnectingAlone' /\ SleepersHaveReason'
        BY <2>0, <3>1 DEF ConnectFails, Leave, conns, Typed, Pcs, Asleep, HostKnown, ConnectingAlone, SleepersHaveReason, HasRoom, Count
      <4>2. Places' /\ Limits' /\ OneUser'
        BY <2>0, <3>1, <4>1, ConnsUntouched DEF ConnectFails, Leave, Typed
      <4> QED
        BY <4>1, <4>2 DEF IInv
    <3> QED
      BY <2>3, <3>1, ConnectedStep DEF new_client
  <2>4. ASSUME NEW t \in Threads, Expires(t) \/ WakesUp(t) PROVE IInv'
    <3>0. /\ UNCHANGED <<conns, host, mClient>> /\ overslept' = overslept \ {t}
          /\ pc[t] = "waiting" /\ \E l \in {"late", "woken"} : pc' = [pc EXCEPT ![t] = l]
      BY <2>4 DEF Expires, WakesUp, Goto
    <3>a. Typed' /\ Asleep' = Asleep \ {t}
      BY <2>0, <3>0 DEF conns, Typed, Pcs, Asleep
    <3>b. HostKnown' /\ ConnectingAlone'
      BY <2>0, <3>0 DEF conns, Typed, HostKnown, ConnectingAlone, HasRoom, Count
    <3>1. Typed' /\ HostKnown' /\ ConnectingAlone' /\ SleepersHaveReason'
      BY <2>0, <3>0, <3>a, <3>b DEF conns, SleepersHaveReason, HasRoom, Count
    <3>2. Places' /\ Limits' /\ OneUser'
      BY <2>0, <2>4, <3>1, ConnsUntouched DEF Expires, WakesUp, Goto, Typed
    <3> QED
      BY <3>1, <3>2 DEF IInv
  <2>5. ASSUME NEW t \in Threads, TimedOut(t) PROVE IInv'
    <3>1. Typed' /\ HostKnown' /\ ConnectingAlone' /\ SleepersHaveReason'
      BY <2>0, <2>5 DEF TimedOut, Leave, conns, Typed, Pcs, Asleep, HostKnown, ConnectingAlone, SleepersHaveReason, HasRoom, Count
    <3>2. Places' /\ Limits' /\ OneUser'
      BY <2>0, <2>5, <3>1, ConnsUntouched DEF TimedOut, Leave, Typed
    <3> QED
      BY <3>1, <3>2 DEF IInv
  <2>6. ASSUME NEW t \in Threads, return_connection(t) \/ destroy_connection(t) PROVE IInv'
    BY <2>6, ReturnStep, DestroyStep
  <2>7. CASE UNCHANGED vars
    <3>1. Typed' /\ HostKnown' /\ ConnectingAlone' /\ SleepersHaveReason'
      BY <2>0, <2>7 DEF vars, Typed, Asleep, HostKnown, ConnectingAlone, SleepersHaveReason, HasRoom, Count
    <3>2. Places' /\ Limits' /\ OneUser'
      BY <2>7, <3>1, ConnsUntouched DEF vars, conns
    <3> QED
      BY <3>1, <3>2 DEF IInv
  <2> QED
    BY <2>1, <2>2, <2>3, <2>4, <2>5, <2>6, <2>7 DEF Next
<1> QED
  BY <1>1, <1>2, PTL DEF Spec

(* The bookkeeping of the pool: mTotalConn is the number of clients in the   *)
(* maps, no limit is exceeded, no client is in two places or has two users,  *)
(* and no active client is without one.                                      *)
THEOREM BookkeepingSound == Spec => []PoolSound
<1>1. IInv => PoolSound
  <2> SUFFICES ASSUME IInv PROVE PoolSound
    OBVIOUS
  <2>1. CountsAreSizes
    BY CountIsCardinality DEF IInv
  <2>2. Cardinality(Alive) \in Nat
    BY <2>1, FiniteConns DEF Alive, Conns, CountsAreSizes
  <2>3. TypeOK
    BY <2>2, PoolAssumption DEF IInv, Typed, Limits, TypeOK, Pcs, PoolAssumption
  <2>4. CountsAgree
    BY <2>1 DEF IInv, Limits, Places, CountsAgree, CountsAreSizes, Conns
  <2> QED
    BY <2>3, <2>4 DEF IInv, PoolSound
<1> QED
  BY <1>1, PoolInvariant, PTL

(* No thread sleeps in timed_wait() next to an idle connection to its host,  *)
(* nor next to room for one, unless destroy_connection() made the room.      *)
THEOREM SleepersAreRight == Spec => []SleepersHaveReason
<1>1. IInv => SleepersHaveReason
  BY DEF IInv
<1> QED
  BY <1>1, PoolInvariant, PTL

=============================================================================
