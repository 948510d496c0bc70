--------------------------- MODULE IoThreadProofs ---------------------------
(***************************************************************************)
(* Proofs about IoThread for every number of IO threads, connections and   *)
(* ClientCtx objects, and every size of the socketpair and of what is read *)
(* from it at a time.                                                      *)
(***************************************************************************)
EXTENDS IoThread, SequenceTheorems, FiniteSetTheorems, TLAPS

(* TypeOK, and that the two families of sequences are functions.             *)
Typed ==
    /\ TypeOK
    /\ connQueue \in [IoThreads -> Seq(Conns)] /\ idleCtxs \in [IoThreads -> Seq(Ctxs)]

(* What is in a place belongs there: a queued connection was given to that   *)
(* thread, is there once, and is in no other place; so is the one in hand.   *)
QueuedHere(t, c) == \E i \in 1..Len(connQueue[t]) : connQueue[t][i] = c
InQueues ==
    \A t \in IoThreads :
        /\ \A i \in 1..Len(connQueue[t]) :
              /\ target[connQueue[t][i]] = t /\ status[connQueue[t][i]] = "waiting"
              /\ creating[t] # connQueue[t][i]
        /\ \A i, j \in 1..Len(connQueue[t]) : connQueue[t][i] = connQueue[t][j] => i = j
InHand ==
    \A t \in IoThreads :
        creating[t] # None => target[creating[t]] = t /\ status[creating[t]] = "waiting"

(* A ctx serves an open connection of its thread, which no other ctx serves. *)
InService ==
    \A t \in IoThreads, x \in Ctxs :
        InUse(t, x) => /\ target[serving[t][x]] = t /\ status[serving[t][x]] = "open"
                       /\ x <= made[t]
                       /\ \A y \in Ctxs : serving[t][x] = serving[t][y] => x = y

(* What is not closed is in some place.                                      *)
Somewhere ==
    \A c \in Conns :
        /\ status[c] = "waiting" =>
              target[c] \in IoThreads /\ (creating[target[c]] = c \/ QueuedHere(target[c], c))
        /\ status[c] = "open" =>
              target[c] \in IoThreads /\ \E x \in Ctxs : serving[target[c]][x] = c
        /\ c > accepted => target[c] = NoThread

(* Idle ctxs were made, are idle once and serve nobody.                      *)
Idle ==
    \A t \in IoThreads :
        /\ \A i \in 1..Len(idleCtxs[t]) : idleCtxs[t][i] <= made[t] /\ ~InUse(t, idleCtxs[t][i])
        /\ \A i, j \in 1..Len(idleCtxs[t]) : idleCtxs[t][i] = idleCtxs[t][j] => i = j

(* Every thread has had as many connections as whole rounds were dealt, and  *)
(* those before the next one more.                                           *)
Dealt(r) ==
    \A t \in IoThreads : Cardinality(Given(t)) = IF t < nextThread THEN r + 1 ELSE r
Rounds == \E r \in Nat : Dealt(r)

IInv == /\ Typed /\ InQueues /\ InHand /\ InService /\ Somewhere /\ Idle /\ Rounds

-----------------------------------------------------------------------------
(* m_nextthreads goes round.                                                 *)
LEMMA AdvanceGoesRound ==
  ASSUME NEW n \in IoThreads
  PROVE  /\ Advance(n) \in IoThreads
         /\ Advance(n) = IF n = NumThreads - 1 THEN 0 ELSE n + 1
<1>1. NumThreads \in Nat \ {0} /\ n \in 0..(NumThreads - 1)
  BY IoAssumption DEF IoAssumption, IoThreads
<1>2. (n + 1) % NumThreads = IF n = NumThreads - 1 THEN 0 ELSE n + 1
  BY <1>1
<1> QED
  BY <1>1, <1>2 DEF Advance, IoThreads

(* With idle ctxs that are all free get_clientctx() drops none of them.      *)
LEMMA NothingSkipped ==
  ASSUME Typed, Idle, NEW t \in IoThreads
  PROVE  SkipInUse(t) = idleCtxs[t]
<1> DEFINE free == {i \in DOMAIN idleCtxs[t] : ~InUse(t, idleCtxs[t][i])}
<1>1. idleCtxs[t] \in Seq(Ctxs) /\ Len(idleCtxs[t]) \in Nat /\ DOMAIN idleCtxs[t] = 1..Len(idleCtxs[t])
  BY LenProperties DEF Typed
<1>2. free = 1..Len(idleCtxs[t])
  BY <1>1 DEF Idle
<1>3. CASE idleCtxs[t] = <<>>
  BY <1>3 DEF SkipInUse
<1>4. CASE idleCtxs[t] # <<>>
  <2>1. Len(idleCtxs[t]) \in Nat \ {0}
    BY <1>1, <1>4, EmptySeq
  <2>2. 1 \in free /\ \A i \in free : i \in Nat /\ 1 <= i
    BY <1>2, <2>1
  <2>3. Min(free) = 1
    <3> HIDE DEF free
    <3> QED
      BY <2>2 DEF Min
  <2>4. SubSeq(idleCtxs[t], 1, Len(idleCtxs[t])) = idleCtxs[t]
    BY <1>1, SubSeqFull
  <2> QED
    BY <2>2, <2>3, <2>4 DEF SkipInUse
<1> QED
  BY <1>3, <1>4

(* The constructors.                                                         *)
LEMMA ThreadsInit == Init => IInv
<1> SUFFICES ASSUME Init PROVE IInv
  OBVIOUS
<1> USE IoAssumption DEF IoAssumption
<1>1. Typed
  <2>1. /\ accepted \in 0..MaxConns /\ nextThread \in IoThreads
        /\ pipe \in [IoThreads -> 0..PipeMax] /\ made \in [IoThreads -> 0..NumCtxs]
    BY DEF Init, IoThreads
  <2>2. /\ connQueue \in [IoThreads -> Seq(Conns)] /\ idleCtxs \in [IoThreads -> Seq(Ctxs)]
        /\ \A t \in IoThreads : connQueue[t] \in Seq(Conns) /\ idleCtxs[t] \in Seq(Ctxs)
    BY DEF Init
  <2>3. /\ target \in [Conns -> IoThreads \cup {NoThread}]
        /\ creating \in [IoThreads -> Conns \cup {None}]
        /\ serving \in [IoThreads -> [Ctxs -> Conns \cup {None}]]
        /\ status \in [Conns -> {"new", "waiting", "open", "closed"}]
    BY DEF Init
  <2> QED
    BY <2>1, <2>2, <2>3 DEF Init, Typed, TypeOK
<1>2. InQueues /\ InHand /\ InService /\ Somewhere /\ Idle
  BY DEF Init, InQueues, InHand, InService, Somewhere, Idle, InUse, None
<1>3. Rounds
  <2>1. ASSUME NEW t \in IoThreads PROVE Cardinality(Given(t)) = 0 /\ ~(t < nextThread)
    <3>1. t # NoThread /\ ~(t < nextThread)
      BY DEF IoThreads, NoThread, Init
    <3>2. Given(t) = {}
      BY <3>1 DEF Given, Init
    <3> QED
      BY <3>1, <3>2, FS_EmptySet
  <2>2. Dealt(0)
    BY <2>1 DEF Dealt
  <2> QED
    BY <2>2 DEF Rounds
<1> QED
  BY <1>1, <1>2, <1>3 DEF IInv

(* Nothing is dealt.                                                         *)
LEMMA RoundsKept == Rounds /\ UNCHANGED <<target, nextThread>> => Rounds'
  BY DEF Rounds, Dealt, Given

(* A connection dealt to the next thread.                                    *)
LEMMA RoundGoesOn ==
  ASSUME Typed, Rounds, NEW c \in Conns, target[c] = NoThread,
         target' = [target EXCEPT ![c] = nextThread], nextThread' = Advance(nextThread)
  PROVE  Rounds'
<1> USE IoAssumption DEF IoAssumption
<1>1. PICK r \in Nat : Dealt(r)
  BY DEF Rounds
<1>2. nextThread \in IoThreads /\ target \in [Conns -> IoThreads \cup {NoThread}]
  BY DEF Typed, TypeOK
<1>3. NumThreads \in Nat \ {0} /\ nextThread \in 0..(NumThreads - 1) /\ NoThread = NumThreads
  BY <1>2 DEF IoThreads, NoThread
<1>4. ASSUME NEW t \in IoThreads
      PROVE  /\ IsFiniteSet(Given(t)) /\ Cardinality(Given(t)) \in Nat
             /\ t # nextThread => Given(t)' = Given(t)
             /\ t = nextThread => Given(t)' = Given(t) \cup {c} /\ c \notin Given(t)
  <2>1. IsFiniteSet(Conns)
    BY FS_Interval DEF Conns
  <2>2. IsFiniteSet(Given(t))
    BY <2>1, FS_Subset DEF Given
  <2>3. Cardinality(Given(t)) \in Nat
    BY <2>2, FS_CardinalityType
  <2>4. t \in 0..(NumThreads - 1) /\ t # NoThread
    BY <1>3 DEF IoThreads
  <2>5. t # nextThread => Given(t)' = Given(t)
    BY <1>2, <2>4 DEF Given
  <2>6. t = nextThread => Given(t)' = Given(t) \cup {c} /\ c \notin Given(t)
    BY <1>2, <2>4 DEF Given
  <2> QED
    BY <2>2, <2>3, <2>5, <2>6
<1>5. ASSUME NEW t \in IoThreads
      PROVE  Cardinality(Given(t)') = IF t <= nextThread THEN r + 1 ELSE r
  <2>1. t \in Nat /\ nextThread \in Nat
        /\ Cardinality(Given(t)) = IF t < nextThread THEN r + 1 ELSE r
    BY <1>1, <1>3 DEF Dealt, IoThreads
  <2>2. CASE t = nextThread
    <3>1. Cardinality(Given(t) \cup {c}) = Cardinality(Given(t)) + 1
      BY <1>4, <2>2, FS_AddElement
    <3> QED
      BY <1>4, <2>1, <2>2, <3>1
  <2>3. CASE t # nextThread
    BY <1>4, <2>1, <2>3
  <2> QED
    BY <2>2, <2>3
<1>6. nextThread' = IF nextThread = NumThreads - 1 THEN 0 ELSE nextThread + 1
  BY <1>2, AdvanceGoesRound
<1>7. CASE nextThread = NumThreads - 1
  <2>1. ASSUME NEW t \in IoThreads PROVE Cardinality(Given(t)') = r + 1 /\ ~(t < nextThread')
    <3>1. t \in 0..(NumThreads - 1)
      BY DEF IoThreads
    <3> QED
      BY <1>3, <1>5, <1>6, <1>7, <3>1
  <2>2. Dealt(r + 1)'
    BY <2>1 DEF Dealt
  <2> QED
    BY <2>2 DEF Rounds
<1>8. CASE nextThread # NumThreads - 1
  <2>1. ASSUME NEW t \in IoThreads
        PROVE  Cardinality(Given(t)') = IF t < nextThread' THEN r + 1 ELSE r
    <3>1. t \in 0..(NumThreads - 1)
      BY DEF IoThreads
    <3> QED
      BY <1>3, <1>5, <1>6, <1>8, <3>1
  <2>2. Dealt(r)'
    BY <2>1 DEF Dealt
  <2> QED
    BY <2>2 DEF Rounds
<1> QED
  BY <1>7, <1>8

(* accept() and dispatch_item().                                             *)
LEMMA DispatchStep == IInv /\ Dispatch => IInv'
<1> SUFFICES ASSUME IInv, Dispatch PROVE IInv'
  OBVIOUS
<1> USE IoAssumption DEF IoAssumption
<1>0. Typed /\ TypeOK /\ InQueues /\ InHand /\ InService /\ Somewhere /\ Idle /\ Rounds
  BY DEF IInv, Typed
<1>1. PICK c \in Conns : c = accepted + 1
  BY <1>0 DEF Dispatch, TypeOK, Conns
<1>2. PICK t \in IoThreads : t = nextThread
  BY <1>0 DEF TypeOK
<1>3. /\ accepted' = c /\ listener' = "notify"
      /\ target' = [target EXCEPT ![c] = t] /\ nextThread' = Advance(nextThread)
      /\ connQueue' = [connQueue EXCEPT ![t] = Append(connQueue[t], c)]
      /\ status' = [status EXCEPT ![c] = "waiting"]
      /\ UNCHANGED <<pipe, creating, serving, idleCtxs, made>>
  BY <1>1, <1>2 DEF Dispatch, dispatch_item, set_item
<1>4. /\ accepted \in Nat /\ \A d \in Conns : d \in Nat
      /\ target \in [Conns -> IoThreads \cup {NoThread}]
      /\ status \in [Conns -> {"new", "waiting", "open", "closed"}]
      /\ connQueue \in [IoThreads -> Seq(Conns)]
      /\ creating \in [IoThreads -> Conns \cup {None}]
      /\ serving \in [IoThreads -> [Ctxs -> Conns \cup {None}]]
  BY <1>0 DEF Typed, TypeOK, Conns
<1>5. target[c] = NoThread /\ NoThread \notin IoThreads
  BY <1>0, <1>1, <1>4 DEF Somewhere, IoThreads, NoThread
<1>6. /\ target'[c] = t /\ status'[c] = "waiting"
      /\ \A d \in Conns \ {c} : target'[d] = target[d] /\ status'[d] = status[d]
      /\ \A s \in IoThreads \ {t} : connQueue'[s] = connQueue[s]
  BY <1>3, <1>4
<1>7. /\ connQueue'[t] \in Seq(Conns) /\ Len(connQueue'[t]) = Len(connQueue[t]) + 1
      /\ \A i \in 1..Len(connQueue[t]) : connQueue'[t][i] = connQueue[t][i]
      /\ connQueue'[t][Len(connQueue[t]) + 1] = c
      /\ Len(connQueue[t]) \in Nat
  <2>1. connQueue[t] \in Seq(Conns) /\ connQueue'[t] = Append(connQueue[t], c)
    BY <1>3, <1>4
  <2> QED
    BY <2>1, AppendProperties, LenProperties
<1>8. \A s \in IoThreads : \A i \in 1..Len(connQueue'[s]) :
         \/ i \in 1..Len(connQueue[s]) /\ connQueue'[s][i] = connQueue[s][i]
         \/ s = t /\ i = Len(connQueue[t]) + 1 /\ connQueue'[s][i] = c
  <2> TAKE s \in IoThreads
  <2>1. CASE s = t
    BY <1>7, <2>1
  <2>2. CASE s # t
    BY <1>6, <2>2
  <2> QED
    BY <2>1, <2>2
<1>9. \A s \in IoThreads :
         /\ \A i \in 1..Len(connQueue[s]) : connQueue[s][i] \in Conns \ {c}
         /\ creating[s] # c /\ \A x \in Ctxs : serving[s][x] # c
  <2> TAKE s \in IoThreads
  <2>1. \A i \in 1..Len(connQueue[s]) : connQueue[s][i] \in Conns \ {c}
    BY <1>0, <1>4, <1>5 DEF InQueues
  <2>2. c # None
    BY DEF Conns, None
  <2>3. creating[s] # c
    BY <1>0, <1>5, <2>2 DEF InHand
  <2>4. \A x \in Ctxs : serving[s][x] # c
    BY <1>0, <1>5, <2>2 DEF InService, InUse
  <2> QED
    BY <2>1, <2>3, <2>4
<1>10. Typed'
  <2>1. accepted' \in 0..MaxConns
    BY <1>3 DEF Conns
  <2>2. nextThread' \in IoThreads
    BY <1>2, <1>3, AdvanceGoesRound
  <2>3. connQueue' \in [IoThreads -> Seq(Conns)]
    BY <1>3, <1>4, <1>7
  <2>4. target' \in [Conns -> IoThreads \cup {NoThread}]
        /\ status' \in [Conns -> {"new", "waiting", "open", "closed"}]
    BY <1>3, <1>4
  <2> QED
    BY <1>0, <1>3, <2>1, <2>2, <2>3, <2>4 DEF Typed, TypeOK
<1>11. InQueues'
  <2>1. ASSUME NEW s \in IoThreads, NEW i \in 1..Len(connQueue'[s])
        PROVE  /\ target'[connQueue'[s][i]] = s /\ status'[connQueue'[s][i]] = "waiting"
               /\ creating'[s] # connQueue'[s][i]
    <3>1. CASE i \in 1..Len(connQueue[s]) /\ connQueue'[s][i] = connQueue[s][i]
      BY <1>0, <1>3, <1>6, <1>9, <3>1 DEF InQueues
    <3>2. CASE s = t /\ connQueue'[s][i] = c
      BY <1>3, <1>6, <1>9, <3>2
    <3> QED
      BY <1>8, <3>1, <3>2
  <2>2. ASSUME NEW s \in IoThreads, NEW i \in 1..Len(connQueue'[s]), NEW j \in 1..Len(connQueue'[s]),
               connQueue'[s][i] = connQueue'[s][j]
        PROVE  i = j
    BY <1>0, <1>8, <1>9, <2>2 DEF InQueues
  <2> QED
    BY <2>1, <2>2 DEF InQueues
<1>12. InHand'
  <2>1. ASSUME NEW s \in IoThreads, creating'[s] # None
        PROVE  target'[creating'[s]] = s /\ status'[creating'[s]] = "waiting"
    <3>1. creating[s] \in Conns \ {c} /\ creating'[s] = creating[s]
      BY <1>3, <1>4, <1>9, <2>1
    <3> QED
      BY <1>0, <1>6, <2>1, <3>1 DEF InHand
  <2> QED
    BY <2>1 DEF InHand
<1>13. InService'
  <2>1. ASSUME NEW s \in IoThreads, NEW x \in Ctxs, serving[s][x] # None
        PROVE  target'[serving[s][x]] = s /\ status'[serving[s][x]] = "open"
    <3>1. serving[s][x] \in Conns \ {c}
      BY <1>4, <1>9, <2>1
    <3> QED
      BY <1>0, <1>6, <2>1, <3>1 DEF InService, InUse
  <2> QED
    BY <1>0, <1>3, <2>1 DEF InService, InUse
<1>14. Somewhere'
  <2>1. QueuedHere(t, c)'
    <3>1. Len(connQueue[t]) + 1 \in 1..Len(connQueue'[t])
      BY <1>7
    <3> QED
      BY <1>7, <3>1 DEF QueuedHere
  <2>2. ASSUME NEW d \in Conns \ {c}, NEW s \in IoThreads, QueuedHere(s, d) PROVE QueuedHere(s, d)'
    <3>1. PICK i \in 1..Len(connQueue[s]) : connQueue[s][i] = d
      BY <2>2 DEF QueuedHere
    <3>2. i \in 1..Len(connQueue'[s]) /\ connQueue'[s][i] = d
      BY <1>6, <1>7, <3>1
    <3> QED
      BY <3>2 DEF QueuedHere
  <2>3. ASSUME NEW d \in Conns \ {c}, status'[d] = "waiting"
        PROVE  target'[d] \in IoThreads /\ (creating'[target'[d]] = d \/ QueuedHere(target[d], d)')
    <3>1. PICK s \in IoThreads : s = target[d] /\ s = target'[d] /\ (creating[s] = d \/ QueuedHere(s, d))
      BY <1>0, <1>6, <2>3 DEF Somewhere
    <3>2. creating'[s] = d \/ QueuedHere(s, d)'
      BY <1>3, <2>2, <3>1
    <3> QED
      BY <3>1, <3>2 DEF QueuedHere
  <2>4. ASSUME NEW d \in Conns, status'[d] = "open"
        PROVE  target'[d] \in IoThreads /\ \E x \in Ctxs : serving'[target'[d]][x] = d
    BY <1>0, <1>3, <1>6, <2>4 DEF Somewhere
  <2>5. ASSUME NEW d \in Conns, d > accepted' PROVE target'[d] = NoThread
    BY <1>0, <1>1, <1>3, <1>4, <1>6, <2>5 DEF Somewhere
  <2>6. target'[c] \in IoThreads /\ QueuedHere(target[c], c)'
    BY <1>6, <2>1 DEF QueuedHere
  <2> QED
    BY <2>3, <2>4, <2>5, <2>6 DEF Somewhere
<1>15. Idle'
  BY <1>0, <1>3 DEF Idle, InUse
<1>16. Rounds'
  BY <1>0, <1>2, <1>3, <1>5, RoundGoesOn
<1> QED
  BY <1>10, <1>11, <1>12, <1>13, <1>14, <1>15, <1>16 DEF IInv

(* A socket that cannot be made non-blocking is closed.                      *)
LEMMA AcceptFailsStep == IInv /\ AcceptFails => IInv'
<1> SUFFICES ASSUME IInv, AcceptFails PROVE IInv'
  OBVIOUS
<1> USE IoAssumption DEF IoAssumption
<1>0. Typed /\ TypeOK /\ InQueues /\ InHand /\ InService /\ Somewhere /\ Idle /\ Rounds
  BY DEF IInv, Typed
<1>1. PICK c \in Conns : c = accepted + 1
  BY <1>0 DEF AcceptFails, TypeOK, Conns
<1>3. /\ accepted' = c /\ status' = [status EXCEPT ![c] = "closed"]
      /\ UNCHANGED <<listener, nextThread, target, connQueue, pipe, creating, serving,
                     idleCtxs, made>>
  BY <1>1 DEF AcceptFails
<1>4. /\ accepted \in Nat /\ \A d \in Conns : d \in Nat
      /\ status \in [Conns -> {"new", "waiting", "open", "closed"}]
      /\ connQueue \in [IoThreads -> Seq(Conns)]
      /\ creating \in [IoThreads -> Conns \cup {None}]
      /\ serving \in [IoThreads -> [Ctxs -> Conns \cup {None}]]
  BY <1>0 DEF Typed, TypeOK, Conns
<1>5. target[c] = NoThread /\ NoThread \notin IoThreads
  BY <1>0, <1>1, <1>4 DEF Somewhere, IoThreads, NoThread
<1>6. \A d \in Conns : d # c => status'[d] = status[d]
  BY <1>3, <1>4
<1>7. \A d \in Conns : target[d] \in IoThreads => status'[d] = status[d]
  BY <1>5, <1>6
<1>8. status'[c] = "closed"
  BY <1>3, <1>4
<1>9. Typed'
  <2>1. accepted' \in 0..MaxConns
    BY <1>3 DEF Conns
  <2>2. status' \in [Conns -> {"new", "waiting", "open", "closed"}]
    BY <1>3, <1>4
  <2> QED
    BY <1>0, <1>3, <2>1, <2>2 DEF Typed, TypeOK
<1>10. InQueues'
  <2>1. ASSUME NEW s \in IoThreads, NEW i \in 1..Len(connQueue[s])
        PROVE  status'[connQueue[s][i]] = "waiting"
    <3>1. connQueue[s][i] \in Conns /\ target[connQueue[s][i]] = s
      BY <1>0, <1>4 DEF InQueues
    <3> QED
      BY <1>0, <1>7, <3>1 DEF InQueues
  <2> QED
    BY <1>0, <1>3, <2>1 DEF InQueues
<1>11. InHand'
  BY <1>0, <1>3, <1>4, <1>7 DEF InHand
<1>12. InService'
  BY <1>0, <1>3, <1>4, <1>7 DEF InService, InUse
<1>13. Somewhere'
  <2>1. ASSUME NEW d \in Conns, status'[d] \in {"waiting", "open"} PROVE status[d] = status'[d]
    BY <1>6, <1>8, <2>1
  <2>2. ASSUME NEW d \in Conns, d > accepted' PROVE target'[d] = NoThread
    BY <1>0, <1>1, <1>3, <1>4, <2>2 DEF Somewhere
  <2> QED
    BY <1>0, <1>3, <2>1, <2>2 DEF Somewhere, QueuedHere
<1>14. Idle'
  BY <1>0, <1>3 DEF Idle, InUse
<1>15. Rounds'
  BY <1>0, <1>3, RoundsKept
<1> QED
  BY <1>9, <1>10, <1>11, <1>12, <1>13, <1>14, <1>15 DEF IInv

(* A byte in the socketpair, or the peer's address in the item.              *)
LEMMA NotifyStep == IInv /\ (Notify \/ FillItem \/ UNCHANGED vars) => IInv'
<1> SUFFICES ASSUME IInv, Notify \/ FillItem \/ UNCHANGED vars PROVE IInv'
  OBVIOUS
<1> USE IoAssumption DEF IoAssumption
<1>1. UNCHANGED <<accepted, nextThread, target, connQueue, creating, serving, idleCtxs, made, status>>
  BY DEF Notify, FillItem, vars
<1>2. pipe' \in [IoThreads -> 0..PipeMax]
  <2>1. pipe \in [IoThreads -> 0..PipeMax]
    BY DEF IInv, Typed, TypeOK
  <2>2. CASE Notify
    <3>1. pipe' = [pipe EXCEPT ![target[accepted]] =
                      IF pipe[target[accepted]] < PipeMax THEN pipe[target[accepted]] + 1
                      ELSE pipe[target[accepted]]]
      BY <2>2 DEF Notify
    <3>2. \A t \in IoThreads : pipe[t] \in 0..PipeMax
            /\ (pipe[t] < PipeMax => pipe[t] + 1 \in 0..PipeMax)
      BY <2>1
    <3>3. CASE target[accepted] \in IoThreads
      BY <2>1, <3>1, <3>2, <3>3
    <3>4. CASE target[accepted] \notin IoThreads
      BY <2>1, <3>1, <3>4
    <3> QED
      BY <3>3, <3>4
  <2>3. CASE FillItem \/ UNCHANGED vars
    BY <2>1, <2>3 DEF FillItem, vars
  <2> QED
    BY <2>2, <2>3
<1>3. listener' \in {"accept", "notify", "fillItem"}
  BY DEF IInv, Typed, TypeOK, Notify, FillItem, vars
<1>4. Typed'
  BY <1>1, <1>2, <1>3 DEF IInv, Typed, TypeOK
<1>5. InQueues' /\ InHand'
  BY <1>1 DEF IInv, InQueues, InHand
<1>6. InService' /\ Idle'
  BY <1>1 DEF IInv, InService, Idle, InUse
<1>7. Somewhere'
  BY <1>1 DEF IInv, Somewhere, QueuedHere
<1>8. Rounds'
  BY <1>1, RoundsKept DEF IInv
<1> QED
  BY <1>4, <1>5, <1>6, <1>7, <1>8 DEF IInv

(* The handler takes the first connection of the queue into its hand.        *)
LEMMA HandleNotifyStep ==
  ASSUME IInv, NEW t \in IoThreads, HandleNotify(t)
  PROVE  IInv'
<1> USE IoAssumption DEF IoAssumption
<1>0. Typed /\ TypeOK /\ InQueues /\ InHand /\ InService /\ Somewhere /\ Idle /\ Rounds
  BY DEF IInv, Typed
<1>1. /\ creating[t] = None
      /\ UNCHANGED <<accepted, listener, nextThread, target, serving, idleCtxs, made, status>>
  BY DEF HandleNotify
<1>2. /\ connQueue \in [IoThreads -> Seq(Conns)] /\ creating \in [IoThreads -> Conns \cup {None}]
      /\ pipe \in [IoThreads -> 0..PipeMax]
  BY <1>0 DEF Typed, TypeOK
<1>3. pipe' \in [IoThreads -> 0..PipeMax]
  <2>1. pipe' = [pipe EXCEPT ![t] = IF pipe[t] < ReadMax THEN 0 ELSE pipe[t] - ReadMax]
    BY DEF HandleNotify
  <2>2. (IF pipe[t] < ReadMax THEN 0 ELSE pipe[t] - ReadMax) \in 0..PipeMax
    BY <1>2
  <2> QED
    BY <1>2, <2>1, <2>2
<1>4. InService' /\ Idle' /\ Rounds'
  <2>1. InService' /\ Idle'
    BY <1>0, <1>1 DEF InService, Idle, InUse
  <2> QED
    BY <1>0, <1>1, <2>1, RoundsKept
<1>5. CASE connQueue[t] = <<>>
  <2>1. UNCHANGED <<connQueue, creating>>
    BY <1>5 DEF HandleNotify, get_connitem
  <2>2. Typed' /\ InQueues' /\ InHand' /\ Somewhere'
    BY <1>0, <1>1, <1>3, <2>1 DEF Typed, TypeOK, InQueues, InHand, Somewhere, QueuedHere
  <2> QED
    BY <1>4, <2>2 DEF IInv
<1>6. CASE connQueue[t] # <<>>
  <2>1. /\ connQueue[t] \in Seq(Conns) /\ Len(connQueue[t]) \in Nat \ {0}
        /\ Head(connQueue[t]) = connQueue[t][1]
        /\ Tail(connQueue[t]) \in Seq(Conns) /\ Len(Tail(connQueue[t])) = Len(connQueue[t]) - 1
        /\ \A i \in 1..Len(Tail(connQueue[t])) : Tail(connQueue[t])[i] = connQueue[t][i + 1]
    <3>1. connQueue[t] \in Seq(Conns)
      BY <1>2
    <3> QED
      BY <1>6, <3>1, EmptySeq, HeadTailProperties
  <2>2. PICK c \in Conns : c = connQueue[t][1]
    BY <2>1
  <2>3. /\ creating' = [creating EXCEPT ![t] = c]
        /\ connQueue' = [connQueue EXCEPT ![t] = Tail(connQueue[t])]
    BY <1>6, <2>1, <2>2 DEF HandleNotify, get_connitem
  <2>4. /\ creating'[t] = c /\ \A s \in IoThreads \ {t} : creating'[s] = creating[s] /\ connQueue'[s] = connQueue[s]
        /\ Len(connQueue'[t]) = Len(connQueue[t]) - 1
        /\ \A i \in 1..Len(connQueue'[t]) : connQueue'[t][i] = connQueue[t][i + 1]
    BY <1>2, <2>1, <2>3
  <2>5. 1 \in 1..Len(connQueue[t]) /\ \A i \in 1..Len(connQueue'[t]) : i + 1 \in 1..Len(connQueue[t]) /\ i + 1 # 1
    BY <2>1, <2>4
  <2>6. target[c] = t /\ status[c] = "waiting" /\ c # None
    BY <1>0, <2>2, <2>5 DEF InQueues, Conns, None
  <2>7. Typed'
    BY <1>0, <1>1, <1>2, <1>3, <2>1, <2>3 DEF Typed, TypeOK
  <2>8. InQueues'
    <3>1. ASSUME NEW i \in 1..Len(connQueue'[t])
          PROVE  /\ target[connQueue'[t][i]] = t /\ status[connQueue'[t][i]] = "waiting"
                 /\ c # connQueue'[t][i]
      <4>1. PICK j \in 1..Len(connQueue[t]) : j = i + 1 /\ j # 1 /\ connQueue'[t][i] = connQueue[t][j]
        BY <2>4, <2>5
      <4>2. target[connQueue[t][j]] = t /\ status[connQueue[t][j]] = "waiting"
        BY <1>0 DEF InQueues
      <4>3. connQueue[t][1] # connQueue[t][j]
        BY <1>0, <2>5, <4>1 DEF InQueues
      <4> QED
        BY <2>2, <4>1, <4>2, <4>3
    <3>2. ASSUME NEW i \in 1..Len(connQueue'[t]), NEW j \in 1..Len(connQueue'[t]),
                 connQueue'[t][i] = connQueue'[t][j]
          PROVE  i = j
      <4>1. PICK k \in 1..Len(connQueue[t]) : k = i + 1 /\ connQueue'[t][i] = connQueue[t][k]
        BY <2>4, <2>5
      <4>2. PICK l \in 1..Len(connQueue[t]) : l = j + 1 /\ connQueue'[t][j] = connQueue[t][l]
        BY <2>4, <2>5
      <4>3. connQueue[t][k] = connQueue[t][l] => k = l
        BY <1>0 DEF InQueues
      <4>4. k = l
        BY <3>2, <4>1, <4>2, <4>3, Zenon
      <4>5. i \in Int /\ j \in Int
        BY <2>1, <2>4
      <4> QED
        BY <4>1, <4>2, <4>4, <4>5
    <3>3. ASSUME NEW s \in IoThreads
          PROVE  /\ \A i \in 1..Len(connQueue'[s]) :
                       /\ target[connQueue'[s][i]] = s /\ status[connQueue'[s][i]] = "waiting"
                       /\ creating'[s] # connQueue'[s][i]
                 /\ \A i, j \in 1..Len(connQueue'[s]) : connQueue'[s][i] = connQueue'[s][j] => i = j
      <4>1. CASE s = t
        BY <2>4, <3>1, <3>2, <4>1
      <4>2. CASE s # t
        BY <1>0, <2>4, <4>2 DEF InQueues
      <4> QED
        BY <4>1, <4>2
    <3> QED
      BY <1>1, <3>3 DEF InQueues
  <2>9. InHand'
    BY <1>0, <1>1, <2>4, <2>6 DEF InHand
  <2>10. Somewhere'
    <3>1. ASSUME NEW d \in Conns, status[d] = "waiting"
          PROVE  target[d] \in IoThreads /\ (creating'[target[d]] = d \/ QueuedHere(target[d], d)')
      <4>1. PICK s \in IoThreads : s = target[d] /\ (creating[s] = d \/ QueuedHere(s, d))
        BY <1>0, <3>1 DEF Somewhere
      <4>2. CASE s # t
        BY <1>1, <2>4, <4>1, <4>2 DEF QueuedHere
      <4>3. CASE s = t
        <5>1. PICK i \in 1..Len(connQueue[t]) : connQueue[t][i] = d
          BY <1>1, <4>1, <4>3 DEF QueuedHere, Conns, None
        <5>2. CASE i = 1
          BY <2>2, <2>4, <4>1, <4>3, <5>1, <5>2
        <5>3. CASE i # 1
          <6>1. i - 1 \in 1..Len(connQueue'[t]) /\ (i - 1) + 1 = i
            BY <2>1, <2>4, <5>3
          <6>2. connQueue'[t][i - 1] = d
            BY <2>4, <5>1, <6>1
          <6> QED
            BY <1>1, <4>1, <4>3, <6>1, <6>2 DEF QueuedHere
        <5> QED
          BY <5>2, <5>3
      <4> QED
        BY <4>2, <4>3
    <3> QED
      BY <1>0, <1>1, <3>1 DEF Somewhere
  <2> QED
    BY <1>4, <2>7, <2>8, <2>9, <2>10 DEF IInv
<1> QED
  BY <1>5, <1>6

(* create_connection(): the ctx that is taken or made serves nobody.         *)
LEMMA CreateConnectionStep ==
  ASSUME IInv, NEW t \in IoThreads, CreateConnection(t)
  PROVE  IInv'
<1> USE IoAssumption DEF IoAssumption
<1>0. Typed /\ TypeOK /\ InQueues /\ InHand /\ InService /\ Somewhere /\ Idle /\ Rounds
  BY DEF IInv, Typed
<1>1. PICK c \in Conns : c = creating[t]
  BY <1>0 DEF CreateConnection, TypeOK
<1>2. /\ connQueue \in [IoThreads -> Seq(Conns)] /\ creating \in [IoThreads -> Conns \cup {None}]
      /\ serving \in [IoThreads -> [Ctxs -> Conns \cup {None}]]
      /\ status \in [Conns -> {"new", "waiting", "open", "closed"}]
      /\ idleCtxs \in [IoThreads -> Seq(Ctxs)] /\ made \in [IoThreads -> 0..NumCtxs]
      /\ c # None
  BY <1>0, <1>1 DEF Typed, TypeOK, CreateConnection
<1>3. target[c] = t /\ status[c] = "waiting"
  BY <1>0, <1>1, <1>2 DEF InHand
<1> DEFINE idle == idleCtxs[t]
           fresh == idle = <<>>
<1>4. PICK ctx \in Ctxs :
         /\ ctx = IF fresh THEN made[t] + 1 ELSE Head(idle)
         /\ made' = [made EXCEPT ![t] = IF fresh THEN ctx ELSE made[t]]
         /\ idleCtxs' = [idleCtxs EXCEPT ![t] = IF fresh THEN <<>> ELSE Tail(idle)]
         /\ \/ /\ serving' = [serving EXCEPT ![t][ctx] = c]
               /\ status' = [status EXCEPT ![c] = "open"]
            \/ /\ status' = [status EXCEPT ![c] = "closed"]
               /\ UNCHANGED serving
  BY <1>0, <1>1, NothingSkipped DEF CreateConnection
<1>5. /\ creating' = [creating EXCEPT ![t] = None]
      /\ UNCHANGED <<accepted, listener, nextThread, target, connQueue, pipe>>
  BY DEF CreateConnection
<1>6. /\ creating'[t] = None /\ \A s \in IoThreads \ {t} : creating'[s] = creating[s]
      /\ creating' \in [IoThreads -> Conns \cup {None}]
  BY <1>2, <1>5
<1>7. /\ made'[t] \in 0..NumCtxs /\ made[t] <= made'[t] /\ ctx <= made'[t]
      /\ \A s \in IoThreads \ {t} : made'[s] = made[s] /\ idleCtxs'[s] = idleCtxs[s]
      /\ made' \in [IoThreads -> 0..NumCtxs] /\ idleCtxs' \in [IoThreads -> Seq(Ctxs)]
      /\ ~InUse(t, ctx)
      /\ \A i \in 1..Len(idleCtxs'[t]) :
            i + 1 \in 1..Len(idle) /\ idleCtxs'[t][i] = idle[i + 1] /\ idleCtxs'[t][i] # ctx
  <2>0. made[t] \in 0..NumCtxs /\ idle \in Seq(Ctxs) /\ Ctxs \subseteq Nat
    BY <1>2 DEF Ctxs
  <2>1. CASE fresh
    <3>1. ctx = made[t] + 1 /\ made' = [made EXCEPT ![t] = ctx] /\ idleCtxs' = [idleCtxs EXCEPT ![t] = <<>>]
      BY <1>4, <2>1
    <3>2. ctx \in 0..NumCtxs /\ <<>> \in Seq(Ctxs)
      BY DEF Ctxs
    <3>3. made'[t] = ctx /\ idleCtxs'[t] = <<>>
      BY <1>2, <3>1
    <3>4. ~InUse(t, ctx)
      BY <1>0, <2>0, <3>1 DEF InService
    <3> QED
      BY <1>2, <2>0, <3>1, <3>2, <3>3, <3>4
  <2>2. CASE ~fresh
    <3>1. ctx = Head(idle) /\ made' = [made EXCEPT ![t] = made[t]] /\ idleCtxs' = [idleCtxs EXCEPT ![t] = Tail(idle)]
      BY <1>4, <2>2
    <3>2. /\ Len(idle) \in Nat \ {0} /\ ctx = idle[1] /\ Tail(idle) \in Seq(Ctxs)
          /\ Len(Tail(idle)) = Len(idle) - 1
          /\ \A i \in 1..Len(Tail(idle)) : Tail(idle)[i] = idle[i + 1]
      BY <2>0, <2>2, <3>1, EmptySeq, HeadTailProperties
    <3>3. 1 \in 1..Len(idle) /\ \A i \in 1..Len(Tail(idle)) : i + 1 \in 1..Len(idle) /\ i + 1 # 1
      BY <3>2
    <3>4. ctx <= made[t] /\ ~InUse(t, ctx) /\ \A i \in 1..Len(Tail(idle)) : Tail(idle)[i] # ctx
      BY <1>0, <3>2, <3>3 DEF Idle
    <3>5. made'[t] = made[t] /\ idleCtxs'[t] = Tail(idle)
      BY <1>2, <3>1
    <3> QED
      BY <1>2, <2>0, <3>1, <3>2, <3>3, <3>4, <3>5
  <2> QED
    BY <2>1, <2>2
<1>8. /\ status'[c] \in {"open", "closed"} /\ \A d \in Conns \ {c} : status'[d] = status[d]
      /\ status' \in [Conns -> {"new", "waiting", "open", "closed"}]
      /\ serving' \in [IoThreads -> [Ctxs -> Conns \cup {None}]]
      /\ \A s \in IoThreads, x \in Ctxs : s # t \/ x # ctx => serving'[s][x] = serving[s][x]
      /\ IF status'[c] = "open" THEN serving'[t][ctx] = c ELSE serving'[t][ctx] = None
  <2>0. serving[t][ctx] = None
    BY <1>7 DEF InUse
  <2>1. CASE serving' = [serving EXCEPT ![t][ctx] = c] /\ status' = [status EXCEPT ![c] = "open"]
    BY <1>2, <2>1
  <2>2. CASE status' = [status EXCEPT ![c] = "closed"] /\ UNCHANGED serving
    BY <1>2, <2>0, <2>2
  <2> QED
    BY <1>4, <2>1, <2>2
<1>9. \A s \in IoThreads :
         /\ \A i \in 1..Len(connQueue[s]) : connQueue[s][i] \in Conns \ {c}
         /\ s # t => creating[s] # c
         /\ \A x \in Ctxs : serving[s][x] # c
  <2> TAKE s \in IoThreads
  <2>1. \A i \in 1..Len(connQueue[s]) : connQueue[s][i] \in Conns \ {c}
    BY <1>0, <1>1, <1>2, <1>3 DEF InQueues
  <2>2. s # t => creating[s] # c
    BY <1>0, <1>2, <1>3 DEF InHand
  <2>3. \A x \in Ctxs : serving[s][x] # c
    BY <1>0, <1>2, <1>3 DEF InService, InUse
  <2> QED
    BY <2>1, <2>2, <2>3
<1>10. Typed'
  BY <1>0, <1>5, <1>6, <1>7, <1>8 DEF Typed, TypeOK
<1>11. InQueues'
  <2>1. ASSUME NEW s \in IoThreads, NEW i \in 1..Len(connQueue[s])
        PROVE  status'[connQueue[s][i]] = "waiting" /\ creating'[s] # connQueue[s][i]
    <3>1. connQueue[s][i] \in Conns \ {c} /\ connQueue[s][i] # None
      BY <1>9 DEF Conns, None
    <3> QED
      BY <1>0, <1>6, <1>8, <3>1 DEF InQueues
  <2> QED
    BY <1>0, <1>5, <2>1 DEF InQueues
<1>12. InHand'
  <2>1. ASSUME NEW s \in IoThreads, creating'[s] # None
        PROVE  target[creating'[s]] = s /\ status'[creating'[s]] = "waiting"
    <3>1. s # t /\ creating'[s] = creating[s] /\ creating[s] \in Conns \ {c}
      BY <1>2, <1>6, <1>9, <2>1
    <3> QED
      BY <1>0, <1>8, <2>1, <3>1 DEF InHand
  <2> QED
    BY <1>5, <2>1 DEF InHand
<1>a. \A s \in IoThreads : \A x \in Ctxs : x <= made[s] => x <= made'[s]
  <2> SUFFICES ASSUME NEW s \in IoThreads, NEW x \in Ctxs, x <= made[s]
               PROVE  x <= made'[s]
    OBVIOUS
  <2>1. CASE s # t
    <3>1. made'[s] = made[s]
      BY <1>7, <2>1
    <3> QED
      BY <3>1
  <2>2. CASE s = t
    <3>1. x \in Nat
      BY DEF Ctxs
    <3>2. made[t] \in Nat
      BY <1>2
    <3>3. made'[t] \in Nat /\ made[t] <= made'[t]
      BY <1>7
    <3>4. x <= made[t]
      BY <2>2
    <3>5. x <= made'[t]
      BY <3>1, <3>2, <3>3, <3>4
    <3> QED
      BY <2>2, <3>5
  <2> QED
    BY <2>1, <2>2
<1>13. InService'
  <2>1. ASSUME NEW s \in IoThreads, NEW x \in Ctxs, serving'[s][x] # None
        PROVE  /\ target[serving'[s][x]] = s /\ status'[serving'[s][x]] = "open" /\ x <= made'[s]
               /\ \A y \in Ctxs : serving'[s][x] = serving'[s][y] => x = y
    <3>1. CASE s = t /\ x = ctx
      <4>1. serving'[s][x] = c /\ status'[c] = "open"
        BY <1>8, <2>1, <3>1
      <4>2. \A y \in Ctxs \ {ctx} : serving'[t][y] # c
        BY <1>8, <1>9
      <4> QED
        BY <1>3, <1>7, <3>1, <4>1, <4>2
    <3>2. CASE s # t \/ x # ctx
      <4>1. serving'[s][x] = serving[s][x] /\ serving[s][x] \in Conns \ {c}
        BY <1>2, <1>8, <1>9, <2>1, <3>2
      <4>2. /\ target[serving[s][x]] = s /\ status[serving[s][x]] = "open" /\ x <= made[s]
            /\ \A y \in Ctxs : serving[s][x] = serving[s][y] => x = y
        BY <1>0, <2>1, <4>1 DEF InService, InUse
      <4>3. x <= made'[s]
        <5>1. x <= made[s]
          BY <4>2
        <5> QED
          BY <1>a, <5>1
      <4>4. \A y \in Ctxs : serving'[s][x] = serving'[s][y] => x = y
        BY <1>8, <2>1, <4>1, <4>2
      <4> QED
        BY <1>8, <4>1, <4>2, <4>3, <4>4
    <3> QED
      BY <3>1, <3>2
  <2> QED
    BY <1>5, <2>1 DEF InService, InUse
<1>14. Somewhere'
  <2>1. ASSUME NEW d \in Conns, status'[d] = "waiting"
        PROVE  target[d] \in IoThreads /\ (creating'[target[d]] = d \/ QueuedHere(target[d], d))
    <3>1. d # c /\ status[d] = "waiting"
      BY <1>8, <2>1
    <3>2. target[d] \in IoThreads /\ (creating[target[d]] = d \/ QueuedHere(target[d], d))
      BY <1>0, <3>1 DEF Somewhere
    <3> QED
      BY <1>1, <1>6, <3>1, <3>2
  <2>2. ASSUME NEW d \in Conns, status'[d] = "open"
        PROVE  target[d] \in IoThreads /\ \E x \in Ctxs : serving'[target[d]][x] = d
    <3>1. CASE d = c
      BY <1>3, <1>8, <2>2, <3>1
    <3>2. CASE d # c
      <4>1. target[d] \in IoThreads /\ \E x \in Ctxs : serving[target[d]][x] = d
        BY <1>0, <1>8, <2>2, <3>2 DEF Somewhere
      <4>2. PICK x \in Ctxs : serving[target[d]][x] = d
        BY <4>1
      <4>3. d # None
        BY DEF Conns, None
      <4>4. target[d] # t \/ x # ctx
        BY <1>7, <4>2, <4>3 DEF InUse
      <4> QED
        BY <1>8, <4>1, <4>2, <4>4
    <3> QED
      BY <3>1, <3>2
  <2> QED
    BY <1>0, <1>5, <2>1, <2>2 DEF Somewhere, QueuedHere
<1>15. Idle'
  <2>1. ASSUME NEW s \in IoThreads
        PROVE  /\ \A i \in 1..Len(idleCtxs'[s]) :
                     idleCtxs'[s][i] <= made'[s] /\ serving'[s][idleCtxs'[s][i]] = None
               /\ \A i, j \in 1..Len(idleCtxs'[s]) : idleCtxs'[s][i] = idleCtxs'[s][j] => i = j
    <3>1. CASE s = t
      <4>1. ASSUME NEW i \in 1..Len(idleCtxs'[t])
            PROVE  idleCtxs'[t][i] <= made'[t] /\ serving'[t][idleCtxs'[t][i]] = None
        <5>1. PICK k \in 1..Len(idle) : k = i + 1 /\ idleCtxs'[t][i] = idle[k] /\ idle[k] # ctx
          BY <1>7
        <5>2. idle[k] \in Ctxs /\ idle[k] <= made[t] /\ serving[t][idle[k]] = None
          BY <1>0, <1>2 DEF Idle, InUse
        <5>3. idle[k] <= made'[t]
          BY <1>a, <5>2
        <5>4. serving'[t][idle[k]] = None
          BY <1>8, <5>1, <5>2
        <5> QED
          BY <5>1, <5>2, <5>3, <5>4
      <4>2. ASSUME NEW i \in 1..Len(idleCtxs'[t]), NEW j \in 1..Len(idleCtxs'[t]),
                   idleCtxs'[t][i] = idleCtxs'[t][j]
            PROVE  i = j
        <5>1. i + 1 = j + 1
          BY <1>0, <1>7, <4>2 DEF Idle
        <5> QED
          BY <5>1
      <4> QED
        BY <3>1, <4>1, <4>2
    <3>2. CASE s # t
      <4>1. idleCtxs'[s] = idleCtxs[s] /\ made'[s] = made[s]
            /\ \A i \in 1..Len(idleCtxs[s]) : idleCtxs[s][i] \in Ctxs
        BY <1>2, <1>7, <3>2
      <4>2. \A i \in 1..Len(idleCtxs[s]) : idleCtxs[s][i] <= made[s] /\ serving[s][idleCtxs[s][i]] = None
        BY <1>0 DEF Idle, InUse
      <4> QED
        BY <1>0, <1>8, <3>2, <4>1, <4>2 DEF Idle
    <3> QED
      BY <3>1, <3>2
  <2> QED
    BY <2>1 DEF Idle, InUse
<1>16. Rounds'
  BY <1>0, <1>5, RoundsKept
<1> QED
  BY <1>10, <1>11, <1>12, <1>13, <1>14, <1>15, <1>16 DEF IInv

(* close_connection(true): the ctx goes back, once.                          *)
LEMMA CloseConnectionStep ==
  ASSUME IInv, NEW t \in IoThreads, NEW x \in Ctxs, CloseConnection(t, x)
  PROVE  IInv'
<1> USE IoAssumption DEF IoAssumption
<1>0. Typed /\ TypeOK /\ InQueues /\ InHand /\ InService /\ Somewhere /\ Idle /\ Rounds
  BY DEF IInv, Typed
<1>1. PICK c \in Conns : c = serving[t][x] /\ c # None
  BY <1>0 DEF CloseConnection, TypeOK, InUse
<1>2. /\ connQueue \in [IoThreads -> Seq(Conns)] /\ creating \in [IoThreads -> Conns \cup {None}]
      /\ serving \in [IoThreads -> [Ctxs -> Conns \cup {None}]]
      /\ status \in [Conns -> {"new", "waiting", "open", "closed"}]
      /\ idleCtxs \in [IoThreads -> Seq(Ctxs)]
  BY <1>0 DEF Typed, TypeOK
<1>3. /\ status' = [status EXCEPT ![c] = "closed"] /\ serving' = [serving EXCEPT ![t][x] = None]
      /\ idleCtxs' = [idleCtxs EXCEPT ![t] = Append(idleCtxs[t], x)]
      /\ UNCHANGED <<accepted, listener, nextThread, target, connQueue, pipe, creating, made>>
  BY <1>1 DEF CloseConnection, return_clientctx
<1>4. /\ target[c] = t /\ status[c] = "open" /\ x <= made[t]
      /\ \A y \in Ctxs : serving[t][x] = serving[t][y] => x = y
  BY <1>0, <1>1 DEF InService, InUse
<1>5. /\ status'[c] = "closed" /\ \A d \in Conns \ {c} : status'[d] = status[d]
      /\ status' \in [Conns -> {"new", "waiting", "open", "closed"}]
      /\ serving' \in [IoThreads -> [Ctxs -> Conns \cup {None}]]
      /\ serving'[t][x] = None
      /\ \A s \in IoThreads, y \in Ctxs : s # t \/ y # x => serving'[s][y] = serving[s][y]
      /\ \A s \in IoThreads \ {t} : idleCtxs'[s] = idleCtxs[s]
  BY <1>2, <1>3
<1>6. /\ idleCtxs'[t] \in Seq(Ctxs) /\ Len(idleCtxs'[t]) = Len(idleCtxs[t]) + 1
      /\ \A i \in 1..Len(idleCtxs[t]) : idleCtxs'[t][i] = idleCtxs[t][i]
      /\ idleCtxs'[t][Len(idleCtxs[t]) + 1] = x /\ Len(idleCtxs[t]) \in Nat
  <2>1. idleCtxs[t] \in Seq(Ctxs) /\ idleCtxs'[t] = Append(idleCtxs[t], x)
    BY <1>2, <1>3
  <2> QED
    BY <2>1, AppendProperties, LenProperties
<1>7. Typed'
  <2>1. idleCtxs' \in [IoThreads -> Seq(Ctxs)]
    BY <1>2, <1>3, <1>6
  <2> QED
    BY <1>0, <1>3, <1>5, <2>1 DEF Typed, TypeOK
<1>8. InQueues'
  <2>1. ASSUME NEW s \in IoThreads, NEW i \in 1..Len(connQueue[s])
        PROVE  status'[connQueue[s][i]] = "waiting"
    <3>1. connQueue[s][i] \in Conns /\ status[connQueue[s][i]] = "waiting"
      BY <1>0, <1>2 DEF InQueues
    <3> QED
      BY <1>4, <1>5, <3>1
  <2> QED
    BY <1>0, <1>3, <2>1 DEF InQueues
<1>9. InHand'
  BY <1>0, <1>2, <1>3, <1>4, <1>5 DEF InHand
<1>10. InService'
  <2>1. ASSUME NEW s \in IoThreads, NEW y \in Ctxs, serving'[s][y] # None
        PROVE  /\ target[serving'[s][y]] = s /\ status'[serving'[s][y]] = "open" /\ y <= made[s]
               /\ \A z \in Ctxs : serving'[s][y] = serving'[s][z] => y = z
    <3>1. s # t \/ y # x
      BY <1>5, <2>1
    <3>2. serving'[s][y] = serving[s][y] /\ serving[s][y] \in Conns
      BY <1>2, <1>5, <2>1, <3>1
    <3>3. /\ target[serving[s][y]] = s /\ status[serving[s][y]] = "open" /\ y <= made[s]
          /\ \A z \in Ctxs : serving[s][y] = serving[s][z] => y = z
      BY <1>0, <2>1, <3>2 DEF InService, InUse
    <3>4. serving[s][y] # c
      BY <1>1, <1>4, <3>1, <3>3
    <3>5. \A z \in Ctxs : serving'[s][y] = serving'[s][z] => y = z
      BY <1>5, <2>1, <3>2, <3>3
    <3> QED
      BY <1>5, <3>2, <3>3, <3>4, <3>5
  <2> QED
    BY <1>3, <2>1 DEF InService, InUse
<1>11. Somewhere'
  <2>1. ASSUME NEW d \in Conns, status'[d] = "waiting"
        PROVE  target[d] \in IoThreads /\ (creating[target[d]] = d \/ QueuedHere(target[d], d))
    BY <1>0, <1>5, <2>1 DEF Somewhere
  <2>2. ASSUME NEW d \in Conns, status'[d] = "open"
        PROVE  target[d] \in IoThreads /\ \E y \in Ctxs : serving'[target[d]][y] = d
    <3>1. d # c /\ status[d] = "open"
      BY <1>5, <2>2
    <3>2. target[d] \in IoThreads /\ \E y \in Ctxs : serving[target[d]][y] = d
      BY <1>0, <3>1 DEF Somewhere
    <3> QED
      BY <1>1, <1>5, <3>1, <3>2
  <2> QED
    BY <1>0, <1>3, <2>1, <2>2 DEF Somewhere, QueuedHere
<1>12. Idle'
  <2>1. ASSUME NEW s \in IoThreads
        PROVE  /\ \A i \in 1..Len(idleCtxs'[s]) :
                     idleCtxs'[s][i] <= made[s] /\ serving'[s][idleCtxs'[s][i]] = None
               /\ \A i, j \in 1..Len(idleCtxs'[s]) : idleCtxs'[s][i] = idleCtxs'[s][j] => i = j
    <3>0. \A i \in 1..Len(idleCtxs[s]) :
             /\ idleCtxs[s][i] \in Ctxs /\ idleCtxs[s][i] <= made[s]
             /\ serving[s][idleCtxs[s][i]] = None
      BY <1>0, <1>2 DEF Idle, InUse
    <3>1. CASE s = t
      <4>1. \A i \in 1..Len(idleCtxs'[t]) : i \in 1..Len(idleCtxs[t]) \/ i = Len(idleCtxs[t]) + 1
        BY <1>6
      <4>2. \A i \in 1..Len(idleCtxs[t]) : idleCtxs[t][i] # x
        BY <1>1, <3>0, <3>1
      <4>3. \A i \in 1..Len(idleCtxs'[t]) :
               idleCtxs'[t][i] <= made[t] /\ serving'[t][idleCtxs'[t][i]] = None
        BY <1>4, <1>5, <1>6, <3>0, <3>1, <4>1, <4>2
      <4>4. \A i, j \in 1..Len(idleCtxs'[t]) : idleCtxs'[t][i] = idleCtxs'[t][j] => i = j
        BY <1>0, <1>6, <4>1, <4>2 DEF Idle
      <4> QED
        BY <3>1, <4>3, <4>4
    <3>2. CASE s # t
      BY <1>0, <1>5, <3>0, <3>2 DEF Idle
    <3> QED
      BY <3>1, <3>2
  <2> QED
    BY <1>3, <2>1 DEF Idle, InUse
<1>13. Rounds'
  BY <1>0, <1>3, RoundsKept
<1> QED
  BY <1>7, <1>8, <1>9, <1>10, <1>11, <1>12, <1>13 DEF IInv

-----------------------------------------------------------------------------
(* The inductive invariant holds.                                            *)
THEOREM DispatchInvariant == Spec => []IInv
<1>1. Init => IInv
  BY ThreadsInit
<1>2. IInv /\ [Next]_vars => IInv'
  <2> SUFFICES ASSUME IInv, [Next]_vars PROVE IInv'
    OBVIOUS
  <2>1. CASE Dispatch
    BY <2>1, DispatchStep
  <2>2. CASE AcceptFails
    BY <2>2, AcceptFailsStep
  <2>3. CASE Notify \/ FillItem \/ Done \/ UNCHANGED vars
    BY <2>3, NotifyStep DEF Done
  <2>4. ASSUME NEW t \in IoThreads, HandleNotify(t) PROVE IInv'
    BY <2>4, HandleNotifyStep
  <2>5. ASSUME NEW t \in IoThreads, CreateConnection(t) PROVE IInv'
    BY <2>5, CreateConnectionStep
  <2>6. ASSUME NEW t \in IoThreads, NEW x \in Ctxs, CloseConnection(t, x) PROVE IInv'
    BY <2>6, CloseConnectionStep
  <2> QED
    BY <2>1, <2>2, <2>3, <2>4, <2>5, <2>6 DEF Next
<1> QED
  BY <1>1, <1>2, PTL DEF Spec

(* A connection that waits is queued once or in hand, not both.              *)
LEMMA NothingIsLost == IInv => NoSocketLost
<1> SUFFICES ASSUME IInv, NEW c \in Conns, target[c] # NoThread
             PROVE  LET t == target[c]
                        queued == {i \in DOMAIN connQueue[t] : connQueue[t][i] = c}
                    IN  /\ status[c] = "waiting" =>
                             Cardinality(queued) + (IF creating[t] = c THEN 1 ELSE 0) = 1
                        /\ status[c] = "open" => \E x \in Ctxs : serving[t][x] = c
  BY DEF NoSocketLost
<1> DEFINE t == target[c]
           queued == {i \in DOMAIN connQueue[t] : connQueue[t][i] = c}
<1>1. t \in IoThreads /\ connQueue[t] \in Seq(Conns)
  BY DEF IInv, Typed, TypeOK
<1>2. DOMAIN connQueue[t] = 1..Len(connQueue[t])
  BY <1>1, LenProperties
<1>3. ASSUME status[c] = "waiting"
      PROVE  Cardinality(queued) + (IF creating[t] = c THEN 1 ELSE 0) = 1
  <2>1. CASE creating[t] = c
    <3>1. queued = {}
      BY <1>1, <1>2, <2>1 DEF IInv, InQueues
    <3>2. Cardinality(queued) = 0
      BY <3>1, FS_EmptySet
    <3> QED
      BY <2>1, <3>2
  <2>2. CASE creating[t] # c
    <3>1. PICK i \in 1..Len(connQueue[t]) : connQueue[t][i] = c
      BY <1>3, <2>2 DEF IInv, Somewhere, QueuedHere
    <3>2. queued = {i}
      BY <1>1, <1>2, <3>1 DEF IInv, InQueues
    <3>3. Cardinality(queued) = 1
      BY <3>2, FS_Singleton
    <3> QED
      BY <2>2, <3>3
  <2> QED
    BY <2>1, <2>2
<1> QED
  BY <1>3 DEF IInv, Somewhere

(* No socket that was accepted is lost or served twice, no ClientCtx is      *)
(* shared, and the IO threads get their connections in turn.                 *)
THEOREM DispatchIsSound == Spec => []DispatchSound
<1>1. IInv => DispatchSound
  <2> SUFFICES ASSUME IInv PROVE DispatchSound
    OBVIOUS
  <2>1. TypeOK /\ NoSocketLost
    BY NothingIsLost DEF IInv, Typed
  <2>2. CtxPoolSound
    <3>1. \A t \in IoThreads : DOMAIN idleCtxs[t] = 1..Len(idleCtxs[t])
      BY LenProperties DEF IInv, Typed
    <3> QED
      BY <3>1 DEF IInv, Idle, InService, CtxPoolSound
  <2>3. DealtInTurn
    <3>1. PICK r \in Nat : Dealt(r)
      BY DEF IInv, Rounds
    <3> QED
      BY <3>1 DEF Dealt, DealtInTurn
  <2> QED
    BY <2>1, <2>2, <2>3 DEF DispatchSound
<1> QED
  BY <1>1, DispatchInvariant, PTL
=============================================================================
