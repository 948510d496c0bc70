-------------------------- MODULE TcpClientProofs --------------------------
(***************************************************************************)
(* Proofs about TcpClient and its Connector for every set of descriptors,  *)
(* every retry delay and every number of calls, when user code connects    *)
(* and destroys only at the moments at which the code allows it            *)
(* (~Careless): the asserts hold but for late timers, every socket has one *)
(* owner, and stop() is final but for what the loop had begun.             *)
(***************************************************************************)
EXTENDS TcpClient, SequenceTheorems, FiniteSetTheorems, WellFoundedInduction, TLAPS

(* The functors of two lines, the batch that runs and the queue behind it.   *)
AllFunctors == Names \X (Fds \cup {0})
SetOf(q) == {q[i] : i \in 1..Len(q)}
Ents(b, q) == SetOf(b) \cup SetOf(q)

(* Functors that must not wait twice: their second run would act on an       *)
(* object the first one was not meant for.                                   *)
Single == {"startInLoop", "resetChannel", "connectDestroyed"}
Once(q) == \A i, j \in 1..Len(q) : q[i] = q[j] /\ q[i][1] \in Single => i = j
Lines(b, q) ==
    /\ Once(b) /\ Once(q)
    /\ \A e \in SetOf(b) \cap SetOf(q) : e[1] \notin Single
    /\ \A e \in Ents(b, q) : e[1] \in RawFunctors => e = Functor(e[1])

(* What waits: functors of the connector, of the connection, of both lines.  *)
Entries == Ents(batch, queue)
HasStart == Functor("startInLoop") \in Entries
HasStop == Functor("stopInLoop") \in Entries
HasReset == Functor("resetChannel") \in Entries
Forcing == \E e \in Entries : e[1] = "forceClose"
Dying == {fd \in Fds : <<"connectDestroyed", fd>> \in Entries}
RawWaits == HasStart \/ HasStop \/ HasReset
RawQueued == \E i \in DOMAIN queue : queue[i][1] \in RawFunctors

(* A connect() of another thread is under way, or its functor waits.         *)
Calling == upc \in {"connect", "queueStart"}
Starting == Calling \/ HasStart

-----------------------------------------------------------------------------
(* The inductive invariant.                                                  *)

(* The batch is empty while events are handled, no functor waits twice, and  *)
(* those of the connector carry no descriptor.                               *)
LinesSound == (phase = "events" => batch = <<>>) /\ Lines(batch, queue)

(* The channel is watched during an attempt; afterwards it exists exactly    *)
(* until the resetChannel() that waits for it.                               *)
ChannelSound ==
    /\ watched <=> state = "kConnecting"
    /\ watched => channel # 0
    /\ HasReset <=> (channel # 0 /\ ~watched)

(* Whoever is about to call startInLoop() or connect() finds the connector   *)
(* as it was made, unless a timer came before the resetChannel() that waits, *)
(* and is the only one.                                                      *)
AttemptSound ==
    /\ timers > 0 => timers = 1 /\ state = "kDisconnected" /\ within \in {"none", "write"} /\ ~Starting
    /\ within \in {"start", "connect"} =>
          state = "kDisconnected" /\ (channel = 0 \/ stalled) /\ ~Starting
    /\ within = "write" => state = "kDisconnected" /\ ~Starting
    /\ within = "restart" => state = "kConnected" /\ channel = 0 /\ up = {} /\ ~Starting
    /\ within = "given" => state = "kConnected" /\ channel # 0 /\ up = {} /\ ~Starting
    /\ within \in {"restart", "given", "connect"} => alive
    /\ Starting => state = "kDisconnected" /\ channel = 0
    /\ ~(Calling /\ HasStart)

(* connection_ is the one TcpConnection, until the destructor gives it away. *)
OwnerSound ==
    /\ state # "kConnected" => up = {}
    /\ callback = "client" => up = IF connection = 0 THEN {} ELSE {connection}
    /\ callback = "detached" =>
          /\ ~alive /\ connection = 0 /\ state = "kConnected" /\ within = "none"
          /\ ~RawWaits
          /\ \A f, g \in up : f = g
    /\ connection # 0 => alive
    /\ Forcing => callback = "detached"

(* After ~TcpClient() nothing begins again, and the timer that holds the     *)
(* connector outlives the functors bound to it, unless it has overtaken them *)
(* in this round.                                                            *)
GoneSound ==
    ~alive =>
        /\ upc = "idle"
        /\ callback = "client" =>
              /\ ~connect_ /\ up = {}
              /\ ~keepAlive /\ RawWaits => stalled
              /\ ~keepAlive /\ phase = "functors" => ~RawQueued
              /\ state = "kConnecting" => HasStop

(* Every open socket is that of an attempt, is a connection's, or is about   *)
(* to be closed by connectDestroyed(), and only one of these.                *)
SocketSound ==
    /\ open = Attempted \cup up \cup Dying
    /\ Attempted \cap up = {} /\ Attempted \cap Dying = {} /\ up \cap Dying = {}

ClientInv ==
    /\ TypeOK /\ failed = {} /\ LinesSound /\ ChannelSound /\ AttemptSound
    /\ OwnerSound /\ GoneSound /\ SocketSound

(* What is left when an assert has fired: it was the one of connecting() or  *)
(* the use of a dead connector, in a round in which a timer came late.       *)
Broken ==
    /\ TypeOK /\ LinesSound /\ AttemptSound /\ OwnerSound /\ SocketSound
    /\ watched <=> state = "kConnecting"
    /\ failed # {} /\ failed \subseteq {"connecting", "dead"} /\ stalled

(* stop() leaves connect_ and TcpClient::connect_ off, and whoever still     *)
(* connects had looked before.                                               *)
Stopping == stopped \/ upc = "queueStop"
StopInv ==
    /\ stopped \/ upc \in {"stop", "queueStop"} => ~clientConnect
    /\ Stopping /\ raced # "restart" => ~connect_ /\ within # "restart"
    /\ Stopping /\ within = "connect" => raced \in {"restart", "connect"}
    /\ Stopping /\ within = "given" => raced \in {"restart", "given"}

-----------------------------------------------------------------------------
(* The two lines.                                                            *)

(* The elements of a line that grows.                                        *)
LEMMA SetOfAppend ==
  ASSUME NEW S, NEW q \in Seq(S), NEW e \in S
  PROVE  Append(q, e) \in Seq(S) /\ SetOf(Append(q, e)) = SetOf(q) \cup {e}
<1>1. /\ Append(q, e) \in Seq(S) /\ Len(Append(q, e)) = Len(q) + 1 /\ Len(q) \in Nat
      /\ \A i \in 1..Len(q) : Append(q, e)[i] = q[i]
      /\ Append(q, e)[Len(q) + 1] = e
  BY AppendProperties, LenProperties
<1>2. \A x \in SetOf(Append(q, e)) : x \in SetOf(q) \cup {e}
  <2> SUFFICES ASSUME NEW i \in 1..Len(q) + 1 PROVE Append(q, e)[i] \in SetOf(q) \cup {e}
    BY <1>1 DEF SetOf
  <2>1. CASE i \in 1..Len(q)
    BY <1>1, <2>1 DEF SetOf
  <2>2. CASE i = Len(q) + 1
    BY <1>1, <2>2
  <2> QED
    BY <1>1, <2>1, <2>2
<1>3. \A x \in SetOf(q) \cup {e} : x \in SetOf(Append(q, e))
  <2>1. ASSUME NEW i \in 1..Len(q) PROVE q[i] \in SetOf(Append(q, e))
    <3>1. i \in 1..Len(Append(q, e)) /\ q[i] = Append(q, e)[i]
      BY <1>1
    <3> QED
      BY <3>1 DEF SetOf
  <2>2. e \in SetOf(Append(q, e))
    <3>1. Len(q) + 1 \in 1..Len(Append(q, e))
      BY <1>1
    <3> QED
      BY <1>1, <3>1 DEF SetOf
  <2> QED
    BY <2>1, <2>2 DEF SetOf
<1> QED
  BY <1>1, <1>2, <1>3

(* queueInLoop() puts a functor behind the others.                           *)
LEMMA LinesAppend ==
  ASSUME NEW b \in Seq(AllFunctors), NEW q \in Seq(AllFunctors), NEW e \in AllFunctors,
         Lines(b, q), e[1] \in Single => e \notin Ents(b, q),
         e[1] \in RawFunctors => e = Functor(e[1])
  PROVE  /\ Append(q, e) \in Seq(AllFunctors) /\ Lines(b, Append(q, e))
         /\ Ents(b, Append(q, e)) = Ents(b, q) \cup {e}
<1>1. Append(q, e) \in Seq(AllFunctors) /\ SetOf(Append(q, e)) = SetOf(q) \cup {e}
  BY SetOfAppend
<1>2. /\ Len(Append(q, e)) = Len(q) + 1 /\ Len(q) \in Nat
      /\ \A i \in 1..Len(q) : Append(q, e)[i] = q[i]
      /\ Append(q, e)[Len(q) + 1] = e
  BY AppendProperties, LenProperties
<1>3. Once(Append(q, e))
  <2> SUFFICES ASSUME NEW i \in 1..Len(q) + 1, NEW j \in 1..Len(q) + 1,
                      Append(q, e)[i] = Append(q, e)[j], Append(q, e)[i][1] \in Single
               PROVE  i = j
    BY <1>2 DEF Once
  <2>1. CASE i \in 1..Len(q) /\ j \in 1..Len(q)
    BY <1>2, <2>1 DEF Lines, Once
  <2>2. CASE i = Len(q) + 1 /\ j \in 1..Len(q)
    <3>1. q[j] = e /\ e[1] \in Single
      BY <1>2, <2>2
    <3> QED
      BY <2>2, <3>1 DEF Ents, SetOf
  <2>3. CASE j = Len(q) + 1 /\ i \in 1..Len(q)
    <3>1. q[i] = e /\ e[1] \in Single
      BY <1>2, <2>3
    <3> QED
      BY <2>3, <3>1 DEF Ents, SetOf
  <2> QED
    BY <1>2, <2>1, <2>2, <2>3
<1>4. \A x \in SetOf(b) \cap SetOf(Append(q, e)) : x[1] \notin Single
  BY <1>1 DEF Lines, Ents
<1> QED
  BY <1>1, <1>3, <1>4 DEF Lines, Ents

(* doPendingFunctors() takes the next functor of its batch.                  *)
LEMMA LinesTail ==
  ASSUME NEW b \in Seq(AllFunctors), NEW q \in Seq(AllFunctors), Lines(b, q), b # <<>>
  PROVE  /\ Tail(b) \in Seq(AllFunctors) /\ Lines(Tail(b), q)
         /\ Head(b) \in AllFunctors /\ Ents(b, q) = Ents(Tail(b), q) \cup {Head(b)}
         /\ Head(b)[1] \in RawFunctors => Head(b) = Functor(Head(b)[1])
         /\ Head(b)[1] \in Single => Head(b) \notin Ents(Tail(b), q)
<1>1. /\ Tail(b) \in Seq(AllFunctors) /\ Head(b) \in AllFunctors
      /\ Len(b) \in Nat \ {0} /\ Len(Tail(b)) = Len(b) - 1 /\ Head(b) = b[1]
      /\ \A i \in 1..Len(Tail(b)) : Tail(b)[i] = b[i + 1]
  BY HeadTailProperties, EmptySeq
<1>2. \A i \in 1..Len(Tail(b)) : i + 1 \in 1..Len(b) /\ i + 1 # 1
  BY <1>1
<1>3. 1 \in 1..Len(b) /\ \A i \in 1..Len(b) : i = 1 \/ (i - 1 \in 1..Len(Tail(b)) /\ (i - 1) + 1 = i)
  BY <1>1
<1>4. SetOf(b) = SetOf(Tail(b)) \cup {Head(b)}
  <2>1. \A x \in SetOf(b) : x \in SetOf(Tail(b)) \cup {Head(b)}
    <3> SUFFICES ASSUME NEW i \in 1..Len(b) PROVE b[i] \in SetOf(Tail(b)) \cup {Head(b)}
      BY DEF SetOf
    <3>1. CASE i = 1
      BY <1>1, <3>1
    <3>2. CASE i # 1
      <4>1. i - 1 \in 1..Len(Tail(b)) /\ Tail(b)[i - 1] = b[i]
        BY <1>1, <1>3, <3>2
      <4> QED
        BY <4>1 DEF SetOf
    <3> QED
      BY <3>1, <3>2
  <2>2. \A i \in 1..Len(Tail(b)) : Tail(b)[i] \in SetOf(b)
    BY <1>1, <1>2 DEF SetOf
  <2>3. Head(b) \in SetOf(b)
    BY <1>1, <1>3 DEF SetOf
  <2> QED
    BY <2>1, <2>2, <2>3 DEF SetOf
<1>5. Once(Tail(b))
  <2> SUFFICES ASSUME NEW i \in 1..Len(Tail(b)), NEW j \in 1..Len(Tail(b)),
                      Tail(b)[i] = Tail(b)[j], Tail(b)[i][1] \in Single
               PROVE  i = j
    BY DEF Once
  <2>1. i + 1 = j + 1
    BY <1>1, <1>2 DEF Lines, Once
  <2> QED
    BY <2>1
<1>6. Head(b)[1] \in Single => Head(b) \notin SetOf(Tail(b))
  BY <1>1, <1>2, <1>3 DEF Lines, Once, SetOf
<1>7. Head(b)[1] \in Single => Head(b) \notin SetOf(q)
  BY <1>4 DEF Lines
<1>8. Head(b) \in Ents(b, q)
  BY <1>4 DEF Ents
<1> QED
  BY <1>1, <1>4, <1>5, <1>6, <1>7, <1>8 DEF Lines, Ents

(* The swap makes the queue the batch.                                       *)
LEMMA LinesMove ==
  ASSUME NEW q \in Seq(AllFunctors), Lines(<<>>, q)
  PROVE  Lines(q, <<>>) /\ Ents(q, <<>>) = Ents(<<>>, q)
<1>1. SetOf(<<>>) = {} /\ Once(<<>>)
  BY DEF SetOf, Once
<1> QED
  BY <1>1 DEF Lines, Ents

(* What waits is seen from the set of functors alone.                        *)
LEMMA ViewsKept ==
  ASSUME LinesSound, UNCHANGED <<batch, queue>>, phase' = phase \/ batch = <<>>
  PROVE  LinesSound' /\ UNCHANGED <<HasStart, HasStop, HasReset, Forcing, Dying>>
<1>1. UNCHANGED Entries
  BY DEF Entries
<1>2. LinesSound'
  BY DEF LinesSound
<1> QED
  BY <1>1, <1>2 DEF HasStart, HasStop, HasReset, Forcing, Dying

(* A functor of the connector joins the queue.                               *)
LEMMA ViewsQueue ==
  ASSUME TypeOK, LinesSound, NEW name \in {"startInLoop", "stopInLoop", "resetChannel"},
         name = "startInLoop" => ~HasStart, name = "resetChannel" => ~HasReset,
         queue' = Append(queue, Functor(name)), UNCHANGED <<batch, phase>>
  PROVE  /\ LinesSound' /\ queue' \in Seq(AllFunctors)
         /\ HasStart' <=> HasStart \/ name = "startInLoop"
         /\ HasStop' <=> HasStop \/ name = "stopInLoop"
         /\ HasReset' <=> HasReset \/ name = "resetChannel"
         /\ UNCHANGED <<Forcing, Dying>>
<1> DEFINE e == Functor(name)
<1>0. batch \in Seq(AllFunctors) /\ queue \in Seq(AllFunctors)
  BY DEF TypeOK, AllFunctors
<1>1. e \in AllFunctors /\ e[1] = name /\ e[2] = 0
  BY DEF AllFunctors, Functor, Names, RawFunctors
<1>2. e[1] \in Single => e \notin Ents(batch, queue)
  BY <1>1 DEF Single, HasStart, HasReset, Entries, Functor
<1>3. Lines(batch, queue) /\ e = Functor(e[1])
  BY <1>1 DEF LinesSound
<1> HIDE DEF e
<1>4. /\ Append(queue, e) \in Seq(AllFunctors) /\ Lines(batch, Append(queue, e))
      /\ Ents(batch, Append(queue, e)) = Ents(batch, queue) \cup {e}
  BY <1>0, <1>1, <1>2, <1>3, LinesAppend
<1>5. queue' = Append(queue, e)
  BY DEF e
<1>6. LinesSound' /\ Entries' = Entries \cup {e}
  BY <1>4, <1>5 DEF LinesSound, Entries
<1>7. \A n : e = Functor(n) <=> n = name
  BY <1>1 DEF Functor, e
<1>8. /\ HasStart' <=> HasStart \/ name = "startInLoop"
      /\ HasStop' <=> HasStop \/ name = "stopInLoop"
      /\ HasReset' <=> HasReset \/ name = "resetChannel"
  BY <1>6, <1>7 DEF HasStart, HasStop, HasReset
<1>9. UNCHANGED Forcing
  BY <1>1, <1>6 DEF Forcing
<1>10. UNCHANGED Dying
  <2>1. \A fd : <<"connectDestroyed", fd>> # e
    BY <1>1
  <2> QED
    BY <1>6, <2>1 DEF Dying
<1> QED
  BY <1>4, <1>5, <1>6, <1>8, <1>9, <1>10

(* A functor of the connection joins the queue.                              *)
LEMMA ViewsQueueFd ==
  ASSUME TypeOK, LinesSound, NEW fd \in Fds, NEW name \in {"forceClose", "connectDestroyed"},
         name = "connectDestroyed" => fd \notin Dying,
         queue' = Append(queue, <<name, fd>>), UNCHANGED <<batch, phase>>
  PROVE  /\ LinesSound' /\ queue' \in Seq(AllFunctors)
         /\ UNCHANGED <<HasStart, HasStop, HasReset>>
         /\ Forcing' <=> Forcing \/ name = "forceClose"
         /\ Dying' = IF name = "connectDestroyed" THEN Dying \cup {fd} ELSE Dying
<1> DEFINE e == <<name, fd>>
<1>0. batch \in Seq(AllFunctors) /\ queue \in Seq(AllFunctors)
  BY DEF TypeOK, AllFunctors
<1>1. e \in AllFunctors /\ e[1] = name /\ e[2] = fd /\ name \notin RawFunctors
  BY DEF AllFunctors, Names, RawFunctors
<1>2. e[1] \in Single => e \notin Ents(batch, queue)
  BY <1>1 DEF Single, Dying, Entries
<1>3. Lines(batch, queue) /\ e[1] \notin RawFunctors
  BY <1>1 DEF LinesSound
<1> HIDE DEF e
<1>4. /\ Append(queue, e) \in Seq(AllFunctors) /\ Lines(batch, Append(queue, e))
      /\ Ents(batch, Append(queue, e)) = Ents(batch, queue) \cup {e}
  BY <1>0, <1>1, <1>2, <1>3, LinesAppend
<1>5. queue' = Append(queue, e)
  BY DEF e
<1>6. LinesSound' /\ Entries' = Entries \cup {e}
  BY <1>4, <1>5 DEF LinesSound, Entries
<1>7. \A n \in {"startInLoop", "stopInLoop", "resetChannel"} : e # Functor(n)
  BY <1>1 DEF Functor
<1>8. UNCHANGED <<HasStart, HasStop, HasReset>>
  BY <1>6, <1>7 DEF HasStart, HasStop, HasReset
<1>9. Forcing' <=> Forcing \/ name = "forceClose"
  BY <1>1, <1>6 DEF Forcing
<1>10. Dying' = IF name = "connectDestroyed" THEN Dying \cup {fd} ELSE Dying
  <2>1. \A g : <<"connectDestroyed", g>> = e <=> name = "connectDestroyed" /\ g = fd
    BY <1>1 DEF e
  <2> QED
    BY <1>6, <2>1 DEF Dying
<1> QED
  BY <1>4, <1>5, <1>6, <1>8, <1>9, <1>10

(* Waiting() and Closing() look at the same functors.                        *)
LEMMA WaitingSeen ==
  ASSUME TypeOK, LinesSound
  PROVE  /\ Waiting("startInLoop") <=> HasStart
         /\ Waiting("stopInLoop") <=> HasStop
         /\ Waiting("resetChannel") <=> HasReset
         /\ \A fd \in Fds : Closing(fd) <=> fd \in Dying
<1>0. batch \in Seq(AllFunctors) /\ queue \in Seq(AllFunctors)
  BY DEF TypeOK, AllFunctors
<1>1. DOMAIN batch = 1..Len(batch) /\ DOMAIN queue = 1..Len(queue)
  BY <1>0, LenProperties
<1>2. \A name : Waiting(name) <=> \E e \in Entries : e[1] = name
  BY <1>1 DEF Waiting, Entries, Ents, SetOf
<1>3. \A fd \in Fds : Closing(fd) <=> <<"connectDestroyed", fd>> \in Entries
  BY <1>1 DEF Closing, Entries, Ents, SetOf
<1>4. \A e \in Entries : e[1] \in RawFunctors => e = Functor(e[1])
  BY DEF LinesSound, Lines, Entries
<1>5. \A name \in RawFunctors : Waiting(name) <=> Functor(name) \in Entries
  <2> TAKE name \in RawFunctors
  <2>1. Functor(name)[1] = name
    BY DEF Functor
  <2> QED
    BY <1>2, <1>4, <2>1
<1> QED
  BY <1>3, <1>5 DEF HasStart, HasStop, HasReset, Dying, RawFunctors

-----------------------------------------------------------------------------
(* One lemma per step.                                                       *)

(* The constructors leave an idle connector and no functor.                  *)
LEMMA ClientInit == Init => ClientInv /\ StopInv
<1> USE ConnectorAssumption, ClientAssumption DEF ConnectorAssumption, ClientAssumption
<1> SUFFICES ASSUME Init PROVE ClientInv /\ StopInv
  OBVIOUS
<1> USE DEF Init, ConnectorInit
<1>1. <<>> \in Seq(Names \X (Fds \cup {0}))
  OBVIOUS
<1>2. TypeOK
  <2>1. retryDelayMs \in kInitRetryDelayMs..kMaxRetryDelayMs /\ timers \in Nat /\ calls \in 0..MaxCalls
    OBVIOUS
  <2>2. queue \in Seq(Names \X (Fds \cup {0})) /\ batch \in Seq(Names \X (Fds \cup {0}))
    BY <1>1
  <2> QED
    BY <2>1, <2>2 DEF TypeOK, States, Points
<1>3. Entries = {} /\ LinesSound
  BY DEF Entries, Ents, SetOf, LinesSound, Lines, Once
<1>4. ~HasStart /\ ~HasStop /\ ~HasReset /\ ~Forcing /\ Dying = {}
  BY <1>3 DEF HasStart, HasStop, HasReset, Forcing, Dying
<1>5. ChannelSound /\ AttemptSound /\ OwnerSound /\ GoneSound /\ SocketSound
  BY <1>4 DEF ChannelSound, AttemptSound, OwnerSound, GoneSound, SocketSound, Starting,
     Calling, Attempted, RawWaits, RawQueued
<1> QED
  BY <1>2, <1>3, <1>5 DEF ClientInv, StopInv, Stopping

(* The swap of doPendingFunctors().                                          *)
LEMMA SwapStep == ASSUME ClientInv, Swap PROVE ClientInv'
<1>0. TypeOK /\ LinesSound /\ batch = <<>>
  BY DEF ClientInv, LinesSound, Swap
<1>1. Lines(queue, <<>>) /\ Ents(queue, <<>>) = Ents(<<>>, queue)
  <2>1. queue \in Seq(AllFunctors) /\ Lines(<<>>, queue)
    BY <1>0 DEF TypeOK, AllFunctors, LinesSound
  <2> QED
    BY <2>1, LinesMove
<1>2. LinesSound' /\ UNCHANGED Entries
  BY <1>0, <1>1 DEF Swap, LinesSound, Entries
<1>3. UNCHANGED <<HasStart, HasStop, HasReset, Forcing, Dying>>
  BY <1>2 DEF HasStart, HasStop, HasReset, Forcing, Dying
<1>4. UNCHANGED <<connectorVars, within, failed, clientVars, userVars, stalled>>
  BY DEF Swap
<1> USE <1>4 DEF connectorVars, clientVars, userVars
<1>5. TypeOK'
  BY <1>0 DEF Swap, TypeOK
<1>6. failed' = {} /\ ChannelSound' /\ AttemptSound' /\ OwnerSound' /\ GoneSound' /\ SocketSound'
  <2>1. ~RawQueued'
    BY DEF Swap, RawQueued
  <2> QED
  BY <1>3, <2>1 DEF ClientInv, ChannelSound, AttemptSound, OwnerSound, GoneSound, SocketSound, Starting,
     Calling, Attempted, RawWaits, RawQueued
<1> QED
  BY <1>2, <1>5, <1>6 DEF ClientInv

(* The batch has been run: the loop goes back to poll().                     *)
LEMMA BatchDoneStep == ASSUME ClientInv, BatchDone PROVE ClientInv'
<1>0. TypeOK /\ LinesSound /\ phase = "functors" /\ batch = <<>> /\ within = "none"
  BY DEF ClientInv, BatchDone, Free
<1>1. LinesSound' /\ UNCHANGED <<HasStart, HasStop, HasReset, Forcing, Dying>>
  BY <1>0, ViewsKept DEF BatchDone
<1>2. UNCHANGED <<connectorVars, queue, batch, within, failed, clientVars, userVars>>
  BY DEF BatchDone
<1> USE <1>2 DEF connectorVars, clientVars, userVars
<1>3. TypeOK'
  <2>1. stalled' \in BOOLEAN /\ phase' \in {"events", "functors"}
    BY DEF BatchDone
  <2> QED
    BY <1>0, <2>1 DEF TypeOK
<1>4. RawWaits => RawQueued
  <2>1. \A n \in RawFunctors : Waiting(n) => RawQueued
    BY <1>0 DEF Waiting, RawQueued
  <2> QED
    BY <1>0, <2>1, WaitingSeen DEF RawWaits, RawFunctors
<1>5. failed' = {} /\ ChannelSound' /\ AttemptSound' /\ OwnerSound' /\ SocketSound'
  BY <1>0, <1>1 DEF ClientInv, ChannelSound, AttemptSound, OwnerSound, SocketSound, Starting,
     Calling, Attempted, RawWaits
<1>6. GoneSound'
  <2>1. RawWaits' <=> RawWaits
    BY <1>1 DEF RawWaits
  <2>2. phase' = "events"
    BY DEF BatchDone
  <2> QED
    BY <1>0, <1>1, <1>4, <2>1, <2>2 DEF ClientInv, GoneSound
<1> QED
  BY <1>1, <1>3, <1>5, <1>6 DEF ClientInv

(* removeConnection() has found that connection_ is to be made again.        *)
LEMMA RestartsStep == ASSUME ClientInv, Restarts PROVE ClientInv'
<1> USE ConnectorAssumption, ClientAssumption DEF ConnectorAssumption, ClientAssumption
<1>0. TypeOK /\ LinesSound /\ failed = {}
  BY DEF ClientInv
<1>1. LinesSound' /\ UNCHANGED <<HasStart, HasStop, HasReset, Forcing, Dying>>
  BY <1>0, ViewsKept DEF Restarts, restart
<1> USE DEF Restarts, restart, clientVars, userVars
<1>2. TypeOK'
  BY <1>0 DEF TypeOK, States, Points
<1>3. ChannelSound' /\ AttemptSound' /\ OwnerSound' /\ GoneSound'
  BY <1>1 DEF ClientInv, ChannelSound, AttemptSound, OwnerSound, GoneSound, SocketSound, Starting,
     Calling, Attempted, RawWaits, RawQueued
<1>4. failed' = {} /\ SocketSound'
  BY <1>0, <1>1 DEF ClientInv, SocketSound, Attempted
<1> QED
  BY <1>1, <1>2, <1>3, <1>4 DEF ClientInv

(* The timer of retry() expires: nobody else is about to start.              *)
LEMMA TimerExpiresStep == ASSUME ClientInv, TimerExpires PROVE ClientInv'
<1>0. TypeOK /\ LinesSound /\ failed = {}
  BY DEF ClientInv
<1>1. LinesSound' /\ UNCHANGED <<HasStart, HasStop, HasReset, Forcing, Dying>>
  BY <1>0, ViewsKept DEF TimerExpires, RetryTimerExpires
<1>2. HasReset => stalled'
  BY <1>0, WaitingSeen DEF TimerExpires
<1> USE DEF TimerExpires, RetryTimerExpires, clientVars, userVars, Free
<1>3. TypeOK'
  <2>0. timers \in Nat /\ timers > 0 /\ timers' = timers - 1
    BY <1>0 DEF TypeOK
  <2>1. timers' \in Nat
    BY <2>0
  <2>2. stalled' \in BOOLEAN /\ within' \in Points
    BY <1>0 DEF TypeOK, Points
  <2>3. /\ UNCHANGED <<connect_, state, channel, watched, retryDelayMs, open, gaveUp, queue, batch,
                       phase, clientVars, userVars>>
    OBVIOUS
  <2> HIDE DEF TimerExpires, RetryTimerExpires
  <2> QED
    BY <1>0, <2>1, <2>2, <2>3 DEF TypeOK
<1>4. /\ timers = 1 /\ timers' = 0 /\ state = "kDisconnected" /\ ~Starting
      /\ channel = 0 \/ stalled'
  <2>1. timers = 1 /\ state = "kDisconnected" /\ ~Starting
    BY DEF ClientInv, AttemptSound
  <2>2. channel = 0 \/ stalled'
    BY <1>2, <2>1 DEF ClientInv, ChannelSound
  <2> QED
    BY <2>1, <2>2
<1>5. ChannelSound' /\ AttemptSound' /\ OwnerSound'
  BY <1>1, <1>4 DEF ClientInv, ChannelSound, AttemptSound, OwnerSound, Starting,
     Calling, RawWaits
<1>g. GoneSound'
  <2>1. phase = "events" /\ phase' = "events" /\ (stalled => stalled')
    OBVIOUS
  <2>2. UNCHANGED <<alive, upc, callback, connect_, up, keepAlive, state>> /\ GoneSound
    BY DEF ClientInv
  <2> HIDE DEF TimerExpires
  <2> QED
    BY <1>1, <2>1, <2>2 DEF GoneSound, RawWaits
<1>6. failed' = {} /\ SocketSound'
  BY <1>0, <1>1 DEF ClientInv, SocketSound, Attempted
<1> QED
  BY <1>1, <1>3, <1>5, <1>6, <1>g DEF ClientInv

(* The timer of ~TcpClient() expires, after the functors of stop() or before *)
(* them.                                                                     *)
LEMMA KeepAliveExpiresStep == ASSUME ClientInv, KeepAliveExpires PROVE ClientInv'
<1>0. TypeOK /\ LinesSound /\ failed = {}
  BY DEF ClientInv
<1> USE DEF KeepAliveExpires, connectorVars, loopVars, userVars
<1>1. LinesSound' /\ UNCHANGED <<HasStart, HasStop, HasReset, Forcing, Dying>>
  BY <1>0, ViewsKept
<1>2. (RawWaits => stalled') /\ phase' = "events"
  BY <1>0, WaitingSeen DEF RawWaits, RawFunctors
<1>3. TypeOK'
  <2>1. /\ keepAlive' \in BOOLEAN /\ stalled' \in BOOLEAN
        /\ UNCHANGED <<connectorVars, loopVars, alive, retry_, clientConnect, connection, up, callback, userVars>>
    OBVIOUS
  <2> HIDE DEF KeepAliveExpires
  <2> QED
    BY <1>0, <2>1 DEF TypeOK
<1>4. ChannelSound' /\ AttemptSound' /\ OwnerSound' /\ GoneSound' /\ SocketSound'
  BY <1>1, <1>2 DEF ClientInv, ChannelSound, AttemptSound, OwnerSound, GoneSound, SocketSound,
     Starting, Calling, Attempted, RawWaits, RawQueued
<1> QED
  BY <1>0, <1>1, <1>3, <1>4 DEF ClientInv

(* socket(2) returns a descriptor that is not in use.                        *)
LEMMA LowestFreeIsFree == ASSUME Fds \ open # {} PROVE LowestFree \in Fds \ open
<1> USE ConnectorAssumption DEF ConnectorAssumption
<1>1. PICK m \in Fds \ open : \A n \in Fds \ open : ~(<<n, m>> \in OpToRel(<, Nat))
  BY NatLessThanWellFounded, WFMin, Zenon
<1>2. \A n \in Fds \ open : ~(n < m)
  BY <1>1 DEF OpToRel
<1>3. \A n \in Fds \ open : m <= n
  BY <1>2
<1> QED
  BY <1>3 DEF LowestFree

(* The delay doubles up to its limit.                                        *)
LEMMA DelayBounded ==
  ASSUME retryDelayMs \in kInitRetryDelayMs..kMaxRetryDelayMs
  PROVE  NextDelay \in kInitRetryDelayMs..kMaxRetryDelayMs
BY ConnectorAssumption DEF ConnectorAssumption, NextDelay

(* startInLoop(), from a timer, after restart() or from the queue: it looks  *)
(* at connect_ and changes nothing.                                          *)
LEMMA startInLoopEffect ==
  ASSUME ClientInv, state = "kDisconnected", channel = 0 \/ stalled, timers = 0,
         within = "start" \/ HasStart, startInLoop, UNCHANGED <<clientVars, userVars, stalled>>,
         LinesSound', batch' \in Seq(AllFunctors), queue' \in Seq(AllFunctors),
         phase' = phase, ~HasStart', UNCHANGED <<HasStop, HasReset, Forcing, Dying>>
  PROVE  ClientInv'
<1>0. /\ TypeOK /\ failed = {} /\ ChannelSound /\ AttemptSound /\ OwnerSound /\ GoneSound
      /\ SocketSound
  BY DEF ClientInv
<1>1. ~watched /\ up = {} /\ callback = "client" /\ ~Calling /\ within # "given"
  BY <1>0 DEF ChannelSound, OwnerSound, AttemptSound, Starting, TypeOK, RawWaits
<1>2. connect_ => alive
  BY <1>0, <1>1 DEF GoneSound
<1>3. /\ UNCHANGED <<connect_, state, channel, watched, retryDelayMs, timers, open, gaveUp, queue,
                     failed, alive, retry_, clientConnect, connection, up, callback, keepAlive, upc,
                     calls, stopped, raced, stalled, phase>>
      /\ within' = IF connect_ THEN "connect" ELSE "none"
  BY DEF startInLoop, connectorVars, clientVars, userVars
<1>4. ~Calling' /\ ~Starting'
  BY <1>1, <1>3 DEF Calling, Starting
<1>5. TypeOK'
  <2>1. within' \in Points
    BY <1>3 DEF Points
  <2> QED
    BY <1>0, <1>3, <2>1 DEF TypeOK, AllFunctors
<1>6. ChannelSound' /\ AttemptSound'
  BY <1>0, <1>1, <1>2, <1>3, <1>4 DEF ChannelSound, AttemptSound, TypeOK
<1>7. OwnerSound'
  BY <1>0, <1>1, <1>3 DEF OwnerSound
<1>8. GoneSound'
  BY <1>0, <1>3 DEF GoneSound, RawWaits, RawQueued
<1>9. SocketSound'
  <2>1. Attempted = {} /\ Attempted' = {}
    BY <1>1, <1>3 DEF Attempted
  <2> QED
    BY <1>0, <1>3, <2>1 DEF SocketSound
<1> QED
  BY <1>0, <1>3, <1>5, <1>6, <1>7, <1>8, <1>9 DEF ClientInv

(* startInLoop() called on the loop itself.                                  *)
LEMMA StartsStep == ASSUME ClientInv, Starts PROVE ClientInv'
<1>0. TypeOK /\ LinesSound /\ AttemptSound
  BY DEF ClientInv
<1>1. within = "start" /\ state = "kDisconnected" /\ (channel = 0 \/ stalled) /\ ~Starting
  BY <1>0 DEF Starts, AttemptSound
<1>2. timers = 0
  BY <1>0, <1>1 DEF AttemptSound, TypeOK
<1>3. UNCHANGED queue
  BY DEF Starts, startInLoop, Fails
<1>4. LinesSound' /\ UNCHANGED <<HasStart, HasStop, HasReset, Forcing, Dying>>
  BY <1>0, <1>3, ViewsKept DEF Starts
<1>5. ~HasStart'
  BY <1>1, <1>4 DEF Starting
<1>6. batch' \in Seq(AllFunctors) /\ queue' \in Seq(AllFunctors) /\ phase' = phase
  BY <1>0, <1>3 DEF Starts, TypeOK, AllFunctors
<1> QED
  BY <1>1, <1>2, <1>4, <1>5, <1>6, startInLoopEffect DEF Starts

(* connect(): it begins at most one attempt.  A channel of the last attempt  *)
(* is still there only in a round in which a timer came late.                *)
LEMMA ConnectsStep == ASSUME ClientInv, Connects PROVE ClientInv' \/ Broken'
<1> USE ConnectorAssumption, ClientAssumption DEF ConnectorAssumption, ClientAssumption
<1>0. /\ TypeOK /\ failed = {} /\ LinesSound /\ ChannelSound /\ AttemptSound /\ OwnerSound
      /\ GoneSound /\ SocketSound
  BY DEF ClientInv
<1>1. /\ within = "connect" /\ state = "kDisconnected" /\ (channel = 0 \/ stalled) /\ ~Starting
      /\ alive /\ timers = 0
  BY <1>0 DEF Connects, AttemptSound, TypeOK
<1>2. ~watched /\ up = {} /\ callback = "client" /\ connection = 0
  BY <1>0, <1>1 DEF ChannelSound, OwnerSound, TypeOK
<1>3. /\ within' = "none"
      /\ UNCHANGED <<batch, phase, alive, retry_, clientConnect, connection, up, callback, keepAlive,
                     upc, calls, stopped, raced, stalled>>
  BY DEF Connects, clientVars, userVars
<1>q. UNCHANGED queue
  BY DEF Connects, connect, ConnectBegins, connecting, ConnectRefused, ConnectFatal, Fails
<1>4. LinesSound' /\ UNCHANGED <<HasStart, HasStop, HasReset, Forcing, Dying>>
  BY <1>0, <1>3, <1>q, ViewsKept
<1>s. ~Calling' /\ ~Starting'
  BY <1>1, <1>3, <1>4 DEF Calling, Starting
<1>o. OwnerSound' /\ GoneSound'
  BY <1>0, <1>1, <1>2, <1>3, <1>4 DEF OwnerSound, GoneSound
<1>t. ASSUME state' \in States, channel' \in Fds \cup {0}, watched' \in BOOLEAN, timers' \in Nat,
             open' \subseteq Fds, gaveUp' \in BOOLEAN, connect_' = connect_,
             retryDelayMs' \in kInitRetryDelayMs..kMaxRetryDelayMs
      PROVE  TypeOK'
  BY <1>0, <1>3, <1>q, <1>t DEF TypeOK, Points
<1>ty. /\ state \in States /\ channel \in Fds \cup {0} /\ watched \in BOOLEAN /\ timers \in Nat
       /\ open \subseteq Fds /\ gaveUp \in BOOLEAN
       /\ retryDelayMs \in kInitRetryDelayMs..kMaxRetryDelayMs
  BY <1>0 DEF TypeOK
<1>a. Attempted = {} /\ (watched' = FALSE => Attempted' = {})
  BY <1>1, <1>2, <1>3 DEF Attempted
<1>5. CASE Fds \ open # {} /\ ConnectBegins /\ channel = 0
  <2> DEFINE fd == LowestFree
  <2>1. fd \in Fds /\ fd \notin open
    BY <1>5, LowestFreeIsFree
  <2> HIDE DEF fd
  <2>2. /\ state' = "kConnecting" /\ channel' = fd /\ watched' = TRUE /\ open' = open \cup {fd}
        /\ UNCHANGED <<connect_, retryDelayMs, timers, gaveUp, failed>>
    BY <1>5 DEF ConnectBegins, connecting, fd
  <2>3. fd # 0 /\ ~HasReset
    BY <1>0, <1>5, <2>1 DEF ChannelSound
  <2>4. TypeOK'
    BY <1>t, <1>ty, <2>1, <2>2 DEF States
  <2>5. ChannelSound' /\ AttemptSound'
    BY <1>1, <1>3, <1>4, <1>s, <2>2, <2>3 DEF ChannelSound, AttemptSound
  <2>7. SocketSound'
    <3>1. Attempted' = {fd}
      BY <2>2 DEF Attempted
    <3> QED
      BY <1>0, <1>2, <1>3, <1>4, <1>a, <2>1, <2>2, <3>1 DEF SocketSound
  <2> QED
    BY <1>0, <1>4, <1>o, <2>2, <2>4, <2>5, <2>7 DEF ClientInv
<1>6. CASE Fds \ open # {} /\ ConnectRefused
  <2> DEFINE fd == LowestFree
  <2>1. fd \in Fds /\ fd \notin open
    BY <1>6, LowestFreeIsFree
  <2> HIDE DEF fd
  <2>2. /\ state' = "kDisconnected" /\ open' = open \ {fd} /\ timers' \in {0, 1}
        /\ retryDelayMs' \in {retryDelayMs, NextDelay}
        /\ UNCHANGED <<connect_, channel, watched, gaveUp, failed>>
    BY <1>1, <1>6 DEF ConnectRefused, retry, fd
  <2>3. open' = open
    BY <2>1, <2>2
  <2>4. TypeOK'
    <3>1. retryDelayMs' \in kInitRetryDelayMs..kMaxRetryDelayMs /\ timers' \in Nat
      BY <1>ty, <2>2, DelayBounded
    <3> QED
      BY <1>t, <1>ty, <2>2, <2>3, <3>1 DEF States
  <2>5. ChannelSound' /\ AttemptSound'
    BY <1>0, <1>1, <1>2, <1>3, <1>4, <1>s, <2>2 DEF ChannelSound, AttemptSound
  <2>7. SocketSound'
    BY <1>0, <1>2, <1>3, <1>4, <1>a, <2>2, <2>3 DEF SocketSound
  <2> QED
    BY <1>0, <1>4, <1>o, <2>2, <2>4, <2>5, <2>7 DEF ClientInv
<1>7. CASE UNCHANGED <<connect_, state, channel, watched, retryDelayMs, timers, open>> /\ gaveUp' \in BOOLEAN
  <2>4. TypeOK'
    BY <1>t, <1>ty, <1>7
  <2>5. ChannelSound' /\ AttemptSound'
    BY <1>0, <1>1, <1>2, <1>3, <1>4, <1>s, <1>7 DEF ChannelSound, AttemptSound
  <2>7. SocketSound'
    BY <1>0, <1>2, <1>3, <1>4, <1>7, <1>a DEF SocketSound
  <2>8. CASE failed' = failed
    BY <1>0, <1>4, <1>o, <2>4, <2>5, <2>7, <2>8 DEF ClientInv
  <2>9. CASE failed' = {"connecting"} /\ stalled
    <3>1. stalled' /\ (watched <=> state = "kConnecting")'
      BY <1>2, <1>1, <1>3, <1>7, <2>9
    <3> QED
      BY <1>4, <1>o, <2>4, <2>5, <2>7, <2>9, <3>1 DEF Broken
  <2>10. failed' = failed \/ (failed' = {"connecting"} /\ stalled)
    BY <1>1, <1>7 DEF Connects, connect, ConnectBegins, connecting, ConnectRefused, ConnectFatal, Fails
  <2> QED
    BY <2>8, <2>9, <2>10
<1>8. CASE ConnectFatal
  BY <1>7, <1>8 DEF ConnectFatal
<1>9. CASE ConnectBegins /\ channel # 0
  BY <1>7, <1>9, <1>ty DEF ConnectBegins, connecting, Fails, connectorVars
<1> QED
  BY <1>5, <1>6, <1>8, <1>9 DEF Connects, connect

(* An attempt ends without a connection, in handleError(), handleWrite() or  *)
(* stopInLoop(): the socket is closed, the channel waits to be reset, and    *)
(* unless stop() was called there is one timer.                              *)
LEMMA attemptEnds ==
  ASSUME ClientInv, ~Aborted, state = "kConnecting",
         watched' = FALSE, channel' = channel, retry(channel), UNCHANGED <<connect_, gaveUp, failed>>,
         within' \in {"none", "write"}, UNCHANGED <<clientVars, userVars, stalled>>,
         LinesSound', batch' \in Seq(AllFunctors), queue' \in Seq(AllFunctors),
         phase' \in {"events", "functors"},
         HasReset', UNCHANGED <<HasStart, Forcing, Dying>>
  PROVE  ClientInv'
<1> USE ConnectorAssumption, ClientAssumption DEF ConnectorAssumption, ClientAssumption
<1>0. /\ TypeOK /\ failed = {} /\ ChannelSound /\ AttemptSound /\ OwnerSound /\ GoneSound
      /\ SocketSound
  BY DEF ClientInv
<1>1. watched /\ channel # 0 /\ up = {} /\ callback = "client" /\ ~Calling /\ ~HasStart
  BY <1>0 DEF ChannelSound, OwnerSound, AttemptSound, Starting, TypeOK
<1>2. ~alive => keepAlive /\ ~connect_
  <2>1. timers = 0 /\ within \notin {"start", "connect"}
    BY <1>0 DEF AttemptSound, TypeOK
  <2>2. ~alive => keepAlive
    BY <1>1, <2>1 DEF Aborted, Held
  <2> QED
    BY <1>0, <1>1, <2>2 DEF GoneSound
<1>3. UNCHANGED <<alive, retry_, clientConnect, connection, up, callback, keepAlive, upc, calls,
                  stopped, raced, stalled>>
  BY DEF clientVars, userVars
<1>4. ~Calling' /\ ~Starting'
  BY <1>1, <1>3 DEF Calling, Starting
<1>5. timers = 0
  BY <1>0 DEF AttemptSound, TypeOK
<1>6. /\ state' = "kDisconnected" /\ open' = open \ {channel} /\ timers' \in {0, 1}
      /\ retryDelayMs' \in {retryDelayMs, NextDelay}
  BY <1>5 DEF retry
<1>7. TypeOK'
  <2>1. retryDelayMs \in kInitRetryDelayMs..kMaxRetryDelayMs
    BY <1>0 DEF TypeOK
  <2>2. retryDelayMs' \in kInitRetryDelayMs..kMaxRetryDelayMs
    BY <1>6, <2>1, DelayBounded
  <2>3. timers' \in Nat /\ state' \in States /\ open' \subseteq Fds
    BY <1>0, <1>6 DEF TypeOK, States
  <2>4. within' \in Points
    BY DEF Points
  <2>5. watched' \in BOOLEAN /\ channel' \in Fds \cup {0} /\ connect_' \in BOOLEAN /\ gaveUp' \in BOOLEAN
    BY <1>0 DEF TypeOK
  <2>6. /\ alive' \in BOOLEAN /\ retry_' \in BOOLEAN /\ clientConnect' \in BOOLEAN
        /\ connection' \in Fds \cup {0} /\ up' \subseteq Fds /\ callback' \in {"client", "detached"}
        /\ keepAlive' \in BOOLEAN /\ calls' \in 0..MaxCalls
        /\ upc' \in {"idle", "connect", "stop", "queueStart", "queueStop"}
        /\ stopped' \in BOOLEAN /\ raced' \in Points /\ stalled' \in BOOLEAN
    BY <1>0, <1>3 DEF TypeOK
  <2> QED
    BY <2>2, <2>3, <2>4, <2>5, <2>6 DEF TypeOK, AllFunctors
<1>8. ChannelSound' /\ AttemptSound'
  BY <1>1, <1>3, <1>4, <1>6 DEF ChannelSound, AttemptSound
<1>9. OwnerSound' /\ GoneSound'
  BY <1>0, <1>1, <1>2, <1>3, <1>6 DEF OwnerSound, GoneSound
<1>10. SocketSound'
  BY <1>0, <1>1, <1>3, <1>6 DEF SocketSound, Attempted
<1> QED
  BY <1>0, <1>7, <1>8, <1>9, <1>10 DEF ClientInv

(* removeAndResetChannel() queues the only resetChannel().                   *)
LEMMA resetQueued ==
  ASSUME ClientInv, watched, queue' = Append(queue, Functor("resetChannel")), UNCHANGED <<batch, phase>>
  PROVE  /\ LinesSound' /\ HasReset' /\ UNCHANGED <<HasStart, HasStop, Forcing, Dying>>
         /\ batch' \in Seq(AllFunctors) /\ queue' \in Seq(AllFunctors)
         /\ phase' \in {"events", "functors"}
<1>0. TypeOK /\ LinesSound /\ ~HasReset
  BY DEF ClientInv, ChannelSound
<1>1. /\ LinesSound' /\ queue' \in Seq(AllFunctors) /\ HasReset'
      /\ UNCHANGED <<HasStart, HasStop, Forcing, Dying>>
  <2> DEFINE name == "resetChannel"
  <2>1. name \in {"startInLoop", "stopInLoop", "resetChannel"} /\ name # "startInLoop" /\ name # "stopInLoop"
    OBVIOUS
  <2>2. queue' = Append(queue, Functor(name))
    OBVIOUS
  <2>3. name = "resetChannel"
    OBVIOUS
  <2> HIDE DEF name
  <2>4. /\ LinesSound' /\ queue' \in Seq(AllFunctors)
        /\ HasStart' <=> HasStart \/ name = "startInLoop"
        /\ HasStop' <=> HasStop \/ name = "stopInLoop"
        /\ HasReset' <=> HasReset \/ name = "resetChannel"
        /\ UNCHANGED <<Forcing, Dying>>
    BY <1>0, <2>1, <2>2, ViewsQueue
  <2>5. UNCHANGED <<HasStart, HasStop>>
    BY <2>1, <2>4 DEF HasStart, HasStop
  <2> QED
    BY <2>3, <2>4, <2>5
<1>2. batch' \in Seq(AllFunctors) /\ phase' \in {"events", "functors"}
  BY <1>0 DEF TypeOK, AllFunctors
<1> QED
  BY <1>1, <1>2

(* handleError() ends the attempt before handleWrite() is called.            *)
LEMMA ChannelErrorStep == ASSUME ClientInv, ~Aborted, ChannelError PROVE ClientInv'
<1>1. watched /\ state = "kConnecting"
  BY DEF ClientInv, ChannelSound, ChannelError
<1>2. /\ queue' = Append(queue, Functor("resetChannel")) /\ UNCHANGED <<batch, phase>>
      /\ watched' = FALSE /\ channel' = channel /\ retry(channel)
      /\ UNCHANGED <<connect_, gaveUp, failed>> /\ within' \in {"none", "write"}
      /\ UNCHANGED <<clientVars, userVars, stalled>>
  BY <1>1 DEF ChannelError, handleError, removeAndResetChannel
<1>3. /\ LinesSound' /\ HasReset' /\ UNCHANGED <<HasStart, HasStop, Forcing, Dying>>
      /\ batch' \in Seq(AllFunctors) /\ queue' \in Seq(AllFunctors)
      /\ phase' \in {"events", "functors"}
  BY <1>1, <1>2, resetQueued
<1> QED
  BY <1>1, <1>2, <1>3, attemptEnds

(* handleWrite(): the attempt ends, with a connection when nobody stopped.   *)
LEMMA ChannelWritableStep ==
  ASSUME ClientInv, ~Aborted, NEW found \in WriteFinds, ChannelWritable(found)
  PROVE  ClientInv'
<1>0. /\ TypeOK /\ failed = {} /\ LinesSound /\ ChannelSound /\ AttemptSound /\ OwnerSound
      /\ GoneSound /\ SocketSound
  BY DEF ClientInv
<1>1. CASE IsConnecting /\ found = "error"
  <2>1. watched /\ state = "kConnecting"
    BY <1>0, <1>1 DEF ChannelSound, IsConnecting
  <2>2. /\ queue' = Append(queue, Functor("resetChannel")) /\ UNCHANGED <<batch, phase>>
        /\ watched' = FALSE /\ channel' = channel /\ retry(channel)
        /\ UNCHANGED <<connect_, gaveUp, failed>> /\ within' \in {"none", "write"}
        /\ UNCHANGED <<clientVars, userVars, stalled>>
    BY <1>1 DEF ChannelWritable, handleWrite, removeAndResetChannel, clientVars
  <2>3. /\ LinesSound' /\ HasReset' /\ UNCHANGED <<HasStart, HasStop, Forcing, Dying>>
        /\ batch' \in Seq(AllFunctors) /\ queue' \in Seq(AllFunctors)
        /\ phase' \in {"events", "functors"}
    BY <2>1, <2>2, resetQueued
  <2> QED
    BY <2>1, <2>2, <2>3, attemptEnds
<1>2. CASE IsConnecting /\ found = "connected"
  <2>1. /\ watched /\ state = "kConnecting" /\ channel # 0 /\ up = {} /\ callback = "client"
        /\ connection = 0 /\ ~Calling /\ ~HasStart /\ timers = 0
    <3>1. watched /\ state = "kConnecting" /\ channel # 0
      BY <1>0, <1>2 DEF ChannelSound, IsConnecting
    <3>2. ~Starting /\ timers = 0
      BY <1>0, <3>1 DEF AttemptSound, TypeOK
    <3>3. up = {} /\ callback = "client"
      BY <1>0, <3>1 DEF OwnerSound, TypeOK
    <3>4. connection = 0
      BY <1>0, <3>3 DEF OwnerSound
    <3> QED
      BY <3>1, <3>2, <3>3, <3>4 DEF Starting
  <2>2. /\ ~alive => keepAlive /\ ~connect_
        /\ within # "given"
    <3>1. timers = 0 /\ within \notin {"start", "connect", "given"}
      BY <1>0, <2>1 DEF AttemptSound
    <3>2. ~alive => keepAlive
      BY <2>1, <3>1 DEF Aborted, Held
    <3> QED
      BY <1>0, <2>1, <3>1, <3>2 DEF GoneSound
  <2>3. /\ queue' = Append(queue, Functor("resetChannel")) /\ UNCHANGED <<batch, phase>>
        /\ watched' = FALSE /\ channel' = channel /\ state' = "kConnected"
        /\ within' = IF connect_ THEN "given" ELSE "none"
        /\ open' = IF connect_ THEN open ELSE open \ {channel}
        /\ UNCHANGED <<connect_, retryDelayMs, timers, gaveUp, failed>>
        /\ UNCHANGED <<alive, retry_, clientConnect, connection, up, callback, keepAlive, upc, calls,
                       stopped, raced, stalled>>
    BY <1>2 DEF ChannelWritable, handleWrite, removeAndResetChannel, clientVars, userVars
  <2>5. /\ LinesSound' /\ HasReset' /\ UNCHANGED <<HasStart, HasStop, Forcing, Dying>>
        /\ batch' \in Seq(AllFunctors) /\ queue' \in Seq(AllFunctors)
        /\ phase' \in {"events", "functors"}
    BY <2>1, <2>3, resetQueued
  <2>6. TypeOK'
    <3>1. open' \subseteq Fds /\ within' \in Points /\ state' \in States
      BY <1>0, <2>3 DEF TypeOK, Points, States
    <3>2. /\ watched' \in BOOLEAN
          /\ UNCHANGED <<channel, connect_, retryDelayMs, timers, gaveUp, alive, retry_, clientConnect,
                         connection, up, callback, keepAlive, upc, calls, stopped, raced, stalled>>
      BY <2>3
    <3> QED
      BY <1>0, <2>5, <3>1, <3>2 DEF TypeOK, AllFunctors
  <2>7. ~Calling' /\ ~Starting'
    BY <2>1, <2>3, <2>5 DEF Calling, Starting
  <2>8. ChannelSound' /\ AttemptSound'
    BY <2>1, <2>2, <2>3, <2>5, <2>7 DEF ChannelSound, AttemptSound
  <2>9. OwnerSound'
    BY <1>0, <2>1, <2>3, <2>5 DEF OwnerSound
  <2>10. GoneSound'
    BY <1>0, <2>1, <2>2, <2>3 DEF GoneSound
  <2>11. SocketSound'
    <3>1. Attempted = {channel} /\ Attempted' = IF connect_ THEN {channel} ELSE {}
      BY <2>1, <2>3 DEF Attempted
    <3> QED
      BY <1>0, <2>1, <2>3, <2>5, <3>1 DEF SocketSound
  <2> QED
    BY <1>0, <2>3, <2>5, <2>6, <2>8, <2>9, <2>10, <2>11 DEF ClientInv
<1>3. CASE ~IsConnecting
  <2>1. within = "write" /\ state = "kDisconnected" /\ ~Starting
    BY <1>0, <1>3 DEF ChannelWritable, ChannelSound, AttemptSound, IsConnecting
  <2>2. /\ within' = "none" /\ failed' = {}
        /\ UNCHANGED <<connect_, state, channel, watched, retryDelayMs, timers, open, gaveUp, queue, batch,
                       phase, alive, retry_, clientConnect, connection, up, callback, keepAlive,
                       upc, calls, stopped, raced, stalled>>
    BY <1>3, <2>1 DEF ChannelWritable, handleWrite, connectorVars, clientVars, userVars
  <2>3. LinesSound' /\ UNCHANGED <<HasStart, HasStop, HasReset, Forcing, Dying>>
    BY <1>0, <2>2, ViewsKept
  <2>4. TypeOK'
    BY <1>0, <2>2 DEF TypeOK, Points
  <2>5. ChannelSound' /\ AttemptSound' /\ OwnerSound' /\ GoneSound' /\ SocketSound'
    BY <1>0, <2>1, <2>2, <2>3 DEF ChannelSound, AttemptSound, OwnerSound, GoneSound, SocketSound,
       Starting, Calling, Attempted, RawWaits, RawQueued
  <2> QED
    BY <2>2, <2>3, <2>4, <2>5 DEF ClientInv
<1> QED
  BY <1>1, <1>2, <1>3 DEF WriteFinds

(* newConnection(): the socket changes hands.                                *)
LEMMA newConnectionStep == ASSUME ClientInv, newConnection PROVE ClientInv'
<1>0. /\ TypeOK /\ failed = {} /\ LinesSound /\ ChannelSound /\ AttemptSound /\ OwnerSound
      /\ GoneSound /\ SocketSound
  BY DEF ClientInv
<1>1. /\ within = "given" /\ state = "kConnected" /\ channel # 0 /\ up = {} /\ ~Starting /\ alive
      /\ ~watched
  BY <1>0 DEF newConnection, AttemptSound, ChannelSound
<1>2. /\ within' = "none" /\ connection' = channel /\ up' = {channel} /\ callback' = "client"
      /\ UNCHANGED <<connect_, state, channel, watched, retryDelayMs, timers, open, gaveUp, queue,
                     batch, phase, failed, alive, retry_, clientConnect, keepAlive, upc, calls, stopped,
                     raced, stalled>>
  BY <1>1 DEF newConnection, connectorVars, userVars
<1>3. LinesSound' /\ UNCHANGED <<HasStart, HasStop, HasReset, Forcing, Dying>>
  BY <1>0, <1>2, ViewsKept
<1>4. TypeOK'
  <2>1. connection' \in Fds \cup {0} /\ up' \subseteq Fds /\ within' \in Points
    BY <1>0, <1>1, <1>2 DEF TypeOK, Points
  <2> QED
    BY <1>0, <1>2, <2>1 DEF TypeOK
<1>5. ChannelSound' /\ AttemptSound'
  BY <1>0, <1>1, <1>2, <1>3 DEF ChannelSound, AttemptSound, Starting, Calling
<1>6. OwnerSound' /\ GoneSound'
  <2>1. ~Forcing
    BY <1>0, <1>1 DEF OwnerSound, TypeOK
  <2> QED
    BY <1>1, <1>2, <1>3, <2>1 DEF OwnerSound, GoneSound
<1>7. SocketSound'
  <2>1. Attempted = {channel} /\ Attempted' = {}
    BY <1>1, <1>2 DEF Attempted
  <2> QED
    BY <1>0, <1>1, <1>2, <1>3, <2>1 DEF SocketSound
<1> QED
  BY <1>0, <1>2, <1>3, <1>4, <1>5, <1>6, <1>7 DEF ClientInv

(* The connection is closed: it waits to be destroyed, and the client        *)
(* forgets it if it has not given it away.                                   *)
LEMMA connectionRemoved ==
  ASSUME ClientInv, NEW fd \in up, removeConnection(fd), within = "none", UNCHANGED stalled,
         ~HasReset \/ callback = "detached",
         LinesSound', batch' \in Seq(AllFunctors), queue' \in Seq(AllFunctors),
         phase' \in {"events", "functors"},
         UNCHANGED <<HasStart, HasStop, HasReset>>, Forcing' => Forcing, Dying' = Dying \cup {fd}
  PROVE  ClientInv'
<1>0. /\ TypeOK /\ failed = {} /\ ChannelSound /\ AttemptSound /\ OwnerSound /\ GoneSound
      /\ SocketSound
  BY DEF ClientInv
<1>1. state = "kConnected" /\ ~watched /\ ~Starting
  BY <1>0 DEF OwnerSound, ChannelSound, AttemptSound
<1>2. /\ up' = up \ {fd}
      /\ UNCHANGED <<connect_, state, channel, watched, retryDelayMs, timers, open, gaveUp, alive, retry_,
                     clientConnect, callback, keepAlive, upc, calls, stopped, raced, stalled>>
  BY DEF removeConnection, connectorVars, userVars
<1>3. up' = {}
  <2>1. \A f, g \in up : f = g
    BY <1>0 DEF OwnerSound, TypeOK
  <2> QED
    BY <1>2, <2>1
<1>4. CASE callback = "client"
  <2>1. connection = fd /\ connection # 0 /\ alive
    BY <1>0, <1>4 DEF OwnerSound
  <2>2. failed' = {} /\ connection' = 0 /\ within' \in {"restart", "none"}
    BY <1>4, <2>1 DEF removeConnection
  <2>a. Attempted = {} /\ Attempted' = {}
    BY <1>1, <1>2, <2>2 DEF Attempted
  <2>3. channel = 0
    BY <1>0, <1>1, <1>4 DEF ChannelSound
  <2>4. TypeOK'
    <3>1. within' \in Points /\ connection' \in Fds \cup {0} /\ up' \subseteq Fds
      BY <1>3, <2>2 DEF Points
    <3> QED
      BY <1>0, <1>2, <3>1 DEF TypeOK, AllFunctors
  <2>5. ChannelSound'
    BY <1>0, <1>2 DEF ChannelSound
  <2>6. ~Starting' /\ timers = 0
    BY <1>0, <1>1, <1>2 DEF Starting, Calling, AttemptSound, TypeOK
  <2>7. AttemptSound'
    BY <1>1, <1>2, <1>3, <2>1, <2>2, <2>3, <2>6 DEF AttemptSound, Starting
  <2>8. OwnerSound' /\ GoneSound'
    BY <1>0, <1>2, <1>3, <1>4, <2>1, <2>2 DEF OwnerSound, GoneSound
  <2>9. SocketSound'
    BY <1>0, <1>1, <1>2, <1>3, <2>a DEF SocketSound
  <2> QED
    BY <2>2, <2>4, <2>5, <2>7, <2>8, <2>9 DEF ClientInv
<1>5. CASE callback = "detached"
  <2>1. UNCHANGED <<failed, connection, within>>
    BY <1>5 DEF removeConnection
  <2>a. Attempted = {} /\ Attempted' = {}
    BY <1>1, <1>2, <2>1 DEF Attempted
  <2>2. TypeOK'
    <3>1. up' \subseteq Fds
      BY <1>3
    <3> QED
      BY <1>0, <1>2, <2>1, <3>1 DEF TypeOK, AllFunctors
  <2>3. ChannelSound' /\ AttemptSound'
    BY <1>0, <1>2, <2>1, <1>1 DEF ChannelSound, AttemptSound, Starting, Calling
  <2>4. OwnerSound' /\ GoneSound'
    BY <1>0, <1>2, <1>3, <1>5, <2>1 DEF OwnerSound, GoneSound, RawWaits, RawQueued
  <2>5. SocketSound'
    BY <1>0, <1>1, <1>2, <1>3, <2>a DEF SocketSound
  <2> QED
    BY <1>0, <2>1, <2>2, <2>3, <2>4, <2>5 DEF ClientInv
<1> QED
  BY <1>0, <1>4, <1>5 DEF TypeOK

(* A connection is closed by its peer or fails.                              *)
LEMMA ConnectionClosesStep == ASSUME ClientInv, ConnectionCloses PROVE ClientInv'
<1>0. TypeOK /\ LinesSound /\ OwnerSound /\ SocketSound
  BY DEF ClientInv
<1>1. PICK fd \in up : removeConnection(fd)
  BY DEF ConnectionCloses
<1>2. ~HasReset /\ within = "none" /\ UNCHANGED <<batch, phase, stalled>>
  BY <1>0, WaitingSeen DEF ConnectionCloses, Free
<1>3. fd \in Fds /\ fd \notin Dying /\ queue' = Append(queue, <<"connectDestroyed", fd>>)
  BY <1>0, <1>1 DEF TypeOK, SocketSound, removeConnection
<1>4. /\ LinesSound' /\ queue' \in Seq(AllFunctors)
      /\ UNCHANGED <<HasStart, HasStop, HasReset>>
      /\ Forcing' => Forcing
      /\ Dying' = Dying \cup {fd}
  <2> DEFINE name == "connectDestroyed"
  <2>1. name \in {"forceClose", "connectDestroyed"} /\ queue' = Append(queue, <<name, fd>>)
    BY <1>3
  <2>2. name = "connectDestroyed"
    OBVIOUS
  <2> HIDE DEF name
  <2>3. /\ LinesSound' /\ queue' \in Seq(AllFunctors)
        /\ UNCHANGED <<HasStart, HasStop, HasReset>>
        /\ Forcing' <=> Forcing \/ name = "forceClose"
        /\ Dying' = IF name = "connectDestroyed" THEN Dying \cup {fd} ELSE Dying
    BY <1>0, <1>2, <1>3, <2>1, ViewsQueueFd
  <2> QED
    BY <2>2, <2>3
<1>5. batch' \in Seq(AllFunctors) /\ phase' \in {"events", "functors"}
  BY <1>0, <1>2 DEF TypeOK, AllFunctors
<1> QED
  BY <1>1, <1>2, <1>4, <1>5, connectionRemoved

-----------------------------------------------------------------------------
(* Functors.                                                                 *)

(* Taking the first of the batch.                                            *)
LEMMA HeadTaken ==
  ASSUME TypeOK, LinesSound, batch # <<>>, batch' = Tail(batch), phase = "functors", phase' = phase
  PROVE  \E E \in SUBSET AllFunctors, h \in AllFunctors :
            /\ h = Head(batch) /\ Entries = E \cup {h} /\ E = Ents(batch', queue)
            /\ h[1] \in RawFunctors => h = Functor(h[1])
            /\ h[1] \in Single => h \notin E
            /\ batch' \in Seq(AllFunctors) /\ Lines(batch', queue)
<1>1. batch \in Seq(AllFunctors) /\ queue \in Seq(AllFunctors) /\ Lines(batch, queue)
  BY DEF TypeOK, AllFunctors, LinesSound
<1>2. /\ Tail(batch) \in Seq(AllFunctors) /\ Lines(Tail(batch), queue)
      /\ Head(batch) \in AllFunctors /\ Ents(batch, queue) = Ents(Tail(batch), queue) \cup {Head(batch)}
      /\ Head(batch)[1] \in RawFunctors => Head(batch) = Functor(Head(batch)[1])
      /\ Head(batch)[1] \in Single => Head(batch) \notin Ents(Tail(batch), queue)
  BY <1>1, LinesTail
<1>3. Ents(Tail(batch), queue) \in SUBSET AllFunctors
  <2>1. \A s \in Seq(AllFunctors) : SetOf(s) \subseteq AllFunctors
    BY DEF SetOf
  <2> QED
    BY <1>1, <1>2, <2>1 DEF Ents
<1> WITNESS Ents(Tail(batch), queue) \in SUBSET AllFunctors, Head(batch) \in AllFunctors
<1> QED
  BY <1>2, <1>3 DEF Entries

(* The functor is gone, and nothing has joined the queue.                    *)
LEMMA ViewsTake ==
  ASSUME TypeOK, LinesSound, batch # <<>>, batch' = Tail(batch), phase = "functors", phase' = phase,
         queue' = queue
  PROVE  /\ LinesSound' /\ batch' \in Seq(AllFunctors) /\ queue' \in Seq(AllFunctors)
         /\ HasStart' <=> HasStart /\ Head(batch)[1] # "startInLoop"
         /\ HasReset' <=> HasReset /\ Head(batch)[1] # "resetChannel"
         /\ HasStop' => HasStop
         /\ Head(batch)[1] # "stopInLoop" => HasStop' = HasStop
         /\ Forcing' => Forcing
         /\ Dying' = IF Head(batch)[1] = "connectDestroyed" THEN Dying \ {Head(batch)[2]} ELSE Dying
<1>1. PICK E \in SUBSET AllFunctors, h \in AllFunctors :
            /\ h = Head(batch) /\ Entries = E \cup {h} /\ E = Ents(batch', queue)
            /\ h[1] \in RawFunctors => h = Functor(h[1])
            /\ h[1] \in Single => h \notin E
            /\ batch' \in Seq(AllFunctors) /\ Lines(batch', queue)
  BY HeadTaken
<1>2. Entries' = E /\ LinesSound' /\ queue' \in Seq(AllFunctors)
  BY <1>1 DEF Entries, LinesSound, TypeOK, AllFunctors
<1>3. \A n \in RawFunctors : Functor(n)[1] = n /\ (h = Functor(n) <=> h[1] = n)
  BY <1>1 DEF Functor
<1>4. /\ HasStart' <=> HasStart /\ h[1] # "startInLoop"
      /\ HasReset' <=> HasReset /\ h[1] # "resetChannel"
      /\ HasStop' => HasStop
      /\ h[1] # "stopInLoop" => HasStop' = HasStop
  BY <1>1, <1>2, <1>3 DEF HasStart, HasReset, HasStop, RawFunctors, Single
<1>5. Forcing' => Forcing
  BY <1>1, <1>2 DEF Forcing
<1>6. Dying' = IF h[1] = "connectDestroyed" THEN Dying \ {h[2]} ELSE Dying
  <2>1. \A fd : h = <<"connectDestroyed", fd>> <=> h[1] = "connectDestroyed" /\ h[2] = fd
    BY DEF AllFunctors
  <2> QED
    BY <1>1, <1>2, <2>1 DEF Dying, Single
<1> QED
  BY <1>1, <1>2, <1>4, <1>5, <1>6

(* The functor that runs is one that waited.                                 *)
LEMMA HeadSeen ==
  ASSUME TypeOK, LinesSound, batch # <<>>
  PROVE  /\ Head(batch) \in AllFunctors
         /\ Head(batch)[1] = "startInLoop" => HasStart
         /\ Head(batch)[1] = "stopInLoop" => HasStop
         /\ Head(batch)[1] = "resetChannel" => HasReset
         /\ Head(batch)[1] = "forceClose" => Forcing
<1>1. batch \in Seq(AllFunctors) /\ queue \in Seq(AllFunctors) /\ Lines(batch, queue)
  BY DEF TypeOK, AllFunctors, LinesSound
<1>2. /\ Head(batch) \in AllFunctors /\ Head(batch) \in Entries
      /\ Head(batch)[1] \in RawFunctors => Head(batch) = Functor(Head(batch)[1])
  BY <1>1, LinesTail DEF Entries
<1> QED
  BY <1>2 DEF HasStart, HasStop, HasReset, Forcing, RawFunctors

(* connectDestroyed() closes a socket that waited for it.                    *)
LEMMA HeadDies ==
  ASSUME TypeOK, LinesSound, batch # <<>>, Head(batch)[1] = "connectDestroyed", Head(batch)[2] \in Fds
  PROVE  Head(batch)[2] \in Dying
<1>1. batch \in Seq(AllFunctors) /\ queue \in Seq(AllFunctors) /\ Lines(batch, queue)
  BY DEF TypeOK, AllFunctors, LinesSound
<1>2. Head(batch) \in AllFunctors /\ Head(batch) \in Entries
  BY <1>1, LinesTail DEF Entries
<1>3. Head(batch) = <<"connectDestroyed", Head(batch)[2]>>
  BY <1>2 DEF AllFunctors
<1> QED
  BY <1>2, <1>3 DEF Dying

(* stopInLoop() runs and queues resetChannel().                              *)
LEMMA ViewsStop ==
  ASSUME TypeOK, LinesSound, batch # <<>>, batch' = Tail(batch), phase = "functors", phase' = phase,
         Head(batch)[1] = "stopInLoop", ~HasReset, queue' = Append(queue, Functor("resetChannel"))
  PROVE  /\ LinesSound' /\ batch' \in Seq(AllFunctors) /\ queue' \in Seq(AllFunctors)
         /\ HasReset' /\ UNCHANGED <<HasStart, Forcing, Dying>>
<1>1. PICK E \in SUBSET AllFunctors, h \in AllFunctors :
            /\ h = Head(batch) /\ Entries = E \cup {h} /\ E = Ents(batch', queue)
            /\ h[1] \in RawFunctors => h = Functor(h[1])
            /\ h[1] \in Single => h \notin E
            /\ batch' \in Seq(AllFunctors) /\ Lines(batch', queue)
  BY HeadTaken
<1> DEFINE e == Functor("resetChannel")
<1>2. queue \in Seq(AllFunctors) /\ e \in AllFunctors /\ e[1] = "resetChannel" /\ e = Functor(e[1])
  BY DEF TypeOK, AllFunctors, Functor, Names, RawFunctors
<1>3. e \notin E /\ queue' = Append(queue, e)
  BY <1>1 DEF HasReset
<1> HIDE DEF e
<1>4. PICK b \in Seq(AllFunctors) : b = batch'
  BY <1>1
<1>5. /\ Append(queue, e) \in Seq(AllFunctors) /\ Lines(b, Append(queue, e))
      /\ Ents(b, Append(queue, e)) = Ents(b, queue) \cup {e}
  <2>1. Lines(b, queue) /\ e \notin Ents(b, queue)
    BY <1>1, <1>3, <1>4
  <2> QED
    BY <1>2, <2>1, LinesAppend
<1>6. Entries' = E \cup {e} /\ LinesSound' /\ queue' \in Seq(AllFunctors)
  BY <1>1, <1>3, <1>4, <1>5 DEF Entries, LinesSound
<1>7. h[1] = "stopInLoop" /\ h # Functor("startInLoop") /\ e # Functor("startInLoop")
  BY <1>1, <1>2 DEF Functor
<1>8. HasReset' /\ UNCHANGED HasStart
  BY <1>1, <1>6, <1>7 DEF HasReset, HasStart, e
<1>9. UNCHANGED Forcing
  BY <1>1, <1>2, <1>6, <1>7 DEF Forcing
<1>10. UNCHANGED Dying
  <2>1. \A fd : h # <<"connectDestroyed", fd>> /\ e # <<"connectDestroyed", fd>>
    BY <1>2, <1>7
  <2> QED
    BY <1>1, <1>6, <2>1 DEF Dying
<1> QED
  BY <1>1, <1>6, <1>8, <1>9, <1>10

(* forceCloseInLoop() runs and queues connectDestroyed().                    *)
LEMMA ViewsForce ==
  ASSUME TypeOK, LinesSound, batch # <<>>, batch' = Tail(batch), phase = "functors", phase' = phase,
         Head(batch)[1] = "forceClose", NEW fd \in Fds, fd \notin Dying,
         queue' = Append(queue, <<"connectDestroyed", fd>>)
  PROVE  /\ LinesSound' /\ batch' \in Seq(AllFunctors) /\ queue' \in Seq(AllFunctors)
         /\ UNCHANGED <<HasStart, HasStop, HasReset>> /\ (Forcing' => Forcing)
         /\ Dying' = Dying \cup {fd}
<1>1. PICK E \in SUBSET AllFunctors, h \in AllFunctors :
            /\ h = Head(batch) /\ Entries = E \cup {h} /\ E = Ents(batch', queue)
            /\ h[1] \in RawFunctors => h = Functor(h[1])
            /\ h[1] \in Single => h \notin E
            /\ batch' \in Seq(AllFunctors) /\ Lines(batch', queue)
  BY HeadTaken
<1> DEFINE e == <<"connectDestroyed", fd>>
<1>2. /\ queue \in Seq(AllFunctors) /\ e \in AllFunctors /\ e[1] = "connectDestroyed" /\ e[2] = fd
      /\ e[1] \notin RawFunctors
  BY DEF TypeOK, AllFunctors, Names, RawFunctors
<1>3. e \notin E /\ queue' = Append(queue, e)
  BY <1>1 DEF Dying
<1>d. \A g : e = <<"connectDestroyed", g>> <=> g = fd
  OBVIOUS
<1> HIDE DEF e
<1>4. PICK b \in Seq(AllFunctors) : b = batch'
  BY <1>1
<1>5. /\ Append(queue, e) \in Seq(AllFunctors) /\ Lines(b, Append(queue, e))
      /\ Ents(b, Append(queue, e)) = Ents(b, queue) \cup {e}
  <2>1. Lines(b, queue) /\ e \notin Ents(b, queue)
    BY <1>1, <1>3, <1>4
  <2> QED
    BY <1>2, <2>1, LinesAppend
<1>6. Entries' = E \cup {e} /\ LinesSound' /\ queue' \in Seq(AllFunctors)
  BY <1>1, <1>3, <1>4, <1>5 DEF Entries, LinesSound
<1>7. h[1] = "forceClose" /\ \A n \in RawFunctors : h # Functor(n) /\ e # Functor(n)
  BY <1>1, <1>2 DEF Functor, RawFunctors
<1>8. UNCHANGED <<HasStart, HasStop, HasReset>>
  BY <1>1, <1>6, <1>7 DEF HasStart, HasStop, HasReset, RawFunctors
<1>9. Forcing' => Forcing
  BY <1>1, <1>2, <1>6 DEF Forcing
<1>10. Dying' = Dying \cup {fd}
  <2>1. \A g : h # <<"connectDestroyed", g>>
    BY <1>7
  <2> QED
    BY <1>1, <1>6, <1>d, <2>1 DEF Dying
<1> QED
  BY <1>1, <1>6, <1>8, <1>9, <1>10

(* A functor of the batch runs.  A functor with a raw pointer finds its      *)
(* connector, which the client holds or the timer of its destructor, unless  *)
(* that timer came late.                                                     *)
LEMMA RunFunctorStep ==
  ASSUME ClientInv, ~Aborted, RunFunctor
  PROVE  ClientInv' \/ Broken'
<1>0. /\ TypeOK /\ failed = {} /\ LinesSound /\ ChannelSound /\ AttemptSound /\ OwnerSound
      /\ GoneSound /\ SocketSound
  BY DEF ClientInv
<1> DEFINE name == Head(batch)[1]
           fd == Head(batch)[2]
<1>1. /\ phase = "functors" /\ within = "none" /\ batch # <<>> /\ batch' = Tail(batch) /\ phase' = phase
      /\ stalled' = stalled /\ FunctorBody(name, fd)
  BY DEF RunFunctor, Free
<1>2. /\ Head(batch) \in AllFunctors
      /\ name = "startInLoop" => HasStart
      /\ name = "stopInLoop" => HasStop
      /\ name = "resetChannel" => HasReset
      /\ name = "forceClose" => Forcing
  BY <1>0, <1>1, HeadSeen
<1>3. queue' = queue =>
         /\ LinesSound' /\ batch' \in Seq(AllFunctors) /\ queue' \in Seq(AllFunctors)
         /\ HasStart' <=> HasStart /\ name # "startInLoop"
         /\ HasReset' <=> HasReset /\ name # "resetChannel"
         /\ HasStop' => HasStop
         /\ name # "stopInLoop" => HasStop' = HasStop
         /\ Forcing' => Forcing
         /\ Dying' = IF name = "connectDestroyed" THEN Dying \ {fd} ELSE Dying
  BY <1>0, <1>1, ViewsTake
<1>4. name = "stopInLoop" /\ ~HasReset /\ queue' = Append(queue, Functor("resetChannel")) =>
         /\ LinesSound' /\ batch' \in Seq(AllFunctors) /\ queue' \in Seq(AllFunctors)
         /\ HasReset' /\ UNCHANGED <<HasStart, Forcing, Dying>>
  BY <1>0, <1>1, ViewsStop
<1>5. name = "forceClose" /\ fd \in Fds /\ fd \notin Dying
         /\ queue' = Append(queue, <<"connectDestroyed", fd>>) =>
         /\ LinesSound' /\ batch' \in Seq(AllFunctors) /\ queue' \in Seq(AllFunctors)
         /\ UNCHANGED <<HasStart, HasStop, HasReset>> /\ (Forcing' => Forcing)
         /\ Dying' = Dying \cup {fd}
  <2> SUFFICES ASSUME name = "forceClose", fd \in Fds, fd \notin Dying,
                      queue' = Append(queue, <<"connectDestroyed", fd>>)
               PROVE  /\ LinesSound' /\ batch' \in Seq(AllFunctors) /\ queue' \in Seq(AllFunctors)
                      /\ UNCHANGED <<HasStart, HasStop, HasReset>> /\ (Forcing' => Forcing)
                      /\ Dying' = Dying \cup {fd}
    OBVIOUS
  <2>1. PICK g \in Fds : g = fd
    OBVIOUS
  <2>2. g \notin Dying /\ queue' = Append(queue, <<"connectDestroyed", g>>) /\ Head(batch)[1] = "forceClose"
    BY <2>1
  <2>3. /\ LinesSound' /\ batch' \in Seq(AllFunctors) /\ queue' \in Seq(AllFunctors)
        /\ UNCHANGED <<HasStart, HasStop, HasReset>> /\ (Forcing' => Forcing)
        /\ Dying' = Dying \cup {g}
    BY <1>0, <1>1, <2>2, ViewsForce
  <2> QED
    BY <2>1, <2>3
<1>6. phase' \in {"events", "functors"}
  BY <1>1
<1> HIDE DEF name, fd
<1>q. queue' = queue => (RawQueued' <=> RawQueued)
  BY DEF RawQueued
<1>7. CASE name \in RawFunctors /\ ~Held /\ Fails("dead") /\ UNCHANGED <<within, clientVars, userVars>>
  <2>1. ~alive /\ ~keepAlive /\ RawWaits
    BY <1>2, <1>7 DEF Held, RawWaits, RawFunctors
  <2>2. stalled
    BY <1>0, <2>1 DEF GoneSound, OwnerSound, TypeOK
  <2>3. /\ failed' = {"dead"}
        /\ UNCHANGED <<connect_, state, channel, watched, retryDelayMs, timers, open, gaveUp, queue, within,
                       alive, retry_, clientConnect, connection, up, callback, keepAlive, upc, calls,
                       stopped, raced>>
    BY <1>7 DEF Fails, connectorVars, clientVars, userVars
  <2>4. /\ LinesSound' /\ batch' \in Seq(AllFunctors) /\ queue' \in Seq(AllFunctors)
        /\ (HasStart' => HasStart) /\ (HasReset' => HasReset) /\ (HasStop' => HasStop)
        /\ (Forcing' => Forcing) /\ Dying' = Dying
    BY <1>3, <1>7, <2>3 DEF RawFunctors
  <2>5. TypeOK'
    BY <1>0, <1>1, <2>3, <2>4 DEF TypeOK, AllFunctors
  <2>6. AttemptSound' /\ OwnerSound'
    BY <1>0, <1>1, <2>3, <2>4 DEF AttemptSound, OwnerSound, Starting, Calling, RawWaits
  <2>7. SocketSound'
    BY <1>0, <2>3, <2>4 DEF SocketSound, Attempted
  <2>8. (watched <=> state = "kConnecting")' /\ stalled'
    BY <1>0, <1>1, <2>2, <2>3 DEF ChannelSound
  <2> QED
    BY <2>3, <2>4, <2>5, <2>6, <2>7, <2>8 DEF Broken
<1>8. CASE name = "startInLoop" /\ startInLoop /\ UNCHANGED <<clientVars, userVars, stalled>>
  <2>1. HasStart /\ state = "kDisconnected" /\ channel = 0 /\ timers = 0
    BY <1>0, <1>2, <1>8 DEF AttemptSound, Starting, TypeOK
  <2>2. queue' = queue
    BY <1>8 DEF startInLoop, Fails
  <2>3. /\ LinesSound' /\ batch' \in Seq(AllFunctors) /\ queue' \in Seq(AllFunctors)
        /\ ~HasStart' /\ HasReset' = HasReset /\ HasStop' = HasStop /\ (Forcing' => Forcing) /\ Dying' = Dying
    BY <1>3, <1>8, <2>2 DEF HasReset
  <2>4. UNCHANGED Forcing
    <3>1. ~Forcing
      BY <1>0, <2>1 DEF OwnerSound
    <3> QED
      BY <2>3, <3>1 DEF Forcing
  <2> QED
    BY <1>1, <1>8, <2>1, <2>3, <2>4, startInLoopEffect
<1>9. CASE name = "stopInLoop" /\ stopInLoop /\ UNCHANGED <<within, clientVars, userVars, stalled>>
  <2>1. CASE state = "kConnecting"
    <3>1. ~HasReset
      BY <1>0, <2>1 DEF ChannelSound
    <3>2. /\ queue' = Append(queue, Functor("resetChannel")) /\ watched' = FALSE /\ channel' = channel
          /\ retry(channel) /\ UNCHANGED <<connect_, gaveUp, failed>>
      BY <1>9, <2>1 DEF stopInLoop, removeAndResetChannel
    <3>3. /\ LinesSound' /\ batch' \in Seq(AllFunctors) /\ queue' \in Seq(AllFunctors)
          /\ HasReset' /\ UNCHANGED <<HasStart, Forcing, Dying>>
      BY <1>4, <1>9, <3>1, <3>2
    <3>4. within' \in {"none", "write"}
      BY <1>1, <1>9
    <3> QED
      BY <1>6, <1>9, <2>1, <3>2, <3>3, <3>4, attemptEnds
  <2>2. CASE state # "kConnecting"
    <3>1. UNCHANGED <<connectorVars, queue, failed>>
      BY <1>9, <2>2 DEF stopInLoop
    <3>2. /\ LinesSound' /\ batch' \in Seq(AllFunctors) /\ queue' \in Seq(AllFunctors)
          /\ (HasStart' <=> HasStart) /\ (HasReset' <=> HasReset) /\ (HasStop' => HasStop)
          /\ (Forcing' => Forcing) /\ Dying' = Dying
      BY <1>3, <1>9, <3>1
    <3>3. TypeOK'
      BY <1>0, <1>6, <1>9, <3>1, <3>2 DEF TypeOK, AllFunctors, connectorVars, clientVars, userVars
    <3>4. ChannelSound' /\ AttemptSound' /\ OwnerSound' /\ GoneSound' /\ SocketSound'
      BY <1>0, <1>1, <1>9, <2>2, <3>1, <3>2 DEF ChannelSound, AttemptSound, OwnerSound, GoneSound, SocketSound,
         Starting, Calling, Attempted, RawWaits, RawQueued, connectorVars, clientVars, userVars
    <3> QED
      BY <1>0, <3>1, <3>2, <3>3, <3>4 DEF ClientInv
  <2> QED
    BY <2>1, <2>2
<1>10. CASE name = "resetChannel" /\ resetChannel /\ UNCHANGED <<within, clientVars, userVars, stalled>>
  <2>1. ~watched /\ HasReset
    BY <1>0, <1>2, <1>10 DEF ChannelSound
  <2>2. /\ channel' = 0
        /\ UNCHANGED <<connect_, state, watched, retryDelayMs, timers, open, gaveUp, queue, failed>>
    BY <1>10 DEF resetChannel
  <2>3. /\ LinesSound' /\ batch' \in Seq(AllFunctors) /\ queue' \in Seq(AllFunctors)
        /\ (HasStart' <=> HasStart) /\ ~HasReset' /\ (HasStop' <=> HasStop)
        /\ (Forcing' => Forcing) /\ Dying' = Dying
    BY <1>3, <1>10, <2>2
  <2>4. TypeOK'
    BY <1>0, <1>6, <1>10, <2>2, <2>3 DEF TypeOK, AllFunctors, clientVars, userVars
  <2>5. ChannelSound' /\ AttemptSound' /\ OwnerSound' /\ GoneSound' /\ SocketSound'
    BY <1>0, <1>1, <1>10, <2>1, <2>2, <2>3 DEF ChannelSound, AttemptSound, OwnerSound, GoneSound,
       SocketSound, Starting, Calling, Attempted, RawWaits, RawQueued, clientVars, userVars
  <2> QED
    BY <1>0, <2>2, <2>3, <2>4, <2>5 DEF ClientInv
<1>11. CASE name = "forceClose" /\ fd \in up /\ removeConnection(fd)
  <2>1. fd \in Fds /\ fd \notin Dying /\ callback = "detached"
    BY <1>0, <1>2, <1>11 DEF TypeOK, SocketSound, OwnerSound
  <2>2. queue' = Append(queue, <<"connectDestroyed", fd>>)
    BY <1>11 DEF removeConnection
  <2>3. /\ LinesSound' /\ batch' \in Seq(AllFunctors) /\ queue' \in Seq(AllFunctors)
        /\ UNCHANGED <<HasStart, HasStop, HasReset>> /\ (Forcing' => Forcing)
        /\ Dying' = Dying \cup {fd}
    BY <1>5, <1>11, <2>1, <2>2
  <2> QED
    BY <1>1, <1>6, <1>11, <2>1, <2>3, connectionRemoved
<1>12. CASE name = "forceClose" /\ UNCHANGED <<connectorVars, queue, within, failed, clientVars, userVars, stalled>>
  <2>1. /\ LinesSound' /\ batch' \in Seq(AllFunctors) /\ queue' \in Seq(AllFunctors)
        /\ (HasStart' <=> HasStart) /\ (HasReset' <=> HasReset) /\ (HasStop' <=> HasStop)
        /\ (Forcing' => Forcing) /\ Dying' = Dying
    BY <1>3, <1>12
  <2>2. TypeOK'
    BY <1>0, <1>6, <1>12, <2>1 DEF TypeOK, AllFunctors, connectorVars, clientVars, userVars
  <2>3. ChannelSound' /\ AttemptSound' /\ OwnerSound' /\ GoneSound' /\ SocketSound'
    BY <1>0, <1>1, <1>12, <2>1 DEF ChannelSound, AttemptSound, OwnerSound, GoneSound, SocketSound,
       Starting, Calling, Attempted, RawWaits, RawQueued, connectorVars, clientVars, userVars
  <2> QED
    BY <1>0, <1>12, <2>1, <2>2, <2>3 DEF ClientInv
<1>13. CASE /\ name = "connectDestroyed" /\ open' = open \ {fd}
            /\ UNCHANGED <<connect_, state, channel, watched, retryDelayMs, timers, gaveUp, queue,
                           within, failed, clientVars, userVars, stalled>>
  <2>1. /\ LinesSound' /\ batch' \in Seq(AllFunctors) /\ queue' \in Seq(AllFunctors)
        /\ (HasStart' <=> HasStart) /\ (HasReset' <=> HasReset) /\ (HasStop' <=> HasStop)
        /\ (Forcing' => Forcing) /\ Dying' = Dying \ {fd}
    BY <1>3, <1>13
  <2>2. TypeOK'
    BY <1>0, <1>6, <1>13, <2>1 DEF TypeOK, AllFunctors, clientVars, userVars
  <2>3. ChannelSound' /\ AttemptSound' /\ OwnerSound' /\ GoneSound'
    BY <1>0, <1>1, <1>13, <2>1 DEF ChannelSound, AttemptSound, OwnerSound, GoneSound,
       Starting, Calling, RawWaits, RawQueued, clientVars, userVars
  <2>4. SocketSound'
    <3>1. fd \in Dying \/ fd \notin Fds
      BY <1>0, <1>1, <1>13, HeadDies DEF name, fd
    <3> QED
      BY <1>0, <1>13, <2>1, <3>1 DEF SocketSound, Attempted, clientVars, TypeOK
  <2> QED
    BY <1>0, <1>13, <2>1, <2>2, <2>3, <2>4 DEF ClientInv
<1> QED
  BY <1>1, <1>7, <1>8, <1>9, <1>10, <1>11, <1>12, <1>13 DEF FunctorBody

-----------------------------------------------------------------------------
(* User code that connects and destroys at the right moments.                *)

(* connect() on the loop finds the connector as it was made.                 *)
LEMMA LoopConnectsStep == ASSUME ClientInv, ~Careless, LoopConnects PROVE ClientInv'
<1> USE ClientAssumption DEF ClientAssumption
<1>0. /\ TypeOK /\ failed = {} /\ LinesSound /\ ChannelSound /\ AttemptSound /\ OwnerSound
      /\ GoneSound /\ SocketSound
  BY DEF ClientInv
<1>1. /\ state = "kDisconnected" /\ channel = 0 /\ timers = 0 /\ within = "none" /\ upc = "idle" /\ alive
      /\ ~HasStart /\ calls < MaxCalls
  BY <1>0, WaitingSeen DEF LoopConnects, Settled, MayCall
<1>2. /\ connect_' = TRUE /\ clientConnect' = TRUE /\ within' = "start" /\ calls' = calls + 1 /\ stopped' = FALSE
      /\ UNCHANGED <<state, channel, watched, retryDelayMs, timers, open, gaveUp, queue, batch,
                     phase, failed, alive, retry_, connection, up, callback, keepAlive, upc, raced, stalled>>
  BY DEF LoopConnects
<1>3. LinesSound' /\ UNCHANGED <<HasStart, HasStop, HasReset, Forcing, Dying>>
  BY <1>0, <1>2, ViewsKept
<1>4. TypeOK'
  <2>1. calls \in 0..MaxCalls
    BY <1>0 DEF TypeOK
  <2>2. calls' \in 0..MaxCalls
    BY <1>1, <1>2, <2>1
  <2>3. /\ connect_' \in BOOLEAN /\ clientConnect' \in BOOLEAN /\ stopped' \in BOOLEAN
        /\ within' \in Points
        /\ UNCHANGED <<state, channel, watched, retryDelayMs, timers, open, gaveUp, queue, batch,
                       phase, alive, retry_, connection, up, callback, keepAlive, upc, raced, stalled>>
    BY <1>2 DEF Points
  <2> QED
    BY <1>0, <2>2, <2>3 DEF TypeOK
<1>5. ~Starting'
  BY <1>1, <1>2, <1>3 DEF Starting, Calling
<1>6. ChannelSound' /\ AttemptSound'
  BY <1>0, <1>1, <1>2, <1>3, <1>5 DEF ChannelSound, AttemptSound, Starting
<1>7. OwnerSound' /\ GoneSound' /\ SocketSound'
  BY <1>0, <1>1, <1>2, <1>3 DEF OwnerSound, GoneSound, SocketSound, Attempted, RawWaits, RawQueued
<1> QED
  BY <1>0, <1>2, <1>3, <1>4, <1>6, <1>7 DEF ClientInv

(* Connector::stop() queues stopInLoop().                                    *)
LEMMA stopQueued ==
  ASSUME TypeOK, LinesSound, queue' = Append(queue, Functor("stopInLoop")), UNCHANGED <<batch, phase>>
  PROVE  /\ LinesSound' /\ queue' \in Seq(AllFunctors) /\ HasStop'
         /\ UNCHANGED <<HasStart, HasReset, Forcing, Dying>>
<1> DEFINE name == "stopInLoop"
<1>1. name \in {"startInLoop", "stopInLoop", "resetChannel"} /\ name # "startInLoop" /\ name # "resetChannel"
  OBVIOUS
<1>2. queue' = Append(queue, Functor(name)) /\ name = "stopInLoop"
  OBVIOUS
<1> HIDE DEF name
<1>3. /\ LinesSound' /\ queue' \in Seq(AllFunctors)
      /\ HasStart' <=> HasStart \/ name = "startInLoop"
      /\ HasStop' <=> HasStop \/ name = "stopInLoop"
      /\ HasReset' <=> HasReset \/ name = "resetChannel"
      /\ UNCHANGED <<Forcing, Dying>>
  BY <1>1, <1>2, ViewsQueue
<1>4. UNCHANGED <<HasStart, HasReset>>
  BY <1>1, <1>3 DEF HasStart, HasReset
<1> QED
  BY <1>2, <1>3, <1>4

(* stop() on the loop.                                                       *)
LEMMA LoopStopsStep == ASSUME ClientInv, LoopStops PROVE ClientInv'
<1> USE ClientAssumption DEF ClientAssumption
<1>0. /\ TypeOK /\ failed = {} /\ LinesSound /\ ChannelSound /\ AttemptSound /\ OwnerSound
      /\ GoneSound /\ SocketSound
  BY DEF ClientInv
<1>1. /\ alive /\ calls < MaxCalls /\ connect_' = FALSE /\ clientConnect' = FALSE
      /\ queue' = Append(queue, Functor("stopInLoop"))
      /\ calls' = calls + 1 /\ stopped' = TRUE /\ raced' = "none"
      /\ UNCHANGED <<state, channel, watched, retryDelayMs, timers, open, gaveUp, batch, phase,
                     within, failed, alive, retry_, connection, up, callback, keepAlive, upc, stalled>>
  BY DEF LoopStops, MayCall, StopForbids, Free
<1>2. /\ LinesSound' /\ queue' \in Seq(AllFunctors) /\ HasStop'
      /\ UNCHANGED <<HasStart, HasReset, Forcing, Dying>>
  BY <1>0, <1>1, stopQueued
<1>3. TypeOK'
  <2>1. calls \in 0..MaxCalls
    BY <1>0 DEF TypeOK
  <2>2. calls' \in 0..MaxCalls
    BY <1>1, <2>1
  <2>3. /\ connect_' \in BOOLEAN /\ clientConnect' \in BOOLEAN /\ stopped' \in BOOLEAN
        /\ raced' \in Points
        /\ UNCHANGED <<state, channel, watched, retryDelayMs, timers, open, gaveUp, batch,
                       phase, within, alive, retry_, connection, up, callback, keepAlive, upc, stalled>>
    BY <1>1 DEF Points
  <2>4. queue' \in Seq(AllFunctors)
    BY <1>2
  <2> QED
    BY <1>0, <2>2, <2>3, <2>4 DEF TypeOK, AllFunctors
<1>4. callback = "client"
  BY <1>0, <1>1 DEF OwnerSound, TypeOK
<1>5. ChannelSound' /\ AttemptSound' /\ OwnerSound' /\ GoneSound' /\ SocketSound'
  BY <1>0, <1>1, <1>2, <1>4 DEF ChannelSound, AttemptSound, OwnerSound, GoneSound, SocketSound,
     Starting, Calling, Attempted
<1> QED
  BY <1>0, <1>1, <1>2, <1>3, <1>5 DEF ClientInv

(* disconnect() only stops the restart.                                      *)
LEMMA DisconnectsStep == ASSUME ClientInv, Disconnects PROVE ClientInv'
<1> USE ClientAssumption DEF ClientAssumption
<1>0. /\ TypeOK /\ failed = {} /\ LinesSound /\ ChannelSound /\ AttemptSound /\ OwnerSound
      /\ GoneSound /\ SocketSound
  BY DEF ClientInv
<1>1. /\ calls < MaxCalls /\ clientConnect' = FALSE /\ calls' = calls + 1
      /\ UNCHANGED <<connect_, state, channel, watched, retryDelayMs, timers, open, gaveUp, queue, batch,
                     phase, within, failed, alive, retry_, connection, up, callback, keepAlive, upc,
                     stopped, raced, stalled>>
  BY DEF Disconnects, MayCall, connectorVars, loopVars
<1>2. LinesSound' /\ UNCHANGED <<HasStart, HasStop, HasReset, Forcing, Dying>>
  BY <1>0, <1>1, ViewsKept
<1>3. TypeOK'
  <2>1. calls \in 0..MaxCalls
    BY <1>0 DEF TypeOK
  <2>2. calls' \in 0..MaxCalls
    BY <1>1, <2>1
  <2>3. /\ clientConnect' \in BOOLEAN
        /\ UNCHANGED <<connect_, state, channel, watched, retryDelayMs, timers, open, gaveUp, queue,
                       batch, phase, within, alive, retry_, connection, up, callback, keepAlive, upc,
                       stopped, raced, stalled>>
    BY <1>1
  <2> QED
    BY <1>0, <2>2, <2>3 DEF TypeOK
<1>4. ChannelSound' /\ AttemptSound' /\ OwnerSound' /\ GoneSound' /\ SocketSound'
  BY <1>0, <1>1, <1>2 DEF ChannelSound, AttemptSound, OwnerSound, GoneSound, SocketSound,
     Starting, Calling, Attempted, RawWaits, RawQueued
<1> QED
  BY <1>0, <1>1, <1>2, <1>3, <1>4 DEF ClientInv

(* ~TcpClient(): with a connection no functor of the connector waits; without*)
(* one, stop() and the timer see to the attempt that may be under way.       *)
LEMMA DestructsStep ==
  ASSUME ClientInv, ~Careless, NEW unique \in BOOLEAN, Destructs(unique)
  PROVE  ClientInv'
<1>0. /\ TypeOK /\ failed = {} /\ LinesSound /\ ChannelSound /\ AttemptSound /\ OwnerSound
      /\ GoneSound /\ SocketSound
  BY DEF ClientInv
<1>1. /\ alive /\ within = "none" /\ upc = "idle" /\ alive' = FALSE
      /\ UNCHANGED <<state, channel, watched, retryDelayMs, timers, open, gaveUp, batch, phase,
                     within, failed, retry_, clientConnect, up, upc, calls, stopped, raced, stalled>>
  BY DEF Destructs, Free, userVars
<1>2. callback = "client" /\ ~Forcing
  BY <1>0, <1>1 DEF OwnerSound, TypeOK
<1>3. CASE connection # 0
  <2>1. ~HasStart /\ ~HasStop /\ ~HasReset
    BY <1>0, <1>3, WaitingSeen DEF Destructs, RawFunctors
  <2>2. /\ callback' = "detached" /\ connection' = 0 /\ UNCHANGED <<connect_, keepAlive>>
        /\ queue' = IF unique THEN Append(queue, <<"forceClose", connection>>) ELSE queue
    BY <1>3 DEF Destructs
  <2>3. up = {connection} /\ state = "kConnected" /\ connection \in Fds
    BY <1>0, <1>2, <1>3 DEF OwnerSound, TypeOK
  <2>4. LinesSound' /\ queue' \in Seq(AllFunctors) /\ UNCHANGED <<HasStart, HasStop, HasReset, Dying>>
    <3>1. CASE unique
      <4> DEFINE name == "forceClose"
      <4>1. PICK fd \in Fds : fd = connection
        BY <2>3
      <4>2. /\ name \in {"forceClose", "connectDestroyed"} /\ name # "connectDestroyed"
            /\ queue' = Append(queue, <<name, fd>>)
        BY <2>2, <3>1, <4>1
      <4> HIDE DEF name
      <4>3. /\ LinesSound' /\ queue' \in Seq(AllFunctors)
            /\ UNCHANGED <<HasStart, HasStop, HasReset>>
            /\ Forcing' <=> Forcing \/ name = "forceClose"
            /\ Dying' = IF name = "connectDestroyed" THEN Dying \cup {fd} ELSE Dying
        BY <1>0, <1>1, <4>2, ViewsQueueFd
      <4> QED
        BY <4>2, <4>3
    <3>2. CASE ~unique
      <4>1. queue' = queue /\ queue \in Seq(AllFunctors)
        BY <1>0, <2>2, <3>2 DEF TypeOK, AllFunctors
      <4> QED
        BY <1>0, <1>1, <4>1, ViewsKept
    <3> QED
      BY <3>1, <3>2
  <2>5. TypeOK'
    BY <1>0, <1>1, <2>2, <2>4 DEF TypeOK, AllFunctors
  <2>6. ChannelSound' /\ AttemptSound'
    BY <1>0, <1>1, <2>3, <2>4 DEF ChannelSound, AttemptSound, Starting, Calling
  <2>7. OwnerSound' /\ GoneSound'
    BY <1>1, <2>1, <2>2, <2>3, <2>4 DEF OwnerSound, GoneSound, RawWaits, RawQueued
  <2>8. SocketSound'
    BY <1>0, <1>1, <2>4 DEF SocketSound, Attempted
  <2> QED
    BY <1>0, <1>1, <2>4, <2>5, <2>6, <2>7, <2>8 DEF ClientInv
<1>4. CASE connection = 0
  <2>1. /\ connect_' = FALSE /\ queue' = Append(queue, Functor("stopInLoop")) /\ keepAlive' = TRUE
        /\ UNCHANGED <<callback, connection>>
    BY <1>4 DEF Destructs, StopForbids
  <2>2. up = {}
    BY <1>0, <1>2, <1>4 DEF OwnerSound
  <2>3. /\ LinesSound' /\ queue' \in Seq(AllFunctors) /\ HasStop'
        /\ UNCHANGED <<HasStart, HasReset, Forcing, Dying>>
    BY <1>0, <1>1, <2>1, stopQueued
  <2>4. TypeOK'
    BY <1>0, <1>1, <2>1, <2>3 DEF TypeOK, AllFunctors
  <2>5. ChannelSound' /\ AttemptSound'
    BY <1>0, <1>1, <2>3 DEF ChannelSound, AttemptSound, Starting, Calling
  <2>6. OwnerSound' /\ GoneSound'
    BY <1>0, <1>1, <1>2, <1>4, <2>1, <2>2, <2>3 DEF OwnerSound, GoneSound
  <2>7. SocketSound'
    BY <1>0, <1>1, <2>3 DEF SocketSound, Attempted
  <2> QED
    BY <1>0, <1>1, <2>3, <2>4, <2>5, <2>6, <2>7 DEF ClientInv
<1> QED
  BY <1>3, <1>4

(* connect() and stop() on another thread, in their three steps.             *)
LEMMA CallBeginsStep ==
  ASSUME ClientInv, ~Careless, NEW op \in {"connect", "stop"}, CallBegins(op)
  PROVE  ClientInv'
<1> USE ClientAssumption DEF ClientAssumption
<1>0. /\ TypeOK /\ failed = {} /\ LinesSound /\ ChannelSound /\ AttemptSound /\ OwnerSound
      /\ GoneSound /\ SocketSound
  BY DEF ClientInv
<1>1. /\ calls < MaxCalls /\ alive /\ upc = "idle" /\ clientConnect' \in BOOLEAN /\ calls' = calls + 1
      /\ upc' = op /\ stopped' = FALSE
      /\ UNCHANGED <<connect_, state, channel, watched, retryDelayMs, timers, open, gaveUp, queue, batch,
                     phase, within, failed, alive, retry_, connection, up, callback, keepAlive, raced,
                     stalled>>
  BY DEF CallBegins, MayCall, connectorVars, loopVars
<1>2. op = "connect" =>
        /\ state = "kDisconnected" /\ channel = 0 /\ timers = 0 /\ within = "none" /\ ~HasStart
  BY <1>0, WaitingSeen DEF CallBegins, Settled
<1>3. LinesSound' /\ UNCHANGED <<HasStart, HasStop, HasReset, Forcing, Dying>>
  BY <1>0, <1>1, ViewsKept
<1>4. TypeOK'
  <2>1. calls \in 0..MaxCalls
    BY <1>0 DEF TypeOK
  <2>2. calls' \in 0..MaxCalls /\ upc' \in {"idle", "connect", "stop", "queueStart", "queueStop"}
    BY <1>1, <2>1
  <2> QED
    BY <1>0, <1>1, <2>2 DEF TypeOK
<1>5. AttemptSound'
  <2>1. CASE op = "connect"
    BY <1>1, <1>2, <1>3, <2>1 DEF AttemptSound, Starting, Calling
  <2>2. CASE op = "stop"
    BY <1>0, <1>1, <1>3, <2>2 DEF AttemptSound, Starting, Calling
  <2> QED
    BY <2>1, <2>2
<1>6. ChannelSound' /\ OwnerSound' /\ GoneSound' /\ SocketSound'
  BY <1>0, <1>1, <1>3 DEF ChannelSound, OwnerSound, GoneSound, SocketSound, Attempted, RawWaits, RawQueued
<1> QED
  BY <1>0, <1>1, <1>3, <1>4, <1>5, <1>6 DEF ClientInv

(* The call on another thread writes connect_.                               *)
LEMMA CallSetsFlagStep == ASSUME ClientInv, CallSetsFlag PROVE ClientInv'
<1>0. /\ TypeOK /\ failed = {} /\ LinesSound /\ ChannelSound /\ AttemptSound /\ OwnerSound
      /\ GoneSound /\ SocketSound
  BY DEF ClientInv
<1>1. /\ \/ upc = "connect" /\ upc' = "queueStart"
         \/ upc = "stop" /\ upc' = "queueStop"
      /\ connect_' \in BOOLEAN /\ stopped' \in BOOLEAN /\ raced' \in Points
      /\ UNCHANGED <<state, channel, watched, retryDelayMs, timers, open, gaveUp, queue, batch, phase,
                     within, failed, alive, retry_, clientConnect, connection, up, callback, keepAlive,
                     calls, stalled>>
  BY <1>0 DEF CallSetsFlag, StopForbids, loopVars, clientVars, TypeOK
<1>2. LinesSound' /\ UNCHANGED <<HasStart, HasStop, HasReset, Forcing, Dying>>
  BY <1>0, <1>1, ViewsKept
<1>3. TypeOK'
  BY <1>0, <1>1 DEF TypeOK
<1>4. alive
  BY <1>0, <1>1 DEF GoneSound
<1>5. Calling' <=> Calling
  BY <1>1 DEF Calling
<1>6. AttemptSound' /\ ChannelSound'
  BY <1>0, <1>1, <1>2, <1>5 DEF AttemptSound, ChannelSound, Starting
<1>7. OwnerSound' /\ GoneSound' /\ SocketSound'
  BY <1>0, <1>1, <1>2, <1>4 DEF OwnerSound, GoneSound, SocketSound, Attempted, RawWaits, RawQueued
<1> QED
  BY <1>0, <1>1, <1>2, <1>3, <1>6, <1>7 DEF ClientInv

(* The call on another thread queues startInLoop() or stopInLoop().          *)
LEMMA CallQueuesStep == ASSUME ClientInv, CallQueues PROVE ClientInv'
<1>0. /\ TypeOK /\ failed = {} /\ LinesSound /\ ChannelSound /\ AttemptSound /\ OwnerSound
      /\ GoneSound /\ SocketSound
  BY DEF ClientInv
<1>1. /\ upc' = "idle" /\ stopped' \in BOOLEAN
      /\ UNCHANGED <<connect_, state, channel, watched, retryDelayMs, timers, open, gaveUp, batch, phase,
                     within, failed, alive, retry_, clientConnect, connection, up, callback, keepAlive,
                     calls, raced, stalled>>
  BY DEF CallQueues, connectorVars, clientVars
<1>2. alive /\ upc \in {"queueStart", "queueStop"}
  BY <1>0 DEF GoneSound, CallQueues
<1>3. callback = "client"
  BY <1>0, <1>2 DEF OwnerSound, TypeOK
<1>4. CASE upc = "queueStart" /\ queue' = Append(queue, Functor("startInLoop"))
  <2>1. Calling /\ Starting /\ ~HasStart
    BY <1>0, <1>4 DEF AttemptSound, Starting, Calling
  <2>2. /\ LinesSound' /\ queue' \in Seq(AllFunctors) /\ HasStart'
        /\ UNCHANGED <<HasStop, HasReset, Forcing, Dying>>
    <3> DEFINE name == "startInLoop"
    <3>1. name \in {"startInLoop", "stopInLoop", "resetChannel"} /\ name # "stopInLoop" /\ name # "resetChannel"
      OBVIOUS
    <3>2. queue' = Append(queue, Functor(name)) /\ name = "startInLoop"
      BY <1>4
    <3> HIDE DEF name
    <3>3. /\ LinesSound' /\ queue' \in Seq(AllFunctors)
          /\ HasStart' <=> HasStart \/ name = "startInLoop"
          /\ HasStop' <=> HasStop \/ name = "stopInLoop"
          /\ HasReset' <=> HasReset \/ name = "resetChannel"
          /\ UNCHANGED <<Forcing, Dying>>
      BY <1>0, <1>1, <2>1, <3>1, <3>2, ViewsQueue
    <3>4. UNCHANGED <<HasStop, HasReset>>
      BY <3>1, <3>3 DEF HasStop, HasReset
    <3> QED
      BY <3>2, <3>3, <3>4
  <2>3. TypeOK'
    BY <1>0, <1>1, <2>2 DEF TypeOK, AllFunctors
  <2>4. ~Calling' /\ (Starting' <=> Starting)
    BY <1>1, <2>1, <2>2 DEF Calling, Starting
  <2>5. ChannelSound' /\ AttemptSound'
    BY <1>0, <1>1, <2>2, <2>4 DEF ChannelSound, AttemptSound
  <2>6. OwnerSound' /\ GoneSound' /\ SocketSound'
    BY <1>0, <1>1, <1>2, <1>3, <2>2 DEF OwnerSound, GoneSound, SocketSound, Attempted
  <2> QED
    BY <1>0, <1>1, <2>2, <2>3, <2>5, <2>6 DEF ClientInv
<1>5. CASE upc = "queueStop" /\ queue' = Append(queue, Functor("stopInLoop"))
  <2>1. /\ LinesSound' /\ queue' \in Seq(AllFunctors) /\ HasStop'
        /\ UNCHANGED <<HasStart, HasReset, Forcing, Dying>>
    BY <1>0, <1>1, <1>5, stopQueued
  <2>2. TypeOK'
    BY <1>0, <1>1, <2>1 DEF TypeOK, AllFunctors
  <2>3. ~Calling /\ ~Calling'
    BY <1>1, <1>5 DEF Calling
  <2>4. ChannelSound' /\ AttemptSound'
    BY <1>0, <1>1, <2>1, <2>3 DEF ChannelSound, AttemptSound, Starting
  <2>5. OwnerSound' /\ GoneSound' /\ SocketSound'
    BY <1>0, <1>1, <1>2, <1>3, <2>1 DEF OwnerSound, GoneSound, SocketSound, Attempted
  <2> QED
    BY <1>0, <1>1, <2>1, <2>2, <2>4, <2>5 DEF ClientInv
<1> QED
  BY <1>4, <1>5 DEF CallQueues

-----------------------------------------------------------------------------
(* Every step of the loop, of the server and of user code.                   *)
LEMMA ClientStep ==
  ASSUME ClientInv, ~Careless, ~Aborted, Next
  PROVE  ClientInv' \/ Broken'
<1>1. CASE LoopStep
  BY <1>1, SwapStep, RunFunctorStep, BatchDoneStep, StartsStep, ConnectsStep, RestartsStep,
     TimerExpiresStep, KeepAliveExpiresStep, newConnectionStep DEF LoopStep
<1>2. CASE ChannelStep
  BY <1>2, ChannelErrorStep, ChannelWritableStep DEF ChannelStep
<1>3. CASE ConnectionCloses
  BY <1>3, ConnectionClosesStep
<1>4. CASE UserStep
  BY <1>4, LoopConnectsStep, LoopStopsStep, DisconnectsStep, DestructsStep, CallBeginsStep DEF UserStep
<1>5. CASE CallSetsFlag
  BY <1>5, CallSetsFlagStep
<1>6. CASE CallQueues
  BY <1>6, CallQueuesStep
<1> QED
  BY <1>1, <1>2, <1>3, <1>4, <1>5, <1>6 DEF Next

(* Nothing changes.                                                          *)
LEMMA ClientStutters ==
  ASSUME ClientInv \/ Broken, UNCHANGED vars
  PROVE  ClientInv' \/ Broken'
<1>0. TypeOK /\ LinesSound /\ AttemptSound /\ OwnerSound /\ SocketSound
  BY DEF ClientInv, Broken
<1>1. UNCHANGED <<connect_, state, channel, watched, retryDelayMs, timers, open, gaveUp, queue, batch,
                  phase, within, failed, alive, retry_, clientConnect, connection, up, callback,
                  keepAlive, upc, calls, stopped, raced, stalled>>
  BY DEF vars, connectorVars, loopVars, clientVars, userVars
<1>2. LinesSound' /\ UNCHANGED <<HasStart, HasStop, HasReset, Forcing, Dying>>
  BY <1>0, <1>1, ViewsKept
<1>3. TypeOK'
  BY <1>0, <1>1 DEF TypeOK
<1>4. AttemptSound' /\ OwnerSound' /\ SocketSound'
  BY <1>0, <1>1, <1>2 DEF AttemptSound, OwnerSound, SocketSound, Starting, Calling, Attempted, RawWaits
<1>5. CASE ClientInv
  <2>1. failed' = {} /\ ChannelSound' /\ GoneSound'
    BY <1>1, <1>2, <1>5 DEF ClientInv, ChannelSound, GoneSound, RawWaits, RawQueued
  <2> QED
    BY <1>2, <1>3, <1>4, <2>1 DEF ClientInv
<1>6. CASE Broken
  BY <1>1, <1>2, <1>3, <1>4, <1>6 DEF Broken
<1> QED
  BY <1>5, <1>6

(* stop() is undone by nobody: what connects again is a later connect(), or  *)
(* a handler that had already looked at connect_.                            *)
Quiet ==
    stopped =>
        /\ (state' = "kConnecting" /\ state # "kConnecting" => raced \in {"restart", "connect"})
        /\ (connection' # 0 /\ connection = 0 => raced \in {"restart", "given"})

LEMMA StopStep ==
  ASSUME TypeOK, StopInv, ~Careless, [Next]_vars
  PROVE  StopInv' /\ Quiet
<1> USE DEF StopInv, Stopping, Quiet
<1>1. CASE Swap \/ BatchDone \/ KeepAliveExpires
  BY <1>1 DEF Swap, BatchDone, KeepAliveExpires, connectorVars, loopVars, clientVars, userVars
<1>s. ASSUME startInLoop
      PROVE  UNCHANGED <<connect_, state>> /\ (within' = "none" \/ (within' = "connect" /\ connect_))
  BY <1>s DEF startInLoop, Fails, connectorVars
<1>2. CASE Starts
  BY <1>2, <1>s DEF Starts, clientVars, userVars
<1>c. CASE Connects
  <2>1. UNCHANGED connect_
    BY <1>c DEF Connects, connect, ConnectBegins, ConnectRefused, ConnectFatal, connecting, Fails,
       connectorVars
  <2> QED
    BY <1>c, <2>1 DEF Connects, clientVars, userVars
<1>3. CASE Restarts
  BY <1>3 DEF Restarts, restart, clientVars, userVars
<1>4. CASE TimerExpires
  BY <1>4 DEF TimerExpires, RetryTimerExpires, clientVars, userVars
<1>5. CASE ChannelError
  BY <1>5 DEF ChannelError, handleError, removeAndResetChannel, retry, connectorVars, clientVars, userVars
<1>6. ASSUME NEW found \in WriteFinds, ChannelWritable(found) PROVE StopInv' /\ Quiet
  <2>1. /\ UNCHANGED <<connect_, clientConnect, connection, upc, stopped, raced>>
        /\ within' = "none" \/ (within' = "given" /\ connect_)
        /\ state' = "kConnecting" => state = "kConnecting"
    BY <1>6 DEF ChannelWritable, handleWrite, removeAndResetChannel, retry, connectorVars, clientVars,
       userVars
  <2> QED
    BY <2>1
<1>n. CASE newConnection
  BY <1>n DEF newConnection, connectorVars, userVars
<1>r. ASSUME NEW fd, removeConnection(fd), within = "none"
      PROVE  /\ UNCHANGED <<connect_, state, clientConnect, upc, stopped, raced>>
             /\ (connection' # 0 => connection # 0)
             /\ within' = "none" \/ (within' = "restart" /\ clientConnect)
  BY <1>r DEF removeConnection, connectorVars, userVars
<1>q. ASSUME /\ UNCHANGED <<connect_, state, clientConnect, upc, stopped, raced>>
             /\ (connection' # 0 => connection # 0)
             /\ within' = "none" \/ (within' = "restart" /\ clientConnect)
      PROVE  StopInv' /\ Quiet
  BY <1>q
<1>7. CASE ConnectionCloses
  <2>1. PICK fd \in up : removeConnection(fd)
    BY <1>7 DEF ConnectionCloses
  <2>2. within = "none"
    BY <1>7 DEF ConnectionCloses, Free
  <2> QED
    BY <1>q, <1>r, <2>1, <2>2
<1>8. CASE RunFunctor
  <2>1. PICK name, fd : FunctorBody(name, fd)
    BY <1>8 DEF RunFunctor
  <2>2. within = "none"
    BY <1>8 DEF RunFunctor, Free
  <2>3. CASE Fails("dead") /\ UNCHANGED <<within, clientVars, userVars>>
    BY <2>3 DEF Fails, connectorVars, clientVars, userVars
  <2>4. CASE startInLoop /\ UNCHANGED <<clientVars, userVars>>
    BY <1>s, <2>4 DEF clientVars, userVars
  <2>5. CASE (stopInLoop \/ resetChannel) /\ UNCHANGED <<within, clientVars, userVars>>
    BY <2>5 DEF stopInLoop, resetChannel, removeAndResetChannel, retry, connectorVars, clientVars, userVars
  <2>6. CASE removeConnection(fd)
    BY <1>q, <1>r, <2>2, <2>6
  <2>7. CASE UNCHANGED <<connectorVars, queue, within, failed, clientVars, userVars>>
    BY <2>7 DEF connectorVars, clientVars, userVars
  <2>8. CASE UNCHANGED <<connect_, state, channel, watched, retryDelayMs, timers, gaveUp, queue,
                         within, failed, clientVars, userVars>>
    BY <2>8 DEF clientVars, userVars
  <2> QED
    BY <2>1, <2>3, <2>4, <2>5, <2>6, <2>7, <2>8 DEF FunctorBody
<1>9. CASE LoopConnects
  BY <1>9 DEF LoopConnects, Settled
<1>10. CASE LoopStops
  BY <1>10 DEF LoopStops, StopForbids, Free
<1>11. CASE Disconnects
  BY <1>11 DEF Disconnects, connectorVars, loopVars
<1>12. ASSUME NEW unique \in BOOLEAN, Destructs(unique) PROVE StopInv' /\ Quiet
  BY <1>12 DEF Destructs, StopForbids, Free, userVars
<1>13. ASSUME NEW op \in {"connect", "stop"}, CallBegins(op) PROVE StopInv' /\ Quiet
  BY <1>13 DEF CallBegins, connectorVars, loopVars
<1>14. CASE CallSetsFlag
  BY <1>14 DEF CallSetsFlag, StopForbids, loopVars, clientVars
<1>15. CASE CallQueues
  BY <1>15 DEF CallQueues, connectorVars, clientVars
<1>16. CASE UNCHANGED vars
  BY <1>16 DEF vars, connectorVars, loopVars, clientVars, userVars
<1> QED
  BY <1>1, <1>2, <1>3, <1>4, <1>5, <1>6, <1>7, <1>8, <1>9, <1>10, <1>11, <1>12, <1>13, <1>14, <1>15, <1>16,
     <1>c, <1>n DEF Next, LoopStep, ChannelStep, UserStep

-----------------------------------------------------------------------------
(* The inductive invariant of Connector and TcpClient: the two lines of      *)
(* functors, the channel, the one who may start, the connection, what is     *)
(* left after the destructor, and the sockets fit together, and what stop()  *)
(* forbids stays forbidden.  Where a late timer has broken it, an assert has *)
(* fired and nothing follows.                                                *)
THEOREM ClientInvariant ==
  ASSUME ~Careless
  PROVE  Spec => []((ClientInv \/ Broken) /\ StopInv)
<1>1. Init => (ClientInv \/ Broken) /\ StopInv
  BY ClientInit
<1>2. ((ClientInv \/ Broken) /\ StopInv) /\ [Next]_vars => ((ClientInv \/ Broken) /\ StopInv)'
  <2>1. ASSUME ClientInv \/ Broken, StopInv, [Next]_vars
        PROVE  (ClientInv' \/ Broken') /\ StopInv'
    <3>1. TypeOK
      BY <2>1 DEF ClientInv, Broken
    <3>2. StopInv'
      BY <2>1, <3>1, StopStep
    <3>3. CASE Next
      <4>1. ~Aborted /\ failed = {}
        BY <3>3 DEF Next, Aborted
      <4>2. ClientInv
        BY <2>1, <4>1 DEF Broken
      <4> QED
        BY <3>2, <3>3, <4>1, <4>2, ClientStep
    <3>4. CASE UNCHANGED vars
      BY <2>1, <3>2, <3>4, ClientStutters
    <3> QED
      BY <2>1, <3>3, <3>4
  <2> QED
    BY <2>1
<1> QED
  BY <1>1, <1>2, PTL DEF Spec

(* Connector.cpp 38, 53, 143, 215 and TcpClient.cpp 171: for every number of *)
(* calls and every order of events, timers, functors and calls of another    *)
(* thread, no assert fires and no functor meets a connector that is gone,    *)
(* unless in the same round a timer has come before functors that were       *)
(* queued when it was set; and then only the asserts at 38 and 143 or the    *)
(* dead connector can be met.                                                *)
THEOREM NoAssertFires ==
  ASSUME ~Careless
  PROVE  Spec => []AssertsHold
<1>1. ClientInv \/ Broken => AssertsHold
  <2>1. ASSUME Broken PROVE AssertsHold
    BY <2>1 DEF Broken, AssertsHold, OwnerSound
  <2>2. ASSUME ClientInv PROVE AssertsHold
    <3>0. TypeOK /\ failed = {} /\ ChannelSound /\ OwnerSound /\ GoneSound
      BY <2>2 DEF ClientInv
    <3>1. ASSUME ~Held, channel # 0 PROVE stalled
      <4>1. ~alive /\ ~keepAlive
        BY <3>1 DEF Held
      <4>2. ASSUME callback = "detached" PROVE FALSE
        BY <3>0, <3>1, <4>2 DEF OwnerSound, ChannelSound, RawWaits
      <4>3. callback = "client"
        BY <3>0, <4>2 DEF TypeOK
      <4>4. RawWaits
        BY <3>0, <3>1, <4>1, <4>3 DEF ChannelSound, GoneSound, RawWaits
      <4> QED
        BY <3>0, <4>1, <4>3, <4>4 DEF GoneSound
    <3> QED
      BY <3>0, <3>1 DEF AssertsHold, Aborted, OwnerSound
  <2> QED
    BY <2>1, <2>2
<1> QED
  BY <1>1, ClientInvariant, PTL

(* Connector.cpp 158-167 and 233-256: every open socket has one owner, and   *)
(* there is one attempt, retry timer or connection at a time, for every set  *)
(* of descriptors, every delay and every number of calls.                    *)
THEOREM SocketsHaveOneOwner ==
  ASSUME ~Careless
  PROVE  Spec => []OneOwner
<1>1. ClientInv \/ Broken => OneOwner
  <2> SUFFICES ASSUME ClientInv \/ Broken PROVE OneOwner
    OBVIOUS
  <2>0. /\ TypeOK /\ LinesSound /\ AttemptSound /\ OwnerSound /\ SocketSound
        /\ watched <=> state = "kConnecting"
    BY DEF ClientInv, Broken, ChannelSound
  <2>1. {fd \in Fds : Closing(fd)} = Dying
    <3>1. \A fd \in Fds : Closing(fd) <=> fd \in Dying
      BY <2>0, WaitingSeen
    <3> QED
      BY <3>1 DEF Dying
  <2>2. SocketsOwned
    BY <2>0, <2>1 DEF SocketsOwned, SocketSound
  <2>3. SingleAttempt
    <3>1. \A f, g \in up : f = g
      BY <2>0 DEF OwnerSound, TypeOK
    <3>2. CASE up = {}
      <4>1. Cardinality(up) = 0
        BY <3>2, FS_EmptySet
      <4>2. timers \in {0, 1} /\ (timers = 0 \/ Attempted = {})
        BY <2>0 DEF AttemptSound, TypeOK, Attempted
      <4>3. Cardinality(Attempted) \in {0, 1} /\ (Attempted = {} => Cardinality(Attempted) = 0)
        BY FS_EmptySet, FS_Singleton DEF Attempted
      <4> QED
        BY <4>1, <4>2, <4>3 DEF SingleAttempt
    <3>3. CASE up # {}
      <4>1. PICK f \in up : up = {f}
        BY <3>1, <3>3
      <4>2. Cardinality(up) = 1
        BY <4>1, FS_Singleton
      <4>3. state = "kConnected"
        BY <2>0, <3>3 DEF OwnerSound
      <4>4. timers = 0 /\ Attempted = {}
        BY <2>0, <3>3, <4>3 DEF AttemptSound, TypeOK, Attempted
      <4>5. Cardinality(Attempted) = 0
        BY <4>4, FS_EmptySet
      <4> QED
        BY <4>2, <4>4, <4>5 DEF SingleAttempt
    <3> QED
      BY <3>2, <3>3
  <2> QED
    BY <2>0, <2>2, <2>3 DEF OneOwner
<1> QED
  BY <1>1, ClientInvariant, PTL

(* TcpClient::stop() and Connector::stop() (65-70): once stop() has returned *)
(* no step begins an attempt or makes a connection, except after the         *)
(* restart() of a removeConnection(), the connect() of a startInLoop() or    *)
(* the newConnection() of a handleWrite() that had looked at connect_ before *)
(* stop() wrote it.                                                          *)
THEOREM StopIsFinal ==
  ASSUME ~Careless
  PROVE  Spec => StopHolds
<1>1. ((ClientInv \/ Broken) /\ StopInv) /\ [Next]_vars => [Quiet]_vars
  <2>1. ASSUME ClientInv \/ Broken, StopInv, [Next]_vars PROVE Quiet
    BY <2>1, StopStep DEF ClientInv, Broken
  <2> QED
    BY <2>1
<1>2. [Quiet]_vars <=>
        [stopped =>
          /\ (state' = "kConnecting" /\ state # "kConnecting" => raced \in {"restart", "connect"})
          /\ (connection' # 0 /\ connection = 0 => raced \in {"restart", "given"})]_vars
  BY DEF Quiet
<1> QED
  BY <1>1, <1>2, ClientInvariant, PTL DEF Spec, StopHolds
=============================================================================
