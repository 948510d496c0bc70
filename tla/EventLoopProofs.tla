-------------------------- MODULE EventLoopProofs --------------------------
(***************************************************************************)
(* Proofs about EventLoop for every number of threads and functors and     *)
(* every size of the eventfd counter and, in the last part, about the      *)
(* EventLoopThread that owns one.  OwnerAssumption is not used.            *)
(***************************************************************************)
EXTENDS EventLoopThread, SequenceTheorems, FiniteSetTheorems, TLAPS

(* The channels poll() reports form a sequence over Channels.                *)
LEMMA ReadyOrders == \A s \in SetToSeqs(Ready) : s \in Seq(Channels)
<1>1. Ready \subseteq Channels
  BY DEF Ready, Channels
<1>2. IsFiniteSet(Ready)
  <2>1. IsFiniteSet({"wakeup"} \cup {"user"})
    BY FS_Singleton, FS_AddElement
  <2>2. Ready \in SUBSET ({"wakeup"} \cup {"user"})
    BY DEF Ready
  <2> QED
    BY <2>1, <2>2, FS_Subset
<1>3. Cardinality(Ready) \in Nat
  BY <1>2, FS_CardinalityType
<1> QED
  BY <1>1, <1>3 DEF SetToSeqs

(* The constructor leaves every member in its type.                          *)
LEMMA InitTypeOK == Init => TypeOK
<1> USE LoopAssumption DEF LoopAssumption
<1> SUFFICES ASSUME Init PROVE TypeOK
  OBVIOUS
<1> USE DEF Init
<1>1. wakeupFd \in 0..EventfdMax
  OBVIOUS
<1>2. calls \in [Threads -> {"none", "wakeup"}]
  OBVIOUS
<1>3. /\ pending \in Seq(Functors) /\ functors \in Seq(Functors)
      /\ posted \in Seq(Functors) /\ ran \in Seq(Functors)
  OBVIOUS
<1>4. active \in Seq(Channels)
  OBVIOUS
<1> QED
  BY <1>1, <1>2, <1>3, <1>4 DEF TypeOK

(* The state of the loop and of its callers keeps its types: EventLoop's     *)
(* members under every interleaving of queueInLoop, runInLoop, quit, wakeup  *)
(* and the iterations of loop().                                             *)
THEOREM TypeCorrect == Spec => []TypeOK
<1> USE LoopAssumption DEF LoopAssumption
<1>1. Init => TypeOK
  BY InitTypeOK
<1>2. TypeOK /\ [Next]_vars => TypeOK'
  <2> SUFFICES ASSUME TypeOK, [Next]_vars PROVE TypeOK'
    OBVIOUS
  <2> USE DEF TypeOK, loopVars
  <2>1. CASE loop
    BY <2>1 DEF loop, Channels
  <2>2. CASE LoopTest
    BY <2>2, EmptySeq DEF LoopTest, Channels
  <2>3. CASE Poll
    BY <2>3, ReadyOrders DEF Poll
  <2>4. CASE HandleChannel
    <3>1. active' \in Seq(Channels)
      BY <2>4 DEF HandleChannel, handleRead
    <3>2. wakeupFd' \in 0..EventfdMax
      BY <2>4 DEF HandleChannel, handleRead
    <3> QED
      BY <2>4, <3>1, <3>2 DEF HandleChannel, handleRead
  <2>5. CASE CallbackReturns
    BY <2>5 DEF CallbackReturns
  <2>6. CASE DoPendingBegin
    BY <2>6 DEF DoPendingBegin
  <2>7. CASE DoPendingSwap
    BY <2>7 DEF DoPendingSwap
  <2>8. CASE RunFunctor
    BY <2>8 DEF RunFunctor
  <2>9. CASE FunctorReturns
    BY <2>9 DEF FunctorReturns
  <2>10. CASE DoPendingEnd
    BY <2>10 DEF DoPendingEnd
  <2>11. CASE IoArrives
    BY <2>11 DEF IoArrives
  <2>12. ASSUME NEW t \in Threads, wakeup(t) PROVE TypeOK'
    BY <2>12 DEF wakeup
  <2>13. ASSUME NEW t \in Threads, quit(t) PROVE TypeOK'
    BY <2>13 DEF quit
  <2>14. ASSUME NEW t \in Threads, NEW f \in Fresh, queueInLoop(t, f) PROVE TypeOK'
    <3>1. f \in Functors
      BY DEF Fresh
    <3> QED
      BY <2>14, <3>1 DEF queueInLoop
  <2>15. ASSUME NEW t \in Threads, NEW f \in Fresh, runInLoop(t, f) PROVE TypeOK'
    <3>1. f \in Functors
      BY DEF Fresh
    <3> QED
      BY <2>14, <2>15, <3>1 DEF runInLoop
  <2>16. CASE UNCHANGED vars
    BY <2>16 DEF vars
  <2> QED
    BY <2>1, <2>2, <2>3, <2>4, <2>5, <2>6, <2>7, <2>8, <2>9, <2>10, <2>11, <2>12,
       <2>13, <2>14, <2>15, <2>16 DEF Next, LoopStep
<1> QED
  BY <1>1, <1>2, PTL DEF Spec
-----------------------------------------------------------------------------
(* Facts about three sequences in a row: what ran, the batch, the queue.     *)

(* Rows of functors may be joined in any grouping.                           *)
LEMMA FunctorsAssociate ==
  \A a, b, c \in Seq(Functors) : (a \o b) \o c = a \o (b \o c)
<1> SUFFICES ASSUME NEW S, NEW a \in Seq(S), NEW b \in Seq(S), NEW c \in Seq(S)
             PROVE  (a \o b) \o c = a \o (b \o c)
  OBVIOUS
<1> QED
  BY ConcatAssociative

(* Pushing at the end of the queue is pushing at the end of the whole.       *)
LEMMA PushAtEnd ==
  ASSUME NEW a \in Seq(Functors), NEW b \in Seq(Functors), NEW c \in Seq(Functors), NEW e \in Functors
  PROVE  Append(a \o b \o c, e) = a \o b \o Append(c, e)
<1> DEFINE ab == a \o b
<1>1. ab \in Seq(Functors) /\ <<e>> \in Seq(Functors) /\ c \o <<e>> \in Seq(Functors)
  OBVIOUS
<1> HIDE DEF ab
<1>2. Append(ab \o c, e) = (ab \o c) \o <<e>>
  BY <1>1, AppendIsConcat
<1>3. (ab \o c) \o <<e>> = ab \o (c \o <<e>>)
  <2>1. PICK x \in Seq(Functors), y \in Seq(Functors) : x = ab /\ y = <<e>>
    BY <1>1
  <2>2. (x \o c) \o y = x \o (c \o y)
    BY FunctorsAssociate, Zenon
  <2> QED
    BY <2>1, <2>2
<1>4. c \o <<e>> = Append(c, e)
  BY AppendIsConcat
<1> QED
  BY <1>2, <1>3, <1>4 DEF ab

(* Moving the whole queue into an empty batch leaves the row as it was.      *)
LEMMA QueueBecomesBatch ==
  ASSUME NEW a \in Seq(Functors), NEW c \in Seq(Functors)
  PROVE  a \o <<>> \o c = a \o c \o <<>>
<1>1. a \o c \in Seq(Functors)
  OBVIOUS
<1> QED
  BY <1>1, ConcatEmptySeq

(* Running the first of the batch leaves the row as it was, and what is run  *)
(* is the element of the row just after all that ran before.                 *)
LEMMA BatchHeadRuns ==
  ASSUME NEW a \in Seq(Functors), NEW b \in Seq(Functors), NEW c \in Seq(Functors), b # <<>>
  PROVE  /\ a \o b \o c = Append(a, Head(b)) \o Tail(b) \o c
         /\ Len(a) < Len(a \o b \o c)
         /\ (a \o b \o c)[Len(a) + 1] = Head(b)
<1>1. Head(b) \in Functors /\ Tail(b) \in Seq(Functors) /\ <<Head(b)>> \in Seq(Functors)
  BY HeadTailProperties
<1>2. b = <<Head(b)>> \o Tail(b)
  <2>1. <<Head(b)>> \o Tail(b) \in Seq(Functors)
    BY <1>1, ConcatProperties
  <2>2. Len(b) = Len(<<Head(b)>> \o Tail(b))
    BY <1>1, ConcatProperties, HeadTailProperties
  <2>3. \A i \in 1..Len(b) : b[i] = (<<Head(b)>> \o Tail(b))[i]
    BY <1>1
  <2> QED
    BY <2>1, <2>2, <2>3, SeqEqual
<1>3. a \o b = Append(a, Head(b)) \o Tail(b)
  <2>1. a \o b = a \o (<<Head(b)>> \o Tail(b))
    BY <1>2
  <2>2. (a \o <<Head(b)>>) \o Tail(b) = a \o (<<Head(b)>> \o Tail(b))
    BY <1>1, FunctorsAssociate, Zenon
  <2>3. a \o <<Head(b)>> = Append(a, Head(b))
    BY <1>1, AppendIsConcat
  <2> QED
    BY <2>1, <2>2, <2>3
<1>4. Len(b) > 0
  BY EmptySeq
<1>5. a \o b \in Seq(Functors) /\ Len(a \o b) = Len(a) + Len(b)
  BY ConcatProperties
<1>6. Len(a \o b \o c) = Len(a) + Len(b) + Len(c)
  BY <1>5, ConcatProperties
<1>7. (a \o b)[Len(a) + 1] = b[1]
  BY <1>4, ConcatProperties
<1>8. (a \o b \o c)[Len(a) + 1] = (a \o b)[Len(a) + 1]
  BY <1>4, <1>5, ConcatProperties
<1> QED
  BY <1>3, <1>4, <1>6, <1>7, <1>8
-----------------------------------------------------------------------------
(* The inductive invariant of the loop: queueInLoop, quit, wakeup, poll()    *)
(* and doPendingFunctors() keep flag, batch, queue and eventfd consistent.   *)
THEOREM LoopInvariant == Spec => []IInv
<1> USE LoopAssumption DEF LoopAssumption
<1>1. Init => IInv
  <2> SUFFICES ASSUME Init, TypeOK PROVE IInv
    BY InitTypeOK
  <2>1. NothingLostOrReordered
    BY DEF Init, NothingLostOrReordered
  <2>2. FlagInv /\ BatchInv /\ WakeInv /\ NoLostQuit
    BY DEF Init, FlagInv, BatchInv, WakeInv, NoLostQuit
  <2> QED
    BY <2>1, <2>2 DEF IInv
<1>2. IInv /\ TypeOK' /\ [Next]_vars => IInv'
  <2> SUFFICES ASSUME IInv, TypeOK', [Next]_vars PROVE IInv'
    OBVIOUS
  <2> DEFINE Rest == FlagInv /\ BatchInv /\ WakeInv /\ NoLostQuit
  <2>0. TypeOK /\ Rest /\ NothingLostOrReordered
    BY DEF IInv
  <2>ran. ran \in Seq(Functors)
    BY <2>0 DEF TypeOK
  <2>functors. functors \in Seq(Functors)
    BY <2>0 DEF TypeOK
  <2>pending. pending \in Seq(Functors)
    BY <2>0 DEF TypeOK
  <2>push. \A f \in Functors :
              Append(ran \o functors \o pending, f) = ran \o functors \o Append(pending, f)
    BY <2>ran, <2>functors, <2>pending, PushAtEnd
  <2>run. functors # <<>> => ran \o functors \o pending
              = Append(ran, Head(functors)) \o Tail(functors) \o pending
    BY <2>ran, <2>functors, <2>pending, BatchHeadRuns
  <2> USE DEF FlagInv, BatchInv, WakeInv, NoLostQuit, WakeupComing, loopVars
  <2>1. CASE loop
    <3>1. Rest'
      BY <2>0, <2>1 DEF loop, TypeOK
    <3>2. NothingLostOrReordered'
      BY <2>0, <2>1 DEF loop, NothingLostOrReordered
    <3> QED
      BY <3>1, <3>2 DEF IInv
  <2>2. CASE LoopTest
    <3>1. Rest'
      BY <2>0, <2>2 DEF LoopTest, TypeOK
    <3>2. NothingLostOrReordered'
      BY <2>0, <2>2 DEF LoopTest, NothingLostOrReordered
    <3> QED
      BY <3>1, <3>2 DEF IInv
  <2>3. CASE Poll
    <3>1. Rest'
      BY <2>0, <2>3 DEF Poll, TypeOK
    <3>2. NothingLostOrReordered'
      BY <2>0, <2>3 DEF Poll, NothingLostOrReordered
    <3> QED
      BY <3>1, <3>2 DEF IInv
  <2>4. CASE HandleChannel
    <3>1. Rest'
      BY <2>0, <2>4 DEF HandleChannel, handleRead, TypeOK
    <3>2. NothingLostOrReordered'
      BY <2>0, <2>4 DEF HandleChannel, NothingLostOrReordered
    <3> QED
      BY <3>1, <3>2 DEF IInv
  <2>5. CASE CallbackReturns
    <3>1. Rest'
      BY <2>0, <2>5 DEF CallbackReturns, TypeOK
    <3>2. NothingLostOrReordered'
      BY <2>0, <2>5 DEF CallbackReturns, NothingLostOrReordered
    <3> QED
      BY <3>1, <3>2 DEF IInv
  <2>6. CASE DoPendingBegin
    <3>1. Rest'
      BY <2>0, <2>6 DEF DoPendingBegin, TypeOK
    <3>2. NothingLostOrReordered'
      BY <2>0, <2>6 DEF DoPendingBegin, NothingLostOrReordered
    <3> QED
      BY <3>1, <3>2 DEF IInv
  <2>7. CASE DoPendingSwap
    <3>1. Rest'
      BY <2>0, <2>7 DEF DoPendingSwap, TypeOK
    <3>2. NothingLostOrReordered'
      <4>1. functors = <<>>
        BY <2>0, <2>7 DEF DoPendingSwap
      <4>2. ran \o <<>> \o pending = ran \o pending \o <<>>
        BY <2>ran, <2>functors, <2>pending, QueueBecomesBatch
      <4> QED
        BY <2>0, <2>7, <4>1, <4>2 DEF DoPendingSwap, NothingLostOrReordered
    <3> QED
      BY <3>1, <3>2 DEF IInv
  <2>8. CASE RunFunctor
    <3>1. Rest'
      BY <2>0, <2>8 DEF RunFunctor, TypeOK
    <3>2. NothingLostOrReordered'
      <4>1. functors # <<>>
        BY <2>8 DEF RunFunctor
      <4>2. ran \o functors \o pending = Append(ran, Head(functors)) \o Tail(functors) \o pending
        BY <2>run, <4>1
      <4> QED
        BY <2>0, <2>8, <4>2 DEF RunFunctor, NothingLostOrReordered
    <3> QED
      BY <3>1, <3>2 DEF IInv
  <2>9. CASE FunctorReturns
    <3>1. Rest'
      BY <2>0, <2>9 DEF FunctorReturns, TypeOK
    <3>2. NothingLostOrReordered'
      BY <2>0, <2>9 DEF FunctorReturns, NothingLostOrReordered
    <3> QED
      BY <3>1, <3>2 DEF IInv
  <2>10. CASE DoPendingEnd
    <3>1. Rest'
      BY <2>0, <2>10 DEF DoPendingEnd, TypeOK
    <3>2. NothingLostOrReordered'
      BY <2>0, <2>10 DEF DoPendingEnd, NothingLostOrReordered
    <3> QED
      BY <3>1, <3>2 DEF IInv
  <2>11. CASE IoArrives
    <3>1. Rest'
      BY <2>0, <2>11 DEF IoArrives, TypeOK
    <3>2. NothingLostOrReordered'
      BY <2>0, <2>11 DEF IoArrives, NothingLostOrReordered
    <3> QED
      BY <3>1, <3>2 DEF IInv
  <2>12. ASSUME NEW t \in Threads, wakeup(t) PROVE IInv'
    <3>1. Rest'
      BY <2>0, <2>12 DEF wakeup, TypeOK, InUserCode, isInLoopThread
    <3>2. NothingLostOrReordered'
      BY <2>0, <2>12 DEF wakeup, NothingLostOrReordered
    <3> QED
      BY <3>1, <3>2 DEF IInv
  <2>13. ASSUME NEW t \in Threads, quit(t) PROVE IInv'
    <3>1. Rest'
      BY <2>0, <2>13 DEF quit, TypeOK, InUserCode, isInLoopThread
    <3>2. NothingLostOrReordered'
      BY <2>0, <2>13 DEF quit, NothingLostOrReordered
    <3> QED
      BY <3>1, <3>2 DEF IInv
  <2>14. ASSUME NEW t \in Threads, NEW f \in Fresh, queueInLoop(t, f) PROVE IInv'
    <3>0. f \in Functors
      BY DEF Fresh
    <3>1. FlagInv' /\ BatchInv'
      BY <2>0, <2>14 DEF queueInLoop
    <3>q. NoLostQuit'
      BY <2>0, <2>14 DEF queueInLoop, TypeOK, InUserCode, isInLoopThread, NeedsWakeup
    <3>2. WakeInv'
      BY <2>0, <2>14, <3>0 DEF queueInLoop, TypeOK, InUserCode, isInLoopThread, NeedsWakeup
    <3>3. NothingLostOrReordered'
      <4>1. Append(ran \o functors \o pending, f) = ran \o functors \o Append(pending, f)
        BY <2>push, <3>0
      <4> QED
        BY <2>0, <2>14, <4>1 DEF queueInLoop, NothingLostOrReordered
    <3> QED
      BY <3>1, <3>q, <3>2, <3>3 DEF IInv
  <2>15. ASSUME NEW t \in Threads, NEW f \in Fresh, runInLoop(t, f) PROVE IInv'
    <3>1. CASE queueInLoop(t, f)
      BY <2>14, <3>1
    <3>2. CASE ~queueInLoop(t, f)
      <4>1. Rest'
        BY <2>0, <2>15, <3>2 DEF runInLoop, TypeOK
      <4>2. NothingLostOrReordered'
        BY <2>0, <2>15, <3>2 DEF runInLoop, NothingLostOrReordered
      <4> QED
        BY <4>1, <4>2 DEF IInv
    <3> QED
      BY <3>1, <3>2
  <2>16. CASE UNCHANGED vars
    <3>1. Rest'
      BY <2>0, <2>16 DEF vars
    <3>2. NothingLostOrReordered'
      BY <2>0, <2>16 DEF vars, NothingLostOrReordered
    <3> QED
      BY <3>1, <3>2 DEF IInv
  <2> QED
    BY <2>1, <2>2, <2>3, <2>4, <2>5, <2>6, <2>7, <2>8, <2>9, <2>10, <2>11, <2>12,
       <2>13, <2>14, <2>15, <2>16 DEF Next, LoopStep
<1> QED
  BY <1>1, <1>2, TypeCorrect, PTL DEF Spec

(* queueInLoop never leaves a functor behind a poll() that nobody will end,  *)
(* however many threads call it and whatever the functors call themselves.   *)
THEOREM WakeupsAreNotLost == Spec => []NoLostWakeup
<1>1. IInv => NoLostWakeup
  BY DEF IInv, WakeInv, NoLostWakeup
<1> QED
  BY <1>1, LoopInvariant, PTL

(* A quit() during loop() never stays behind a poll() that nobody will end.  *)
THEOREM QuitsAreNotLost == Spec => []NoLostQuit
<1>1. IInv => NoLostQuit
  BY DEF IInv
<1> QED
  BY <1>1, LoopInvariant, PTL

(* doPendingFunctors() loses, repeats and reorders nothing.                  *)
THEOREM FunctorsInOrder == Spec => []NothingLostOrReordered
<1>1. IInv => NothingLostOrReordered
  BY DEF IInv
<1> QED
  BY <1>1, LoopInvariant, PTL

(* The loop, its batches and its wakeups implement the plain queue: every    *)
(* step of the code is a post, the run of the next posted functor, or        *)
(* nothing that a caller of queueInLoop can see.                             *)
THEOREM LoopImplementsQueue == Spec => ImplementsFunctorQueue
<1>1. Init => FQ!Init
  BY DEF Init, FQ!Init
<1>2. IInv /\ [Next]_vars => [FQ!Next]_(FQ!vars)
  <2> SUFFICES ASSUME IInv, [Next]_vars PROVE [FQ!Next]_(FQ!vars)
    OBVIOUS
  <2> USE DEF FQ!vars, loopVars
  <2>1. CASE loop \/ LoopTest \/ Poll \/ HandleChannel \/ CallbackReturns
            \/ DoPendingBegin \/ DoPendingSwap \/ FunctorReturns \/ DoPendingEnd \/ IoArrives
    BY <2>1 DEF loop, LoopTest, Poll, HandleChannel, handleRead, CallbackReturns,
            DoPendingBegin, DoPendingSwap, FunctorReturns, DoPendingEnd, IoArrives
  <2>2. CASE RunFunctor
    <3>1. functors # <<>> /\ posted = ran \o functors \o pending
      BY <2>2 DEF IInv, NothingLostOrReordered, RunFunctor
    <3>2. Len(ran) < Len(posted) /\ posted[Len(ran) + 1] = Head(functors)
      BY <3>1, BatchHeadRuns DEF IInv, TypeOK
    <3> QED
      BY <2>2, <3>2 DEF RunFunctor, FQ!Next, FQ!RunNext
  <2>3. ASSUME NEW t \in Threads, wakeup(t) \/ quit(t) PROVE UNCHANGED FQ!vars
    BY <2>3 DEF wakeup, quit
  <2>4. ASSUME NEW t \in Threads, NEW f \in Fresh, queueInLoop(t, f) \/ runInLoop(t, f)
        PROVE  [FQ!Next]_(FQ!vars)
    <3>1. f \in Functors
      BY DEF Fresh
    <3>2. CASE queueInLoop(t, f)
      BY <3>1, <3>2 DEF queueInLoop, FQ!Next, FQ!Post
    <3>3. CASE ~queueInLoop(t, f)
      BY <2>4, <3>3 DEF runInLoop
    <3> QED
      BY <3>2, <3>3
  <2>5. CASE UNCHANGED vars
    BY <2>5 DEF vars
  <2> QED
    BY <2>1, <2>2, <2>3, <2>4, <2>5 DEF Next, LoopStep
<1> QED
  BY <1>1, <1>2, LoopInvariant, PTL DEF Spec, ImplementsFunctorQueue, FQ!Spec

-----------------------------------------------------------------------------
(* EventLoopThread.                                                          *)

(* loop_ points to the loop from threadFunc()'s notify to the end of loop(), *)
(* and the thread exists once startLoop() was called.                        *)
PointerInv ==
    /\ loopPtr <=> threadPc \in {"published", "looping", "left"}
    /\ threadPc = "none" <=> ownerPc = "idle"

BeforeQuit == {"idle", "waiting", "blocked", "awake", "running", "checked", "quitting"}

(* Until the destructor has called quit(), only callbacks of the loop itself *)
(* can have set the flag; without it the thread has not left loop().         *)
NobodyQuit ==
    ~selfQuit /\ ownerPc \in BeforeQuit =>
        /\ ~quitFlag
        /\ threadPc \in {"none", "started", "constructed", "published", "looping"}

(* The loop that startLoop() has seen is still there when it returns it.     *)
SeenStays ==
    ~selfQuit /\ ownerPc \in {"awake", "running", "checked", "quitting"} =>
        threadPc \in {"published", "looping"}

TInv == PointerInv /\ NobodyQuit /\ SeenStays /\ OwnerSeesLiveLoop

(* loop() returns only after quit().                                         *)
LEMMA OnlyQuitLeaves ==
  ASSUME LoopStep
  PROVE  UNCHANGED quitFlag /\ (pc' = "outside" => quitFlag \/ pc = "outside")
  BY DEF LoopStep, LoopTest, Poll, HandleChannel, CallbackReturns, DoPendingBegin,
         DoPendingSwap, RunFunctor, FunctorReturns, DoPendingEnd

(* A thread that is looping is inside loop().                                *)
InsideLoop == threadPc = "looping" => pc # "outside"

(* startLoop() returns the loop and the destructor finds it alive, as long   *)
(* as nothing on the loop thread quits it: through every interleaving of     *)
(* threadFunc(), startLoop(), ~EventLoopThread() and calls into the loop.    *)
THEOREM OwnerFindsLoopAlive == ThreadSpec => []OwnerSeesLiveLoop
<1> DEFINE I == TInv /\ InsideLoop
<1> USE DEF PointerInv, NobodyQuit, SeenStays, OwnerSeesLiveLoop, BeforeQuit, InsideLoop
<1>1. ThreadInit => I
  BY DEF ThreadInit, Init, TInv
<1>2. I /\ [ThreadNext]_allVars => I'
  <2> SUFFICES ASSUME I, [ThreadNext]_allVars PROVE I'
    OBVIOUS
  <2>0. PointerInv /\ NobodyQuit /\ SeenStays /\ OwnerSeesLiveLoop /\ InsideLoop
    BY DEF TInv
  <2> USE DEF vars, threadVars, TInv
  <2>1. CASE ThreadConstructs
    BY <2>0, <2>1 DEF ThreadConstructs
  <2>2. CASE ThreadPublishes
    BY <2>0, <2>2 DEF ThreadPublishes
  <2>3. CASE ThreadEntersLoop
    BY <2>0, <2>3 DEF ThreadEntersLoop, loop
  <2>4. CASE ThreadLoops
    BY <2>0, <2>4, OnlyQuitLeaves DEF ThreadLoops
  <2>5. CASE ThreadClears \/ ThreadExits
    BY <2>0, <2>5 DEF ThreadClears, ThreadExits
  <2>6. CASE CallbackCalls
    BY <2>0, <2>6 DEF CallbackCalls, queueInLoop, quit, wakeup, loopVars
  <2>7. CASE startLoop
    BY <2>0, <2>7 DEF startLoop
  <2>8. CASE StartLoopWaits \/ StartLoopReturns
    BY <2>0, <2>8 DEF StartLoopWaits, StartLoopReturns
  <2>9. CASE OwnerCalls
    BY <2>0, <2>9 DEF OwnerCalls, queueInLoop, wakeup, loopVars
  <2>10. CASE DtorChecksLoop \/ DtorReadsLoop
    BY <2>0, <2>10 DEF DtorChecksLoop, DtorReadsLoop
  <2>11. CASE DtorQuits
    BY <2>0, <2>11 DEF DtorQuits, quit, loopVars
  <2>12. CASE DtorWakes
    BY <2>0, <2>12 DEF DtorWakes, wakeup, loopVars
  <2>13. CASE DtorJoins
    BY <2>0, <2>13 DEF DtorJoins
  <2>14. CASE threadPc = "looping" /\ IoArrives /\ UNCHANGED threadVars
    BY <2>0, <2>14 DEF IoArrives, loopVars
  <2>15. CASE UNCHANGED allVars
    BY <2>0, <2>15 DEF allVars
  <2> QED
    BY <2>1, <2>2, <2>3, <2>4, <2>5, <2>6, <2>7, <2>8, <2>9, <2>10, <2>11, <2>12, <2>13,
       <2>14, <2>15 DEF ThreadNext, ThreadStep, OwnerStep
<1>3. I => OwnerSeesLiveLoop
  BY DEF TInv
<1> QED
  BY <1>1, <1>2, <1>3, PTL DEF ThreadSpec

=============================================================================
