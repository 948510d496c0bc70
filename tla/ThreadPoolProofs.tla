-------------------------- MODULE ThreadPoolProofs --------------------------
(***************************************************************************)
(* Proofs about ThreadPool for every set of workers and callers, every     *)
(* number of tasks and every limit of the queue.                           *)
(***************************************************************************)
EXTENDS ThreadPool, SequenceTheorems, FiniteSetTheorems, TLAPS

(* start() finds the workers it makes where it puts them: none of them runs  *)
(* before it.                                                                *)
NotStarted == ~running /\ stopPc = "no" => \A w \in Workers : pc[w] = "new"

(* The deque is what was pushed and not yet taken, oldest first.             *)
QueueIsRest == pushed = taken \o queue

(* The type invariant is inductive together with NotStarted.                 *)
TInv == TypeOK /\ NotStarted

-----------------------------------------------------------------------------
(* Cardinalities of the sets of sleepers, and the row of tasks.              *)

(* One thread more or less in a place changes the count by one at most.      *)
LEMMA OneLeaves ==
  ASSUME NEW S, NEW T, NEW x, IsFiniteSet(T), S \subseteq T \cup {x}
  PROVE  /\ IsFiniteSet(S) /\ Cardinality(S) \in Nat /\ Cardinality(T) \in Nat
         /\ Cardinality(S) <= Cardinality(T) + 1
<1>0. Cardinality(T) \in Nat
  BY FS_CardinalityType
<1>1. IsFiniteSet(T \cup {x}) /\ Cardinality(T \cup {x}) <= Cardinality(T) + 1
  BY <1>0, FS_AddElement
<1>2. IsFiniteSet(S) /\ Cardinality(S) <= Cardinality(T \cup {x})
  BY <1>1, FS_Subset
<1> QED
  BY <1>0, <1>1, <1>2, FS_CardinalityType

(* A set with one member more has at least one more.                         *)
LEMMA OneJoins ==
  ASSUME NEW S, NEW T, NEW x, IsFiniteSet(T), S \subseteq T \ {x}, x \in T
  PROVE  /\ IsFiniteSet(S) /\ Cardinality(S) \in Nat /\ Cardinality(T) \in Nat
         /\ Cardinality(S) + 1 <= Cardinality(T)
<1>1. IsFiniteSet(T \ {x}) /\ Cardinality(T \ {x}) = Cardinality(T) - 1
  BY FS_RemoveElement
<1>2. IsFiniteSet(S) /\ Cardinality(S) <= Cardinality(T \ {x})
  BY <1>1, FS_Subset
<1> QED
  BY <1>1, <1>2, FS_CardinalityType

(* The threads in one place are finitely many.                               *)
LEMMA FiniteAt ==
  ASSUME NEW S \in SUBSET Threads
  PROVE  IsFiniteSet(S) /\ Cardinality(S) \in Nat
<1>1. IsFiniteSet(Threads)
  BY PoolAssumption, FS_Union DEF PoolAssumption, Threads
<1> QED
  BY <1>1, FS_Subset, FS_CardinalityType

(* notify() changes nothing when nobody sleeps, and otherwise moves exactly  *)
(* one sleeper.                                                              *)
LEMMA NotifyWakesOne ==
  ASSUME NEW p, NEW asleep, NEW woken, NEW q \in Notified(p, asleep, woken)
  PROVE  \/ q = p /\ \A s \in Threads : p[s] # asleep
         \/ \E s \in Threads : p[s] = asleep /\ q = [p EXCEPT ![s] = woken]
  BY DEF Notified

(* Rows of tasks may be joined in any grouping.                              *)
LEMMA TasksAssociate ==
  \A a, b, c \in Seq(Tasks) : (a \o b) \o c = a \o (b \o c)
<1> SUFFICES ASSUME NEW S, NEW a \in Seq(S), NEW b \in Seq(S), NEW c \in Seq(S)
             PROVE  (a \o b) \o c = a \o (b \o c)
  OBVIOUS
<1> QED
  BY ConcatAssociative

(* Pushing extends the row of pushed tasks at its end.                       *)
LEMMA PushExtendsRow ==
  ASSUME NEW a \in Seq(Tasks), NEW b \in Seq(Tasks), NEW e \in Tasks
  PROVE  Append(a \o b, e) = a \o Append(b, e)
<1>1. <<e>> \in Seq(Tasks) /\ a \o b \in Seq(Tasks)
  OBVIOUS
<1>2. Append(a \o b, e) = (a \o b) \o <<e>>
  BY <1>1, AppendIsConcat
<1>3. (a \o b) \o <<e>> = a \o (b \o <<e>>)
  BY <1>1, TasksAssociate, Zenon
<1> QED
  BY <1>2, <1>3, AppendIsConcat

(* Taking the front task moves the border between taken and queued tasks by  *)
(* one, and the task taken is the one after all tasks taken before.          *)
LEMMA TakeMovesBorder ==
  ASSUME NEW a \in Seq(Tasks), NEW b \in Seq(Tasks), b # <<>>
  PROVE  /\ a \o b = Append(a, Head(b)) \o Tail(b)
         /\ Len(a) < Len(a \o b)
         /\ (a \o b)[Len(a) + 1] = Head(b)
<1>1. Head(b) \in Tasks /\ Tail(b) \in Seq(Tasks) /\ <<Head(b)>> \in Seq(Tasks)
  BY HeadTailProperties
<1>2. Append(a, Head(b)) \in Seq(Tasks) /\ Len(Append(a, Head(b))) = Len(a) + 1
  BY <1>1, AppendProperties
<1>3. Len(b) > 0 /\ Len(Tail(b)) = Len(b) - 1
  BY EmptySeq, HeadTailProperties
<1>4. Len(a \o b) = Len(a) + Len(b) /\ a \o b \in Seq(Tasks)
  BY ConcatProperties
<1>5. Append(a, Head(b)) \o Tail(b) \in Seq(Tasks)
  /\ Len(Append(a, Head(b)) \o Tail(b)) = Len(a) + Len(b)
  BY <1>1, <1>2, <1>3, ConcatProperties
<1>6. ASSUME NEW i \in 1..(Len(a) + Len(b))
      PROVE  (a \o b)[i] = (Append(a, Head(b)) \o Tail(b))[i]
  BY <1>1, <1>2, <1>3, <1>4, <1>5
<1>7. a \o b = Append(a, Head(b)) \o Tail(b)
  BY <1>4, <1>5, <1>6, SeqEqual
<1> QED
  BY <1>3, <1>4, <1>7

-----------------------------------------------------------------------------
(* The constructor leaves every member in its type, and no thread started.   *)
LEMMA PoolInit == Init => TInv
<1> USE PoolAssumption DEF PoolAssumption
<1> SUFFICES ASSUME Init PROVE TInv
  OBVIOUS
<1> USE DEF Init
<1>1. queue \in Seq(Tasks) /\ pushed \in Seq(Tasks) /\ taken \in Seq(Tasks)
  OBVIOUS
<1>2. pc \in [Threads -> WorkerPcs \cup UserPcs]
  BY DEF WorkerPcs, UserPcs
<1>3. \A t \in Threads : pc[t] \in IF t \in Workers THEN WorkerPcs ELSE UserPcs
  BY DEF WorkerPcs, UserPcs
<1>4. submitted \in 0..MaxTasks /\ Len(queue) <= MaxQueueSize
  OBVIOUS
<1>5. NotStarted
  BY DEF NotStarted, Threads
<1> QED
  BY <1>1, <1>2, <1>3, <1>4, <1>5 DEF TInv, TypeOK, NoTask

(* The pool's members and the places of its threads keep their types under   *)
(* every interleaving of run(), take(), start() and stop(); in particular    *)
(* the deque never outgrows maxQueueSize_.                                   *)
THEOREM PoolTypeCorrect == Spec => []TInv
<1> USE PoolAssumption DEF PoolAssumption
<1>1. Init => TInv
  BY PoolInit
<1>2. TInv /\ [Next]_vars => TInv'
  <2> SUFFICES ASSUME TInv, [Next]_vars PROVE TInv'
    OBVIOUS
  <2> USE DEF TInv, TypeOK, NotStarted, NoTask
  <2>1. CASE start
    BY <2>1 DEF start, Threads, WorkerPcs, UserPcs
  <2>2. CASE stop
    BY <2>2 DEF stop, Threads, WorkerPcs, UserPcs
  <2>3. CASE StopReturns
    BY <2>3 DEF StopReturns
  <2>4. ASSUME NEW t \in Threads, run(t) PROVE TInv'
    BY <2>4 DEF run, MayCallRun, NoThreads, Goto, Tasks, WorkerPcs, UserPcs, Threads
  <2>5. ASSUME NEW t \in Threads, RunDirectly(t) PROVE TInv'
    BY <2>5 DEF RunDirectly, MayCallRun, Tasks
  <2>6. ASSUME NEW t \in Threads, RunWaits(t) PROVE TInv'
    BY <2>6 DEF RunWaits, Goto, WorkerPcs, UserPcs, Threads
  <2>7. ASSUME NEW t \in Threads, RunPushes(t) PROVE TInv'
    <3> DEFINE p == Goto(t, IF t \in Workers THEN "task" ELSE "idle")
    <3>1. arg[t] \in Tasks
      BY <2>7 DEF RunPushes
    <3>2. queue' \in Seq(Tasks) /\ pushed' \in Seq(Tasks) /\ Len(queue') = Len(queue) + 1
      BY <2>7, <3>1 DEF RunPushes
    <3>3. MaxQueueSize > 0 => Len(queue') <= MaxQueueSize
      BY <2>7, <3>2 DEF RunPushes, isFull
    <3>4. \/ pc' = p
          \/ \E s \in Threads : p[s] = "asleepEmpty" /\ pc' = [p EXCEPT ![s] = "wokenEmpty"]
      BY <2>7, NotifyWakesOne DEF RunPushes, AfterPush
    <3>5. /\ pc' \in [Threads -> WorkerPcs \cup UserPcs]
          /\ \A s \in Threads : pc'[s] \in IF s \in Workers THEN WorkerPcs ELSE UserPcs
      BY <3>4 DEF Goto, WorkerPcs, UserPcs
    <3>6. arg' \in [Threads -> Tasks \cup {NoTask}]
      BY <2>7 DEF RunPushes
    <3>7. \A s \in Threads :
              (arg'[s] # NoTask) <=> pc'[s] \in {"run", "asleepFull", "wokenFull"}
      BY <2>7, <3>4 DEF RunPushes, Goto
    <3>8. NotStarted'
      BY <2>7, <3>4 DEF RunPushes, Goto, Threads
    <3> QED
      BY <2>7, <3>2, <3>3, <3>5, <3>6, <3>7, <3>8 DEF RunPushes
  <2>8. ASSUME NEW t \in Threads, WakesSpuriously(t) PROVE TInv'
    BY <2>8 DEF WakesSpuriously, Goto, WorkerPcs, UserPcs, Threads
  <2>9. ASSUME NEW w \in Workers, WorkerTests(w) PROVE TInv'
    BY <2>9 DEF WorkerTests, Goto, WorkerPcs, UserPcs, Threads
  <2>10. ASSUME NEW w \in Workers, TakeWaits(w) PROVE TInv'
    BY <2>10 DEF TakeWaits, Goto, WorkerPcs, UserPcs, Threads
  <2>11. ASSUME NEW w \in Workers, TakeTask(w) PROVE TInv'
    <3> DEFINE p == Goto(w, "task")
    <3>1. w \in Threads /\ queue # <<>> /\ pc[w] \in {"take", "wokenEmpty"}
      BY <2>11 DEF TakeTask, Threads
    <3>2. /\ queue' \in Seq(Tasks) /\ taken' \in Seq(Tasks)
          /\ Len(queue') = Len(queue) - 1
      BY <2>11, <3>1, HeadTailProperties DEF TakeTask, NextTask
    <3>3. \/ pc' = p
          \/ \E s \in Threads : p[s] = "asleepFull" /\ pc' = [p EXCEPT ![s] = "wokenFull"]
      BY <2>11, NotifyWakesOne DEF TakeTask, AfterTake
    <3>4. /\ pc' \in [Threads -> WorkerPcs \cup UserPcs]
          /\ \A s \in Threads : pc'[s] \in IF s \in Workers THEN WorkerPcs ELSE UserPcs
      BY <3>1, <3>3 DEF Goto, WorkerPcs, UserPcs
    <3>5. \A s \in Threads :
              (arg'[s] # NoTask) <=> pc'[s] \in {"run", "asleepFull", "wokenFull"}
      BY <2>11, <3>1, <3>3 DEF TakeTask, Goto
    <3>6. NotStarted'
      BY <2>11, <3>1, <3>3 DEF TakeTask, Goto, Threads
    <3> QED
      BY <2>11, <3>2, <3>4, <3>5, <3>6 DEF TakeTask
  <2>12. ASSUME NEW w \in Workers, TakeNothing(w) PROVE TInv'
    BY <2>12 DEF TakeNothing, Goto, WorkerPcs, UserPcs, Threads
  <2>13. ASSUME NEW w \in Workers, TaskReturns(w) PROVE TInv'
    BY <2>13 DEF TaskReturns, Goto, WorkerPcs, UserPcs, Threads
  <2>14. CASE UNCHANGED vars
    BY <2>14 DEF vars
  <2> QED
    BY <2>1, <2>2, <2>3, <2>4, <2>5, <2>6, <2>7, <2>8, <2>9, <2>10, <2>11, <2>12,
       <2>13, <2>14 DEF Next, InRun, InWorker, Done
<1> QED
  BY <1>1, <1>2, PTL DEF Spec

(* The inductive invariant: nobody is stranded, whatever start() makes is    *)
(* new, and the deque holds the rest of the pushed tasks.                    *)
IInv == TInv /\ NoStrandedWorker /\ NoStrandedCaller /\ NobodySleepsThroughStop
             /\ QueueIsRest

(* No notify of notEmpty_ and notFull_ is lost and no task changes its place *)
(* in the row, however run(), take(), stop() and spurious wakeups            *)
(* interleave.                                                               *)
THEOREM PoolInvariant == Spec => []IInv
<1> USE PoolAssumption DEF PoolAssumption
<1>1. Init => IInv
  <2> SUFFICES ASSUME Init, TInv PROVE IInv
    BY PoolInit
  <2> QED
    BY DEF Init, IInv, NoStrandedWorker, NoStrandedCaller, NobodySleepsThroughStop,
       QueueIsRest, At
<1>2. IInv /\ TInv' /\ [Next]_vars => IInv'
  <2> SUFFICES ASSUME IInv, TInv', [Next]_vars PROVE IInv'
    OBVIOUS
  <2>0. /\ TypeOK /\ QueueIsRest
        /\ queue \in Seq(Tasks) /\ taken \in Seq(Tasks) /\ pushed \in Seq(Tasks)
        /\ pc \in [Threads -> WorkerPcs \cup UserPcs]
        /\ Len(queue) \in Nat
    BY DEF IInv, TInv, TypeOK
  <2>c. \A place : /\ IsFiniteSet(At(place)) /\ Cardinality(At(place)) \in Nat
                   /\ IsFiniteSet(At(place)') /\ Cardinality(At(place)') \in Nat
    BY FiniteAt DEF At
  <2> USE DEF NobodySleepsThroughStop
  <2>1. CASE start
    <3>1. At("asleepEmpty")' = {}
      BY <2>1, <2>0 DEF start, At, TypeOK, Threads, UserPcs
    <3>2. At("asleepFull")' \subseteq At("asleepFull") /\ At("wokenFull") \subseteq At("wokenFull")'
      BY <2>1, <2>0 DEF start, At, IInv, TInv, NotStarted
    <3>3. Cardinality(At("wokenFull")) <= Cardinality(At("wokenFull")')
      BY <3>2, <2>c, FS_Subset
    <3> QED
      BY <2>1, <2>0, <2>c, <3>1, <3>2, <3>3 DEF IInv, start, NoStrandedWorker, NoStrandedCaller, QueueIsRest
  <2>2. CASE stop
    <3>1. At("asleepEmpty")' = {}
      BY <2>2, <2>0 DEF stop, At
    <3>2. At("asleepFull")' = At("asleepFull") /\ At("wokenFull")' = At("wokenFull")
      BY <2>2, <2>0 DEF stop, At
    <3> QED
      BY <2>2, <3>1, <3>2 DEF IInv, stop, NoStrandedWorker, NoStrandedCaller, QueueIsRest
  <2>3. ASSUME \/ StopReturns \/ UNCHANGED vars
               \/ \E t \in Threads : run(t) \/ RunDirectly(t)
               \/ \E w \in Workers : WorkerTests(w) \/ TaskReturns(w)
        PROVE  IInv'
    <3>1. /\ UNCHANGED <<queue, running, pushed, taken>>
          /\ At("asleepEmpty")' = At("asleepEmpty") /\ At("wokenEmpty")' = At("wokenEmpty")
          /\ At("asleepFull")' = At("asleepFull") /\ At("wokenFull")' = At("wokenFull")
      BY <2>3, <2>0 DEF StopReturns, run, RunDirectly, WorkerTests, TaskReturns, vars,
                        MayCallRun, Goto, At, Threads
    <3> QED
      BY <3>1 DEF IInv, NoStrandedWorker, NoStrandedCaller, QueueIsRest
  <2>4. ASSUME NEW t \in Threads, RunWaits(t) PROVE IInv'
    <3>1. /\ UNCHANGED <<queue, running, pushed, taken>> /\ MaxQueueSize <= Len(queue)
          /\ At("asleepEmpty")' = At("asleepEmpty") /\ At("wokenEmpty")' = At("wokenEmpty")
      BY <2>4, <2>0 DEF RunWaits, isFull, Goto, At
    <3> QED
      BY <2>0, <2>c, <3>1 DEF IInv, NoStrandedWorker, NoStrandedCaller, QueueIsRest
  <2>5. ASSUME NEW t \in Threads, RunPushes(t) PROVE IInv'
    <3> DEFINE p == Goto(t, IF t \in Workers THEN "task" ELSE "idle")
    <3>1. /\ pc[t] \in {"run", "wokenFull"} /\ UNCHANGED running
          /\ arg[t] \in Tasks
      BY <2>5, <2>0 DEF RunPushes, TypeOK
    <3>2. Len(queue') = Len(queue) + 1 /\ QueueIsRest'
      BY <2>5, <2>0, <3>1, PushExtendsRow, AppendProperties DEF RunPushes, QueueIsRest
    <3>3. \/ pc' = p /\ \A s \in Threads : p[s] # "asleepEmpty"
          \/ \E s \in Threads : p[s] = "asleepEmpty" /\ pc' = [p EXCEPT ![s] = "wokenEmpty"]
      BY <2>5, NotifyWakesOne DEF RunPushes, AfterPush
    <3>4. NoStrandedWorker' /\ NobodySleepsThroughStop'
      <4>1. CASE pc' = p /\ \A s \in Threads : p[s] # "asleepEmpty"
        BY <4>1 DEF At, NoStrandedWorker
      <4>2. ASSUME NEW s \in Threads, p[s] = "asleepEmpty", pc' = [p EXCEPT ![s] = "wokenEmpty"]
            PROVE  NoStrandedWorker' /\ NobodySleepsThroughStop'
        <5>1. /\ s \in At("asleepEmpty")
              /\ At("wokenEmpty") \subseteq At("wokenEmpty")' \ {s} /\ s \in At("wokenEmpty")'
              /\ At("asleepEmpty")' \subseteq At("asleepEmpty")
          BY <4>2, <2>0, <3>1 DEF At, Goto
        <5>2. Cardinality(At("wokenEmpty")) + 1 <= Cardinality(At("wokenEmpty")')
          BY <5>1, <2>c, OneJoins
        <5>3. Len(queue) <= Cardinality(At("wokenEmpty"))
          BY <5>1 DEF IInv, NoStrandedWorker
        <5> QED
          BY <2>0, <2>c, <3>1, <3>2, <5>1, <5>2, <5>3 DEF NoStrandedWorker, IInv
      <4> QED
        BY <3>3, <4>1, <4>2
    <3>5. NoStrandedCaller'
      <4>1. /\ At("asleepFull")' \subseteq At("asleepFull")
            /\ At("wokenFull") \subseteq At("wokenFull")' \cup {t}
        BY <2>0, <3>1, <3>3 DEF At, Goto
      <4>2. Cardinality(At("wokenFull")) <= Cardinality(At("wokenFull")') + 1
        BY <4>1, <2>c, OneLeaves
      <4> QED
        BY <2>0, <2>c, <3>2, <4>1, <4>2 DEF IInv, NoStrandedCaller
    <3> QED
      BY <3>2, <3>4, <3>5 DEF IInv
  <2>6. ASSUME NEW t \in Threads, WakesSpuriously(t) PROVE IInv'
    <3>1. /\ UNCHANGED <<queue, running, pushed, taken>>
          /\ At("asleepEmpty")' \subseteq At("asleepEmpty")
          /\ At("wokenEmpty") \subseteq At("wokenEmpty")'
          /\ At("asleepFull")' \subseteq At("asleepFull")
          /\ At("wokenFull") \subseteq At("wokenFull")'
      BY <2>6, <2>0 DEF WakesSpuriously, Goto, At
    <3>2. /\ Cardinality(At("wokenEmpty")) <= Cardinality(At("wokenEmpty")')
          /\ Cardinality(At("wokenFull")) <= Cardinality(At("wokenFull")')
      BY <3>1, <2>c, FS_Subset
    <3> QED
      BY <2>0, <2>c, <3>1, <3>2 DEF IInv, NoStrandedWorker, NoStrandedCaller, QueueIsRest
  <2>7. ASSUME NEW w \in Workers, TakeWaits(w) \/ TakeNothing(w) PROVE IInv'
    <3>1. /\ UNCHANGED <<queue, running, pushed, taken>> /\ Len(queue) = 0
          /\ At("asleepFull")' = At("asleepFull") /\ At("wokenFull")' = At("wokenFull")
      BY <2>7, <2>0 DEF TakeWaits, TakeNothing, Goto, At
    <3>2. running \/ At("asleepEmpty")' \subseteq At("asleepEmpty")
      BY <2>7, <2>0 DEF TakeWaits, TakeNothing, Goto, At
    <3> QED
      BY <2>0, <2>c, <3>1, <3>2 DEF IInv, NoStrandedWorker, NoStrandedCaller, QueueIsRest
  <2>8. ASSUME NEW w \in Workers, TakeTask(w) PROVE IInv'
    <3> DEFINE p == Goto(w, "task")
    <3>1. /\ w \in Threads /\ queue # <<>> /\ pc[w] \in {"take", "wokenEmpty"}
          /\ UNCHANGED running
      BY <2>8 DEF TakeTask, Threads
    <3>2. Len(queue') = Len(queue) - 1 /\ QueueIsRest'
      BY <2>8, <2>0, <3>1, TakeMovesBorder, HeadTailProperties
      DEF TakeTask, NextTask, QueueIsRest
    <3>3. \/ pc' = p /\ (MaxQueueSize > 0 => \A s \in Threads : p[s] # "asleepFull")
          \/ \E s \in Threads : p[s] = "asleepFull" /\ pc' = [p EXCEPT ![s] = "wokenFull"]
      BY <2>8, NotifyWakesOne DEF TakeTask, AfterTake
    <3>4. NoStrandedWorker' /\ NobodySleepsThroughStop'
      <4>1. /\ At("asleepEmpty")' \subseteq At("asleepEmpty")
            /\ At("wokenEmpty") \subseteq At("wokenEmpty")' \cup {w}
        BY <2>0, <3>1, <3>3 DEF At, Goto
      <4>2. Cardinality(At("wokenEmpty")) <= Cardinality(At("wokenEmpty")') + 1
        BY <4>1, <2>c, OneLeaves
      <4> QED
        BY <2>0, <2>c, <3>1, <3>2, <4>1, <4>2 DEF IInv, NoStrandedWorker
    <3>5. NoStrandedCaller'
      <4>0. Len(queue') \in Nat
        BY DEF TInv, TypeOK
      <4>1. CASE MaxQueueSize = 0
        BY <2>c, <4>0, <4>1 DEF NoStrandedCaller
      <4>2. CASE pc' = p /\ \A s \in Threads : p[s] # "asleepFull"
        BY <4>2 DEF At, NoStrandedCaller
      <4>3. ASSUME NEW s \in Threads, p[s] = "asleepFull", pc' = [p EXCEPT ![s] = "wokenFull"]
            PROVE  NoStrandedCaller'
        <5>1. /\ s \in At("asleepFull")
              /\ At("wokenFull") \subseteq At("wokenFull")' \ {s} /\ s \in At("wokenFull")'
          BY <4>3, <2>0, <3>1 DEF At, Goto
        <5>2. Cardinality(At("wokenFull")) + 1 <= Cardinality(At("wokenFull")')
          BY <5>1, <2>c, OneJoins
        <5>3. MaxQueueSize <= Len(queue) + Cardinality(At("wokenFull"))
          BY <5>1 DEF IInv, NoStrandedCaller
        <5> QED
          BY <2>0, <2>c, <3>2, <5>2, <5>3 DEF NoStrandedCaller
      <4> QED
        BY <3>3, <4>1, <4>2, <4>3
    <3> QED
      BY <3>2, <3>4, <3>5 DEF IInv
  <2> QED
    BY <2>1, <2>2, <2>3, <2>4, <2>5, <2>6, <2>7, <2>8 DEF Next, InRun, InWorker, Done
<1> QED
  BY <1>1, <1>2, PoolTypeCorrect, PTL DEF Spec

(* No wakeup of take(), run() or stop() is lost: a sleeper on notEmpty_ or   *)
(* notFull_ always has somebody woken for what he waits for, and stop()      *)
(* leaves no worker asleep, for every number of workers and callers.         *)
THEOREM NobodyIsStranded == Spec => []NobodyStranded
<1>1. IInv => NobodyStranded
  BY DEF IInv, TInv, NobodyStranded
<1> QED
  BY <1>1, PoolInvariant, PTL

(* The deque under mutex_ implements the plain queue: run() posts, a worker  *)
(* takes the oldest task that was not taken, and nothing else is seen.       *)
THEOREM PoolImplementsQueue == Spec => ImplementsFunctorQueue
<1>1. Init => PQ!Init
  BY DEF Init, PQ!Init
<1>2. IInv /\ [Next]_vars => [PQ!Next]_(PQ!vars)
  <2> SUFFICES ASSUME IInv, [Next]_vars PROVE [PQ!Next]_(PQ!vars)
    OBVIOUS
  <2> USE DEF PQ!vars
  <2>1. CASE start \/ stop \/ StopReturns \/ UNCHANGED vars
    BY <2>1 DEF start, stop, StopReturns, vars
  <2>2. ASSUME NEW t \in Threads, run(t) \/ RunDirectly(t) \/ RunWaits(t) \/ WakesSpuriously(t)
        PROVE  UNCHANGED PQ!vars
    BY <2>2 DEF run, RunDirectly, RunWaits, WakesSpuriously
  <2>3. ASSUME NEW t \in Threads, RunPushes(t) PROVE PQ!Next
    <3>1. arg[t] \in Tasks
      BY <2>3 DEF IInv, TInv, TypeOK, RunPushes
    <3> QED
      BY <2>3, <3>1 DEF RunPushes, PQ!Next, PQ!Post
  <2>4. ASSUME NEW w \in Workers, WorkerTests(w) \/ TakeWaits(w) \/ TakeNothing(w) \/ TaskReturns(w)
        PROVE  UNCHANGED PQ!vars
    BY <2>4 DEF WorkerTests, TakeWaits, TakeNothing, TaskReturns
  <2>5. ASSUME NEW w \in Workers, TakeTask(w) PROVE PQ!Next
    <3>1. queue # <<>> /\ pushed = taken \o queue
      BY <2>5 DEF IInv, QueueIsRest, TakeTask
    <3>2. Len(taken) < Len(pushed) /\ pushed[Len(taken) + 1] = Head(queue)
      BY <3>1, TakeMovesBorder DEF IInv, TInv, TypeOK
    <3> QED
      BY <2>5, <3>2 DEF TakeTask, NextTask, PQ!Next, PQ!RunNext
  <2> QED
    BY <2>1, <2>2, <2>3, <2>4, <2>5 DEF Next, InRun, InWorker, Done
<1> QED
  BY <1>1, <1>2, PoolInvariant, PTL DEF Spec, ImplementsFunctorQueue, PQ!Spec

=============================================================================
