----------------------------- MODULE ThreadPool -----------------------------
(***************************************************************************)
(* muduo/base/ThreadPool.cc: worker threads that take tasks from a deque   *)
(* guarded by mutex_, with the conditions notEmpty_ and notFull_.          *)
(*                                                                         *)
(* A stretch of code under mutex_ that does not wait is one step.  A       *)
(* thread in wait() is asleep until a notify picks it or it wakes for no   *)
(* reason; then it is woken, and tests its condition again when it gets    *)
(* the mutex.  notify() wakes one sleeper, any of them.  A task may submit *)
(* tasks itself, from the worker that runs it.                             *)
(***************************************************************************)
EXTENDS Naturals, Sequences, FiniteSets

CONSTANTS Workers,        \* the threads start() makes; none: tasks run in run()
          Users,          \* other threads that call run()
          MaxTasks,       \* calls of run()
          MaxQueueSize    \* maxQueueSize_, 0 for no limit

ASSUME PoolAssumption ==
    /\ IsFiniteSet(Workers) /\ IsFiniteSet(Users) /\ Workers \cap Users = {}
    /\ MaxQueueSize \in Nat /\ MaxTasks \in Nat

VARIABLES running,   \* running_
          queue,     \* queue_
          pc,        \* pc[t]: where thread t is
          arg,       \* arg[t]: the task of the run() thread t is in
          stopPc,    \* where stop() is: "no", "joining" or "done"
          pushed,    \* history: tasks put in the queue, in order
          taken,     \* history: tasks taken from it, in order
          direct,    \* history: tasks run inside run()
          submitted  \* how many tasks run() was called with

vars == <<running, queue, pc, arg, stopPc, pushed, taken, direct, submitted>>

Threads == Workers \cup Users
Tasks == 1..MaxTasks   \* in the order run() was called with them
NoTask == 0

WorkerPcs == {"new", "test", "take", "asleepEmpty", "wokenEmpty", "task", "run",
              "asleepFull", "wokenFull", "exited"}
UserPcs == {"idle", "run", "asleepFull", "wokenFull"}

Init ==
    /\ running = FALSE /\ queue = <<>>
    /\ pc = [t \in Threads |-> IF t \in Workers THEN "new" ELSE "idle"]
    /\ arg = [t \in Threads |-> NoTask]
    /\ stopPc = "no"
    /\ pushed = <<>> /\ taken = <<>> /\ direct = {} /\ submitted = 0

At(place) == {t \in Threads : pc[t] = place}
Goto(t, place) == [pc EXCEPT ![t] = place]

(* notify(): one sleeper wakes, if there is one.                             *)
Notified(p, asleep, woken) ==
    LET sleepers == {t \in Threads : p[t] = asleep}
    IN  IF sleepers = {} THEN {p} ELSE {[p EXCEPT ![t] = woken] : t \in sleepers}

-----------------------------------------------------------------------------
(* start() and stop().                                                       *)

(* The threads are created one after another; one that is not yet created    *)
(* behaves like one that has not yet been given the processor.               *)
start ==
    /\ ~running /\ stopPc = "no"
    /\ running' = TRUE
    /\ pc' = [t \in Threads |-> IF t \in Workers THEN "test" ELSE pc[t]]
    /\ UNCHANGED <<queue, arg, stopPc, pushed, taken, direct, submitted>>

(* Mutation: wakes one worker only.                                          *)
stopNotifiesOne ==
    /\ running
    /\ running' = FALSE
    /\ pc' \in Notified(pc, "asleepEmpty", "wokenEmpty")
    /\ stopPc' = "joining"
    /\ UNCHANGED <<queue, arg, pushed, taken, direct, submitted>>

(* Those asleep on notFull_ are not woken.                                   *)
stop ==
    /\ running
    /\ running' = FALSE
    /\ pc' = [t \in Threads |-> IF pc[t] = "asleepEmpty" THEN "wokenEmpty" ELSE pc[t]]
    /\ stopPc' = "joining"
    /\ UNCHANGED <<queue, arg, pushed, taken, direct, submitted>>

(* for_each(threads_, join).                                                 *)
StopReturns ==
    /\ stopPc = "joining"
    /\ \A w \in Workers : pc[w] = "exited"
    /\ stopPc' = "done"
    /\ UNCHANGED <<running, queue, pc, arg, pushed, taken, direct, submitted>>

-----------------------------------------------------------------------------
(* run().                                                                    *)

isFull == MaxQueueSize > 0 /\ Len(queue) >= MaxQueueSize

(* Idle threads call run(), and so do tasks.                                 *)
MayCallRun(t) ==
    /\ submitted < MaxTasks
    /\ pc[t] = IF t \in Workers THEN "task" ELSE "idle"

(* threads_ is empty before start() and in a pool of no threads: the task    *)
(* runs at once.                                                             *)
NoThreads == Workers = {} \/ (~running /\ stopPc = "no")

RunDirectly(t) ==
    /\ MayCallRun(t) /\ NoThreads
    /\ submitted' = submitted + 1
    /\ direct' = direct \cup {submitted'}
    /\ UNCHANGED <<running, queue, pc, arg, stopPc, pushed, taken>>

run(t) ==
    /\ MayCallRun(t) /\ ~NoThreads
    /\ submitted' = submitted + 1
    /\ arg' = [arg EXCEPT ![t] = submitted']
    /\ pc' = Goto(t, "run")
    /\ UNCHANGED <<running, queue, stopPc, pushed, taken, direct>>

(* while (isFull()) notFull_.wait();                                         *)
RunWaits(t) ==
    /\ pc[t] \in {"run", "wokenFull"} /\ isFull
    /\ pc' = Goto(t, "asleepFull")
    /\ UNCHANGED <<running, queue, arg, stopPc, pushed, taken, direct, submitted>>

(* Mutation: signals only when the queue was empty.                          *)
PushNotifiesIfEmpty(p) ==
    IF queue = <<>> THEN Notified(p, "asleepEmpty", "wokenEmpty") ELSE {p}
(* notEmpty_.notify() after every push.                                      *)
AfterPush(p) == Notified(p, "asleepEmpty", "wokenEmpty")

RunPushes(t) ==
    /\ pc[t] \in {"run", "wokenFull"} /\ ~isFull
    /\ queue' = Append(queue, arg[t])
    /\ pushed' = Append(pushed, arg[t])
    /\ arg' = [arg EXCEPT ![t] = NoTask]
    /\ pc' \in AfterPush(Goto(t, IF t \in Workers THEN "task" ELSE "idle"))
    /\ UNCHANGED <<running, stopPc, taken, direct, submitted>>

-----------------------------------------------------------------------------
(* runInThread() and take().                                                 *)

(* while (running_), read without the mutex.                                 *)
WorkerTests(w) ==
    /\ pc[w] = "test"
    /\ pc' = Goto(w, IF running THEN "take" ELSE "exited")
    /\ UNCHANGED <<running, queue, arg, stopPc, pushed, taken, direct, submitted>>

(* while (queue_.empty() && running_) notEmpty_.wait();                      *)
TakeWaits(w) ==
    /\ pc[w] \in {"take", "wokenEmpty"} /\ queue = <<>> /\ running
    /\ pc' = Goto(w, "asleepEmpty")
    /\ UNCHANGED <<running, queue, arg, stopPc, pushed, taken, direct, submitted>>

(* Mutation: takes the newest task.                                          *)
NextTaskNewest == queue[Len(queue)]
(* queue_.front().                                                           *)
NextTask == Head(queue)

(* Mutation: does not signal.                                                *)
TakeSilently(p) == {p}
(* notFull_.notify() after every take from a bounded queue.                  *)
AfterTake(p) == IF MaxQueueSize > 0 THEN Notified(p, "asleepFull", "wokenFull") ELSE {p}

TakeTask(w) ==
    /\ pc[w] \in {"take", "wokenEmpty"} /\ queue # <<>>
    /\ taken' = Append(taken, NextTask)
    /\ queue' = Tail(queue)
    /\ pc' \in AfterTake(Goto(w, "task"))
    /\ UNCHANGED <<running, arg, stopPc, pushed, direct, submitted>>

(* Stopped with an empty queue: take() returns an empty Task.                *)
TakeNothing(w) ==
    /\ pc[w] \in {"take", "wokenEmpty"} /\ queue = <<>> /\ ~running
    /\ pc' = Goto(w, "test")
    /\ UNCHANGED <<running, queue, arg, stopPc, pushed, taken, direct, submitted>>

TaskReturns(w) ==
    /\ w \in Workers /\ pc[w] = "task"
    /\ pc' = Goto(w, "test")
    /\ UNCHANGED <<running, queue, arg, stopPc, pushed, taken, direct, submitted>>

(* pthread_cond_wait() may return for no reason.                             *)
WakesSpuriously(t) ==
    /\ \/ pc[t] = "asleepEmpty" /\ pc' = Goto(t, "wokenEmpty")
       \/ pc[t] = "asleepFull" /\ pc' = Goto(t, "wokenFull")
    /\ UNCHANGED <<running, queue, arg, stopPc, pushed, taken, direct, submitted>>

-----------------------------------------------------------------------------
InRun(t) == RunWaits(t) \/ RunPushes(t)
InWorker(w) == WorkerTests(w) \/ TakeWaits(w) \/ TakeTask(w) \/ TakeNothing(w)

(* The pool has stopped and nobody has anything left to do.                  *)
Done == stopPc = "done" /\ UNCHANGED vars

Next ==
    \/ start \/ stop \/ StopReturns \/ Done
    \/ \E t \in Threads : run(t) \/ RunDirectly(t) \/ InRun(t) \/ WakesSpuriously(t)
    \/ \E w \in Workers : InWorker(w) \/ TaskReturns(w)

Spec == Init /\ [][Next]_vars

(* Threads that can run do, tasks end, and nobody who keeps asking for the   *)
(* mutex is kept from it for ever.  Spurious wakeups are not counted on.     *)
FairSpec ==
    /\ Spec /\ WF_vars(StopReturns)
    /\ \A t \in Threads : WF_vars(RunWaits(t)) /\ SF_vars(RunPushes(t))
    /\ \A w \in Workers : WF_vars(InWorker(w)) /\ WF_vars(TaskReturns(w))

-----------------------------------------------------------------------------
(* Properties.                                                               *)

(* The members of ThreadPool and its threads; queue_ respects the limit.     *)
TypeOK ==
    /\ running \in BOOLEAN
    /\ queue \in Seq(Tasks) /\ pushed \in Seq(Tasks) /\ taken \in Seq(Tasks)
    /\ MaxQueueSize > 0 => Len(queue) <= MaxQueueSize
    /\ pc \in [Threads -> WorkerPcs \cup UserPcs]
    /\ \A t \in Threads : pc[t] \in IF t \in Workers THEN WorkerPcs ELSE UserPcs
    /\ arg \in [Threads -> Tasks \cup {NoTask}]
    /\ \A t \in Threads : (arg[t] # NoTask) <=> pc[t] \in {"run", "asleepFull", "wokenFull"}
    /\ stopPc \in {"no", "joining", "done"}
    /\ direct \subseteq Tasks /\ submitted \in 0..MaxTasks

(* take (113-132): no worker of a running pool sleeps on notEmpty_ next to   *)
(* more tasks than there are workers already woken for them.                 *)
NoStrandedWorker ==
    At("asleepEmpty") # {} => Len(queue) <= Cardinality(At("wokenEmpty"))

(* run (71-111): no caller sleeps on notFull_ next to more free places than  *)
(* there are callers already woken for them.                                 *)
NoStrandedCaller ==
    At("asleepFull") # {} =>
        MaxQueueSize <= Len(queue) + Cardinality(At("wokenFull"))

(* After stop() has set running_, no worker is left asleep on notEmpty_, so  *)
(* that stop() can join them all.                                            *)
NobodySleepsThroughStop == ~running => At("asleepEmpty") = {}

(* Tasks leave the deque in the order they entered it, each once.            *)
PQ == INSTANCE FunctorQueue WITH Functors <- Tasks, posted <- pushed, ran <- taken
ImplementsFunctorQueue == PQ!Spec

Entered(s, task) == \E i \in DOMAIN s : s[i] = task

(* A task that calls run() keeps its worker while the queue is full; when    *)
(* all workers are in such tasks the pool is jammed for good.                *)
Blocked(t) == isFull /\ pc[t] \in {"run", "asleepFull", "wokenFull"}
Jammed == \A w \in Workers : Blocked(w)

(* A task in the queue is taken, unless the pool is stopped or jammed.       *)
QueuedTasksRun ==
    \A task \in Tasks :
        Entered(pushed, task) ~> (Entered(taken, task) \/ ~running \/ Jammed)

(* A blocked run() returns, unless the pool is stopped or jammed             *)
(* (ThreadPool.h 44: "Could block if maxQueueSize > 0").                     *)
RunReturns ==
    \A t \in Users : (pc[t] = "run") ~> (pc[t] = "idle" \/ ~running \/ Jammed)

(* stop() returns once the tasks under way have ended; it waits for ever     *)
(* only if from some time on a task is blocked in run() on a full queue.     *)
StopEnds == <>[](stopPc = "joining") => \E w \in Workers : <>[]Blocked(w)

(* No notify of notEmpty_, notFull_ or stop() is lost: nobody sleeps next to *)
(* what he waits for.                                                        *)
NobodyStranded == TypeOK /\ NoStrandedWorker /\ NoStrandedCaller /\ NobodySleepsThroughStop

(* Tasks and callers go on, as long as the pool is neither stopped nor       *)
(* jammed.                                                                   *)
PoolProgresses == QueuedTasksRun /\ RunReturns
=============================================================================
