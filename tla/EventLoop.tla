----------------------------- MODULE EventLoop -----------------------------
(***************************************************************************)
(* muduo/net/EventLoop.cpp: one loop thread that polls, dispatches active  *)
(* channels and then runs the functors other threads (or it itself) have   *)
(* queued, and the eventfd that wakes it up.  The poll has no timeout      *)
(* (kPollTimeMs = -1), so a wakeup that is missed is missed for ever.      *)
(*                                                                         *)
(* A call made by user code is one step per access to shared state:        *)
(* queueInLoop pushes under mutex_ and then, as a second step of the same  *)
(* thread, writes the eventfd.  The critical sections contain one access   *)
(* each, so mutex_ itself needs no variable.                               *)
(***************************************************************************)
EXTENDS Naturals, Sequences, SequencesExt

CONSTANTS Threads,     \* every thread that may call into the loop
          LoopThread,  \* the one of them that constructed it (threadId_)
          Functors,    \* what can be queued; each is queued once
          EventfdMax   \* the largest value of the eventfd counter

ASSUME LoopAssumption ==
    /\ LoopThread \in Threads
    /\ EventfdMax \in Nat \ {0}

VARIABLES pc,              \* where the loop thread is
          calls,           \* calls[t]: "wakeup" when thread t still has to call wakeup()
          looping,         \* looping_
          quitFlag,        \* quit_
          eventHandling,   \* eventHandling_
          callingPending,  \* callingPendingFunctors_
          pending,         \* pendingFunctors_
          functors,        \* the vector swapped out by doPendingFunctors()
          wakeupFd,        \* counter of the eventfd
          ioReady,         \* whether the fd of some user channel is readable
          active,          \* activeChannels_
          posted,          \* history: every functor pushed, in order
          ran,             \* history: every functor run from the queue, in order
          direct,          \* history: the functors runInLoop() called at once
          early            \* history: pushed by LoopThread while loop() is not running

loopVars == <<pc, looping, eventHandling, callingPending, functors, active>>
vars == <<pc, calls, looping, quitFlag, eventHandling, callingPending, pending,
          functors, wakeupFd, ioReady, active, posted, ran, direct, early>>

Channels == {"wakeup", "user"}

Init ==
    /\ pc = "outside"
    /\ calls = [t \in Threads |-> "none"]
    /\ looping = FALSE
    /\ quitFlag = FALSE
    /\ eventHandling = FALSE
    /\ callingPending = FALSE
    /\ pending = <<>>
    /\ functors = <<>>
    /\ wakeupFd = 0
    /\ ioReady = FALSE
    /\ active = <<>>
    /\ posted = <<>>
    /\ ran = <<>>
    /\ direct = {}
    /\ early = {}

isInLoopThread(t) == t = LoopThread

(* The loop thread runs user code before and after loop() and inside the     *)
(* callback of a channel or a functor; any other thread may call at any time *)
(* it has no call of its own under way.                                      *)
InUserCode(t) ==
    /\ calls[t] = "none"
    /\ isInLoopThread(t) => pc \in {"outside", "callback", "inFunctor"}

LoopThreadFree == calls[LoopThread] = "none"

Fresh == (Functors \ {posted[i] : i \in DOMAIN posted}) \ direct

-----------------------------------------------------------------------------
(* Calls from user code.                                                     *)

(* Mutation: forgets the call from inside a functor.                         *)
NeedsWakeupOtherThreadOnly(t) == ~isInLoopThread(t)

NeedsWakeup(t) == ~isInLoopThread(t) \/ callingPending

queueInLoop(t, f) ==
    /\ InUserCode(t)
    /\ pending' = Append(pending, f)
    /\ posted' = Append(posted, f)
    /\ calls' = [calls EXCEPT ![t] = IF NeedsWakeup(t) THEN "wakeup" ELSE "none"]
    /\ early' = IF isInLoopThread(t) /\ pc = "outside" THEN early \cup {f} ELSE early
    /\ UNCHANGED <<loopVars, quitFlag, wakeupFd, ioReady, ran, direct>>

runInLoop(t, f) ==
    \/ /\ ~isInLoopThread(t)
       /\ queueInLoop(t, f)
    \/ /\ isInLoopThread(t)
       /\ InUserCode(t)
       /\ direct' = direct \cup {f}
       /\ UNCHANGED <<loopVars, calls, quitFlag, pending, wakeupFd, ioReady,
                      posted, ran, early>>

(* Mutation: sets the flag and does not wake the loop.                       *)
quitWithoutWakeup(t) ==
    /\ InUserCode(t)
    /\ quitFlag' = TRUE
    /\ UNCHANGED <<loopVars, calls, pending, wakeupFd, ioReady, posted, ran, direct, early>>

quit(t) ==
    /\ InUserCode(t)
    /\ quitFlag' = TRUE
    /\ calls' = [calls EXCEPT ![t] = IF isInLoopThread(t) THEN "none" ELSE "wakeup"]
    /\ UNCHANGED <<loopVars, pending, wakeupFd, ioReady, posted, ran, direct, early>>

(* The eventfd is non-blocking: a write to a full counter fails, is logged,  *)
(* and leaves it readable.                                                   *)
wakeup(t) ==
    /\ calls[t] = "wakeup"
    /\ wakeupFd' = IF wakeupFd < EventfdMax THEN wakeupFd + 1 ELSE wakeupFd
    /\ calls' = [calls EXCEPT ![t] = "none"]
    /\ UNCHANGED <<loopVars, quitFlag, pending, ioReady, posted, ran, direct, early>>

(* The kernel makes the fd of a user channel readable.                       *)
IoArrives ==
    /\ ~ioReady
    /\ ioReady' = TRUE
    /\ UNCHANGED <<loopVars, calls, quitFlag, pending, wakeupFd, posted, ran,
                   direct, early>>

-----------------------------------------------------------------------------
(* The loop thread.                                                          *)

(* Entry to loop(): quit_ is cleared, whoever may have set it.               *)
loop ==
    /\ pc = "outside" /\ LoopThreadFree
    /\ looping' = TRUE
    /\ quitFlag' = FALSE
    /\ pc' = "test"
    /\ UNCHANGED <<calls, eventHandling, callingPending, pending, functors,
                   wakeupFd, ioReady, active, posted, ran, direct, early>>

(* while (!quit_): leave, or clear activeChannels_ and poll.                 *)
LoopTest ==
    /\ pc = "test"
    /\ \/ /\ quitFlag
          /\ pc' = "outside" /\ looping' = FALSE
          /\ UNCHANGED active
       \/ /\ ~quitFlag
          /\ pc' = "poll" /\ active' = <<>>
          /\ UNCHANGED looping
    /\ UNCHANGED <<calls, quitFlag, eventHandling, callingPending, pending,
                   functors, wakeupFd, ioReady, posted, ran, direct, early>>

Ready == (IF wakeupFd > 0 THEN {"wakeup"} ELSE {}) \cup (IF ioReady THEN {"user"} ELSE {})

(* poll() returns with every ready channel, in the kernel's order, or        *)
(* interrupted by a signal with none.  eventHandling_ is set only when some  *)
(* channel is active: the statement is the body of an if.                    *)
Poll ==
    /\ pc = "poll"
    /\ \/ /\ Ready # {}
          /\ active' \in SetToSeqs(Ready)
          /\ eventHandling' = TRUE
       \/ UNCHANGED <<active, eventHandling>>
    /\ pc' = "dispatch"
    /\ UNCHANGED <<calls, looping, quitFlag, callingPending, pending, functors,
                   wakeupFd, ioReady, posted, ran, direct, early>>

(* Reading the eventfd resets its counter.                                   *)
handleRead == wakeupFd' = 0

(* handleEvent of the next active channel: the wakeup channel runs           *)
(* handleRead(), a user channel runs its callback.                           *)
HandleChannel ==
    /\ pc = "dispatch" /\ active # <<>>
    /\ active' = Tail(active)
    /\ \/ /\ Head(active) = "wakeup"
          /\ handleRead
          /\ UNCHANGED <<pc, ioReady>>
       \/ /\ Head(active) = "user"
          /\ pc' = "callback" /\ ioReady' = FALSE
          /\ UNCHANGED wakeupFd
    /\ UNCHANGED <<calls, looping, quitFlag, eventHandling, callingPending,
                   pending, functors, posted, ran, direct, early>>

CallbackReturns ==
    /\ pc = "callback" /\ LoopThreadFree
    /\ pc' = "dispatch"
    /\ UNCHANGED <<calls, looping, quitFlag, eventHandling, callingPending,
                   pending, functors, wakeupFd, ioReady, active, posted, ran,
                   direct, early>>

(* Mutation: does not raise callingPendingFunctors_.                         *)
DoPendingBeginNoFlag ==
    /\ pc = "dispatch" /\ active = <<>>
    /\ eventHandling' = FALSE
    /\ pc' = "swap"
    /\ UNCHANGED <<calls, looping, quitFlag, callingPending, pending, functors,
                   wakeupFd, ioReady, active, posted, ran, direct, early>>

(* doPendingFunctors(): the flag is raised before the swap.                  *)
DoPendingBegin ==
    /\ pc = "dispatch" /\ active = <<>>
    /\ eventHandling' = FALSE
    /\ callingPending' = TRUE
    /\ pc' = "swap"
    /\ UNCHANGED <<calls, looping, quitFlag, pending, functors, wakeupFd,
                   ioReady, active, posted, ran, direct, early>>

(* Mutation: copies the queue and does not empty it.                         *)
DoPendingCopy ==
    /\ pc = "swap"
    /\ functors' = pending
    /\ pc' = "nextFunctor"
    /\ UNCHANGED <<calls, looping, quitFlag, eventHandling, callingPending, pending,
                   wakeupFd, ioReady, active, posted, ran, direct, early>>

DoPendingSwap ==
    /\ pc = "swap"
    /\ functors' = pending
    /\ pending' = <<>>
    /\ pc' = "nextFunctor"
    /\ UNCHANGED <<calls, looping, quitFlag, eventHandling, callingPending,
                   wakeupFd, ioReady, active, posted, ran, direct, early>>

(* Mutation: takes the batch from its end.                                   *)
RunFunctorLifo ==
    /\ pc = "nextFunctor" /\ functors # <<>>
    /\ functors' = Front(functors)
    /\ ran' = Append(ran, Last(functors))
    /\ pc' = "inFunctor"
    /\ UNCHANGED <<calls, looping, quitFlag, eventHandling, callingPending,
                   pending, wakeupFd, ioReady, active, posted, direct, early>>

RunFunctor ==
    /\ pc = "nextFunctor" /\ functors # <<>>
    /\ functors' = Tail(functors)
    /\ ran' = Append(ran, Head(functors))
    /\ pc' = "inFunctor"
    /\ UNCHANGED <<calls, looping, quitFlag, eventHandling, callingPending,
                   pending, wakeupFd, ioReady, active, posted, direct, early>>

FunctorReturns ==
    /\ pc = "inFunctor" /\ LoopThreadFree
    /\ pc' = "nextFunctor"
    /\ UNCHANGED <<calls, looping, quitFlag, eventHandling, callingPending,
                   pending, functors, wakeupFd, ioReady, active, posted, ran,
                   direct, early>>

DoPendingEnd ==
    /\ pc = "nextFunctor" /\ functors = <<>>
    /\ callingPending' = FALSE
    /\ pc' = "test"
    /\ UNCHANGED <<calls, looping, quitFlag, eventHandling, pending, functors,
                   wakeupFd, ioReady, active, posted, ran, direct, early>>

-----------------------------------------------------------------------------
LoopStep ==
    \/ LoopTest \/ Poll \/ HandleChannel \/ CallbackReturns
    \/ DoPendingBegin \/ DoPendingSwap \/ RunFunctor \/ FunctorReturns \/ DoPendingEnd

Next ==
    \/ loop
    \/ LoopStep
    \/ IoArrives
    \/ \E t \in Threads :
          \/ wakeup(t)
          \/ quit(t)
          \/ \E f \in Fresh : queueInLoop(t, f) \/ runInLoop(t, f)

Spec == Init /\ [][Next]_vars

(* Threads that entered a call finish it, the loop thread keeps running once *)
(* loop() is entered, and poll() returns when an fd is ready.  Nothing is    *)
(* assumed of signals, of the peers, or of the callers of loop() and quit(). *)
PollReady == Poll /\ Ready # {}

Fairness ==
    /\ \A t \in Threads : WF_vars(wakeup(t))
    /\ WF_vars(PollReady)
    /\ WF_vars(LoopTest \/ HandleChannel \/ CallbackReturns \/ DoPendingBegin
               \/ DoPendingSwap \/ RunFunctor \/ FunctorReturns \/ DoPendingEnd)

FairSpec == Spec /\ Fairness

-----------------------------------------------------------------------------
(* Properties.                                                               *)

(* The state of an EventLoop and of the threads calling it.                  *)
TypeOK ==
    /\ pc \in {"outside", "test", "poll", "dispatch", "callback", "swap",
               "nextFunctor", "inFunctor"}
    /\ calls \in [Threads -> {"none", "wakeup"}]
    /\ looping \in BOOLEAN /\ quitFlag \in BOOLEAN
    /\ eventHandling \in BOOLEAN /\ callingPending \in BOOLEAN
    /\ pending \in Seq(Functors) /\ functors \in Seq(Functors)
    /\ wakeupFd \in 0..EventfdMax /\ ioReady \in BOOLEAN
    /\ active \in Seq(Channels)
    /\ posted \in Seq(Functors) /\ ran \in Seq(Functors)
    /\ direct \subseteq Functors /\ early \subseteq Functors

(* The loop thread will find a readable eventfd, now or as soon as a thread  *)
(* finishes the call it is in.                                               *)
WakeupComing == wakeupFd > 0 \/ \E t \in Threads : calls[t] = "wakeup"

(* queueInLoop (191-213): the loop never blocks in poll() on a functor that  *)
(* somebody queued while loop() was running, or from another thread, without *)
(* a wakeup that has been written or is about to be.                         *)
NoLostWakeup ==
    pc = "poll" /\ (\E i \in DOMAIN pending : pending[i] \notin early) => WakeupComing

(* quit (167-178): once loop() is polling, a quit() of another thread is     *)
(* never left behind a poll() that nothing will end.                         *)
NoLostQuit == pc = "poll" /\ quitFlag => WakeupComing

(* doPendingFunctors (393-420): the functors run so far, the rest of the     *)
(* batch swapped out and the queue are, in this order, all that was posted:  *)
(* nothing is lost, repeated or overtaken, whatever is queued meanwhile.     *)
NothingLostOrReordered == posted = ran \o functors \o pending

(* The queue implements the promise of FunctorQueue: each posted functor is  *)
(* run once, in order of posting.                                            *)
FQ == INSTANCE FunctorQueue
ImplementsFunctorQueue == FQ!Spec

(* A functor queued from another thread or from inside loop() is run, unless *)
(* the loop is told to quit (kPollTimeMs is -1: only a wakeup brings it on). *)
IsPosted(f) == \E i \in DOMAIN posted : posted[i] = f
HasRun(f) == \E i \in DOMAIN ran : ran[i] = f
QueuedFunctorsRun ==
    \A f \in Functors :
        (looping /\ IsPosted(f) /\ f \notin early) ~> (HasRun(f) \/ quitFlag)

(* A quit() made while loop() runs ends it.                                  *)
QuitEndsLoop == (looping /\ quitFlag) ~> ~looping

(* The inductive invariant behind the safety properties: the flag covers     *)
(* exactly doPendingFunctors(), a batch exists only while it is being run,   *)
(* and outside the stretch from the end of poll() to the swap a queued       *)
(* functor always has its wakeup.                                            *)
FlagInv == callingPending <=> pc \in {"swap", "nextFunctor", "inFunctor"}
BatchInv == functors # <<>> => pc \in {"nextFunctor", "inFunctor"}
WakeInv ==
    /\ pc \notin {"dispatch", "callback", "swap"}
    /\ \E i \in DOMAIN pending : pending[i] \notin early
    => WakeupComing
IInv == TypeOK /\ FlagInv /\ BatchInv /\ WakeInv /\ NoLostQuit /\ NothingLostOrReordered
=============================================================================
