-------------------------- MODULE EventLoopThread --------------------------
(***************************************************************************)
(* muduo/net/EventLoopThread.cc: an owner starts a thread that constructs  *)
(* an EventLoop on its stack, publishes its address in loop_ and runs it;  *)
(* the owner's destructor asks the loop to quit and joins the thread.  The *)
(* loop is the one of module EventLoop; here its constructor, the call of  *)
(* loop() and its destruction become steps of threadFunc().                *)
(***************************************************************************)
EXTENDS EventLoop

CONSTANT Owner   \* the thread that owns the EventLoopThread object

ASSUME OwnerAssumption == Owner \in Threads \ {LoopThread}

VARIABLES loopPtr,      \* loop_ # NULL
          threadPc,     \* where threadFunc() is
          ownerPc,      \* where the owner is in startLoop() or the destructor
          returned,     \* what startLoop() returned: "nothing", "loop" or "null"
          deadLoopUsed, \* what the destructor did through NULL or on a dead EventLoop
          selfQuit      \* history: a callback on the loop thread called quit()

threadVars == <<loopPtr, threadPc, ownerPc, returned, deadLoopUsed, selfQuit>>
allVars == <<vars, threadVars>>

ThreadInit ==
    /\ Init
    /\ loopPtr = FALSE
    /\ threadPc = "none"
    /\ ownerPc = "idle"
    /\ returned = "nothing"
    /\ deadLoopUsed = "none"
    /\ selfQuit = FALSE

-----------------------------------------------------------------------------
(* threadFunc().                                                             *)

(* EventLoop loop;                                                           *)
ThreadConstructs ==
    /\ threadPc = "started"
    /\ threadPc' = "constructed"
    /\ UNCHANGED <<vars, loopPtr, ownerPc, returned, deadLoopUsed, selfQuit>>

(* Mutation: publishes loop_ and does not notify.                            *)
ThreadPublishesSilently ==
    /\ threadPc = "constructed" /\ LoopThreadFree
    /\ loopPtr' = TRUE
    /\ threadPc' = "published"
    /\ UNCHANGED <<vars, ownerPc, returned, deadLoopUsed, selfQuit>>

(* After callback_(&loop): loop_ = &loop and cond_.notify() under mutex_.    *)
ThreadPublishes ==
    /\ threadPc = "constructed" /\ LoopThreadFree
    /\ loopPtr' = TRUE
    /\ ownerPc' = IF ownerPc = "blocked" THEN "waiting" ELSE ownerPc
    /\ threadPc' = "published"
    /\ UNCHANGED <<vars, returned, deadLoopUsed, selfQuit>>

ThreadEntersLoop ==
    /\ threadPc = "published"
    /\ loop
    /\ threadPc' = "looping"
    /\ UNCHANGED <<loopPtr, ownerPc, returned, deadLoopUsed, selfQuit>>

ThreadLoops ==
    /\ threadPc = "looping"
    /\ LoopStep
    /\ threadPc' = IF pc' = "outside" THEN "left" ELSE "looping"
    /\ UNCHANGED <<loopPtr, ownerPc, returned, deadLoopUsed, selfQuit>>

(* loop_ = NULL, without the mutex, and then the end of the scope of loop.   *)
ThreadClears ==
    /\ threadPc = "left"
    /\ loopPtr' = FALSE
    /\ threadPc' = "cleared"
    /\ UNCHANGED <<vars, ownerPc, returned, deadLoopUsed, selfQuit>>

ThreadExits ==
    /\ threadPc = "cleared"
    /\ threadPc' = "exited"
    /\ UNCHANGED <<vars, loopPtr, ownerPc, returned, deadLoopUsed, selfQuit>>

(* callback_, channel callbacks and functors call into their own loop.       *)
CallbackCalls ==
    /\ threadPc \in {"constructed", "looping"}
    /\ \/ (\E f \in Fresh : queueInLoop(LoopThread, f)) /\ UNCHANGED selfQuit
       \/ quit(LoopThread) /\ selfQuit' = TRUE
       \/ wakeup(LoopThread) /\ UNCHANGED selfQuit
    /\ UNCHANGED <<loopPtr, threadPc, ownerPc, returned, deadLoopUsed>>

-----------------------------------------------------------------------------
(* The owner.                                                                *)

(* startLoop(): thread_.start() returns once the new thread runs.            *)
startLoop ==
    /\ ownerPc = "idle"
    /\ threadPc' = "started"
    /\ ownerPc' = "waiting"
    /\ UNCHANGED <<vars, loopPtr, returned, deadLoopUsed, selfQuit>>

(* Mutation: startLoop() does not wait for loop_.                            *)
StartLoopDoesNotWait ==
    /\ ownerPc = "waiting"
    /\ ownerPc' = "awake"
    /\ UNCHANGED <<vars, loopPtr, threadPc, returned, deadLoopUsed, selfQuit>>

(* while (loop_ == NULL) cond_.wait();                                       *)
StartLoopWaits ==
    /\ ownerPc = "waiting"
    /\ ownerPc' = IF loopPtr THEN "awake" ELSE "blocked"
    /\ UNCHANGED <<vars, loopPtr, threadPc, returned, deadLoopUsed, selfQuit>>

(* return loop_, read again after the mutex is released.                     *)
StartLoopReturns ==
    /\ ownerPc = "awake"
    /\ returned' = IF loopPtr THEN "loop" ELSE "null"
    /\ ownerPc' = "running"
    /\ UNCHANGED <<vars, loopPtr, threadPc, deadLoopUsed, selfQuit>>

(* The owner uses the loop it was given.                                     *)
OwnerCalls ==
    /\ ownerPc = "running" /\ returned = "loop" /\ threadPc # "exited"
    /\ \/ \E f \in Fresh : queueInLoop(Owner, f)
       \/ wakeup(Owner)
    /\ UNCHANGED threadVars

(* ~EventLoopThread(): exiting_ = true; if (loop_ != NULL) ...               *)
DtorChecksLoop ==
    /\ ownerPc = "running" /\ calls[Owner] = "none"
    /\ ownerPc' = IF loopPtr THEN "checked" ELSE "destroyed"
    /\ UNCHANGED <<vars, loopPtr, threadPc, returned, deadLoopUsed, selfQuit>>

(* ... loop_->quit(): loop_ is read again after the line that is logged.     *)
(* When the thread has cleared it, quit() writes through NULL and the        *)
(* process ends.                                                             *)
DtorReadsLoop ==
    /\ ownerPc = "checked"
    /\ ownerPc' = IF loopPtr THEN "quitting" ELSE "crashed"
    /\ deadLoopUsed' = IF loopPtr THEN deadLoopUsed ELSE "null"
    /\ UNCHANGED <<vars, loopPtr, threadPc, returned, selfQuit>>

(* quit() sets the flag ...  On a loop that is gone it writes to the stack   *)
(* of the thread that has exited, which stays mapped until join().           *)
DtorQuits ==
    /\ ownerPc = "quitting"
    /\ IF threadPc = "exited"
       THEN /\ ownerPc' = "joining"
            /\ deadLoopUsed' = "quit"
            /\ UNCHANGED vars
       ELSE /\ quit(Owner)
            /\ ownerPc' = "waking"
            /\ UNCHANGED deadLoopUsed
    /\ UNCHANGED <<loopPtr, threadPc, returned, selfQuit>>

(* Mutation: the destructor sets the flag and leaves the loop asleep.        *)
DtorForgetsWakeup ==
    /\ ownerPc = "waking"
    /\ calls' = [calls EXCEPT ![Owner] = "none"]
    /\ ownerPc' = "joining"
    /\ UNCHANGED <<loopVars, quitFlag, pending, wakeupFd, ioReady, posted, ran,
                   direct, early, loopPtr, threadPc, returned, deadLoopUsed, selfQuit>>

(* ... and writes the eventfd.                                               *)
DtorWakes ==
    /\ ownerPc = "waking"
    /\ IF threadPc = "exited"
       THEN /\ deadLoopUsed' = "wakeup"
            /\ calls' = [calls EXCEPT ![Owner] = "none"]
            /\ UNCHANGED <<loopVars, quitFlag, pending, wakeupFd, ioReady,
                           posted, ran, direct, early>>
       ELSE wakeup(Owner) /\ UNCHANGED deadLoopUsed
    /\ ownerPc' = "joining"
    /\ UNCHANGED <<loopPtr, threadPc, returned, selfQuit>>

(* thread_.join().                                                           *)
DtorJoins ==
    /\ ownerPc = "joining" /\ threadPc = "exited"
    /\ ownerPc' = "destroyed"
    /\ UNCHANGED <<vars, loopPtr, threadPc, returned, deadLoopUsed, selfQuit>>

-----------------------------------------------------------------------------
ThreadStep ==
    \/ ThreadConstructs \/ ThreadPublishes \/ ThreadEntersLoop
    \/ ThreadClears \/ ThreadExits

OwnerStep ==
    \/ StartLoopWaits \/ StartLoopReturns \/ DtorReadsLoop \/ DtorQuits \/ DtorWakes
    \/ DtorJoins

(* The process runs; nothing follows its end.                                *)
Alive == ownerPc # "crashed"

ThreadNext ==
    /\ Alive
    /\ \/ ThreadStep \/ ThreadLoops \/ CallbackCalls
       \/ startLoop \/ OwnerCalls \/ DtorChecksLoop \/ OwnerStep
       \/ threadPc = "looping" /\ IoArrives /\ UNCHANGED threadVars
       \/ ownerPc = "destroyed" /\ UNCHANGED allVars

(* Every thread that can run keeps running; poll() is only sure to return    *)
(* when an fd is ready.  The owner need not destroy the object.              *)
ThreadFairness ==
    /\ WF_allVars(Alive /\ ThreadStep)
    /\ WF_allVars(Alive /\ OwnerStep)
    /\ WF_allVars(Alive /\ ThreadLoops /\ (pc = "poll" => Ready # {}))
    /\ WF_allVars(Alive /\ CallbackCalls /\ wakeup(LoopThread))
    /\ WF_allVars(Alive /\ OwnerCalls /\ wakeup(Owner))

ThreadSpec == ThreadInit /\ [][ThreadNext]_allVars /\ ThreadFairness

-----------------------------------------------------------------------------
(* Properties.                                                               *)

(* startLoop (54-71) and the destructor's two readings of loop_ (43, 48): as *)
(* long as nothing on the loop thread quits the loop, startLoop() returns    *)
(* the loop and not NULL, and the destructor does not call quit() through    *)
(* NULL or on a loop that is gone.  The eventfd write at the end of quit()   *)
(* is excepted: the flag alone may end the loop before it, as the comment in *)
(* EventLoop::quit() admits.                                                 *)
OwnerSeesLiveLoop ==
    selfQuit \/ (returned # "null" /\ deadLoopUsed \notin {"null", "quit"})

(* ~EventLoopThread (40-51): once the thread is inside loop(), a destructor  *)
(* that asks it to quit gets its join().  Only when a callback has quit the  *)
(* loop may the destructor meet NULL where it saw the loop (43, 48).         *)
DtorEndsRunningLoop ==
    (ownerPc = "checked" /\ looping) ~>
        (ownerPc = "destroyed" \/ (ownerPc = "crashed" /\ selfQuit))

(* startLoop (54-71): the thread's notify reaches an owner that tested loop_ *)
(* just before it was set, so startLoop() returns.  Excepted is a loop that  *)
(* its own callbacks quit: its thread may set loop_ back to NULL before the  *)
(* owner looks, and nobody notifies again.                                   *)
StartLoopEnds == (ownerPc = "waiting") ~> (ownerPc = "running" \/ selfQuit)

(* Lines 35-39: "if loop_ is not NULL it is running ... the EventLoop inside *)
(* must be closed ... join the thread": the destructor returns, whether or   *)
(* not anything else quits the loop.                                         *)
DtorReturns == (ownerPc = "checked") ~> (ownerPc = "destroyed" \/ selfQuit)
=============================================================================
