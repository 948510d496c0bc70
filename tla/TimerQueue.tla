----------------------------- MODULE TimerQueue -----------------------------
(***************************************************************************)
(* muduo/net/TimerQueue.cc with Timer.h/.cc: timers kept by raw pointer in *)
(* two sets (timers_ by expiration, activeTimers_ by address), one timerfd *)
(* armed for the earliest, and cancellation by (address, sequence).        *)
(*                                                                         *)
(* Addresses come from a finite heap and are reused after delete, as the   *)
(* allocator does.  Calls from other threads go through the loop's queue,  *)
(* taken as the FIFO that module EventLoop is shown to implement.  Time is *)
(* the wall clock of Timestamp::now(), which may be set back; the timerfd  *)
(* counts monotonic time and is kept as what is left of it.  One tick is   *)
(* at least the 100us minimum of howMuchTimeFromNow().                     *)
(***************************************************************************)
EXTENDS Integers, Sequences, FiniteSets, FiniteSetsExt

CONSTANTS Addrs,        \* heap addresses a Timer can live at, ordered as naturals
          MaxTimers,    \* timers ever created
          MaxTime,      \* the clock saturates here
          Intervals,    \* intervals of timers, 0 for one-shot
          MaxQueue,     \* functors queued and not yet run
          MaxSetBacks   \* how often the wall clock is set back

ASSUME TimerAssumption ==
    /\ Addrs \subseteq Nat /\ IsFiniteSet(Addrs)
    /\ MaxTimers \in Nat /\ MaxTime \in Nat /\ MaxQueue \in Nat /\ MaxSetBacks \in Nat
    /\ Intervals \subseteq Nat

VARIABLES now,         \* the wall clock
          fd,          \* timerfd: Disarmed, 0 when readable, else ticks to go
          heap,        \* heap[a]: the Timer at address a
          timers,      \* timers_: pairs <<expiration, address>>
          active,      \* activeTimers_: pairs <<address, sequence>>
          calling,     \* callingExpiredTimers_
          canceling,   \* cancelingTimers_
          expired,     \* the vector of getExpired() while handleRead() runs
          toRun,       \* those of it whose run() is still to come
          batchNow,    \* the now of this handleRead()
          pc,          \* where the loop thread is
          queue,       \* functors queued by other threads
          created,     \* Timer::s_numCreated_
          adding,      \* an addTimer() of another thread that has not returned
          ids,         \* TimerIds handed out
          setBacks,    \* how often the clock was set back
          cancelled    \* history: TimerIds that cancelInLoop() found in
                       \* activeTimers_ or in the batch being called

timerVars == <<heap, timers, active, calling, canceling, expired, toRun, batchNow>>
vars == <<now, fd, timerVars, pc, queue, created, adding, ids, setBacks, cancelled>>

Disarmed == -1
NoAdd == <<0, 0>>
Freed == [live |-> FALSE, seq |-> 0, exp |-> 0, interval |-> 0]

Init ==
    /\ now = 0 /\ fd = Disarmed
    /\ heap = [a \in Addrs |-> Freed]
    /\ timers = {} /\ active = {} /\ canceling = {} /\ expired = {} /\ toRun = {}
    /\ calling = FALSE /\ batchNow = 0
    /\ pc = "poll" /\ queue = <<>>
    /\ created = 0 /\ adding = NoAdd /\ ids = {} /\ setBacks = 0
    /\ cancelled = {}

-----------------------------------------------------------------------------
(* Helpers.                                                                  *)

IdOf(e) == <<e[2], heap[e[2]].seq>>

(* std::pair order of timers_.                                               *)
Before(d, e) == d[1] < e[1] \/ (d[1] = e[1] /\ d[2] < e[2])
First(T) == CHOOSE e \in T : \A d \in T : d = e \/ Before(e, d)

(* howMuchTimeFromNow() and timerfd_settime(): never less than one tick, and *)
(* an expiration that was not read yet is forgotten.                         *)
resetTimerfd(when) == IF when - now < 1 THEN 1 ELSE when - now

(* insert() reports whether the new timer is the earliest.                   *)
EarliestChanged(when) == timers = {} \/ when < First(timers)[1]

(* insert() files timers by expiration and by address.                       *)
insert(entries, timerIds) ==
    /\ timers' = timers \cup entries
    /\ active' = active \cup timerIds

(* addTimerInLoop(): insert into both sets, re-arm if it became the first.   *)
addTimerInLoop(a, seq, when) ==
    /\ insert({<<when, a>>}, {<<a, seq>>})
    /\ fd' = IF EarliestChanged(when) THEN resetTimerfd(when) ELSE fd

(* Mutation: looks the timer up by its address only.                         *)
IsActiveByAddress(id) == \E x \in active : x[1] = id[1]
IsActive(id) == id \in active

InBatch(id) == calling /\ \E e \in expired : IdOf(e) = id

(* Mutation: erases from activeTimers_ only.                                 *)
cancelInLoopKeepsEntry(id) ==
    /\ IF IsActive(id)
       THEN /\ active' = active \ {<<id[1], heap[id[1]].seq>>}
            /\ heap' = [heap EXCEPT ![id[1]].live = FALSE]
            /\ UNCHANGED <<timers, canceling>>
       ELSE /\ canceling' = IF calling THEN canceling \cup {id} ELSE canceling
            /\ UNCHANGED <<timers, active, heap>>
    /\ cancelled' = IF IsActive(id) \/ InBatch(id) THEN cancelled \cup {id} ELSE cancelled
    /\ UNCHANGED <<fd, calling, expired, toRun, batchNow>>

(* cancelInLoop(): erase and delete an active timer; one that is not active  *)
(* is remembered only while expired timers are being called.                 *)
cancelInLoop(id) ==
    /\ IF IsActive(id)
       THEN /\ timers' = timers \ {<<heap[id[1]].exp, id[1]>>}
            /\ active' = active \ {<<id[1], heap[id[1]].seq>>}
            /\ heap' = [heap EXCEPT ![id[1]].live = FALSE]
            /\ UNCHANGED canceling
       ELSE /\ canceling' = IF calling THEN canceling \cup {id} ELSE canceling
            /\ UNCHANGED <<timers, active, heap>>
    /\ cancelled' = IF IsActive(id) \/ InBatch(id) THEN cancelled \cup {id} ELSE cancelled
    /\ UNCHANGED <<fd, calling, expired, toRun, batchNow>>

NewTimer(a, when, interval) ==
    /\ ~heap[a].live /\ created < MaxTimers
    /\ created' = created + 1
    /\ heap' = [heap EXCEPT ![a] =
                  [live |-> TRUE, seq |-> created + 1, exp |-> when, interval |-> interval]]

(* The loop thread runs user code between polls and inside timer callbacks.  *)
LoopThreadInUserCode == pc \in {"poll", "dispatch", "callback"}

-----------------------------------------------------------------------------
(* Calls of addTimer() and cancel().                                         *)

(* On the loop thread runInLoop() calls addTimerInLoop() at once.            *)
AddFromLoop(a, when, interval) ==
    /\ LoopThreadInUserCode
    /\ NewTimer(a, when, interval)
    /\ addTimerInLoop(a, created + 1, when)
    /\ ids' = ids \cup {<<a, created + 1>>}
    /\ UNCHANGED <<now, calling, canceling, expired, toRun, batchNow, pc, queue,
                   adding, setBacks, cancelled>>

(* Another thread allocates and queues, ...                                  *)
AddFromOther(a, when, interval) ==
    /\ adding = NoAdd /\ Len(queue) < MaxQueue
    /\ NewTimer(a, when, interval)
    /\ queue' = Append(queue, <<"add", <<a, created + 1>>>>)
    /\ adding' = <<a, created + 1>>
    /\ UNCHANGED <<now, fd, timers, active, calling, canceling, expired, toRun,
                   batchNow, pc, ids, setBacks, cancelled>>

(* ... and only then reads timer->sequence() for the TimerId it returns.     *)
(* What a freed block holds is anybody's guess.                              *)
AddReturns ==
    /\ adding # NoAdd
    /\ \E seq \in IF heap[adding[1]].live THEN {heap[adding[1]].seq} ELSE 1..created :
          ids' = ids \cup {<<adding[1], seq>>}
    /\ adding' = NoAdd
    /\ UNCHANGED <<now, fd, timerVars, pc, queue, created, setBacks, cancelled>>

CancelFromLoop(id) ==
    /\ LoopThreadInUserCode
    /\ cancelInLoop(id)
    /\ UNCHANGED <<now, pc, queue, created, adding, ids, setBacks>>

CancelFromOther(id) ==
    /\ Len(queue) < MaxQueue
    /\ queue' = Append(queue, <<"cancel", id>>)
    /\ UNCHANGED <<now, fd, timerVars, pc, created, adding, ids, setBacks,
                   cancelled>>

-----------------------------------------------------------------------------
(* The loop thread.                                                          *)

(* doPendingFunctors() between two polls.                                    *)
RunQueued ==
    /\ pc = "poll" /\ queue # <<>>
    /\ queue' = Tail(queue)
    /\ LET id == Head(queue)[2] IN
          \/ /\ Head(queue)[1] = "add"
             /\ addTimerInLoop(id[1], heap[id[1]].seq, heap[id[1]].exp)
             /\ UNCHANGED <<heap, calling, canceling, expired, toRun, batchNow,
                            cancelled>>
          \/ /\ Head(queue)[1] = "cancel"
             /\ cancelInLoop(id)
    /\ UNCHANGED <<now, pc, created, adding, ids, setBacks>>

(* poll() reports the timerfd; other channels may be handled before it.      *)
PollTimerfd ==
    /\ pc = "poll" /\ fd = 0
    /\ pc' = "dispatch"
    /\ UNCHANGED <<now, fd, timerVars, queue, created, adding, ids, setBacks, cancelled>>

(* The sentry's address is UINTPTR_MAX, so lower_bound() stops at the first  *)
(* timer that expires after now.                                             *)
getExpired == {e \in timers : e[1] <= now}

(* Reading the timerfd clears it; one re-armed since poll() has nothing to   *)
(* read and stays armed.                                                     *)
readTimerfd == fd' = IF fd = 0 THEN Disarmed ELSE fd

(* handleRead() up to the first callback.                                    *)
HandleRead ==
    /\ pc = "dispatch"
    /\ readTimerfd
    /\ expired' = getExpired
    /\ toRun' = getExpired
    /\ timers' = timers \ getExpired
    /\ active' = active \ {IdOf(e) : e \in getExpired}
    /\ calling' = TRUE
    /\ canceling' = {}
    /\ batchNow' = now
    /\ pc' = "calling"
    /\ UNCHANGED <<now, heap, queue, created, adding, ids, setBacks, cancelled>>

RunTimer ==
    /\ pc = "calling" /\ toRun # {}
    /\ toRun' = toRun \ {First(toRun)}
    /\ pc' = "callback"
    /\ UNCHANGED <<now, fd, heap, timers, active, calling, canceling, expired,
                   batchNow, queue, created, adding, ids, setBacks, cancelled>>

CallbackReturns ==
    /\ pc = "callback"
    /\ pc' = "calling"
    /\ UNCHANGED <<now, fd, timerVars, queue, created, adding, ids, setBacks, cancelled>>

(* it->second->repeat() and not in cancelingTimers_.                         *)
Repeats(e) == heap[e[2]].interval > 0 /\ IdOf(e) \notin canceling

(* Mutation: re-arms only when a repeating timer went back in.               *)
RearmedIfRepeating(T) == IF T # timers THEN resetTimerfd(First(T)[1]) ELSE fd
(* The end of reset(): the timerfd is set for the earliest timer left.       *)
(* nextExpire.valid() asks whether there was one: no timer is due at time 0. *)
Rearmed(T) == IF T # {} THEN resetTimerfd(First(T)[1]) ELSE fd

(* A repeating timer is due again an interval after handleRead()'s now.      *)
restart(a) == batchNow + heap[a].interval

(* After the last callback: reset() restarts and re-inserts the repeating    *)
(* timers, deletes the others and re-arms the timerfd.                       *)
Reset ==
    /\ pc = "calling" /\ toRun = {}
    /\ LET again == {e \in expired : Repeats(e)}
           gone == {e[2] : e \in expired \ again}
           back == {e[2] : e \in again}
       IN  /\ heap' = [a \in Addrs |->
                         IF a \in back THEN [heap[a] EXCEPT !.exp = restart(a)]
                         ELSE IF a \in gone THEN [heap[a] EXCEPT !.live = FALSE]
                         ELSE heap[a]]
           /\ insert({<<restart(a), a>> : a \in back}, {<<a, heap[a].seq>> : a \in back})
    /\ fd' = Rearmed(timers')
    /\ calling' = FALSE
    /\ expired' = {}
    /\ pc' = "poll"
    /\ UNCHANGED <<now, canceling, toRun, batchNow, queue, created, adding, ids,
                   setBacks, cancelled>>

-----------------------------------------------------------------------------
(* Time.                                                                     *)

Tick ==
    /\ now < MaxTime \/ fd > 0
    /\ now' = IF now < MaxTime THEN now + 1 ELSE now
    /\ fd' = IF fd > 0 THEN fd - 1 ELSE fd
    /\ UNCHANGED <<timerVars, pc, queue, created, adding, ids, setBacks, cancelled>>

ClockSetBack ==
    /\ setBacks < MaxSetBacks /\ now > 0
    /\ now' \in 0..(now - 1)
    /\ setBacks' = setBacks + 1
    /\ UNCHANGED <<fd, timerVars, pc, queue, created, adding, ids, cancelled>>

LoopStep == PollTimerfd \/ HandleRead \/ RunTimer \/ CallbackReturns \/ Reset

Next ==
    \/ \E a \in Addrs, when \in 0..MaxTime, interval \in Intervals :
          AddFromLoop(a, when, interval) \/ AddFromOther(a, when, interval)
    \/ AddReturns
    \/ \E id \in ids : CancelFromLoop(id) \/ CancelFromOther(id)
    \/ RunQueued \/ LoopStep \/ Tick \/ ClockSetBack

Spec == Init /\ [][Next]_vars

(* Time passes, the loop thread runs, and the queue is served: each          *)
(* iteration of the loop runs it, whether or not timers keep it busy.        *)
FairSpec == Spec /\ WF_vars(Tick) /\ WF_vars(LoopStep) /\ SF_vars(RunQueued)

-----------------------------------------------------------------------------
(* Properties.                                                               *)

Ids == Addrs \X (1..MaxTimers)
TimerRecords == [live : BOOLEAN, seq : 0..MaxTimers, exp : Nat, interval : Nat]

(* The members of TimerQueue and its timers.                                 *)
TypeOK ==
    /\ now \in 0..MaxTime /\ fd \in Nat \cup {Disarmed}
    /\ heap \in [Addrs -> TimerRecords]
    /\ timers \in SUBSET (Nat \X Addrs) /\ expired \in SUBSET (Nat \X Addrs)
    /\ toRun \subseteq expired
    /\ active \in SUBSET Ids /\ canceling \in SUBSET Ids
    /\ calling \in BOOLEAN /\ batchNow \in 0..MaxTime
    /\ pc \in {"poll", "dispatch", "calling", "callback"}
    /\ queue \in Seq({"add", "cancel"} \X Ids)
    /\ created \in 0..MaxTimers /\ adding \in Ids \cup {NoAdd} /\ ids \in SUBSET Ids
    /\ setBacks \in 0..MaxSetBacks
    /\ cancelled \in SUBSET Ids

(* The asserts on timers_.size() == activeTimers_.size() and on n == 1, and  *)
(* every dereference of a raw Timer*: both sets hold the same timers, and    *)
(* every pointer they or the batch hold is to a timer not yet deleted, at    *)
(* the expiration it is filed under.                                         *)
SetsAgreeAndPointLive ==
    /\ active = {IdOf(e) : e \in timers}
    /\ Cardinality(active) = Cardinality(timers)
    /\ \A e \in timers \cup expired : heap[e[2]].live /\ heap[e[2]].exp = e[1]
    /\ \A e \in timers, d \in expired : e[2] # d[2]

(* cancelInLoop (180-200) and reset (272-306): a timer that a cancel found,  *)
(* in the sets or in the batch being called, is never scheduled again, even  *)
(* when it repeats and cancels itself or its address is used again.          *)
CancelledStayOut == active \cap cancelled = {}

(* (timer, sequence) identifies a timer (line 185): a timer leaves the queue *)
(* without having run only if cancel() was called with its own TimerId.      *)
OnlyCancelledTimersVanish ==
    [][\A id \in active \ active' : id \in cancelled' \/ \E e \in expired' : e[2] = id[1]]_vars

(* addTimerInLoop, cancelInLoop, reset: between two rounds a queue that is   *)
(* not empty has its timerfd armed or readable, so poll() will return.       *)
TimerfdArmed == ~calling /\ timers # {} => fd # Disarmed

(* Every timer scheduled within the clock's range comes up in a batch of     *)
(* handleRead() unless it is cancelled, also when the wall clock is set back.*)
(* Sequence numbers are never used twice, so each stands for one timer.      *)
TimersFire ==
    \A seq \in 1..MaxTimers :
        (\E a \in Addrs : <<a, seq>> \in active /\ heap[a].exp <= MaxTime)
            ~> (\E a \in Addrs : InBatch(<<a, seq>>) \/ <<a, seq>> \in cancelled)

(* What holds between any two steps of the queue: the types, the agreement   *)
(* of the sets, that cancelled timers are out of them and that the timerfd   *)
(* is armed for what they hold.                                              *)
TimerSetsSound == TypeOK /\ SetsAgreeAndPointLive /\ CancelledStayOut /\ TimerfdArmed
=============================================================================
