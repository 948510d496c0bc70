-------------------------- MODULE TimerQueueProofs --------------------------
(***************************************************************************)
(* Proofs about TimerQueue for every finite heap, every number of timers,  *)
(* every set of intervals, every length of the queue and every clock.      *)
(***************************************************************************)
EXTENDS TimerQueue, SequenceTheorems, FiniteSetTheorems, WellFoundedInduction, TLAPS

(* Every pointer in timers_ and in the batch is to a live timer, filed under *)
(* its expiration, and no timer is in both.                                  *)
Filed ==
    /\ \A e \in timers \cup expired : heap[e[2]].live /\ heap[e[2]].exp = e[1]
    /\ \A e \in timers, d \in expired : e[2] # d[2]

(* Both sets hold the same timers.                                           *)
Agree == active = {IdOf(e) : e \in timers}

(* Sequence numbers count the timers created.                                *)
Sequences ==
    \A a \in Addrs : heap[a].seq <= created /\ (heap[a].live => heap[a].seq >= 1)

(* No TimerId that anybody knows is of a timer still to be created.          *)
Known ==
    /\ \A id \in ids \cup cancelled : id[2] <= created
    /\ \A i \in 1..Len(queue) : queue[i][2][2] <= created

(* The vector of handleRead() is empty outside it.                           *)
Batch ==
    /\ calling <=> pc \in {"calling", "callback"}
    /\ ~calling => expired = {}

(* A timer of the batch that was cancelled is in cancelingTimers_.           *)
BatchCancels == \A e \in expired : IdOf(e) \in cancelled => IdOf(e) \in canceling

(* A queued addTimerInLoop() has a live timer that nothing else refers to.   *)
IsAdd(i) == queue[i][1] = "add"
AddSound(id) ==
    /\ heap[id[1]].live /\ heap[id[1]].seq = id[2] /\ id \notin cancelled
    /\ \A e \in timers \cup expired : e[2] # id[1]
QueuedAdds ==
    /\ \A i \in 1..Len(queue) : IsAdd(i) => AddSound(queue[i][2])
    /\ \A i, j \in 1..Len(queue) :
          IsAdd(i) /\ IsAdd(j) /\ queue[i][2][1] = queue[j][2][1] => i = j

IInv == /\ TypeOK /\ Filed /\ Agree /\ CancelledStayOut /\ TimerfdArmed
        /\ Sequences /\ Known /\ Batch /\ BatchCancels /\ QueuedAdds

-----------------------------------------------------------------------------
(* A nonempty set of expirations has an earliest.                            *)
LEMMA SmallestOf ==
  ASSUME NEW S \in SUBSET Nat, S # {}
  PROVE  \E m \in S : \A n \in S : m <= n
<1>1. PICK m \in S : \A n \in S : ~(<<n, m>> \in OpToRel(<, Nat))
  BY NatLessThanWellFounded, WFMin, Zenon
<1>2. \A n \in S : ~(n < m)
  BY <1>1 DEF OpToRel
<1> QED
  BY <1>2

(* timers_.begin() is one of the timers.                                     *)
LEMMA FirstIsMember ==
  ASSUME NEW T \in SUBSET (Nat \X Addrs), T # {}
  PROVE  First(T) \in T
<1> USE TimerAssumption DEF TimerAssumption
<1> DEFINE Times == {e[1] : e \in T}
<1>1. Times \in SUBSET Nat /\ Times # {}
  OBVIOUS
<1>2. PICK m \in Times : \A n \in Times : m <= n
  BY <1>1, SmallestOf
<1> DEFINE Here == {e[2] : e \in {d \in T : d[1] = m}}
<1>3. Here \in SUBSET Nat /\ Here # {}
  BY <1>2
<1>4. PICK a \in Here : \A b \in Here : a <= b
  BY <1>3, SmallestOf
<1>5. PICK e \in T : e[1] = m /\ e[2] = a
  BY <1>4
<1>6. ASSUME NEW d \in T PROVE d = e \/ Before(e, d)
  <2>1. d[1] \in Times /\ m <= d[1] /\ d[1] \in Nat /\ d[2] \in Nat /\ m \in Nat /\ a \in Nat
    BY <1>1, <1>2, <1>3, <1>4
  <2>2. CASE d[1] = m
    <3>1. d[2] \in Here /\ a <= d[2]
      BY <1>4, <2>2
    <3> QED
      BY <1>5, <2>1, <2>2, <3>1 DEF Before
  <2>3. CASE d[1] # m
    BY <1>5, <2>1, <2>3 DEF Before
  <2> QED
    BY <2>2, <2>3
<1>7. \E x \in T : \A d \in T : d = x \/ Before(x, d)
  BY <1>6
<1> QED
  BY <1>7 DEF First

(* Two sets that hold the same timers are of the same size, the assertion in *)
(* addTimer(), cancelInLoop(), getExpired() and insert().                    *)
LEMMA SameSize ==
  ASSUME TypeOK, Filed, Agree
  PROVE  Cardinality(active) = Cardinality(timers)
<1> USE TimerAssumption DEF TimerAssumption, TypeOK
<1> DEFINE f == [e \in timers |-> IdOf(e)]
           g == [e \in timers |-> e[2]]
<1>1. \A e, d \in timers : e[2] = d[2] => e = d
  BY DEF Filed
<1>2. g \in Injection(timers, Addrs)
  BY <1>1 DEF Injection, IsInjective
<1>3. IsFiniteSet(timers)
  BY <1>2, FS_Injection
<1>4. f \in Bijection(timers, active)
  <2>1. f \in [timers -> active]
    BY DEF Agree
  <2>2. \A e, d \in timers : f[e] = f[d] => e = d
    BY <1>1 DEF IdOf
  <2>3. \A id \in active : \E e \in timers : f[e] = id
    BY DEF Agree
  <2> QED
    BY <2>1, <2>2, <2>3 DEF Bijection, Injection, Surjection, IsInjective
<1>5. ExistsBijection(timers, active)
  BY <1>4 DEF ExistsBijection
<1> QED
  BY <1>3, <1>5, FS_Bijection

(* The constructor.                                                          *)
LEMMA QueueInit == Init => IInv
<1> SUFFICES ASSUME Init PROVE IInv
  OBVIOUS
<1> USE TimerAssumption DEF TimerAssumption
<1>1. TypeOK
  <2>1. Freed \in TimerRecords
    BY DEF Freed, TimerRecords
  <2>2. heap \in [Addrs -> TimerRecords]
    BY <2>1 DEF Init
  <2>3. queue \in Seq({"add", "cancel"} \X Ids)
    BY DEF Init
  <2>4. now \in 0..MaxTime /\ batchNow \in 0..MaxTime /\ created \in 0..MaxTimers
        /\ setBacks \in 0..MaxSetBacks
    BY DEF Init
  <2> QED
    BY <2>2, <2>3, <2>4 DEF Init, TypeOK
<1>2. /\ Filed /\ Agree /\ CancelledStayOut /\ TimerfdArmed /\ Sequences /\ Known /\ Batch
      /\ BatchCancels /\ QueuedAdds
  BY DEF Init, Freed, Filed, Agree, CancelledStayOut, TimerfdArmed, Sequences, Known, Batch,
         BatchCancels, QueuedAdds
<1> QED
  BY <1>1, <1>2 DEF IInv

-----------------------------------------------------------------------------
(* new Timer: the block was free, so nothing refers to it.                   *)
LEMMA NewTimerIsAlone ==
  ASSUME IInv, NEW a \in Addrs, NEW when \in Nat, NEW interval \in Nat,
         NewTimer(a, when, interval)
  PROVE  /\ heap' \in [Addrs -> TimerRecords] /\ created \in Nat
         /\ created' = created + 1 /\ created + 1 \in 1..MaxTimers
         /\ heap'[a].live /\ heap'[a].seq = created + 1 /\ heap'[a].exp = when
         /\ \A b \in Addrs \ {a} : heap'[b] = heap[b]
         /\ \A e \in timers \cup expired : e[2] # a /\ e[2] \in Addrs
         /\ \A i \in 1..Len(queue) : IsAdd(i) => queue[i][2][1] # a
         /\ Sequences'
<1> USE TimerAssumption DEF TimerAssumption
<1>1. created \in 0..MaxTimers /\ heap \in [Addrs -> TimerRecords] /\ created < MaxTimers
      /\ ~heap[a].live /\ created' = created + 1
      /\ heap' = [heap EXCEPT ![a] =
            [live |-> TRUE, seq |-> created + 1, exp |-> when, interval |-> interval]]
  BY DEF IInv, TypeOK, NewTimer
<1>2. created + 1 \in 1..MaxTimers /\ created \in Nat
  BY <1>1
<1>3. [live |-> TRUE, seq |-> created + 1, exp |-> when, interval |-> interval] \in TimerRecords
  BY <1>2 DEF TimerRecords
<1>4. /\ heap'[a].live /\ heap'[a].seq = created + 1 /\ heap'[a].exp = when
      /\ \A b \in Addrs \ {a} : heap'[b] = heap[b]
      /\ heap' \in [Addrs -> TimerRecords]
  BY <1>1, <1>3
<1>5. \A e \in timers \cup expired : e[2] # a /\ e[2] \in Addrs
  BY <1>1 DEF IInv, TypeOK, Filed
<1>6. \A i \in 1..Len(queue) : IsAdd(i) => queue[i][2][1] # a
  BY <1>1 DEF IInv, QueuedAdds, AddSound
<1>7. \A b \in Addrs : heap[b].seq \in Nat
  BY <1>1 DEF TimerRecords
<1>8. Sequences'
  BY <1>1, <1>2, <1>4, <1>7 DEF IInv, Sequences
<1> QED
  BY <1>1, <1>2, <1>4, <1>5, <1>6, <1>8

(* addTimer() on the loop thread.                                            *)
LEMMA AddFromLoopStep ==
  ASSUME IInv, NEW a \in Addrs, NEW when \in Nat, NEW interval \in Nat,
         AddFromLoop(a, when, interval)
  PROVE  IInv'
<1> USE TimerAssumption DEF TimerAssumption
<1>1. /\ heap' \in [Addrs -> TimerRecords] /\ created \in Nat
      /\ created' = created + 1 /\ created + 1 \in 1..MaxTimers
      /\ heap'[a].live /\ heap'[a].seq = created + 1 /\ heap'[a].exp = when
      /\ \A b \in Addrs \ {a} : heap'[b] = heap[b]
      /\ \A e \in timers \cup expired : e[2] # a /\ e[2] \in Addrs
      /\ \A i \in 1..Len(queue) : IsAdd(i) => queue[i][2][1] # a
      /\ Sequences'
  BY NewTimerIsAlone DEF AddFromLoop
<1>2. /\ timers' = timers \cup {<<when, a>>} /\ active' = active \cup {<<a, created + 1>>}
      /\ ids' = ids \cup {<<a, created + 1>>}
      /\ fd' = IF EarliestChanged(when) THEN resetTimerfd(when) ELSE fd
      /\ UNCHANGED <<now, calling, canceling, expired, toRun, batchNow, pc, queue, adding, setBacks, cancelled>>
  BY DEF AddFromLoop, addTimerInLoop, insert
<1>3. fd' \in Nat \cup {Disarmed} /\ (EarliestChanged(when) => fd' # Disarmed)
  BY <1>2 DEF IInv, TypeOK, resetTimerfd, Disarmed
<1>4. <<a, created + 1>> \in Ids
  BY <1>1 DEF Ids
<1>5. TypeOK'
  <2>0. <<when, a>> \in Nat \X Addrs
    OBVIOUS
  <2>a. timers \in SUBSET (Nat \X Addrs) /\ active \in SUBSET Ids /\ ids \in SUBSET Ids
    BY DEF IInv, TypeOK
  <2>1. timers' \in SUBSET (Nat \X Addrs) /\ active' \in SUBSET Ids /\ ids' \in SUBSET Ids
    BY <1>2, <1>4, <2>0, <2>a
  <2>2. created' \in 0..MaxTimers
    BY <1>1
  <2> QED
    BY <1>1, <1>2, <1>3, <2>1, <2>2 DEF IInv, TypeOK
<1>6. Filed'
  <2>1. \A e \in timers' : e \in timers \/ (e[1] = when /\ e[2] = a)
    BY <1>2
  <2> QED
    BY <1>1, <1>2, <2>1 DEF IInv, Filed
<1>7. \A e \in timers \cup expired : IdOf(e)' = IdOf(e)
  BY <1>1 DEF IdOf
<1>8. Agree'
  <2>1. IdOf(<<when, a>>)' = <<a, created + 1>>
    BY <1>1 DEF IdOf
  <2> QED
    BY <1>2, <1>7, <2>1 DEF IInv, Agree
<1>9. <<a, created + 1>> \notin cancelled
  BY <1>1 DEF IInv, Known
<1>10. CancelledStayOut'
  BY <1>2, <1>9 DEF IInv, CancelledStayOut
<1>11. TimerfdArmed'
  BY <1>2, <1>3 DEF IInv, TimerfdArmed, EarliestChanged
<1>12. Known'
  <2>1. \A id \in ids \cup cancelled : id[2] <= created'
    BY <1>1 DEF IInv, Known, TypeOK, Ids
  <2>2. \A i \in 1..Len(queue) : queue[i][2][2] <= created'
    <3> TAKE i \in 1..Len(queue)
    <3>1. queue[i] \in {"add", "cancel"} \X Ids
      BY DEF IInv, TypeOK
    <3> QED
      BY <1>1, <3>1 DEF IInv, Known, Ids
  <2> QED
    BY <1>1, <1>2, <2>1, <2>2 DEF Known
<1>13. Batch'
  BY <1>2 DEF IInv, Batch
<1>14. BatchCancels'
  BY <1>2, <1>7 DEF IInv, BatchCancels
<1>15. QueuedAdds'
  <2>1. ASSUME NEW i \in 1..Len(queue), IsAdd(i) PROVE AddSound(queue[i][2])'
    <3>1. queue[i][2] \in Ids
      BY DEF IInv, TypeOK
    <3>2. AddSound(queue[i][2]) /\ queue[i][2][1] \in Addrs \ {a}
      BY <1>1, <2>1, <3>1 DEF IInv, QueuedAdds, Ids
    <3> QED
      BY <1>1, <1>2, <3>2 DEF AddSound
  <2> QED
    BY <1>2, <2>1 DEF IInv, QueuedAdds, IsAdd
<1> QED
  BY <1>1, <1>5, <1>6, <1>8, <1>10, <1>11, <1>12, <1>13, <1>14, <1>15 DEF IInv

(* The functors in the queue stay sound when the queue is left alone or its  *)
(* first functor is run, if the timers of the others are left alone.         *)
LEMMA QueueKept ==
  ASSUME IInv, UNCHANGED created,
         queue' = queue \/ (queue # <<>> /\ queue' = Tail(queue)),
         \A x \in Ids : (\E i \in 1..Len(queue) :
                            /\ IsAdd(i) /\ queue[i][2] = x
                            /\ queue' = queue \/ i > 1)
                        => AddSound(x)'
  PROVE  /\ queue' \in Seq({"add", "cancel"} \X Ids) /\ QueuedAdds'
         /\ \A i \in 1..Len(queue') : queue'[i][2][2] <= created'
<1>0. /\ queue \in Seq({"add", "cancel"} \X Ids) /\ QueuedAdds
      /\ \A i \in 1..Len(queue) : queue[i][2][2] <= created
      /\ \A i \in 1..Len(queue) : queue[i] \in {"add", "cancel"} \X Ids
  BY DEF IInv, TypeOK, Known
<1>1. CASE queue' = queue
  <2>1. ASSUME NEW i \in 1..Len(queue'), IsAdd(i)' PROVE AddSound(queue[i][2])'
    <3>1. PICK x \in Ids : x = queue[i][2]
      BY <1>0, <1>1
    <3>2. AddSound(x)'
      BY <1>1, <2>1, <3>1 DEF IsAdd
    <3> QED
      BY <1>1, <3>1, <3>2 DEF AddSound
  <2> QED
    BY <1>0, <1>1, <2>1 DEF QueuedAdds, IsAdd
<1>2. CASE queue # <<>> /\ queue' = Tail(queue) /\ queue' # queue
  <2>1. /\ queue' \in Seq({"add", "cancel"} \X Ids) /\ Len(queue') = Len(queue) - 1
        /\ \A i \in 1..Len(queue') : queue'[i] = queue[i + 1]
        /\ Len(queue) \in Nat
    BY <1>0, <1>2, HeadTailProperties, LenProperties
  <2>2. \A i \in 1..Len(queue') : i + 1 \in 1..Len(queue) /\ i + 1 > 1
    BY <2>1
  <2>3. ASSUME NEW i \in 1..Len(queue'), IsAdd(i)' PROVE AddSound(queue[i][2])'
    <3>1. PICK x \in Ids : x = queue[i + 1][2]
      BY <1>0, <2>2
    <3>2. IsAdd(i + 1) /\ queue'[i][2] = x
      BY <2>1, <2>3, <3>1 DEF IsAdd
    <3>3. AddSound(x)'
      BY <2>2, <3>1, <3>2
    <3> QED
      BY <3>2, <3>3 DEF AddSound
  <2>4. ASSUME NEW i \in 1..Len(queue'), NEW j \in 1..Len(queue'), IsAdd(i)', IsAdd(j)',
               queue'[i][2][1] = queue'[j][2][1]
        PROVE  i = j
    <3>1. IsAdd(i + 1) /\ IsAdd(j + 1) /\ queue[i + 1][2][1] = queue[j + 1][2][1]
      BY <2>1, <2>4 DEF IsAdd
    <3>2. i + 1 = j + 1
      BY <1>0, <2>2, <3>1 DEF QueuedAdds
    <3> QED
      BY <3>2
  <2> QED
    BY <1>0, <2>1, <2>2, <2>3, <2>4 DEF QueuedAdds
<1> QED
  BY <1>1, <1>2

(* The queue grows by one functor.                                           *)
LEMMA QueueGrows ==
  ASSUME IInv, NEW f \in {"add", "cancel"}, NEW id \in Ids, queue' = Append(queue, <<f, id>>),
         created' \in Nat, created <= created', id[2] <= created',
         \A x \in Ids : (\E i \in 1..Len(queue) : IsAdd(i) /\ queue[i][2] = x) => AddSound(x)',
         f = "add" => AddSound(id)' /\ \A i \in 1..Len(queue) : IsAdd(i) => queue[i][2][1] # id[1]
  PROVE  /\ queue' \in Seq({"add", "cancel"} \X Ids) /\ QueuedAdds'
         /\ \A i \in 1..Len(queue') : queue'[i][2][2] <= created'
<1>0. /\ queue \in Seq({"add", "cancel"} \X Ids) /\ QueuedAdds
      /\ \A i \in 1..Len(queue) : queue[i][2][2] <= created
      /\ \A i \in 1..Len(queue) : queue[i] \in {"add", "cancel"} \X Ids
      /\ Len(queue) \in Nat
  BY DEF IInv, TypeOK, Known
<1>1. <<f, id>> \in {"add", "cancel"} \X Ids
  OBVIOUS
<1>2. /\ queue' \in Seq({"add", "cancel"} \X Ids) /\ Len(queue') = Len(queue) + 1
      /\ \A i \in 1..Len(queue) : queue'[i] = queue[i]
      /\ queue'[Len(queue) + 1] = <<f, id>>
  BY <1>0, <1>1, AppendProperties
<1>3. \A i \in 1..Len(queue') : i \in 1..Len(queue) \/ i = Len(queue) + 1
  BY <1>0, <1>2
<1>4. ASSUME NEW i \in 1..Len(queue'), IsAdd(i)' PROVE AddSound(queue[i][2])'
  <2>1. CASE i \in 1..Len(queue)
    <3>1. PICK x \in Ids : x = queue[i][2]
      BY <1>0, <2>1
    <3>2. AddSound(x)' /\ queue'[i][2] = x
      BY <1>2, <1>4, <2>1, <3>1 DEF IsAdd
    <3> QED
      BY <3>2 DEF AddSound
  <2>2. CASE i = Len(queue) + 1
    <3>1. queue'[i][2] = id /\ AddSound(id)'
      BY <1>2, <1>4, <2>2 DEF IsAdd
    <3> QED
      BY <3>1 DEF AddSound
  <2> QED
    BY <1>3, <2>1, <2>2
<1>5. ASSUME NEW i \in 1..Len(queue'), NEW j \in 1..Len(queue'), IsAdd(i)', IsAdd(j)',
             queue'[i][2][1] = queue'[j][2][1]
      PROVE  i = j
  BY <1>0, <1>2, <1>3, <1>5 DEF QueuedAdds, IsAdd
<1>6. ASSUME NEW i \in 1..Len(queue') PROVE queue'[i][2][2] <= created'
  <2>1. CASE i \in 1..Len(queue)
    <3>1. queue[i][2] \in Ids /\ queue[i][2][2] \in Nat /\ created \in Nat
      BY <1>0, <2>1 DEF Ids, IInv, TypeOK
    <3> QED
      BY <1>0, <1>2, <2>1, <3>1
  <2>2. CASE i = Len(queue) + 1
    BY <1>2, <2>2
  <2> QED
    BY <1>3, <2>1, <2>2
<1> QED
  BY <1>2, <1>4, <1>5, <1>6 DEF QueuedAdds

(* addTimer() on another thread, up to runInLoop().                          *)
LEMMA AddFromOtherStep ==
  ASSUME IInv, NEW a \in Addrs, NEW when \in Nat, NEW interval \in Nat,
         AddFromOther(a, when, interval)
  PROVE  IInv'
<1> USE TimerAssumption DEF TimerAssumption
<1>1. /\ heap' \in [Addrs -> TimerRecords] /\ created \in Nat
      /\ created' = created + 1 /\ created + 1 \in 1..MaxTimers
      /\ heap'[a].live /\ heap'[a].seq = created + 1 /\ heap'[a].exp = when
      /\ \A b \in Addrs \ {a} : heap'[b] = heap[b]
      /\ \A e \in timers \cup expired : e[2] # a /\ e[2] \in Addrs
      /\ \A i \in 1..Len(queue) : IsAdd(i) => queue[i][2][1] # a
      /\ Sequences'
  BY NewTimerIsAlone DEF AddFromOther
<1>2. /\ queue' = Append(queue, <<"add", <<a, created + 1>>>>)
      /\ adding' = <<a, created + 1>>
      /\ UNCHANGED <<now, fd, timers, active, calling, canceling, expired, toRun,
                   batchNow, pc, ids, setBacks, cancelled>>
  BY DEF AddFromOther
<1>4. <<a, created + 1>> \in Ids
  BY <1>1 DEF Ids
<1>7. \A e \in timers \cup expired : IdOf(e)' = IdOf(e)
  BY <1>1 DEF IdOf
<1>9. <<a, created + 1>> \notin cancelled
  BY <1>1 DEF IInv, Known
<1>10. PICK id \in Ids : id = <<a, created + 1>>
  BY <1>4
<1>11. AddSound(id)'
  BY <1>1, <1>2, <1>9, <1>10 DEF AddSound
<1>12. ASSUME NEW x \in Ids, NEW i \in 1..Len(queue), IsAdd(i), queue[i][2] = x
       PROVE  AddSound(x)'
  <2>1. AddSound(x) /\ x[1] \in Addrs \ {a}
    BY <1>1, <1>12 DEF IInv, QueuedAdds, Ids
  <2> QED
    BY <1>1, <1>2, <2>1 DEF AddSound
<1>13. id[1] = a /\ id[2] = created + 1 /\ created <= created' /\ id[2] <= created' /\ created' \in Nat
  BY <1>1, <1>10
<1>14. /\ queue' \in Seq({"add", "cancel"} \X Ids) /\ QueuedAdds'
       /\ \A i \in 1..Len(queue') : queue'[i][2][2] <= created'
  BY <1>1, <1>2, <1>10, <1>11, <1>12, <1>13, QueueGrows
<1>15. TypeOK'
  <2>1. created' \in 0..MaxTimers
    BY <1>1
  <2> QED
    BY <1>1, <1>2, <1>4, <1>14, <2>1 DEF IInv, TypeOK
<1>16. Filed'
  BY <1>1, <1>2 DEF IInv, Filed
<1>17. Agree'
  BY <1>2, <1>7 DEF IInv, Agree
<1>18. Known'
  <2>1. \A x \in ids \cup cancelled : x[2] <= created'
    BY <1>1 DEF IInv, Known, TypeOK, Ids
  <2> QED
    BY <1>2, <1>14, <2>1 DEF Known
<1>19. CancelledStayOut' /\ TimerfdArmed' /\ Batch'
  BY <1>2 DEF IInv, CancelledStayOut, TimerfdArmed, Batch
<1>20. BatchCancels'
  BY <1>2, <1>7 DEF IInv, BatchCancels
<1> QED
  BY <1>1, <1>14, <1>15, <1>16, <1>17, <1>18, <1>19, <1>20 DEF IInv

(* The steps that move no timer and run no functor.                          *)
LEMMA QuietStep ==
  ASSUME IInv, TypeOK', Batch', TimerfdArmed',
         UNCHANGED <<heap, timers, active, expired, canceling, queue, created, cancelled>>,
         \A id \in ids' : id[2] <= created
  PROVE  IInv'
<1>1. Filed' /\ Sequences' /\ CancelledStayOut' /\ Known'
  BY DEF IInv, Filed, Sequences, CancelledStayOut, Known
<1>2. Agree'
  BY DEF IInv, Agree, IdOf
<1>3. BatchCancels'
  BY DEF IInv, BatchCancels, IdOf
<1>4. QueuedAdds'
  BY DEF IInv, QueuedAdds, AddSound, IsAdd
<1> QED
  BY <1>1, <1>2, <1>3, <1>4 DEF IInv

(* addTimer() on another thread reads the sequence number and returns.       *)
LEMMA AddReturnsStep == IInv /\ AddReturns => IInv'
<1> SUFFICES ASSUME IInv, AddReturns PROVE IInv'
  OBVIOUS
<1> USE TimerAssumption DEF TimerAssumption
<1>1. PICK seq \in IF heap[adding[1]].live THEN {heap[adding[1]].seq} ELSE 1..created :
          ids' = ids \cup {<<adding[1], seq>>}
  BY DEF AddReturns
<1>2. adding \in Ids /\ adding' = NoAdd
      /\ UNCHANGED <<now, fd, timerVars, pc, queue, created, setBacks, cancelled>>
  BY DEF AddReturns, IInv, TypeOK
<1>3. adding[1] \in Addrs
  BY <1>2 DEF Ids
<1>4. created \in 0..MaxTimers /\ heap[adding[1]].seq \in 0..MaxTimers
  BY <1>3 DEF IInv, TypeOK, TimerRecords
<1>a. heap[adding[1]].seq <= created /\ (heap[adding[1]].live => heap[adding[1]].seq >= 1)
  BY <1>3 DEF IInv, Sequences
<1>5. seq \in 1..created
  <2>1. CASE heap[adding[1]].live
    <3>1. seq = heap[adding[1]].seq
      BY <1>1, <2>1
    <3> QED
      BY <1>4, <1>a, <2>1, <3>1
  <2>2. CASE ~heap[adding[1]].live
    BY <1>1, <2>2
  <2> QED
    BY <2>1, <2>2
<1>6. <<adding[1], seq>> \in Ids /\ seq <= created
  BY <1>3, <1>4, <1>5 DEF Ids
<1>7. ids' \in SUBSET Ids
  BY <1>1, <1>6 DEF IInv, TypeOK
<1>8. TypeOK'
  BY <1>2, <1>7 DEF IInv, TypeOK, timerVars
<1>9. Batch' /\ TimerfdArmed'
  BY <1>2 DEF IInv, Batch, TimerfdArmed, timerVars
<1>10. \A id \in ids' : id[2] <= created
  BY <1>1, <1>6 DEF IInv, Known
<1> QED
  BY <1>2, <1>8, <1>9, <1>10, QuietStep DEF timerVars

(* cancel() on another thread, up to runInLoop().                            *)
LEMMA CancelFromOtherStep ==
  ASSUME IInv, NEW id \in ids, CancelFromOther(id)
  PROVE  IInv'
<1> USE TimerAssumption DEF TimerAssumption
<1>1. /\ queue' = Append(queue, <<"cancel", id>>)
      /\ UNCHANGED <<now, fd, timerVars, pc, created, adding, ids, setBacks, cancelled>>
  BY DEF CancelFromOther
<1>2. id \in Ids /\ id[2] <= created /\ created \in Nat
  BY DEF IInv, TypeOK, Known
<1>3. ASSUME NEW x \in Ids, NEW i \in 1..Len(queue), IsAdd(i), queue[i][2] = x
      PROVE  AddSound(x)'
  <2>1. AddSound(x)
    BY <1>3 DEF IInv, QueuedAdds
  <2> QED
    BY <1>1, <2>1 DEF AddSound, timerVars
<1>4. /\ queue' \in Seq({"add", "cancel"} \X Ids) /\ QueuedAdds'
      /\ \A i \in 1..Len(queue') : queue'[i][2][2] <= created'
  <2>1. created' \in Nat /\ created <= created' /\ id[2] <= created'
    BY <1>1, <1>2
  <2> QED
    BY <1>1, <1>2, <1>3, <2>1, QueueGrows
<1>5. TypeOK'
  BY <1>1, <1>4 DEF IInv, TypeOK, timerVars
<1>6. Filed' /\ Sequences' /\ CancelledStayOut' /\ TimerfdArmed' /\ Batch'
  BY <1>1 DEF IInv, Filed, Sequences, CancelledStayOut, TimerfdArmed, Batch, timerVars
<1>7. Known'
  BY <1>1, <1>4 DEF IInv, Known
<1>8. Agree' /\ BatchCancels'
  BY <1>1 DEF IInv, Agree, BatchCancels, IdOf, timerVars
<1> QED
  BY <1>4, <1>5, <1>6, <1>7, <1>8 DEF IInv

(* poll() returns with the timerfd; a callback returns.                      *)
LEMMA PollOrReturnStep == IInv /\ (PollTimerfd \/ CallbackReturns) => IInv'
<1> SUFFICES ASSUME IInv, PollTimerfd \/ CallbackReturns PROVE IInv'
  OBVIOUS
<1>1. TypeOK'
  BY DEF IInv, TypeOK, PollTimerfd, CallbackReturns, timerVars
<1>2. Batch'
  BY DEF IInv, Batch, PollTimerfd, CallbackReturns, timerVars
<1>3. TimerfdArmed'
  BY DEF IInv, TimerfdArmed, PollTimerfd, CallbackReturns, timerVars
<1>4. \A id \in ids' : id[2] <= created
  BY DEF IInv, Known, PollTimerfd, CallbackReturns
<1> QED
  BY <1>1, <1>2, <1>3, <1>4, QuietStep DEF PollTimerfd, CallbackReturns, timerVars

(* One callback of the batch starts.                                         *)
LEMMA RunTimerStep == IInv /\ RunTimer => IInv'
<1> SUFFICES ASSUME IInv, RunTimer PROVE IInv'
  OBVIOUS
<1>1. TypeOK'
  BY DEF IInv, TypeOK, RunTimer
<1>2. Batch' /\ TimerfdArmed'
  BY DEF IInv, Batch, TimerfdArmed, RunTimer
<1>3. \A id \in ids' : id[2] <= created
  BY DEF IInv, Known, RunTimer
<1> QED
  BY <1>1, <1>2, <1>3, QuietStep DEF RunTimer

(* The clock moves: the timerfd counts down to readable, never to disarmed.  *)
LEMMA ClockStep == IInv /\ (Tick \/ ClockSetBack) => IInv'
<1> SUFFICES ASSUME IInv, Tick \/ ClockSetBack PROVE IInv'
  OBVIOUS
<1> USE TimerAssumption DEF TimerAssumption
<1>0. UNCHANGED <<timerVars, pc, queue, created, adding, ids, cancelled>>
  BY DEF Tick, ClockSetBack
<1>1. now \in 0..MaxTime /\ fd \in Nat \cup {-1} /\ setBacks \in 0..MaxSetBacks
  BY DEF IInv, TypeOK, Disarmed
<1>2. now' \in 0..MaxTime
  BY <1>1 DEF Tick, ClockSetBack
<1>3. fd' \in Nat \cup {-1} /\ (fd # -1 => fd' # -1)
  BY <1>1 DEF Tick, ClockSetBack
<1>4. setBacks' \in 0..MaxSetBacks
  BY <1>1 DEF Tick, ClockSetBack
<1>5. TypeOK'
  BY <1>0, <1>2, <1>3, <1>4 DEF IInv, TypeOK, timerVars, Disarmed
<1>6. Batch' /\ TimerfdArmed'
  BY <1>0, <1>3 DEF IInv, Batch, TimerfdArmed, timerVars, Disarmed
<1>7. \A id \in ids' : id[2] <= created
  BY <1>0 DEF IInv, Known
<1> QED
  BY <1>0, <1>5, <1>6, <1>7, QuietStep DEF timerVars

(* cancelInLoop(), called on the loop thread or run from the queue.          *)
LEMMA CancelInLoopStep ==
  ASSUME IInv, NEW id \in Ids, id[2] <= created, cancelInLoop(id),
         queue' = queue \/ (queue # <<>> /\ queue' = Tail(queue)),
         UNCHANGED <<now, pc, created, adding, ids, setBacks>>
  PROVE  IInv'
<1> USE TimerAssumption DEF TimerAssumption
<1>0. /\ TypeOK /\ Filed /\ Agree /\ CancelledStayOut /\ TimerfdArmed /\ Sequences /\ Known
      /\ Batch /\ BatchCancels /\ QueuedAdds
      /\ UNCHANGED <<fd, calling, expired, toRun, batchNow>>
      /\ cancelled' = IF IsActive(id) \/ InBatch(id) THEN cancelled \cup {id} ELSE cancelled
  BY DEF IInv, cancelInLoop
<1>1. heap \in [Addrs -> TimerRecords] /\ id[1] \in Addrs
      /\ \A e \in timers \cup expired : e[2] \in Addrs /\ e = <<e[1], e[2]>>
  BY <1>0 DEF TypeOK, Ids
<1>2. \A x \in ids \cup cancelled' : x[2] <= created
  BY <1>0 DEF Known
<1>3. cancelled' \in SUBSET Ids
  BY <1>0 DEF TypeOK
<1>4. Batch' /\ (timers' \subseteq timers => TimerfdArmed')
  BY <1>0 DEF Batch, TimerfdArmed
<1>a. ASSUME NEW x \in Ids, NEW i \in 1..Len(queue), IsAdd(i), queue[i][2] = x
      PROVE  AddSound(x)
  BY <1>0, <1>a DEF QueuedAdds
<1>5. CASE IsActive(id)
  <2>1. /\ timers' = timers \ {<<heap[id[1]].exp, id[1]>>}
        /\ active' = active \ {<<id[1], heap[id[1]].seq>>}
        /\ heap' = [heap EXCEPT ![id[1]].live = FALSE]
        /\ UNCHANGED canceling
        /\ cancelled' = cancelled \cup {id}
    BY <1>5 DEF cancelInLoop
  <2>2. PICK e \in timers : IdOf(e) = id
    BY <1>0, <1>5 DEF Agree, IsActive
  <2>3. e[2] = id[1] /\ heap[id[1]].seq = id[2] /\ heap[id[1]].exp = e[1]
        /\ id = <<id[1], id[2]>> /\ heap[id[1]].live
    BY <1>0, <2>2 DEF Filed, IdOf, Ids
  <2>4. timers' = timers \ {e} /\ active' = active \ {id}
    BY <1>1, <2>1, <2>2, <2>3
  <2>5. heap[id[1]] \in TimerRecords
    BY <1>1
  <2>6. /\ heap'[id[1]].live = FALSE /\ heap'[id[1]].seq = id[2]
        /\ heap'[id[1]] \in TimerRecords
        /\ \A b \in Addrs \ {id[1]} : heap'[b] = heap[b]
        /\ heap' \in [Addrs -> TimerRecords]
    BY <1>1, <2>1, <2>3, <2>5 DEF TimerRecords
  <2>7. \A d \in timers' \cup expired : d[2] # id[1]
    BY <1>0, <1>1, <2>2, <2>3, <2>4 DEF Filed
  <2>8. Filed'
    BY <1>0, <1>1, <2>4, <2>6, <2>7 DEF Filed
  <2>9. \A d \in timers \cup expired : IdOf(d)' = IdOf(d)
    BY <1>1, <2>3, <2>6 DEF IdOf
  <2>10. Agree'
    <3>1. \A d \in timers' : IdOf(d) # id
      BY <2>4, <2>7 DEF IdOf
    <3>2. active' = {IdOf(d) : d \in timers'}
      BY <1>0, <2>2, <2>4, <3>1 DEF Agree
    <3> QED
      BY <2>4, <2>9, <3>2 DEF Agree
  <2>11. CancelledStayOut'
    BY <1>0, <2>1, <2>4 DEF CancelledStayOut
  <2>12. BatchCancels'
    <3>1. \A d \in expired : IdOf(d) # id
      BY <2>7 DEF IdOf
    <3> QED
      BY <1>0, <2>1, <2>9, <3>1 DEF BatchCancels
  <2>13. Sequences'
    BY <1>0, <2>3, <2>6 DEF Sequences
  <2>14. ASSUME NEW x \in Ids, NEW i \in 1..Len(queue), IsAdd(i), queue[i][2] = x
         PROVE  AddSound(x)'
    <3>1. AddSound(x) /\ x[1] \in Addrs
      BY <1>a, <2>14 DEF Ids
    <3>2. x[1] # id[1]
      BY <2>2, <2>3, <3>1 DEF AddSound
    <3> QED
      BY <1>0, <2>1, <2>4, <2>6, <3>1, <3>2 DEF AddSound
  <2>15. /\ queue' \in Seq({"add", "cancel"} \X Ids) /\ QueuedAdds'
         /\ \A i \in 1..Len(queue') : queue'[i][2][2] <= created'
    BY <2>14, QueueKept
  <2>16. TypeOK'
    BY <1>0, <1>3, <2>1, <2>4, <2>6, <2>15 DEF TypeOK
  <2>17. Known'
    BY <1>2, <2>15 DEF Known
  <2> QED
    BY <1>4, <2>4, <2>8, <2>10, <2>11, <2>12, <2>13, <2>15, <2>16, <2>17 DEF IInv
<1>6. CASE ~IsActive(id)
  <2>1. /\ canceling' = IF calling THEN canceling \cup {id} ELSE canceling
        /\ UNCHANGED <<timers, active, heap>>
        /\ cancelled' = IF InBatch(id) THEN cancelled \cup {id} ELSE cancelled
    BY <1>6 DEF cancelInLoop
  <2>2. canceling' \in SUBSET Ids
    BY <1>0, <2>1 DEF TypeOK
  <2>3. ASSUME NEW x \in Ids, NEW i \in 1..Len(queue), IsAdd(i), queue[i][2] = x
        PROVE  AddSound(x)'
    <3>1. AddSound(x)
      BY <1>a, <2>3
    <3>2. InBatch(id) => x # id
      BY <3>1 DEF AddSound, InBatch, IdOf
    <3> QED
      BY <1>0, <2>1, <3>1, <3>2 DEF AddSound
  <2>4. /\ queue' \in Seq({"add", "cancel"} \X Ids) /\ QueuedAdds'
        /\ \A i \in 1..Len(queue') : queue'[i][2][2] <= created'
    BY <2>3, QueueKept
  <2>5. TypeOK'
    BY <1>0, <1>3, <2>1, <2>2, <2>4 DEF TypeOK
  <2>6. Filed' /\ Sequences' /\ timers' \subseteq timers
    BY <1>0, <2>1 DEF Filed, Sequences
  <2>7. Agree'
    BY <1>0, <2>1 DEF Agree, IdOf
  <2>8. CancelledStayOut'
    BY <1>0, <1>6, <2>1 DEF CancelledStayOut, IsActive
  <2>9. BatchCancels'
    <3>1. \A e \in expired : IdOf(e)' = IdOf(e) /\ calling
      BY <1>0, <2>1 DEF IdOf, Batch
    <3> QED
      BY <1>0, <2>1, <3>1 DEF BatchCancels
  <2>10. Known'
    BY <1>2, <2>4 DEF Known
  <2> QED
    BY <1>4, <2>4, <2>5, <2>6, <2>7, <2>8, <2>9, <2>10 DEF IInv
<1> QED
  BY <1>5, <1>6

(* A functor of the queue is run.                                            *)
LEMMA RunQueuedStep == IInv /\ RunQueued => IInv'
<1> SUFFICES ASSUME IInv, RunQueued PROVE IInv'
  OBVIOUS
<1> USE TimerAssumption DEF TimerAssumption
<1>1. /\ queue # <<>> /\ queue' = Tail(queue) /\ queue \in Seq({"add", "cancel"} \X Ids)
      /\ UNCHANGED <<now, pc, created, adding, ids, setBacks>>
  BY DEF IInv, TypeOK, RunQueued
<1>2. Len(queue) \in Nat \ {0} /\ Head(queue) = queue[1]
  BY <1>1, EmptySeq, LenProperties
<1>3. 1 \in 1..Len(queue) /\ queue[1] \in {"add", "cancel"} \X Ids
  BY <1>1, <1>2
<1>4. PICK id \in Ids : id = queue[1][2]
  BY <1>3
<1>5. id[2] <= created /\ id[1] \in Addrs /\ id = <<id[1], id[2]>> /\ created \in 0..MaxTimers
  BY <1>3, <1>4 DEF IInv, Known, Ids, TypeOK
<1>6. CASE queue[1][1] = "cancel"
  <2>1. cancelInLoop(id)
    BY <1>2, <1>4, <1>6 DEF RunQueued
  <2> QED
    BY <1>1, <1>5, <2>1, CancelInLoopStep
<1>7. CASE queue[1][1] = "add"
  <2>1. /\ addTimerInLoop(id[1], heap[id[1]].seq, heap[id[1]].exp)
        /\ UNCHANGED <<heap, calling, canceling, expired, toRun, batchNow, cancelled>>
    BY <1>2, <1>4, <1>7 DEF RunQueued
  <2>2. AddSound(id)
    BY <1>3, <1>4, <1>7 DEF IInv, QueuedAdds, IsAdd
  <2>3. heap[id[1]].live /\ heap[id[1]].seq = id[2] /\ heap[id[1]].exp \in Nat
    BY <1>5, <2>2 DEF AddSound, IInv, TypeOK, TimerRecords
  <2>4. PICK when \in Nat : when = heap[id[1]].exp
    BY <2>3
  <2>5. /\ timers' = timers \cup {<<when, id[1]>>} /\ active' = active \cup {id}
        /\ fd' = IF EarliestChanged(when) THEN resetTimerfd(when) ELSE fd
    BY <1>5, <2>1, <2>3, <2>4 DEF addTimerInLoop, insert
  <2>6. fd' \in Nat \cup {Disarmed} /\ (EarliestChanged(when) => fd' # Disarmed)
    BY <2>5 DEF IInv, TypeOK, resetTimerfd, Disarmed
  <2>7. ASSUME NEW x \in Ids, NEW i \in 1..Len(queue), IsAdd(i), queue[i][2] = x, i > 1
        PROVE  AddSound(x)'
    <3>1. AddSound(x)
      BY <2>7 DEF IInv, QueuedAdds
    <3>2. x[1] # id[1]
      BY <1>3, <1>4, <1>7, <2>7 DEF IInv, QueuedAdds, IsAdd
    <3> QED
      BY <2>1, <2>5, <3>1, <3>2 DEF AddSound
  <2>8. Len(queue') = Len(queue) - 1
    BY <1>1, HeadTailProperties
  <2>9. queue' # queue
    BY <1>2, <2>8
  <2>10. /\ queue' \in Seq({"add", "cancel"} \X Ids) /\ QueuedAdds'
         /\ \A i \in 1..Len(queue') : queue'[i][2][2] <= created'
    BY <1>1, <2>7, <2>9, QueueKept
  <2>11. TypeOK'
    <3>1. timers \in SUBSET (Nat \X Addrs) /\ <<when, id[1]>> \in Nat \X Addrs
      BY <1>5 DEF IInv, TypeOK
    <3>2. timers' \in SUBSET (Nat \X Addrs)
      BY <2>5, <3>1
    <3> QED
      BY <1>1, <2>1, <2>5, <2>6, <2>10, <3>2 DEF IInv, TypeOK
  <2>12. Filed'
    <3>1. \A e \in timers' : e \in timers \/ (e[1] = when /\ e[2] = id[1])
      BY <2>5
    <3> QED
      BY <2>1, <2>2, <2>3, <2>4, <2>5, <3>1 DEF IInv, Filed, AddSound
  <2>13. Agree'
    <3>1. active = {<<e[2], heap[e[2]].seq>> : e \in timers}
      BY DEF IInv, Agree, IdOf
    <3>2. <<id[1], heap[id[1]].seq>> = id
      BY <1>5, <2>3
    <3>3. ASSUME NEW x \in active' PROVE \E e \in timers' : x = <<e[2], heap[e[2]].seq>>
      <4>1. CASE x = id
        <5>1. <<when, id[1]>> \in timers'
          BY <2>5
        <5> QED
          BY <3>2, <4>1, <5>1
      <4> QED
        BY <2>5, <3>1, <4>1
    <3>4. ASSUME NEW e \in timers' PROVE <<e[2], heap[e[2]].seq>> \in active'
      BY <2>5, <3>1, <3>2
    <3> QED
      BY <2>1, <3>3, <3>4 DEF Agree, IdOf
  <2>14. CancelledStayOut' /\ Sequences' /\ Batch'
    BY <1>1, <2>1, <2>2, <2>5 DEF IInv, CancelledStayOut, Sequences, Batch, AddSound
  <2>15. TimerfdArmed'
    BY <2>1, <2>5, <2>6 DEF IInv, TimerfdArmed, EarliestChanged
  <2>16. Known'
    BY <1>1, <2>1, <2>10 DEF IInv, Known
  <2>17. BatchCancels'
    BY <2>1 DEF IInv, BatchCancels, IdOf
  <2> QED
    BY <2>10, <2>11, <2>12, <2>13, <2>14, <2>15, <2>16, <2>17 DEF IInv
<1> QED
  BY <1>3, <1>6, <1>7

(* handleRead() takes the expired timers out of both sets.                   *)
LEMMA HandleReadStep == IInv /\ HandleRead => IInv'
<1> SUFFICES ASSUME IInv, HandleRead PROVE IInv'
  OBVIOUS
<1> USE TimerAssumption DEF TimerAssumption
<1>0. /\ TypeOK /\ Filed /\ Agree /\ CancelledStayOut /\ Sequences /\ Known
      /\ Batch /\ QueuedAdds
  BY DEF IInv
<1> DEFINE X == getExpired
<1>1. /\ expired' = X /\ toRun' = X /\ timers' = timers \ X
      /\ active' = active \ {IdOf(e) : e \in X}
      /\ calling' = TRUE /\ canceling' = {} /\ batchNow' = now /\ pc' = "calling"
      /\ fd' = IF fd = 0 THEN Disarmed ELSE fd
      /\ UNCHANGED <<now, heap, queue, created, adding, ids, setBacks, cancelled>>
  BY DEF HandleRead, readTimerfd
<1>2. X \subseteq timers
  BY DEF getExpired
<1> HIDE DEF X
<1>3. \A e, d \in timers : e[2] = d[2] => e = d
  BY <1>0 DEF Filed, TypeOK
<1>4. expired = {}
  BY <1>0 DEF Batch, HandleRead
<1>5. TypeOK'
  BY <1>0, <1>1, <1>2 DEF TypeOK
<1>6. Filed'
  BY <1>0, <1>1, <1>2, <1>3 DEF Filed
<1>7. Agree'
  <2>1. \A e, d \in timers : IdOf(e) = IdOf(d) => e = d
    BY <1>3 DEF IdOf
  <2>2. active' = {IdOf(e) : e \in timers'}
    BY <1>0, <1>1, <1>2, <2>1 DEF Agree
  <2> QED
    BY <1>1, <2>2 DEF Agree, IdOf
<1>8. CancelledStayOut' /\ TimerfdArmed' /\ Sequences' /\ Known' /\ Batch'
  BY <1>0, <1>1 DEF CancelledStayOut, TimerfdArmed, Sequences, Known, Batch
<1>9. BatchCancels'
  <2>1. \A e \in X : IdOf(e) \notin cancelled
    BY <1>0, <1>2 DEF Agree, CancelledStayOut
  <2> QED
    BY <1>1, <2>1 DEF BatchCancels, IdOf
<1>10. ASSUME NEW x \in Ids, NEW i \in 1..Len(queue), IsAdd(i), queue[i][2] = x
       PROVE  AddSound(x)'
  <2>1. AddSound(x)
    BY <1>0, <1>10 DEF QueuedAdds
  <2> QED
    BY <1>1, <1>2, <2>1 DEF AddSound
<1>11. QueuedAdds'
  BY <1>1, <1>10, QueueKept
<1> QED
  BY <1>5, <1>6, <1>7, <1>8, <1>9, <1>11 DEF IInv

(* reset() puts the repeating timers of the batch back and deletes the rest. *)
LEMMA ResetStep == IInv /\ Reset => IInv'
<1> SUFFICES ASSUME IInv, Reset PROVE IInv'
  OBVIOUS
<1> USE TimerAssumption DEF TimerAssumption
<1>0. /\ TypeOK /\ Filed /\ Agree /\ CancelledStayOut /\ Sequences /\ Known
      /\ Batch /\ BatchCancels /\ QueuedAdds
  BY DEF IInv
<1> DEFINE again == {e \in expired : Repeats(e)}
           gone == {e[2] : e \in expired \ again}
           back == {e[2] : e \in again}
           due == [a \in Addrs |-> batchNow + heap[a].interval]
           entries == {<<due[a], a>> : a \in back}
           backIds == {<<a, heap[a].seq>> : a \in back}
<1>2. /\ \A a \in back : a \in Addrs /\ \E e \in expired : e[2] = a /\ IdOf(e) \notin canceling
      /\ \A a \in gone : a \in Addrs /\ \E e \in expired : e[2] = a
  BY <1>0 DEF Repeats, TypeOK
<1>1. /\ heap' = [a \in Addrs |->
                     IF a \in back THEN [heap[a] EXCEPT !.exp = due[a]]
                     ELSE IF a \in gone THEN [heap[a] EXCEPT !.live = FALSE]
                     ELSE heap[a]]
      /\ timers' = timers \cup entries /\ active' = active \cup backIds
      /\ fd' = Rearmed(timers') /\ calling' = FALSE /\ expired' = {} /\ pc' = "poll"
      /\ toRun = {}
      /\ UNCHANGED <<now, canceling, toRun, batchNow, queue, created, adding, ids,
                     setBacks, cancelled>>
  BY <1>2 DEF Reset, insert, restart
<1>3. \A a \in back \cup gone : heap[a].live /\ \A e \in timers : e[2] # a
  BY <1>0, <1>2 DEF Filed
<1>4. \A a \in Addrs : heap[a] \in TimerRecords /\ due[a] \in Nat
  BY <1>0 DEF TypeOK, TimerRecords
<1>5. entries \in SUBSET (Nat \X Addrs)
  <2>1. \A a \in back : <<due[a], a>> \in Nat \X Addrs
    BY <1>2, <1>4
  <2> QED
    BY <2>1
<1>6. timers' \in SUBSET (Nat \X Addrs)
  BY <1>0, <1>1, <1>5 DEF TypeOK
<1>7. backIds \in SUBSET Ids
  <2>1. \A a \in Addrs : heap[a].live => heap[a].seq \in 1..MaxTimers
    <3> TAKE a \in Addrs
    <3>1. heap[a].seq \in 0..MaxTimers /\ (heap[a].live => heap[a].seq >= 1)
      BY <1>0, <1>4 DEF Sequences, TimerRecords
    <3> QED
      BY <3>1
  <2>2. \A a \in back : a \in Addrs /\ heap[a].live
    BY <1>2, <1>3
  <2>3. \A a \in back : <<a, heap[a].seq>> \in Ids
    BY <2>1, <2>2 DEF Ids
  <2> QED
    BY <2>3
<1> HIDE DEF again, gone, back, due
<1>a. ASSUME NEW a \in Addrs
      PROVE  /\ heap'[a] \in TimerRecords /\ heap'[a].seq = heap[a].seq
             /\ a \notin back \cup gone => heap'[a] = heap[a]
             /\ a \in back => heap'[a].live = heap[a].live /\ heap'[a].exp = due[a]
             /\ heap'[a].live => heap[a].live
  <2>1. heap'[a] = IF a \in back THEN [heap[a] EXCEPT !.exp = due[a]]
                   ELSE IF a \in gone THEN [heap[a] EXCEPT !.live = FALSE]
                   ELSE heap[a]
    BY <1>1
  <2>2. heap[a] \in TimerRecords /\ due[a] \in Nat
    BY <1>4
  <2>3. CASE a \in back
    BY <2>1, <2>2, <2>3 DEF TimerRecords
  <2>4. CASE a \notin back /\ a \in gone
    BY <2>1, <2>2, <2>4, <1>3 DEF TimerRecords
  <2>5. CASE a \notin back /\ a \notin gone
    BY <2>1, <2>2, <2>5
  <2> QED
    BY <2>3, <2>4, <2>5
<1>8. /\ \A a \in Addrs : heap'[a] \in TimerRecords /\ heap'[a].seq = heap[a].seq
      /\ \A a \in Addrs \ (back \cup gone) : heap'[a] = heap[a]
      /\ \A a \in back : heap'[a].live = heap[a].live /\ heap'[a].exp = due[a]
      /\ \A a \in Addrs : heap'[a].live => heap[a].live
  BY <1>2, <1>a
<1>9. heap' \in [Addrs -> TimerRecords]
  BY <1>1, <1>8
<1>10. timers' # {} => fd' \in Nat \ {0}
  <2>1. ASSUME timers' # {} PROVE fd' \in Nat \ {0}
    <3>1. First(timers') \in timers'
      BY <1>6, <2>1, FirstIsMember
    <3>2. First(timers')[1] \in Nat
      BY <1>6, <3>1
    <3>3. now \in Nat
      BY <1>0 DEF TypeOK
    <3> QED
      BY <1>1, <2>1, <3>2, <3>3 DEF Rearmed, resetTimerfd
  <2> QED
    BY <2>1
<1>11. fd' \in Nat \cup {Disarmed} /\ (timers' # {} => fd' # Disarmed)
  BY <1>0, <1>1, <1>10 DEF TypeOK, Rearmed, Disarmed
<1>12. ASSUME NEW x \in Ids, NEW i \in 1..Len(queue), IsAdd(i), queue[i][2] = x
       PROVE  AddSound(x)'
  <2>1. AddSound(x) /\ x[1] \in Addrs
    BY <1>0, <1>12 DEF QueuedAdds, Ids
  <2>2. x[1] \notin back \cup gone
    BY <1>2, <2>1 DEF AddSound
  <2>3. \A e \in timers' : e \in timers \/ e[2] \in back
    BY <1>1
  <2> QED
    BY <1>1, <1>8, <2>1, <2>2, <2>3 DEF AddSound
<1>13. /\ queue' \in Seq({"add", "cancel"} \X Ids) /\ QueuedAdds'
       /\ \A i \in 1..Len(queue') : queue'[i][2][2] <= created'
  BY <1>1, <1>12, QueueKept
<1>14. active' \in SUBSET Ids
  BY <1>0, <1>1, <1>7 DEF TypeOK
<1>15. TypeOK'
  BY <1>0, <1>1, <1>6, <1>9, <1>11, <1>13, <1>14 DEF TypeOK
<1>16. Filed'
  <2>1. ASSUME NEW e \in timers' PROVE heap'[e[2]].live /\ heap'[e[2]].exp = e[1]
    <3>1. CASE e \in timers
      <4>1. e[2] \in Addrs \ (back \cup gone)
        BY <1>0, <1>3, <3>1 DEF TypeOK
      <4> QED
        BY <1>0, <1>8, <3>1, <4>1 DEF Filed
    <3>2. CASE e \in entries
      <4>1. PICK a \in back : e = <<due[a], a>>
        BY <3>2
      <4> QED
        BY <1>3, <1>8, <4>1
    <3> QED
      BY <1>1, <3>1, <3>2
  <2> QED
    BY <1>1, <2>1 DEF Filed
<1>17. Agree'
  <2>1. active = {<<e[2], heap[e[2]].seq>> : e \in timers}
    BY <1>0 DEF Agree, IdOf
  <2>2. active' = {<<e[2], heap[e[2]].seq>> : e \in timers'}
    <3>1. backIds = {<<e[2], heap[e[2]].seq>> : e \in entries}
      <4>1. ASSUME NEW x \in backIds PROVE \E e \in entries : x = <<e[2], heap[e[2]].seq>>
        <5>1. PICK a \in back : x = <<a, heap[a].seq>>
          OBVIOUS
        <5>2. <<due[a], a>> \in entries
          OBVIOUS
        <5> QED
          BY <5>1, <5>2
      <4>2. ASSUME NEW e \in entries PROVE <<e[2], heap[e[2]].seq>> \in backIds
        OBVIOUS
      <4> QED
        BY <4>1, <4>2
    <3> HIDE DEF backIds, entries
    <3> QED
      BY <1>1, <2>1, <3>1
  <2>3. \A e \in timers' : heap'[e[2]].seq = heap[e[2]].seq
    BY <1>6, <1>8
  <2> QED
    BY <2>2, <2>3 DEF Agree, IdOf
<1>18. CancelledStayOut'
  <2>1. ASSUME NEW a \in back PROVE <<a, heap[a].seq>> \notin cancelled
    BY <1>0, <1>2 DEF BatchCancels, IdOf
  <2> QED
    BY <1>0, <1>1, <2>1 DEF CancelledStayOut
<1>19. TimerfdArmed' /\ Batch' /\ BatchCancels'
  BY <1>1, <1>11 DEF TimerfdArmed, Batch, BatchCancels
<1>20. Sequences'
  BY <1>0, <1>1, <1>8 DEF Sequences
<1>21. Known'
  BY <1>0, <1>1, <1>13 DEF Known
<1> QED
  BY <1>13, <1>15, <1>16, <1>17, <1>18, <1>19, <1>20, <1>21 DEF IInv

-----------------------------------------------------------------------------
(* The inductive invariant holds.                                            *)
THEOREM TimerQueueInvariant == Spec => []IInv
<1>1. Init => IInv
  BY QueueInit
<1>2. IInv /\ [Next]_vars => IInv'
  <2> SUFFICES ASSUME IInv, [Next]_vars PROVE IInv'
    OBVIOUS
  <2>1. ASSUME NEW a \in Addrs, NEW when \in 0..MaxTime, NEW interval \in Intervals,
               AddFromLoop(a, when, interval) \/ AddFromOther(a, when, interval)
        PROVE  IInv'
    <3>1. when \in Nat /\ interval \in Nat
      BY TimerAssumption DEF TimerAssumption
    <3> QED
      BY <2>1, <3>1, AddFromLoopStep, AddFromOtherStep
  <2>2. ASSUME NEW id \in ids, CancelFromLoop(id) PROVE IInv'
    <3>1. /\ id \in Ids /\ id[2] <= created /\ cancelInLoop(id) /\ queue' = queue
          /\ UNCHANGED <<now, pc, created, adding, ids, setBacks>>
      BY <2>2 DEF CancelFromLoop, IInv, TypeOK, Known
    <3> QED
      BY <3>1, CancelInLoopStep
  <2>3. ASSUME NEW id \in ids, CancelFromOther(id) PROVE IInv'
    BY <2>3, CancelFromOtherStep
  <2>4. CASE AddReturns
    BY <2>4, AddReturnsStep
  <2>5. CASE RunQueued
    BY <2>5, RunQueuedStep
  <2>6. CASE LoopStep
    BY <2>6, PollOrReturnStep, HandleReadStep, RunTimerStep, ResetStep DEF LoopStep
  <2>7. CASE Tick \/ ClockSetBack
    BY <2>7, ClockStep
  <2>8. CASE UNCHANGED vars
    <3>1. TypeOK' /\ Batch' /\ TimerfdArmed'
      BY <2>8 DEF IInv, TypeOK, Batch, TimerfdArmed, vars, timerVars
    <3>2. \A id \in ids' : id[2] <= created
      BY <2>8 DEF IInv, Known, vars
    <3> QED
      BY <2>8, <3>1, <3>2, QuietStep DEF vars, timerVars
  <2> QED
    BY <2>1, <2>2, <2>3, <2>4, <2>5, <2>6, <2>7, <2>8 DEF Next
<1> QED
  BY <1>1, <1>2, PTL DEF Spec

(* The asserts of TimerQueue.cc hold, its raw pointers are to live timers, a *)
(* cancelled timer is never scheduled again and a queue that is not empty    *)
(* keeps its timerfd armed, whatever other threads add and cancel.           *)
THEOREM TimersAreSound == Spec => []TimerSetsSound
<1>1. IInv => TimerSetsSound
  BY SameSize DEF IInv, TimerSetsSound, SetsAgreeAndPointLive, Filed, Agree
<1> QED
  BY <1>1, TimerQueueInvariant, PTL

(* A timer leaves the queue only into a batch or because cancel() was called *)
(* with its own TimerId, never with that of a timer deleted at its address.  *)
THEOREM OthersStay == Spec => OnlyCancelledTimersVanish
<1> DEFINE Leaves(id) == id \in cancelled' \/ \E e \in expired' : e[2] = id[1]
<1>1. IInv /\ [Next]_vars => [\A id \in active \ active' : Leaves(id)]_vars
  <2> SUFFICES ASSUME IInv, Next, NEW x \in active, x \notin active' PROVE Leaves(x)
    OBVIOUS
  <2>1. ASSUME NEW id \in Ids, cancelInLoop(id) PROVE Leaves(x)
    <3>1. CASE IsActive(id)
      <4>1. PICK e \in timers : IdOf(e) = id
        BY <3>1 DEF IInv, Agree, IsActive
      <4>2. id = <<id[1], heap[id[1]].seq>>
        BY <4>1 DEF IdOf
      <4> QED
        BY <2>1, <3>1, <4>2 DEF cancelInLoop
    <3>2. CASE ~IsActive(id)
      BY <2>1, <3>2 DEF cancelInLoop
    <3> QED
      BY <3>1, <3>2
  <2>2. CASE \E a \in Addrs, when \in 0..MaxTime, interval \in Intervals :
                AddFromLoop(a, when, interval) \/ AddFromOther(a, when, interval)
    BY <2>2 DEF AddFromLoop, AddFromOther, addTimerInLoop, insert
  <2>3. CASE \E id \in ids : CancelFromLoop(id) \/ CancelFromOther(id)
    BY <2>1, <2>3 DEF CancelFromLoop, CancelFromOther, timerVars, IInv, TypeOK
  <2>4. CASE RunQueued
    <3>1. queue \in Seq({"add", "cancel"} \X Ids) /\ queue # <<>>
      BY <2>4 DEF IInv, TypeOK, RunQueued
    <3>2. Head(queue) \in {"add", "cancel"} \X Ids
      BY <3>1, HeadTailProperties
    <3>3. Head(queue)[2] \in Ids
      BY <3>2
    <3> QED
      BY <2>1, <2>4, <3>3 DEF RunQueued, addTimerInLoop, insert
  <2>5. CASE HandleRead
    <3>1. PICK e \in getExpired : IdOf(e) = x
      BY <2>5 DEF HandleRead
    <3> QED
      BY <2>5, <3>1 DEF HandleRead, IdOf
  <2>6. CASE Reset
    BY <2>6 DEF Reset, insert
  <2>7. CASE AddReturns \/ PollTimerfd \/ RunTimer \/ CallbackReturns \/ Tick \/ ClockSetBack
    BY <2>7 DEF AddReturns, PollTimerfd, RunTimer, CallbackReturns, Tick, ClockSetBack, timerVars
  <2> QED
    BY <2>2, <2>3, <2>4, <2>5, <2>6, <2>7 DEF Next, LoopStep
<1> QED
  BY <1>1, TimerQueueInvariant, PTL DEF Spec, OnlyCancelledTimersVanish
=============================================================================
