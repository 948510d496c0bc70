------------------------ MODULE TcpConnectionProofs ------------------------
(***************************************************************************)
(* Proofs about TcpConnection for every set of threads and every length    *)
(* and number of messages.  The order of the bytes is proved for all       *)
(* operations and every way of keeping pointers; the rest of the output    *)
(* path, the close path and the life of the object for users that keep to  *)
(* the rules in Disciplined.                                               *)
(*                                                                         *)
(* Then the HTTP server, which reads the connection's input buffer         *)
(* (modules Buffer and HttpServer): for every number of lines, every way   *)
(* of cutting the stream and every size of the buffer.                     *)
(***************************************************************************)
EXTENDS TcpConnection, HttpServer, SequenceTheorems, FiniteSetTheorems, WellFoundedInduction, TLAPS

(* The part of the state that the bytes of the stream pass through.          *)
StreamTyped ==
    /\ out \in Seq(AllBytes) /\ wire \in Seq(AllBytes) /\ accepted \in Seq(AllBytes)
    /\ queue \in Seq(Functors) /\ batch \in Seq(Functors)
    /\ sent \in [Senders -> 0..MaxSends]
    /\ tpc \in [Users -> Ops \cup {"idle", "queueShutdown", "queueForceClose"}]

(* A thread inside send() has a message left, and the vector swapped out is  *)
(* empty except while its functors run.                                      *)
Ready ==
    /\ \A u \in Users : tpc[u] = "send" => sent[u] < MaxSends
    /\ phase # "functors" => batch = <<>>

Follows(x, y) == x[1] = y[1] => x[2] < y[2] \/ (x[2] = y[2] /\ x[3] < y[3])
Joined == accepted = wire \o out
InOrder == \A i, j \in 1..Len(accepted) : i < j => Follows(accepted[i], accepted[j])

(* What is queued by the same thread comes later in its count.               *)
Sends(f) == f.name = "send"
Before(f, g) == Sends(f) /\ Sends(g) /\ f.by = g.by => f.no < g.no
Ascending(q) == \A i, j \in 1..Len(q) : i < j => Before(q[i], q[j])

(* A queued send is of a thread that has counted it, and of a message later  *)
(* than those of its thread that were accepted.                              *)
Due(f) ==
    Sends(f) => /\ f.by \in Users /\ f.no >= 1 /\ f.no <= sent[f.by]
                /\ \A i \in 1..Len(accepted) : accepted[i][1] = f.by => accepted[i][2] < f.no

Counted == \A i \in 1..Len(accepted) : accepted[i][2] <= sent[accepted[i][1]]
Pending ==
    /\ Ascending(queue) /\ Ascending(batch)
    /\ \A i \in 1..Len(queue) : Due(queue[i])
    /\ \A i \in 1..Len(batch) : Due(batch[i])
    /\ \A i \in 1..Len(batch), j \in 1..Len(queue) : Before(batch[i], queue[j])

SInv == StreamTyped /\ Ready /\ Joined /\ InOrder /\ Counted /\ Pending

-----------------------------------------------------------------------------
(* Bytes may be joined in any grouping.                                      *)
LEMMA BytesAssociate ==
  \A a, b, c \in Seq(AllBytes) : (a \o b) \o c = a \o (b \o c)
<1> SUFFICES ASSUME NEW S, NEW a \in Seq(S), NEW b \in Seq(S), NEW c \in Seq(S)
             PROVE  (a \o b) \o c = a \o (b \o c)
  OBVIOUS
<1> QED
  BY ConcatAssociative

(* Cutting a sequence in two and joining the parts gives it back.            *)
LEMMA CutAndJoin ==
  ASSUME NEW S, NEW s \in Seq(S), NEW n \in 0..Len(s)
  PROVE  /\ SubSeq(s, 1, n) \in Seq(S) /\ SubSeq(s, n + 1, Len(s)) \in Seq(S)
         /\ SubSeq(s, 1, n) \o SubSeq(s, n + 1, Len(s)) = s
         /\ Len(SubSeq(s, n + 1, Len(s))) = Len(s) - n
<1>0. Len(s) \in Nat /\ n \in Nat /\ \A i \in 1..Len(s) : s[i] \in S
  BY LenProperties
<1>1. SubSeq(s, 1, n) \in Seq(S)
  <2>1. \A i \in 1..n : s[i] \in S
    BY <1>0
  <2> QED
    BY <1>0, <2>1, SubSeqProperties
<1>2. SubSeq(s, n + 1, Len(s)) \in Seq(S) /\ Len(SubSeq(s, n + 1, Len(s))) = Len(s) - n
  <2>1. \A i \in n + 1..Len(s) : s[i] \in S
    BY <1>0
  <2>2. /\ SubSeq(s, n + 1, Len(s)) \in Seq(S)
        /\ Len(SubSeq(s, n + 1, Len(s)))
             = IF n + 1 <= Len(s) THEN Len(s) - (n + 1) + 1 ELSE 0
    BY <1>0, <2>1, SubSeqProperties
  <2> QED
    BY <1>0, <2>2
<1>3. SubSeq(s, 1, n) \o SubSeq(s, n + 1, Len(s)) = SubSeq(s, 1, Len(s))
  <2>1. 1 \in 1..Len(s) + 1 /\ n \in 1 - 1..Len(s) /\ Len(s) \in n..Len(s)
    BY <1>0
  <2> QED
    BY <2>1, ConcatAdjacentSubSeq
<1> QED
  BY <1>1, <1>2, <1>3, SubSeqFull

(* f waits before the step, and is not the one that the step takes.          *)
Waits(f) ==
    \/ \E i \in 1..Len(queue) : queue[i] = f
    \/ \E i \in 1..Len(batch) : batch[i] = f /\ (batch' = batch \/ i > 1)

(* The functors that wait keep their order when one is added that comes      *)
(* after all of its thread, and when the first of the batch is taken.        *)
LEMMA PendingKept ==
  ASSUME StreamTyped, Pending,
         \/ queue' = queue
         \/ \E g \in Functors : /\ queue' = Append(queue, g) /\ Due(g)'
                                /\ \A i \in 1..Len(queue) : Before(queue[i], g)
                                /\ \A i \in 1..Len(batch) : Before(batch[i], g),
         batch' = batch \/ (batch # <<>> /\ batch' = Tail(batch)),
         \A f \in Functors : Waits(f) => Due(f)'
  PROVE  Pending' /\ queue' \in Seq(Functors) /\ batch' \in Seq(Functors)
<1>0. /\ queue \in Seq(Functors) /\ batch \in Seq(Functors) /\ Len(queue) \in Nat /\ Len(batch) \in Nat
      /\ \A i \in 1..Len(queue) : queue[i] \in Functors
      /\ \A i \in 1..Len(batch) : batch[i] \in Functors
  BY LenProperties DEF StreamTyped
<1>1. PICK k \in {0, 1} :
         /\ batch' \in Seq(Functors)
         /\ \A i \in 1..Len(batch') : /\ i + k \in 1..Len(batch) /\ batch'[i] = batch[i + k]
                                      /\ batch' = batch \/ i + k > 1
  <2>1. CASE batch' = batch
    <3>1. \A i \in 1..Len(batch') : i + 0 \in 1..Len(batch) /\ batch'[i] = batch[i + 0]
      BY <1>0, <2>1
    <3> QED
      BY <1>0, <2>1, <3>1
  <2>2. CASE batch # <<>> /\ batch' = Tail(batch)
    <3>1. /\ batch' \in Seq(Functors) /\ Len(batch') = Len(batch) - 1
          /\ \A i \in 1..Len(batch') : batch'[i] = batch[i + 1]
      BY <1>0, <2>2, HeadTailProperties
    <3>2. \A i \in 1..Len(batch') : i + 1 \in 1..Len(batch) /\ i + 1 > 1
      BY <1>0, <3>1
    <3> QED
      BY <3>1, <3>2
  <2> QED
    BY <2>1, <2>2
<1>2. \A i \in 1..Len(batch') : Due(batch[i])'
  <2> TAKE i \in 1..Len(batch')
  <2>1. PICK f \in Functors : f = batch[i + k] /\ f = batch'[i]
    BY <1>0, <1>1
  <2>2. Waits(f)
    BY <1>1, <2>1 DEF Waits
  <2>3. Due(f)'
    BY <2>2
  <2> QED
    BY <2>1, <2>3 DEF Due
<1>3. Ascending(batch)'
  <2> SUFFICES ASSUME NEW i \in 1..Len(batch'), NEW j \in 1..Len(batch'), i < j
               PROVE  Before(batch'[i], batch'[j])
    BY DEF Ascending
  <2>1. i + k \in 1..Len(batch) /\ j + k \in 1..Len(batch) /\ i + k < j + k
    BY <1>1
  <2>2. Before(batch[i + k], batch[j + k])
    BY <2>1 DEF Pending, Ascending
  <2> QED
    BY <1>1, <2>2
<1>5. CASE queue' = queue
  <2>1. \A i \in 1..Len(queue') : Due(queue[i])'
    <3> TAKE i \in 1..Len(queue')
    <3>1. PICK f \in Functors : f = queue[i]
      BY <1>0, <1>5
    <3>2. Due(f)'
      BY <1>5, <3>1 DEF Waits
    <3> QED
      BY <1>5, <3>1, <3>2 DEF Due
  <2>2. Ascending(queue)'
    BY <1>5 DEF Pending, Ascending
  <2>3. \A i \in 1..Len(batch'), j \in 1..Len(queue') : Before(batch'[i], queue'[j])
    BY <1>1, <1>5 DEF Pending
  <2> QED
    BY <1>0, <1>1, <1>2, <1>3, <1>5, <2>1, <2>2, <2>3 DEF Pending
<1>6. CASE \E g \in Functors : /\ queue' = Append(queue, g) /\ Due(g)'
                               /\ \A i \in 1..Len(queue) : Before(queue[i], g)
                               /\ \A i \in 1..Len(batch) : Before(batch[i], g)
  <2>1. PICK g \in Functors : /\ queue' = Append(queue, g) /\ Due(g)'
                              /\ \A i \in 1..Len(queue) : Before(queue[i], g)
                              /\ \A i \in 1..Len(batch) : Before(batch[i], g)
    BY <1>6
  <2>2. /\ queue' \in Seq(Functors) /\ Len(queue') = Len(queue) + 1
        /\ \A i \in 1..Len(queue) : queue'[i] = queue[i]
        /\ queue'[Len(queue) + 1] = g
    BY <1>0, <2>1, AppendProperties
  <2>3. \A i \in 1..Len(queue') : i \in 1..Len(queue) \/ i = Len(queue) + 1
    BY <1>0, <2>2
  <2>4. \A i \in 1..Len(queue') : Due(queue[i])'
    <3> TAKE i \in 1..Len(queue')
    <3>1. CASE i \in 1..Len(queue)
      <4>1. PICK f \in Functors : f = queue[i] /\ f = queue'[i]
        BY <1>0, <2>2, <3>1
      <4>2. Due(f)'
        BY <3>1, <4>1 DEF Waits
      <4> QED
        BY <4>1, <4>2 DEF Due
    <3>2. CASE i = Len(queue) + 1
      <4>1. queue'[i] = g
        BY <2>2, <3>2
      <4> QED
        BY <2>1, <4>1 DEF Due
    <3> QED
      BY <2>3, <3>1, <3>2
  <2>5. Ascending(queue)'
    <3> SUFFICES ASSUME NEW i \in 1..Len(queue'), NEW j \in 1..Len(queue'), i < j
                 PROVE  Before(queue'[i], queue'[j])
      BY DEF Ascending
    <3>1. i \in 1..Len(queue)
      BY <1>0, <2>2
    <3> QED
      BY <2>1, <2>2, <2>3, <3>1 DEF Pending, Ascending
  <2>6. \A i \in 1..Len(batch'), j \in 1..Len(queue') : Before(batch'[i], queue'[j])
    BY <1>1, <2>1, <2>2, <2>3 DEF Pending
  <2> QED
    BY <1>1, <1>2, <1>3, <2>2, <2>4, <2>5, <2>6 DEF Pending
<1> QED
  BY <1>5, <1>6

(* The functors the IO loop queues for itself.                               *)
LEMMA OwnFunctors ==
  ASSUME NEW name \in Owning
  PROVE  Functor(name) \in Functors /\ ~Sends(Functor(name))
<1>1. LoopUser \in Senders /\ 0 \in 0..MaxSends
  BY ConnectionAssumption DEF ConnectionAssumption, Senders
<1> QED
  BY <1>1 DEF Functor, Functors, Sends, Owning

(* sendInLoop(): whatever the kernel takes and whatever is buffered, what is *)
(* accepted is one message at the end of the stream, or nothing.             *)
LEMMA SendAppends ==
  ASSUME StreamTyped, Joined, InOrder, NEW s \in Senders, NEW no \in 1..MaxSends,
         \A i \in 1..Len(accepted) : accepted[i][1] = s => accepted[i][2] < no,
         sendInLoop(Bytes(s, no))
  PROVE  /\ out' \in Seq(AllBytes) /\ wire' \in Seq(AllBytes) /\ accepted' \in Seq(AllBytes)
         /\ Joined' /\ InOrder'
         /\ \A i \in 1..Len(accepted') :
               \/ i \in 1..Len(accepted) /\ accepted'[i] = accepted[i]
               \/ accepted'[i][1] = s /\ accepted'[i][2] = no
         /\ queue' = queue \/ \E name \in Owning : queue' = Append(queue, Functor(name))
<1> USE ConnectionAssumption DEF ConnectionAssumption
<1> DEFINE data == Bytes(s, no)
<1>0. out \in Seq(AllBytes) /\ wire \in Seq(AllBytes) /\ accepted \in Seq(AllBytes)
      /\ Len(accepted) \in Nat
  BY LenProperties DEF StreamTyped
<1>w. \A x, y \in Seq(AllBytes) : (wire \o x) \o y = wire \o (x \o y)
  <2>1. wire \in Seq(AllBytes)
    BY <1>0
  <2> QED
    BY <2>1, BytesAssociate
<1>1. /\ data \in Seq(AllBytes) /\ Len(data) = MsgLen
      /\ \A i \in 1..MsgLen : data[i] = <<s, no, i>>
  <2>1. \A i \in 1..MsgLen : <<s, no, i>> \in AllBytes
    BY DEF AllBytes
  <2>2. data \in [1..MsgLen -> AllBytes] /\ \A i \in 1..MsgLen : data[i] = <<s, no, i>>
    BY <2>1 DEF Bytes
  <2>3. data \in Seq(AllBytes)
    BY <2>2, SeqDef
  <2> QED
    BY <2>2, <2>3, LenProperties
<1>2. CASE UNCHANGED <<outVars, channelVars, queue>>
  BY <1>0, <1>2 DEF outVars, Joined, InOrder
<1>3. CASE \E n \in Written :
              LET rest == SubSeq(data, n + 1, MsgLen)
                  high == Len(out) + Len(rest) >= HighWater /\ Len(out) < HighWater
              IN  /\ accepted' = accepted \o data
                  /\ wire' = wire \o SubSeq(data, 1, n)
                  /\ \/ /\ rest = <<>>
                        /\ queue' = Append(queue, Functor("writeComplete"))
                        /\ UNCHANGED <<out, channelVars>>
                     \/ /\ rest # <<>>
                        /\ queue' = IF high THEN Append(queue, Functor("highWater")) ELSE queue
                        /\ Buffer(rest)
  <2>1. PICK n \in Written :
           /\ accepted' = accepted \o data
           /\ wire' = wire \o SubSeq(data, 1, n)
           /\ \/ SubSeq(data, n + 1, MsgLen) = <<>> /\ out' = out
              \/ SubSeq(data, n + 1, MsgLen) # <<>> /\ out' = out \o SubSeq(data, n + 1, MsgLen)
    BY <1>3 DEF Buffer
  <2>2. queue' = queue \/ \E name \in Owning : queue' = Append(queue, Functor(name))
    BY <1>3 DEF Owning
  <2> HIDE DEF data
  <2>3. n \in 0..Len(data) /\ (n = 0 \/ out = <<>>)
    BY <1>1, <2>1 DEF Written, TriesWrite
  <2> DEFINE front == SubSeq(data, 1, n)
             rest == SubSeq(data, n + 1, MsgLen)
  <2>4. /\ front \in Seq(AllBytes) /\ rest \in Seq(AllBytes) /\ front \o rest = data
        /\ Len(rest) = MsgLen - n
    BY <1>1, <2>3, CutAndJoin
  <2>5. out' = out \o rest
    BY <1>0, <2>1, ConcatEmptySeq
  <2>6. n = 0 => front = <<>>
    BY SubSeqEmpty
  <2> HIDE DEF front, rest
  <2>7. out \in Seq(AllBytes) /\ out' \in Seq(AllBytes) /\ wire' \in Seq(AllBytes)
        /\ wire' = wire \o front
    BY <1>0, <2>1, <2>4, <2>5, ConcatProperties DEF front
  <2>8. accepted' = (wire \o out) \o data
    BY <2>1 DEF Joined
  <2>9. Joined'
    <3>1. CASE out = <<>>
      <4>1. wire \o out = wire /\ out' = rest
        BY <1>0, <2>4, <2>5, <3>1, ConcatEmptySeq
      <4>2. accepted' = wire \o (front \o rest)
        BY <2>4, <2>8, <4>1
      <4>3. wire \o (front \o rest) = (wire \o front) \o rest
        <5>1. PICK x \in Seq(AllBytes), y \in Seq(AllBytes) : x = front /\ y = rest
          BY <2>4
        <5>2. (wire \o x) \o y = wire \o (x \o y)
          BY <1>w, Zenon
        <5> QED
          BY <5>1, <5>2
      <4> QED
        BY <2>7, <4>1, <4>2, <4>3 DEF Joined
    <3>2. CASE n = 0
      <4>1. front = <<>> /\ wire' = wire /\ data = rest
        BY <1>0, <2>4, <2>6, <2>7, <3>2, ConcatEmptySeq
      <4>2. (wire \o out) \o data = wire \o (out \o data)
        <5>1. PICK y \in Seq(AllBytes) : y = data
          BY <1>1
        <5>2. (wire \o out) \o y = wire \o (out \o y)
          BY <1>0, <1>w, Zenon
        <5> QED
          BY <5>1, <5>2
      <4> QED
        BY <2>5, <2>8, <4>1, <4>2 DEF Joined
    <3> QED
      BY <2>3, <3>1, <3>2
  <2>10. /\ accepted' \in Seq(AllBytes) /\ Len(accepted') = Len(accepted) + MsgLen
         /\ \A i \in 1..Len(accepted) + MsgLen :
               accepted'[i] = IF i <= Len(accepted) THEN accepted[i] ELSE data[i - Len(accepted)]
    BY <1>0, <1>1, <2>1, ConcatProperties
  <2>11. \A i \in 1..Len(accepted') :
            \/ i \in 1..Len(accepted) /\ accepted'[i] = accepted[i]
            \/ i > Len(accepted) /\ accepted'[i] = <<s, no, i - Len(accepted)>>
    <3> TAKE i \in 1..Len(accepted')
    <3>1. i <= Len(accepted) \/ i - Len(accepted) \in 1..MsgLen
      BY <1>0, <2>10
    <3> QED
      BY <1>0, <1>1, <2>10, <3>1
  <2>12. InOrder'
    <3> SUFFICES ASSUME NEW i \in 1..Len(accepted'), NEW j \in 1..Len(accepted'), i < j
                 PROVE  Follows(accepted'[i], accepted'[j])
      BY DEF InOrder
    <3>1. CASE j <= Len(accepted)
      <4>1. i \in 1..Len(accepted) /\ j \in 1..Len(accepted)
        BY <1>0, <3>1
      <4> QED
        BY <2>11, <4>1, <3>1 DEF InOrder
    <3>2. CASE j > Len(accepted) /\ i <= Len(accepted)
      <4>1. i \in 1..Len(accepted) /\ ~(j \in 1..Len(accepted)) /\ ~(i > Len(accepted))
        BY <1>0, <3>2
      <4>2. accepted'[j] = <<s, no, j - Len(accepted)>> /\ accepted'[i] = accepted[i]
        BY <2>11, <4>1
      <4> QED
        BY <4>1, <4>2 DEF Follows
    <3>3. CASE i > Len(accepted)
      <4>1. ~(i \in 1..Len(accepted)) /\ ~(j \in 1..Len(accepted))
        BY <1>0, <3>3
      <4>2. accepted'[i] = <<s, no, i - Len(accepted)>> /\ accepted'[j] = <<s, no, j - Len(accepted)>>
        BY <2>11, <4>1
      <4> QED
        BY <1>0, <4>2 DEF Follows
    <3> QED
      BY <1>0, <3>1, <3>2, <3>3
  <2>13. \A i \in 1..Len(accepted') :
            \/ i \in 1..Len(accepted) /\ accepted'[i] = accepted[i]
            \/ accepted'[i][1] = s /\ accepted'[i][2] = no
    BY <2>11
  <2> QED
    BY <2>2, <2>7, <2>9, <2>10, <2>12, <2>13
<1> QED
  BY <1>2, <1>3 DEF sendInLoop

(* The steps that touch neither the stream nor the counts, and queue at most *)
(* a functor of the IO loop's own.                                           *)
LEMMA QuietStep ==
  ASSUME SInv, UNCHANGED <<out, wire, accepted, sent, batch>>, Ready',
         tpc' \in [Users -> Ops \cup {"idle", "queueShutdown", "queueForceClose"}],
         queue' = queue \/ \E name \in Owning : queue' = Append(queue, Functor(name))
  PROVE  SInv'
<1>1. StreamTyped /\ Pending /\ Joined /\ InOrder /\ Counted
  BY DEF SInv
<1>2. \A f \in Functors : Waits(f) => Due(f)'
  <2> SUFFICES ASSUME NEW f \in Functors, Waits(f) PROVE Due(f)'
    OBVIOUS
  <2>1. Due(f)
    BY <1>1 DEF Waits, Pending
  <2> QED
    BY <2>1 DEF Due
<1>3. \A name \in Owning : Functor(name) \in Functors /\ Due(Functor(name))'
          /\ \A f \in Functors : Before(f, Functor(name))
  <2> TAKE name \in Owning
  <2>1. PICK g \in Functors : g = Functor(name) /\ ~Sends(g)
    BY OwnFunctors
  <2>2. Due(g)' /\ \A f \in Functors : Before(f, g)
    BY <2>1 DEF Due, Before
  <2> QED
    BY <2>1, <2>2
<1>4. /\ \A i \in 1..Len(queue) : queue[i] \in Functors
      /\ \A i \in 1..Len(batch) : batch[i] \in Functors
  BY <1>1 DEF StreamTyped
<1>5. Pending' /\ queue' \in Seq(Functors) /\ batch' \in Seq(Functors)
  BY <1>1, <1>2, <1>3, <1>4, PendingKept
<1>6. StreamTyped'
  BY <1>1, <1>5 DEF StreamTyped
<1>7. Joined' /\ InOrder' /\ Counted'
  BY <1>1 DEF Joined, InOrder, Counted
<1> QED
  BY <1>5, <1>6, <1>7 DEF SInv

(* Steps of the server, of the poller and of the handlers that leave the     *)
(* output alone.                                                             *)
LEMMA OtherStep ==
  ASSUME SInv,
         \/ newConnection \/ BaseRunsRemove \/ ServerDestructs \/ Poll \/ BeginEvent
         \/ HandleCloseEvent \/ HandleErrorEvent \/ HandleReadEvent \/ BatchDone
         \/ CallbackReturns \/ DelayExpires \/ LoopShutsDown \/ LoopForcesClose
         \/ LoopForcesCloseWithDelay \/ LoopStartsOrStopsRead \/ UserKeepsPointer
         \/ UserDropsPointer \/ PeerActs
  PROVE  SInv'
<1>1. StreamTyped /\ Ready
  BY DEF SInv
<1> DEFINE Quiet == /\ UNCHANGED <<out, wire, accepted, sent, batch, tpc>>
                    /\ queue' = queue \/ \E name \in Owning : queue' = Append(queue, Functor(name))
                    /\ \/ phase' = phase
                       \/ phase' # "functors" /\ (phase # "functors" \/ batch = <<>>)
<1>3. Quiet
  <2>1. CASE newConnection
    BY <2>1 DEF newConnection, socketVars, loopVars, userVars, Owning
  <2>2. CASE BaseRunsRemove
    BY <2>2 DEF BaseRunsRemove, removeConnectionInLoop, socketVars, loopVars, userVars, Owning
  <2>3. CASE ServerDestructs
    BY <2>3 DEF ServerDestructs, socketVars, loopVars, userVars, Owning
  <2>4. CASE Poll
    BY <2>4 DEF Poll, socketVars, userVars
  <2>5. CASE BeginEvent
    BY <2>5 DEF BeginEvent, socketVars, userVars
  <2>6. CASE HandleCloseEvent
    BY <2>6 DEF HandleCloseEvent, socketVars, userVars
  <2>7. CASE HandleErrorEvent
    BY <2>7 DEF HandleErrorEvent, userVars
  <2>8. CASE HandleReadEvent
    BY <2>8 DEF HandleReadEvent, userVars
  <2>9. CASE BatchDone
    BY <2>9 DEF BatchDone, socketVars, userVars
  <2>10. CASE CallbackReturns
    BY <2>10 DEF CallbackReturns, removeConnection, removeConnectionInLoop, socketVars,
                 loopVars, userVars, Owning
  <2>11. CASE DelayExpires
    BY <2>11 DEF DelayExpires, socketVars, loopVars, userVars, Owning
  <2>12. CASE LoopShutsDown
    BY <2>12 DEF LoopShutsDown, outVars, loopVars, userVars
  <2>13. CASE LoopForcesClose
    BY <2>13 DEF LoopForcesClose, socketVars, loopVars, userVars, Owning
  <2>14. CASE LoopForcesCloseWithDelay
    BY <2>14 DEF LoopForcesCloseWithDelay, socketVars, loopVars, userVars
  <2>15. CASE LoopStartsOrStopsRead
    BY <2>15 DEF LoopStartsOrStopsRead, socketVars, loopVars, userVars
  <2>16. CASE UserKeepsPointer \/ UserDropsPointer
    BY <2>16 DEF UserKeepsPointer, UserDropsPointer, socketVars, loopVars
  <2>17. CASE PeerActs
    BY <2>17 DEF PeerActs, loopVars, userVars
  <2> QED
    BY <2>1, <2>2, <2>3, <2>4, <2>5, <2>6, <2>7, <2>8, <2>9, <2>10, <2>11, <2>12, <2>13,
       <2>14, <2>15, <2>16, <2>17
<1>4. Ready'
  BY <1>1, <1>3 DEF Ready
<1> QED
  BY <1>1, <1>3, <1>4, QuietStep DEF StreamTyped

(* A thread enters a call, or sets state_ in it.                             *)
LEMMA UserStep ==
  ASSUME SInv, NEW u \in Users,
         (\E op \in Ops : UserChecks(u, op)) \/ UserSetsState(u)
  PROVE  SInv'
<1>1. tpc \in [Users -> Ops \cup {"idle", "queueShutdown", "queueForceClose"}] /\ Ready
  BY DEF SInv, StreamTyped
<1>2. CASE \E op \in Ops : UserChecks(u, op)
  <2>1. PICK op \in Ops : UserChecks(u, op)
    BY <1>2
  <2>2. /\ tpc' = [tpc EXCEPT ![u] = op] /\ (op = "send" => sent[u] < MaxSends)
        /\ UNCHANGED <<out, wire, accepted, sent, batch, queue, phase>>
    BY <2>1 DEF UserChecks, socketVars, loopVars
  <2>3. Ready' /\ tpc' \in [Users -> Ops \cup {"idle", "queueShutdown", "queueForceClose"}]
    BY <1>1, <2>2 DEF Ready
  <2> QED
    BY <2>2, <2>3, QuietStep
<1>3. CASE UserSetsState(u)
  <2>2. /\ tpc' = [tpc EXCEPT ![u] = IF @ = "shutdown" THEN "queueShutdown" ELSE "queueForceClose"]
        /\ UNCHANGED <<out, wire, accepted, sent, batch, queue, phase>>
    BY <1>3 DEF UserSetsState, socketVars, loopVars
  <2>3. Ready' /\ tpc' \in [Users -> Ops \cup {"idle", "queueShutdown", "queueForceClose"}]
    BY <1>1, <2>2 DEF Ready
  <2> QED
    BY <2>2, <2>3, QuietStep
<1> QED
  BY <1>2, <1>3

(* handleWrite(): the kernel takes the front of the output buffer.           *)
LEMMA HandleWriteStep == SInv /\ HandleWriteEvent => SInv'
<1> SUFFICES ASSUME SInv, HandleWriteEvent PROVE SInv'
  OBVIOUS
<1>0. StreamTyped /\ Ready /\ Joined
      /\ out \in Seq(AllBytes) /\ wire \in Seq(AllBytes) /\ Len(out) \in Nat
  BY LenProperties DEF SInv, StreamTyped
<1>1. UNCHANGED <<accepted, sent, batch, phase, tpc>>
  BY DEF HandleWriteEvent, userVars
<1>2. queue' = queue \/ queue' = Append(queue, Functor("writeComplete"))
  BY DEF HandleWriteEvent, Drained
<1>a. wire \in Seq(AllBytes)
  BY <1>0
<1>3. /\ wire' \in Seq(AllBytes) /\ out' \in Seq(AllBytes) /\ wire' \o out' = wire \o out
  <2>1. CASE UNCHANGED <<wire, out>>
    BY <1>0, <2>1
  <2>2. CASE \E n \in 1..Len(out) : /\ wire' = wire \o SubSeq(out, 1, n)
                                    /\ out' = SubSeq(out, n + 1, Len(out))
    <3>1. PICK n \in 1..Len(out) : /\ wire' = wire \o SubSeq(out, 1, n)
                                   /\ out' = SubSeq(out, n + 1, Len(out))
      BY <2>2
    <3>2. n \in 0..Len(out)
      BY <1>0
    <3>3. /\ SubSeq(out, 1, n) \in Seq(AllBytes) /\ SubSeq(out, n + 1, Len(out)) \in Seq(AllBytes)
          /\ SubSeq(out, 1, n) \o SubSeq(out, n + 1, Len(out)) = out
      BY <1>0, <3>2, CutAndJoin
    <3>4. PICK x \in Seq(AllBytes), y \in Seq(AllBytes) :
             x = SubSeq(out, 1, n) /\ y = SubSeq(out, n + 1, Len(out))
      BY <3>3
    <3>5. (wire \o x) \o y = wire \o (x \o y)
      BY <1>a, BytesAssociate, Zenon
    <3>6. wire \o x \in Seq(AllBytes)
      BY <1>0, ConcatProperties
    <3> QED
      BY <3>1, <3>3, <3>4, <3>5, <3>6
  <2> QED
    BY <2>1, <2>2 DEF HandleWriteEvent
<1>4. Joined'
  BY <1>0, <1>1, <1>3 DEF Joined
<1>5. Pending' /\ queue' \in Seq(Functors) /\ batch' \in Seq(Functors)
  <2>1. \A f \in Functors : Waits(f) => Due(f)'
    <3> SUFFICES ASSUME NEW f \in Functors, Waits(f) PROVE Due(f)'
      OBVIOUS
    <3>1. Due(f)
      BY DEF Waits, Pending, SInv
    <3> QED
      BY <1>1, <3>1 DEF Due
  <2>2. PICK g \in Functors : g = Functor("writeComplete") /\ ~Sends(g)
    BY OwnFunctors DEF Owning
  <2>3. Due(g)' /\ (\A i \in 1..Len(queue) : Before(queue[i], g))
        /\ (\A i \in 1..Len(batch) : Before(batch[i], g))
    BY <2>2 DEF Due, Before
  <2> QED
    BY <1>0, <1>1, <1>2, <2>1, <2>2, <2>3, PendingKept DEF SInv
<1>6. StreamTyped' /\ Ready' /\ InOrder' /\ Counted'
  BY <1>0, <1>1, <1>3, <1>5 DEF SInv, StreamTyped, Ready, InOrder, Counted
<1> QED
  BY <1>4, <1>5, <1>6 DEF SInv

(* doPendingFunctors() swaps the vectors.                                    *)
LEMMA SwapStep == SInv /\ Swap => SInv'
<1> SUFFICES ASSUME SInv, Swap PROVE SInv'
  OBVIOUS
<1>1. /\ batch' = queue /\ queue' = <<>> /\ phase' = "functors"
      /\ UNCHANGED <<out, wire, accepted, sent, tpc>>
  BY DEF Swap, socketVars, userVars
<1>2. StreamTyped' /\ Ready' /\ Joined' /\ InOrder' /\ Counted'
  BY <1>1 DEF SInv, StreamTyped, Ready, Joined, InOrder, Counted
<1>3. \A i \in 1..Len(batch') : Due(batch[i])'
  <2> TAKE i \in 1..Len(batch')
  <2>1. Due(queue[i]) /\ batch'[i] = queue[i]
    BY <1>1 DEF SInv, Pending
  <2> QED
    BY <1>1, <2>1 DEF Due
<1>4. Pending'
  BY <1>1, <1>3 DEF SInv, Pending, Ascending
<1> QED
  BY <1>2, <1>4 DEF SInv

(* The first functor of the batch is run; if it is a send its message comes  *)
(* next in the stream of its thread.                                         *)
LEMMA RunFunctorStep == SInv /\ RunFunctor => SInv'
<1> SUFFICES ASSUME SInv, RunFunctor PROVE SInv'
  OBVIOUS
<1>0. StreamTyped /\ Ready /\ Joined /\ InOrder /\ Counted /\ Pending
  BY DEF SInv
<1>1. /\ batch # <<>> /\ batch' = Tail(batch) /\ phase = "functors"
      /\ UNCHANGED <<phase, tpc, sent>>
  BY DEF RunFunctor, userVars
<1>2. /\ batch \in Seq(Functors) /\ Len(batch) \in Nat \ {0} /\ Head(batch) = batch[1]
      /\ Len(batch') = Len(batch) - 1 /\ 1 \in 1..Len(batch) /\ batch[1] \in Functors
  <2>1. batch \in Seq(Functors) /\ Len(batch) \in Nat \ {0}
    BY <1>0, <1>1, EmptySeq DEF StreamTyped
  <2>2. Len(batch') = Len(batch) - 1
    BY <1>1, <2>1, HeadTailProperties
  <2> QED
    BY <2>1, <2>2
<1>3. batch' # batch
  BY <1>2
<1>4. PICK f \in Functors : f = batch[1]
  BY <1>2
<1>5. Due(f)
  BY <1>0, <1>2, <1>4 DEF Pending
<1>6. ASSUME NEW g \in Functors, Waits(g) PROVE Due(g) /\ Before(f, g)
  <2>1. CASE \E i \in 1..Len(queue) : queue[i] = g
    BY <1>0, <1>2, <1>4, <2>1 DEF Pending
  <2>2. CASE \E i \in 1..Len(batch) : batch[i] = g /\ i > 1
    BY <1>0, <1>2, <1>4, <2>2 DEF Pending, Ascending
  <2> QED
    BY <1>3, <1>6, <2>1, <2>2 DEF Waits
<1>7. ASSUME NEW name \in Owning
      PROVE  Functor(name) \in Functors /\ Due(Functor(name))'
             /\ \A g \in Functors : Before(g, Functor(name))
  <2>1. PICK g \in Functors : g = Functor(name) /\ ~Sends(g)
    BY OwnFunctors
  <2>2. Due(g)' /\ \A h \in Functors : Before(h, g)
    BY <2>1 DEF Due, Before
  <2> QED
    BY <2>1, <2>2
<1>8. /\ \A i \in 1..Len(queue) : queue[i] \in Functors
      /\ \A i \in 1..Len(batch) : batch[i] \in Functors
  BY <1>0 DEF StreamTyped
<1>9. CASE UNCHANGED <<out, wire, accepted, queue>>
  <2>1. \A g \in Functors : Waits(g) => Due(g)'
    <3> SUFFICES ASSUME NEW g \in Functors, Waits(g) PROVE Due(g)'
      OBVIOUS
    <3>1. Due(g)
      BY <1>6
    <3> QED
      BY <1>1, <1>9, <3>1 DEF Due
  <2>2. Pending' /\ queue' \in Seq(Functors) /\ batch' \in Seq(Functors)
    BY <1>0, <1>1, <1>9, <2>1, PendingKept
  <2>3. StreamTyped' /\ Ready' /\ Joined' /\ InOrder' /\ Counted'
    BY <1>0, <1>1, <1>9, <2>2 DEF StreamTyped, Ready, Joined, InOrder, Counted
  <2> QED
    BY <2>2, <2>3 DEF SInv
<1>10. CASE f.name = "send" /\ sendInLoop(Bytes(f.by, f.no))
  <2>1. /\ f.by \in Users /\ f.by \in Senders /\ f.no \in 1..MaxSends /\ f.no <= sent[f.by]
        /\ \A i \in 1..Len(accepted) : accepted[i][1] = f.by => accepted[i][2] < f.no
    BY <1>5, <1>10 DEF Due, Sends, Functors, Senders
  <2>2. /\ out' \in Seq(AllBytes) /\ wire' \in Seq(AllBytes) /\ accepted' \in Seq(AllBytes)
        /\ Joined' /\ InOrder'
        /\ \A i \in 1..Len(accepted') :
              \/ i \in 1..Len(accepted) /\ accepted'[i] = accepted[i]
              \/ accepted'[i][1] = f.by /\ accepted'[i][2] = f.no
        /\ queue' = queue \/ \E name \in Owning : queue' = Append(queue, Functor(name))
    BY <1>0, <1>10, <2>1, SendAppends
  <2>3. \A g \in Functors : Waits(g) => Due(g)'
    <3> SUFFICES ASSUME NEW g \in Functors, Waits(g) PROVE Due(g)'
      OBVIOUS
    <3>1. Due(g) /\ Before(f, g)
      BY <1>6
    <3> QED
      BY <1>1, <1>10, <2>2, <3>1 DEF Due, Before, Sends
  <2>4. Pending' /\ queue' \in Seq(Functors) /\ batch' \in Seq(Functors)
    BY <1>0, <1>1, <1>7, <1>8, <2>2, <2>3, PendingKept
  <2>5. Counted'
    BY <1>0, <1>1, <2>1, <2>2 DEF Counted
  <2>6. StreamTyped' /\ Ready'
    BY <1>0, <1>1, <2>2, <2>4 DEF StreamTyped, Ready
  <2> QED
    BY <2>2, <2>4, <2>5, <2>6 DEF SInv
<1>11. UNCHANGED <<out, wire, accepted, queue>> \/ (f.name = "send" /\ sendInLoop(Bytes(f.by, f.no)))
  <2>1. CASE Dead
    BY <2>1 DEF RunFunctor, outVars
  <2>2. CASE ~Dead
    <3>1. FunctorBody(f)
      BY <1>2, <1>4, <2>2 DEF RunFunctor
    <3> QED
      BY <3>1 DEF FunctorBody, outVars
  <2> QED
    BY <2>1, <2>2
<1> QED
  BY <1>9, <1>10, <1>11

(* send() on the loop.                                                       *)
LEMMA LoopSendsStep == SInv /\ LoopSends => SInv'
<1> SUFFICES ASSUME SInv, LoopSends PROVE SInv'
  OBVIOUS
<1> USE ConnectionAssumption DEF ConnectionAssumption
<1>0. StreamTyped /\ Ready /\ Joined /\ InOrder /\ Counted /\ Pending
  BY DEF SInv
<1>1. PICK no \in 1..MaxSends : no = sent[LoopUser] + 1
  BY <1>0 DEF LoopSends, StreamTyped, Senders
<1>2. /\ sent' = [sent EXCEPT ![LoopUser] = no] /\ sendInLoop(Bytes(LoopUser, no))
      /\ UNCHANGED <<batch, phase, tpc>>
  BY <1>1 DEF LoopSends, loopVars, userVars
<1>3. /\ LoopUser \in Senders /\ sent'[LoopUser] = no
      /\ \A s \in Senders \ {LoopUser} : sent'[s] = sent[s]
      /\ sent' \in [Senders -> 0..MaxSends]
      /\ \A i \in 1..Len(accepted) : accepted[i] \in AllBytes
  BY <1>0, <1>2 DEF StreamTyped, Senders
<1>4. \A i \in 1..Len(accepted) :
         /\ accepted[i][1] = LoopUser => accepted[i][2] < no
         /\ accepted[i][2] <= sent'[accepted[i][1]]
  <2> TAKE i \in 1..Len(accepted)
  <2>1. accepted[i][1] \in Senders /\ accepted[i][2] \in Nat /\ sent[LoopUser] \in Nat
    <3>1. accepted[i] \in AllBytes /\ sent[LoopUser] \in 0..MaxSends
      BY <1>0, <1>3 DEF StreamTyped
    <3> QED
      BY <3>1 DEF AllBytes
  <2>2. accepted[i][2] <= sent[accepted[i][1]]
    BY <1>0 DEF Counted
  <2> QED
    BY <1>1, <1>3, <2>1, <2>2
<1>5. /\ out' \in Seq(AllBytes) /\ wire' \in Seq(AllBytes) /\ accepted' \in Seq(AllBytes)
      /\ Joined' /\ InOrder'
      /\ \A i \in 1..Len(accepted') :
            \/ i \in 1..Len(accepted) /\ accepted'[i] = accepted[i]
            \/ accepted'[i][1] = LoopUser /\ accepted'[i][2] = no
      /\ queue' = queue \/ \E name \in Owning : queue' = Append(queue, Functor(name))
  BY <1>0, <1>2, <1>3, <1>4, SendAppends
<1>6. \A g \in Functors : Waits(g) => Due(g)'
  <2> SUFFICES ASSUME NEW g \in Functors, Waits(g) PROVE Due(g)'
    OBVIOUS
  <2>1. Due(g)
    BY <1>0 DEF Waits, Pending
  <2>2. Sends(g) => g.by \in Senders \ {LoopUser}
    BY <2>1 DEF Due, Senders
  <2> QED
    BY <1>3, <1>5, <2>1, <2>2 DEF Due
<1>7. ASSUME NEW name \in Owning
      PROVE  Functor(name) \in Functors /\ Due(Functor(name))'
             /\ \A g \in Functors : Before(g, Functor(name))
  <2>1. PICK g \in Functors : g = Functor(name) /\ ~Sends(g)
    BY OwnFunctors
  <2>2. Due(g)' /\ \A h \in Functors : Before(h, g)
    BY <2>1 DEF Due, Before
  <2> QED
    BY <2>1, <2>2
<1>8. /\ \A i \in 1..Len(queue) : queue[i] \in Functors
      /\ \A i \in 1..Len(batch) : batch[i] \in Functors
  BY <1>0 DEF StreamTyped
<1>9. Pending' /\ queue' \in Seq(Functors) /\ batch' \in Seq(Functors)
  BY <1>0, <1>2, <1>5, <1>6, <1>7, <1>8, PendingKept
<1>10. Counted'
  BY <1>3, <1>4, <1>5 DEF Counted
<1>11. StreamTyped'
  BY <1>0, <1>2, <1>3, <1>5, <1>9 DEF StreamTyped
<1>12. Ready'
  <2>1. \A u \in Users : sent'[u] = sent[u]
    BY <1>3 DEF Senders
  <2> QED
    BY <1>0, <1>2, <2>1 DEF Ready
<1> QED
  BY <1>5, <1>9, <1>10, <1>11, <1>12 DEF SInv

(* A call on another thread queues its functor; send() counts its message.   *)
LEMMA UserQueuesStep ==
  ASSUME SInv, NEW u \in Users, UserQueues(u)
  PROVE  SInv'
<1> USE ConnectionAssumption DEF ConnectionAssumption
<1>0. StreamTyped /\ Ready /\ Joined /\ InOrder /\ Counted /\ Pending
  BY DEF SInv
<1>1. /\ tpc[u] \in DOMAIN Queues
      /\ sent' = IF tpc[u] = "send" THEN [sent EXCEPT ![u] = @ + 1] ELSE sent
      /\ queue' = Append(queue, [name |-> Queues[tpc[u]], by |-> u, no |-> sent'[u]])
      /\ tpc' = [tpc EXCEPT ![u] = "idle"]
      /\ UNCHANGED <<out, wire, accepted, batch, phase>>
  BY DEF UserQueues, socketVars, loopVars
<1>2. tpc[u] \in {"send", "startRead", "stopRead", "queueShutdown", "queueForceClose"}
  BY <1>1 DEF Queues
<1>3. /\ u \in Senders /\ sent[u] \in 0..MaxSends
      /\ tpc[u] = "send" => sent[u] + 1 \in 0..MaxSends
  BY <1>0 DEF StreamTyped, Senders, Ready
<1>4. /\ sent' \in [Senders -> 0..MaxSends] /\ sent'[u] \in 0..MaxSends
      /\ tpc[u] = "send" => sent'[u] = sent[u] + 1
      /\ \A s \in Senders \ {u} : sent'[s] = sent[s]
      /\ \A s \in Senders : sent[s] <= sent'[s] /\ sent[s] \in Nat /\ sent'[s] \in Nat
  <2>1. CASE tpc[u] = "send"
    <3>1. sent' = [sent EXCEPT ![u] = sent[u] + 1]
      BY <1>1, <2>1
    <3> QED
      BY <1>0, <1>3, <2>1, <3>1 DEF StreamTyped
  <2>2. CASE tpc[u] # "send"
    BY <1>0, <1>1, <1>3, <2>2 DEF StreamTyped
  <2> QED
    BY <2>1, <2>2
<1>5. /\ Queues[tpc[u]] \in {"send", "startRead", "stopRead", "shutdown", "forceClose"}
      /\ Queues[tpc[u]] = "send" <=> tpc[u] = "send"
  BY <1>2 DEF Queues
<1>6. PICK g \in Functors : g = [name |-> Queues[tpc[u]], by |-> u, no |-> sent'[u]]
  BY <1>3, <1>4, <1>5 DEF Functors, Owning, Ops
<1>7. ASSUME NEW f \in Functors, Waits(f) PROVE Due(f)' /\ Before(f, g)
  <2>1. Due(f)
    BY <1>0, <1>7 DEF Waits, Pending
  <2>2. f.no \in Nat
    BY DEF Functors
  <2>3. Due(f)'
    <3>1. Sends(f) => f.by \in Users /\ f.by \in Senders /\ f.no >= 1 /\ f.no <= sent[f.by]
      BY <2>1 DEF Due, Senders
    <3>2. Sends(f) => f.no <= sent'[f.by]
      BY <1>4, <2>2, <3>1
    <3> QED
      BY <1>1, <2>1, <3>1, <3>2 DEF Due
  <2>4. Before(f, g)
    <3>1. Sends(g) => g.by = u /\ g.no = sent[u] + 1
      BY <1>4, <1>5, <1>6 DEF Sends
    <3>2. Sends(f) => f.no <= sent[f.by]
      BY <2>1 DEF Due
    <3> QED
      BY <1>3, <2>2, <3>1, <3>2 DEF Before
  <2> QED
    BY <2>3, <2>4
<1>8. \A i \in 1..Len(accepted) :
         /\ accepted[i][1] \in Senders /\ accepted[i][2] \in Nat
         /\ accepted[i][2] <= sent[accepted[i][1]]
  <2> TAKE i \in 1..Len(accepted)
  <2>1. accepted[i] \in AllBytes
    BY <1>0 DEF StreamTyped
  <2> QED
    BY <1>0, <2>1 DEF AllBytes, Counted
<1>9. Due(g)'
  <2>1. CASE tpc[u] = "send"
    <3>1. g.by = u /\ g.no = sent[u] + 1 /\ g.no = sent'[u]
      BY <1>4, <1>6, <2>1
    <3>2. \A i \in 1..Len(accepted) : accepted[i][1] = u => accepted[i][2] < sent[u] + 1
      BY <1>3, <1>8
    <3> QED
      BY <1>1, <1>3, <3>1, <3>2 DEF Due
  <2>2. CASE tpc[u] # "send"
    BY <1>5, <1>6, <2>2 DEF Due, Sends
  <2> QED
    BY <2>1, <2>2
<1>10. /\ \A i \in 1..Len(queue) : queue[i] \in Functors /\ Waits(queue[i])
       /\ \A i \in 1..Len(batch) : batch[i] \in Functors /\ Waits(batch[i])
  BY <1>0, <1>1 DEF StreamTyped, Waits
<1>11. Pending' /\ queue' \in Seq(Functors) /\ batch' \in Seq(Functors)
  BY <1>0, <1>1, <1>6, <1>7, <1>9, <1>10, PendingKept
<1>12. Counted'
  BY <1>1, <1>4, <1>8 DEF Counted
<1>13. Ready'
  <2>1. ASSUME NEW v \in Users, tpc'[v] = "send" PROVE sent'[v] < MaxSends
    <3>1. v # u /\ tpc[v] = "send"
      BY <1>0, <1>1, <2>1 DEF StreamTyped
    <3>2. sent'[v] = sent[v]
      BY <1>4, <3>1 DEF Senders
    <3> QED
      BY <1>0, <3>1, <3>2 DEF Ready
  <2> QED
    BY <1>0, <1>1, <2>1 DEF Ready
<1>14. StreamTyped' /\ Joined' /\ InOrder'
  BY <1>0, <1>1, <1>4, <1>11 DEF StreamTyped, Joined, InOrder
<1> QED
  BY <1>11, <1>12, <1>13, <1>14 DEF SInv

-----------------------------------------------------------------------------
(* The order of accepted bytes and of the functors that wait is kept.        *)
THEOREM StreamInvariant == Spec => []SInv
<1>1. Init => SInv
  <2> SUFFICES ASSUME Init PROVE SInv
    OBVIOUS
  <2>1. StreamTyped
    BY ConnectionAssumption DEF ConnectionAssumption, Init, StreamTyped
  <2>2. Joined
    BY DEF Init, Joined
  <2>3. Ready /\ InOrder /\ Counted /\ Pending
    BY DEF Init, Ready, InOrder, Counted, Pending, Ascending
  <2> QED
    BY <2>1, <2>2, <2>3 DEF SInv
<1>2. SInv /\ [Next]_vars => SInv'
  <2> SUFFICES ASSUME SInv, [Next]_vars PROVE SInv'
    OBVIOUS
  <2>1. CASE UNCHANGED vars
    <3>1. /\ UNCHANGED <<out, wire, accepted, sent, batch, queue, phase, tpc>>
      BY <2>1 DEF vars
    <3>2. Ready' /\ tpc' \in [Users -> Ops \cup {"idle", "queueShutdown", "queueForceClose"}]
      BY <3>1 DEF SInv, StreamTyped, Ready
    <3> QED
      BY <3>1, <3>2, QuietStep
  <2>2. CASE Next
    <3>1. ASSUME NEW u \in Users,
                 (\E op \in Ops : UserChecks(u, op)) \/ UserSetsState(u) \/ UserQueues(u)
          PROVE  SInv'
      BY <3>1, UserStep, UserQueuesStep
    <3> QED
      BY <2>2, <3>1, OtherStep, HandleWriteStep, SwapStep, RunFunctorStep, LoopSendsStep
         DEF Next, LoopStep, LoopUserStep
  <2> QED
    BY <2>1, <2>2
<1> QED
  BY <1>1, <1>2, PTL DEF Spec

(* What the kernel took and what waits in the output buffer are what was     *)
(* accepted, and each thread's messages keep their order, also when threads  *)
(* race with shutdown, with a forced close and with the server's destructor. *)
THEOREM BytesKeepTheirOrder == Spec => []StreamInOrder
<1>1. SInv => StreamInOrder
  <2> SUFFICES ASSUME SInv PROVE StreamInOrder
    OBVIOUS
  <2>1. accepted \in Seq(AllBytes) /\ DOMAIN accepted = 1..Len(accepted)
    BY LenProperties DEF SInv, StreamTyped
  <2> QED
    BY <2>1 DEF SInv, StreamInOrder, Joined, InOrder, Follows
<1> QED
  BY <1>1, StreamInvariant, PTL
-----------------------------------------------------------------------------
(* The life of a connection whose users keep to the rules the code needs.    *)

(* Other threads only send and keep their pointer until that has run; the    *)
(* loop's user code leaves reading alone; the server stays.                  *)
Disciplined ==
    /\ CrossOps \subseteq {"send"} /\ KeepsRef = TRUE /\ ServerDtor = FALSE
    /\ LoopOps \cap {"startRead", "stopRead"} = {}

(* How often a functor of a name waits.                                      *)
Lacks(q, name) == \A i \in 1..Len(q) : q[i].name # name
HoldsOne(q, name) ==
    \E i \in 1..Len(q) : q[i].name = name /\ \A j \in 1..Len(q) : q[j].name = name => j = i
Polite(q) == \A i \in 1..Len(q) : q[i].name \in Owning \cup {"send"}

(* The handlers that can end in handleClose().                               *)
Closers == {"close", "read"}
NoCloser(t) == \A i \in 1..Len(t) : t[i] \notin Closers
OneCloser(t) == \A i, j \in 1..Len(t) : t[i] \in Closers /\ t[j] \in Closers => i = j

(* The types of everything but the stream.                                   *)
Shape ==
    /\ inMap \in BOOLEAN /\ created \in BOOLEAN /\ baseQueue \in 0..1
    /\ st \in States /\ reading \in BOOLEAN /\ ev \in Interests /\ index \in Indices
    /\ delayed \in BOOLEAN /\ shutWr \in BOOLEAN /\ inData \in BOOLEAN /\ peerFin \in BOOLEAN
    /\ rst \in {"no", "err", "eof"} /\ batchRef \in BOOLEAN
    /\ phase \in {"poll", "reported", "event", "functors"}
    /\ todo \in Seq({"close", "error", "read", "write"})
    /\ cb \in {"none", "up", "message", "down", "note"}
    /\ held \in BOOLEAN /\ ups \in Nat /\ downs \in Nat

(* No assert has fired, and the server is there.                             *)
Quiet == failed = {} /\ server = TRUE

(* Whoever waits to use the connection refers to it: a thread inside send()  *)
(* and a queued send() have the user's pointer, the other functors their own.*)
Bound ==
    /\ Polite(queue) /\ Polite(batch)
    /\ \A u \in Users : tpc[u] # "idle" => tpc[u] = "send" /\ held = TRUE
    /\ FromUsers(queue) \/ FromUsers(batch) => held = TRUE
    /\ Owns(batch) => batchRef = TRUE

(* One event closes the connection at most once.                             *)
Handlers ==
    /\ phase \in {"poll", "functors"} => todo = <<>>
    /\ OneCloser(todo)

(* The stages of the connection.                                             *)
Untouched ==
    /\ ev = {} /\ index = "new" /\ out = <<>> /\ shutWr = FALSE /\ cb = "none" /\ held = FALSE
    /\ todo = <<>> /\ baseQueue = 0 /\ ups = 0 /\ downs = 0
Fresh ==
    created = FALSE => /\ Untouched /\ st = "kConnecting" /\ inMap = FALSE
                       /\ queue = <<>> /\ batch = <<>> /\ phase = "poll"
Opening ==
    created = TRUE /\ st = "kConnecting" =>
        /\ Untouched /\ inMap = TRUE
        /\ \/ phase = "poll" /\ queue = <<Functor("established")>> /\ batch = <<>>
           \/ phase = "functors" /\ queue = <<>> /\ batch = <<Functor("established")>>
Started ==
    st # "kConnecting" =>
        created = TRUE /\ Lacks(queue, "established") /\ Lacks(batch, "established")
Up ==
    st \in {"kConnected", "kDisconnecting"} =>
        /\ inMap = TRUE /\ baseQueue = 0 /\ cb # "down" /\ ups = 1 /\ downs = 0
        /\ "r" \in ev /\ index = "added" /\ (isWriting(ev) <=> out # <<>>)
        /\ Lacks(queue, "destroyed") /\ Lacks(batch, "destroyed")

(* Down: the callback runs; the base loop has the removal; connectDestroyed  *)
(* waits, in the queue or in the batch; it has run.                          *)
NotQueued == Lacks(queue, "destroyed") /\ Lacks(batch, "destroyed")
QueuedOnce ==
    \/ HoldsOne(queue, "destroyed") /\ Lacks(batch, "destroyed")
    \/ HoldsOne(batch, "destroyed") /\ Lacks(queue, "destroyed")
Announced == cb = "down" /\ inMap = TRUE /\ baseQueue = 0 /\ index = "deleted" /\ NotQueued
Posted == cb # "down" /\ inMap = TRUE /\ baseQueue = 1 /\ index = "deleted" /\ NotQueued
Erased == cb # "down" /\ inMap = FALSE /\ baseQueue = 0 /\ index = "deleted" /\ QueuedOnce
Removed == cb # "down" /\ inMap = FALSE /\ baseQueue = 0 /\ index = "new" /\ NotQueued
Down ==
    st = "kDisconnected" =>
        /\ ev = {} /\ ups = 1 /\ downs = 1 /\ NoCloser(todo) /\ phase # "reported"
        /\ Announced \/ Posted \/ Erased \/ Removed

Stage == Fresh /\ Opening /\ Started /\ Up /\ Down
LInv == Shape /\ Quiet /\ Bound /\ Handlers /\ Stage /\ HalfCloseFlushes

-----------------------------------------------------------------------------
(* What queueing a functor changes.                                          *)
LEMMA AppendFacts ==
  ASSUME NEW q \in Seq(Functors), NEW f \in Functors
  PROVE  /\ \A n : Lacks(q, n) /\ f.name # n => Lacks(Append(q, f), n)
         /\ \A n : Lacks(q, n) /\ f.name = n => HoldsOne(Append(q, f), n)
         /\ \A n : HoldsOne(q, n) /\ f.name # n => HoldsOne(Append(q, f), n)
         /\ Polite(q) /\ f.name \in Owning \cup {"send"} => Polite(Append(q, f))
         /\ FromUsers(Append(q, f)) => FromUsers(q) \/ f.name \notin Owning
         /\ Owns(q) => Owns(Append(q, f))
<1> DEFINE r == Append(q, f)
<1>1. /\ Len(q) \in Nat /\ Len(r) = Len(q) + 1 /\ r[Len(q) + 1] = f
      /\ \A i \in 1..Len(q) : r[i] = q[i] /\ i \in 1..Len(r)
      /\ \A i \in 1..Len(r) : i \in 1..Len(q) \/ i = Len(q) + 1
      /\ Len(q) + 1 \in 1..Len(r) /\ Len(q) + 1 \notin 1..Len(q)
      /\ DOMAIN q = 1..Len(q) /\ DOMAIN r = 1..Len(r)
  BY AppendProperties, LenProperties
<1> HIDE DEF r
<1>2. ASSUME NEW n PROVE /\ Lacks(q, n) /\ f.name # n => Lacks(r, n)
                         /\ Lacks(q, n) /\ f.name = n => HoldsOne(r, n)
                         /\ HoldsOne(q, n) /\ f.name # n => HoldsOne(r, n)
  <2>1. Lacks(q, n) /\ f.name # n => Lacks(r, n)
    BY <1>1, Zenon DEF Lacks
  <2>2. Lacks(q, n) /\ f.name = n => HoldsOne(r, n)
    BY <1>1, Zenon DEF Lacks, HoldsOne
  <2>3. HoldsOne(q, n) /\ f.name # n => HoldsOne(r, n)
    BY <1>1, Zenon DEF HoldsOne
  <2> QED
    BY <2>1, <2>2, <2>3, Zenon
<1>3. /\ Polite(q) /\ f.name \in Owning \cup {"send"} => Polite(r)
      /\ FromUsers(r) => FromUsers(q) \/ f.name \notin Owning
      /\ Owns(q) => Owns(r)
  BY <1>1 DEF Polite, FromUsers, Owns
<1> QED
  BY <1>2, <1>3 DEF r

(* What taking the first functor changes.                                    *)
LEMMA TailFacts ==
  ASSUME NEW q \in Seq(Functors), q # <<>>
  PROVE  /\ Head(q) \in Functors
         /\ \A n : Lacks(q, n) => Lacks(Tail(q), n) /\ Head(q).name # n
         /\ \A n : HoldsOne(q, n) /\ Head(q).name = n => Lacks(Tail(q), n)
         /\ \A n : HoldsOne(q, n) /\ Head(q).name # n => HoldsOne(Tail(q), n)
         /\ Polite(q) => Polite(Tail(q)) /\ Head(q).name \in Owning \cup {"send"}
         /\ FromUsers(Tail(q)) => FromUsers(q)
         /\ Head(q).name \notin Owning => FromUsers(q)
         /\ Owns(Tail(q)) => Owns(q)
         /\ Owns(q) \/ FromUsers(q)
<1> DEFINE r == Tail(q)
           h == Head(q)
<1>1. /\ Len(q) \in Nat /\ Len(q) >= 1 /\ Len(r) = Len(q) - 1 /\ h = q[1] /\ h \in Functors
      /\ \A i \in 1..Len(r) : r[i] = q[i + 1]
      /\ DOMAIN q = 1..Len(q) /\ DOMAIN r = 1..Len(r)
  BY HeadTailProperties, LenProperties, EmptySeq
<1> HIDE DEF r, h
<1>2. /\ \A i \in 1..Len(r) : i + 1 \in 1..Len(q) /\ i + 1 # 1
      /\ \A i \in 1..Len(q) : i = 1 \/ (i - 1 \in 1..Len(r) /\ r[i - 1] = q[i])
      /\ 1 \in 1..Len(q)
  BY <1>1
<1>3. ASSUME NEW n
      PROVE  /\ Lacks(q, n) => Lacks(r, n) /\ h.name # n
             /\ HoldsOne(q, n) /\ h.name = n => Lacks(r, n)
             /\ HoldsOne(q, n) /\ h.name # n => HoldsOne(r, n)
  <2>1. Lacks(q, n) => Lacks(r, n) /\ h.name # n
    BY <1>1, <1>2 DEF Lacks
  <2>2. ASSUME HoldsOne(q, n), h.name = n PROVE Lacks(r, n)
    BY <1>1, <1>2, <2>2 DEF Lacks, HoldsOne
  <2>3. ASSUME HoldsOne(q, n), h.name # n PROVE HoldsOne(r, n)
    <3>1. PICK i \in 1..Len(q) : q[i].name = n /\ \A j \in 1..Len(q) : q[j].name = n => j = i
      BY <2>3 DEF HoldsOne
    <3>2. i - 1 \in 1..Len(r) /\ r[i - 1] = q[i]
      BY <1>1, <1>2, <2>3, <3>1
    <3>3. ASSUME NEW j \in 1..Len(r), r[j].name = n PROVE j = i - 1
      BY <1>1, <1>2, <3>1, <3>3
    <3> QED
      BY <3>1, <3>2, <3>3 DEF HoldsOne
  <2> QED
    BY <2>1, <2>2, <2>3
<1>4. /\ Polite(q) => Polite(r) /\ h.name \in Owning \cup {"send"}
      /\ FromUsers(r) => FromUsers(q)
      /\ h.name \notin Owning => FromUsers(q)
      /\ Owns(r) => Owns(q)
      /\ Owns(q) \/ FromUsers(q)
  BY <1>1, <1>2 DEF Polite, FromUsers, Owns
<1> QED
  BY <1>1, <1>3, <1>4 DEF r, h

(* What holds of no functors at all.                                         *)
LEMMA EmptyFacts ==
  /\ \A n : Lacks(<<>>, n)
  /\ Polite(<<>>) /\ ~FromUsers(<<>>) /\ ~Owns(<<>>)
  BY DEF Lacks, Polite, FromUsers, Owns

(* Owning functors of a name there is one of keep the connection.            *)
LEMMA HeldByFunctor ==
  ASSUME NEW q \in Seq(Functors), HoldsOne(q, "destroyed")
  PROVE  Owns(q)
  BY LenProperties DEF HoldsOne, Owns, Owning

(* The functors the connection queues for itself.                            *)
LEMMA SelfFunctors ==
  ASSUME NEW name \in Owning
  PROVE  Functor(name) \in Functors /\ Functor(name).name = name
  BY OwnFunctors DEF Functor

(* What handleEventWithGuard() may call.                                     *)
HandlerNames == {"close", "error", "read", "write"}

(* Closers in two rows of handlers joined.                                   *)
LEMMA JoinClosers ==
  ASSUME NEW a \in Seq(HandlerNames), NEW b \in Seq(HandlerNames)
  PROVE  /\ a \o b \in Seq(HandlerNames)
         /\ NoCloser(a) /\ NoCloser(b) => NoCloser(a \o b)
         /\ NoCloser(a) /\ OneCloser(b) => OneCloser(a \o b)
         /\ OneCloser(a) /\ NoCloser(b) => OneCloser(a \o b)
<1> DEFINE r == a \o b
<1>1. /\ r \in Seq(HandlerNames) /\ Len(a) \in Nat /\ Len(b) \in Nat /\ Len(r) = Len(a) + Len(b)
      /\ \A i \in 1..Len(a) + Len(b) : r[i] = IF i <= Len(a) THEN a[i] ELSE b[i - Len(a)]
  BY ConcatProperties, LenProperties
<1> HIDE DEF r
<1>2. \A i \in 1..Len(r) : \/ i \in 1..Len(a) /\ r[i] = a[i]
                           \/ i - Len(a) \in 1..Len(b) /\ r[i] = b[i - Len(a)]
  BY <1>1
<1>3. NoCloser(a) /\ NoCloser(b) => NoCloser(r)
  BY <1>2 DEF NoCloser
<1>4. ASSUME (NoCloser(a) /\ OneCloser(b)) \/ (OneCloser(a) /\ NoCloser(b)) PROVE OneCloser(r)
  <2> SUFFICES ASSUME NEW i \in 1..Len(r), NEW j \in 1..Len(r), r[i] \in Closers, r[j] \in Closers
               PROVE  i = j
    BY DEF OneCloser
  <2>1. CASE NoCloser(a) /\ OneCloser(b)
    <3>1. /\ i - Len(a) \in 1..Len(b) /\ r[i] = b[i - Len(a)]
          /\ j - Len(a) \in 1..Len(b) /\ r[j] = b[j - Len(a)]
      BY <1>2, <2>1 DEF NoCloser
    <3>2. i - Len(a) = j - Len(a)
      BY <2>1, <3>1 DEF OneCloser
    <3> QED
      BY <1>1, <3>2
  <2>2. CASE OneCloser(a) /\ NoCloser(b)
    <3>1. i \in 1..Len(a) /\ r[i] = a[i] /\ j \in 1..Len(a) /\ r[j] = a[j]
      BY <1>2, <2>2 DEF NoCloser
    <3> QED
      BY <2>2, <3>1 DEF OneCloser
  <2> QED
    BY <1>4, <2>1, <2>2
<1>5. /\ NoCloser(a) /\ OneCloser(b) => OneCloser(r)
      /\ OneCloser(a) /\ NoCloser(b) => OneCloser(r)
  BY <1>4
<1> QED
  BY <1>1, <1>3, <1>5 DEF r

(* One event has one handler that can close: a hangup closes only when there *)
(* is nothing to read.                                                       *)
LEMMA EventClosers ==
  ASSUME NEW events
  PROVE  /\ handleEventWithGuard(events) \in Seq(HandlerNames)
         /\ OneCloser(handleEventWithGuard(events))
<1> DEFINE When(cond, handler) == IF cond THEN <<handler>> ELSE <<>>
           a == When("hup" \in events /\ "in" \notin events, "close")
           b == When("err" \in events, "error")
           c == When("in" \in events, "read")
           d == When("out" \in events, "write")
<1>1. ASSUME NEW x \in HandlerNames, NEW cond \in BOOLEAN
      PROVE  When(cond, x) \in Seq(HandlerNames) /\ OneCloser(When(cond, x))
  BY <1>1 DEF OneCloser
<1>3. NoCloser(When(FALSE, "close")) /\ NoCloser(When(FALSE, "read"))
  BY DEF NoCloser
<1>4. /\ a \in Seq(HandlerNames) /\ b \in Seq(HandlerNames)
      /\ c \in Seq(HandlerNames) /\ d \in Seq(HandlerNames)
      /\ OneCloser(a) /\ OneCloser(c)
  BY <1>1 DEF HandlerNames
<1>5. NoCloser(b) /\ NoCloser(d)
  BY DEF NoCloser, Closers
<1>6. NoCloser(a) \/ NoCloser(c)
  BY <1>3
<1>7. handleEventWithGuard(events) = ((a \o b) \o c) \o d
  BY DEF handleEventWithGuard
<1> HIDE DEF a, b, c, d, When
<1>8. /\ a \o b \in Seq(HandlerNames) /\ OneCloser(a \o b)
      /\ NoCloser(a) => NoCloser(a \o b)
  BY <1>4, <1>5, JoinClosers
<1>9. (a \o b) \o c \in Seq(HandlerNames) /\ OneCloser((a \o b) \o c)
  BY <1>4, <1>6, <1>8, JoinClosers
<1> QED
  BY <1>4, <1>5, <1>7, <1>9, JoinClosers

(* What running the first handler leaves.                                    *)
LEMMA NextHandler ==
  ASSUME NEW t \in Seq(HandlerNames), t # <<>>, OneCloser(t)
  PROVE  /\ Tail(t) \in Seq(HandlerNames) /\ OneCloser(Tail(t))
         /\ Head(t) \in Closers => NoCloser(Tail(t))
         /\ NoCloser(t) => NoCloser(Tail(t)) /\ Head(t) \notin Closers
<1> DEFINE r == Tail(t)
           h == Head(t)
<1>1. /\ r \in Seq(HandlerNames) /\ Len(t) \in Nat /\ Len(t) >= 1 /\ Len(r) = Len(t) - 1 /\ h = t[1]
      /\ \A i \in 1..Len(r) : r[i] = t[i + 1]
  BY HeadTailProperties, LenProperties, EmptySeq
<1> HIDE DEF r, h
<1>2. 1 \in 1..Len(t) /\ \A i \in 1..Len(r) : i + 1 \in 1..Len(t) /\ i + 1 # 1 /\ i \in Nat
  BY <1>1
<1>3. OneCloser(r)
  <2> SUFFICES ASSUME NEW i \in 1..Len(r), NEW j \in 1..Len(r), r[i] \in Closers, r[j] \in Closers
               PROVE  i = j
    BY DEF OneCloser
  <2>1. i + 1 = j + 1
    BY <1>1, <1>2 DEF OneCloser
  <2> QED
    BY <1>2, <2>1
<1>4. h \in Closers => NoCloser(r)
  BY <1>1, <1>2 DEF OneCloser, NoCloser
<1>5. NoCloser(t) => NoCloser(r) /\ h \notin Closers
  BY <1>1, <1>2 DEF NoCloser
<1> QED
  BY <1>1, <1>3, <1>4, <1>5 DEF r, h

(* No handlers, no closers.                                                  *)
LEMMA NoHandlers == <<>> \in Seq(HandlerNames) /\ OneCloser(<<>>) /\ NoCloser(<<>>)
  BY DEF OneCloser, NoCloser
-----------------------------------------------------------------------------
(* Steps that leave the connection, its channel and the queues alone.        *)

(* The peer and an error handler change the socket only.                     *)
LEMMA PeerLife ==
  ASSUME LInv, PeerActs
  PROVE  LInv'
<1>1. /\ UNCHANGED <<inMap, created, baseQueue, st, reading, ev, index, out, delayed, shutWr>>
      /\ UNCHANGED <<queue, batch, batchRef, phase, todo, cb, held, tpc, ups, downs, failed, server>>
  BY DEF PeerActs, serverVars, channelVars, loopVars, userVars
<1>2. Shape'
  <2>1. inData' \in BOOLEAN /\ peerFin' \in BOOLEAN /\ rst' \in {"no", "err", "eof"}
    BY DEF LInv, Shape, PeerActs
  <2> QED
    BY <1>1, <2>1 DEF LInv, Shape
<1>3. Quiet' /\ Bound' /\ Handlers' /\ HalfCloseFlushes'
  BY <1>1 DEF LInv, Quiet, Bound, Handlers, HalfCloseFlushes, FromUsers, Owns, Polite
<1>4. Stage'
  BY <1>1 DEF LInv, Stage, Fresh, Opening, Started, Up, Down, Untouched, Announced, Posted, Erased,
              Removed, NotQueued, QueuedOnce, Lacks, HoldsOne
<1> QED
  BY <1>2, <1>3, <1>4 DEF LInv

(* A thread begins a send(), takes a pointer in a callback or gives it up    *)
(* when nothing it queued waits.                                             *)
LEMMA PointerLife ==
  ASSUME Disciplined, SInv, LInv, 
         \/ UserKeepsPointer \/ UserDropsPointer
         \/ \E u \in Users, op \in Ops : UserChecks(u, op)
  PROVE  LInv'
<1>1. /\ UNCHANGED <<inMap, created, baseQueue, st, reading, ev, index, out, delayed, shutWr>>
      /\ UNCHANGED <<inData, peerFin, rst>>
      /\ UNCHANGED <<queue, batch, batchRef, phase, todo, cb, ups, downs, failed, server>>
  BY DEF UserKeepsPointer, UserDropsPointer, UserChecks, serverVars, channelVars, loopVars, socketVars
<1>2. Shape'
  <2>1. held' \in BOOLEAN
    BY DEF LInv, Shape, UserKeepsPointer, UserDropsPointer, UserChecks
  <2> QED
    BY <1>1, <2>1 DEF LInv, Shape
<1>3. Quiet' /\ Handlers' /\ HalfCloseFlushes'
  BY <1>1 DEF LInv, Quiet, Handlers, HalfCloseFlushes
<1>4. Bound'
  <2>1. Polite(queue)' /\ Polite(batch)' /\ (Owns(batch) => batchRef = TRUE)'
    BY <1>1 DEF LInv, Bound, Polite, Owns
  <2>2. FromUsers(queue)' <=> FromUsers(queue)
    BY <1>1 DEF FromUsers
  <2>3. FromUsers(batch)' <=> FromUsers(batch)
    BY <1>1 DEF FromUsers
  <2>4. CASE UserKeepsPointer
    BY <2>1, <2>2, <2>3, <2>4 DEF LInv, Bound, UserKeepsPointer
  <2>5. CASE UserDropsPointer
    BY <2>1, <2>2, <2>3, <2>5 DEF LInv, Bound, UserDropsPointer, Disciplined
  <2>6. ASSUME NEW u \in Users, NEW op \in Ops, UserChecks(u, op)
        PROVE  Bound'
    <3>1. held = TRUE /\ held' = TRUE /\ op = "send" /\ tpc' = [tpc EXCEPT ![u] = op]
      BY <2>6 DEF UserChecks, Disciplined, LInv, Shape
    <3> QED
      BY <2>1, <2>2, <2>3, <3>1 DEF LInv, Bound, SInv, StreamTyped
  <2> QED
    BY <2>4, <2>5, <2>6
<1>5. Stage'
  <2>1. st = "kConnecting" => held' = FALSE
    BY DEF LInv, Stage, Fresh, Opening, Untouched, Shape, UserKeepsPointer, UserDropsPointer, UserChecks
  <2>2. Fresh' /\ Opening'
    BY <1>1, <2>1 DEF LInv, Stage, Fresh, Opening, Untouched
  <2>3. Started' /\ Up' /\ Down'
    BY <1>1 DEF LInv, Stage, Started, Up, Down, Announced, Posted, Erased,
              Removed, NotQueued, QueuedOnce, Lacks, HoldsOne
  <2> QED
    BY <2>2, <2>3 DEF Stage
<1> QED
  BY <1>2, <1>3, <1>4, <1>5 DEF LInv
-----------------------------------------------------------------------------
(* The rows of functors.                                                     *)

(* What the connection queues for itself while it is up.                     *)
Mine == {"forceClose", "writeComplete", "highWater"}

(* The functor at the front, of this name, is taken out of the batch.        *)
Takes(name) == batch # <<>> /\ Head(batch).name = name /\ batch' = Tail(batch)

(* Queueing one of these and running one of the batch keep who refers to the *)
(* connection, and the places of connectEstablished and connectDestroyed.    *)
LEMMA RowsKept ==
  ASSUME SInv, LInv, UNCHANGED <<tpc, held, batchRef>>,
         queue' = queue \/ \E name \in Mine : queue' = Append(queue, Functor(name)),
         batch' = batch \/ \E name \in Owning \cup {"send"} : Takes(name)
  PROVE  /\ Bound'
         /\ \A n \in {"established", "destroyed"} :
               /\ Lacks(queue, n) => Lacks(queue', n)
               /\ Lacks(batch, n) => Lacks(batch', n)
               /\ HoldsOne(queue, n) => HoldsOne(queue', n)
               /\ HoldsOne(batch, n) => HoldsOne(batch', n) \/ (Takes(n) /\ Lacks(batch', n))
<1>1. queue \in Seq(Functors) /\ batch \in Seq(Functors)
  BY DEF SInv, StreamTyped
<1>2. /\ \A n \in {"established", "destroyed"} :
            /\ Lacks(queue, n) => Lacks(queue', n)
            /\ HoldsOne(queue, n) => HoldsOne(queue', n)
      /\ Polite(queue) => Polite(queue')
      /\ FromUsers(queue') => FromUsers(queue)
  <2>1. ASSUME NEW name \in Mine, queue' = Append(queue, Functor(name))
        PROVE  <1>2!:
    <3>1. Functor(name) \in Functors /\ Functor(name).name = name /\ name \in Owning
          /\ name # "established" /\ name # "destroyed"
      BY SelfFunctors DEF Mine, Owning
    <3> QED
      BY <1>1, <2>1, <3>1, AppendFacts
  <2> QED
    BY <2>1
<1>3. /\ \A n \in {"established", "destroyed"} :
            /\ Lacks(batch, n) => Lacks(batch', n)
            /\ HoldsOne(batch, n) => HoldsOne(batch', n) \/ (Takes(n) /\ Lacks(batch', n))
      /\ Polite(batch) => Polite(batch')
      /\ FromUsers(batch') => FromUsers(batch)
      /\ Owns(batch') => Owns(batch)
  <2>1. CASE batch # <<>> /\ batch' = Tail(batch)
    <3>1. /\ \A n : Lacks(batch, n) => Lacks(batch', n)
          /\ \A n : HoldsOne(batch, n) /\ Head(batch).name = n => Lacks(batch', n)
          /\ \A n : HoldsOne(batch, n) /\ Head(batch).name # n => HoldsOne(batch', n)
          /\ Polite(batch) => Polite(batch')
          /\ FromUsers(batch') => FromUsers(batch)
          /\ Owns(batch') => Owns(batch)
      BY <1>1, <2>1, TailFacts
    <3> QED
      BY <2>1, <3>1 DEF Takes
  <2> QED
    BY <2>1 DEF Takes
<1>4. Bound'
  BY <1>2, <1>3 DEF LInv, Bound
<1> QED
  BY <1>2, <1>3, <1>4

(* The swap moves the places from the queue to the batch.                    *)
LEMMA SwapRows ==
  ASSUME SInv, LInv, Swap
  PROVE  /\ Bound' /\ batch = <<>>
         /\ \A n \in {"established", "destroyed"} :
               /\ Lacks(queue', n)
               /\ Lacks(queue, n) => Lacks(batch', n)
               /\ HoldsOne(queue, n) => HoldsOne(batch', n)
               /\ ~HoldsOne(batch, n)
<1>1. batch = <<>>
  BY DEF Swap, SInv, Ready
<1>2. batch' = queue /\ batchRef' = Owns(queue) /\ queue' = <<>> /\ UNCHANGED <<tpc, held>>
  BY DEF Swap, userVars
<1>3. \A n : ~HoldsOne(<<>>, n)
  BY DEF HoldsOne
<1>4. Bound'
  BY <1>1, <1>2, EmptyFacts DEF LInv, Bound
<1> QED
  BY <1>1, <1>2, <1>3, <1>4, EmptyFacts

(* Neither the start nor the end of the connection waits to be run.          *)
Running ==
    /\ Lacks(queue, "established") /\ Lacks(batch, "established")
    /\ Lacks(queue, "destroyed") /\ Lacks(batch, "destroyed")

(* What a step must keep while the connection is up.                         *)
LEMMA UpStep ==
  ASSUME LInv, st \in {"kConnected", "kDisconnecting"}, st' \in {"kConnected", "kDisconnecting"},
         UNCHANGED <<created, inMap, baseQueue, ups, downs, server, failed>>,
         "r" \in ev', index' = "added", isWriting(ev') <=> out' # <<>>, HalfCloseFlushes',
         cb' # "down", Running', Bound', Handlers', Shape'
  PROVE  LInv'
<1>1. Quiet' /\ Fresh' /\ Opening' /\ Down'
  BY DEF LInv, Quiet, Stage, Fresh, Opening, Started, Down, Shape
<1>2. Started' /\ Up'
  BY DEF LInv, Stage, Started, Up, Running
<1> QED
  BY <1>1, <1>2 DEF LInv, Stage

(* What a step must keep while the connection is down and its callback has   *)
(* returned.                                                                 *)
LEMMA DownStep ==
  ASSUME LInv, st = "kDisconnected", cb # "down",
         UNCHANGED <<created, st, inMap, baseQueue, ups, downs, server, failed, ev, index, out, shutWr>>,
         NoCloser(todo'), phase' # "reported", cb' # "down", Bound', Handlers', Shape',
         Lacks(queue', "established"), Lacks(batch', "established"),
         NotQueued => NotQueued', QueuedOnce => QueuedOnce'
  PROVE  LInv'
<1>1. Quiet' /\ Fresh' /\ Opening' /\ Up' /\ HalfCloseFlushes' /\ Started'
  BY DEF LInv, Quiet, Stage, Fresh, Opening, Started, Up, Shape, HalfCloseFlushes
<1>2. Down'
  BY DEF LInv, Stage, Down, Announced, Posted, Erased, Removed
<1> QED
  BY <1>1, <1>2 DEF LInv, Stage
-----------------------------------------------------------------------------
(* Steps of user code on the loop, and of the timer.                         *)

(* What is known of a connection that is up, gathered.                       *)
LEMMA UpFacts ==
  ASSUME LInv, st \in {"kConnected", "kDisconnecting"}
  PROVE  /\ created = TRUE /\ inMap = TRUE /\ baseQueue = 0 /\ cb # "down" /\ ups = 1 /\ downs = 0
         /\ "r" \in ev /\ index = "added" /\ (isWriting(ev) <=> out # <<>>) /\ Running
         /\ ~Dead
<1>1. created = TRUE /\ Running
  BY DEF LInv, Stage, Started, Up, Running
<1>2. /\ inMap = TRUE /\ baseQueue = 0 /\ cb # "down" /\ ups = 1 /\ downs = 0
      /\ "r" \in ev /\ index = "added" /\ (isWriting(ev) <=> out # <<>>)
  BY DEF LInv, Stage, Up
<1>3. ~Dead
  BY <1>2 DEF Dead, Referenced
<1> QED
  BY <1>1, <1>2, <1>3

(* shutdown() and the two forced closes on the loop, and the expiry of the   *)
(* delay, only change the state and queue forceCloseInLoop.                  *)
LEMMA ClosingLife ==
  ASSUME SInv, LInv,
         LoopShutsDown \/ LoopForcesClose \/ LoopForcesCloseWithDelay
            \/ (DelayExpires /\ ~Dead /\ MayClose)
  PROVE  LInv'
<1>0. st \in {"kConnected", "kDisconnecting"} /\ st' = "kDisconnecting"
  BY DEF LoopShutsDown, LoopForcesClose, LoopForcesCloseWithDelay, DelayExpires, MayClose
<1>1. /\ UNCHANGED <<inMap, created, baseQueue, reading, ev, index, out>>
      /\ UNCHANGED <<inData, peerFin, rst>>
      /\ UNCHANGED <<batch, batchRef, phase, todo, cb, held, tpc, ups, downs, failed, server>>
  BY DEF LoopShutsDown, LoopForcesClose, LoopForcesCloseWithDelay, DelayExpires, serverVars,
         channelVars, loopVars, socketVars, userVars, outVars
<1>2. queue' = queue \/ \E name \in Mine : queue' = Append(queue, Functor(name))
  BY DEF LoopShutsDown, LoopForcesClose, LoopForcesCloseWithDelay, DelayExpires, Mine
<1>3. Bound' /\ Running'
  BY <1>0, <1>1, <1>2, UpFacts, RowsKept DEF Running
<1>4. /\ delayed' \in BOOLEAN /\ shutWr' \in BOOLEAN
      /\ shutWr' = TRUE => shutWr = TRUE \/ ~isWriting(ev)
  BY DEF LoopShutsDown, LoopForcesClose, LoopForcesCloseWithDelay, DelayExpires, shutdownInLoop,
         socketVars, LInv, Shape
<1>5. Shape'
  BY <1>0, <1>1, <1>4 DEF LInv, Shape, States
<1>6. Handlers'
  BY <1>1 DEF LInv, Handlers
<1>7. HalfCloseFlushes'
  BY <1>0, <1>1, <1>4, UpFacts DEF LInv, HalfCloseFlushes, Shape
<1> QED
  BY <1>0, <1>1, <1>3, <1>5, <1>6, <1>7, UpFacts, UpStep

(* The delay expires after the end.                                          *)
LEMMA LateDelayLife ==
  ASSUME LInv, DelayExpires, ~(~Dead /\ MayClose)
  PROVE  LInv'
<1>1. /\ UNCHANGED <<inMap, created, baseQueue, st, reading, ev, index, out, shutWr>>
      /\ UNCHANGED <<inData, peerFin, rst>>
      /\ UNCHANGED <<queue, batch, batchRef, phase, todo, cb, held, tpc, ups, downs, failed, server>>
  BY DEF DelayExpires, serverVars, channelVars, loopVars, socketVars, userVars
<1>2. Shape'
  BY <1>1 DEF LInv, Shape, DelayExpires
<1>3. Quiet' /\ Bound' /\ Handlers' /\ HalfCloseFlushes'
  BY <1>1 DEF LInv, Quiet, Bound, Handlers, HalfCloseFlushes, FromUsers, Owns, Polite
<1>4. Stage'
  BY <1>1 DEF LInv, Stage, Fresh, Opening, Started, Up, Down, Untouched, Announced, Posted, Erased,
              Removed, NotQueued, QueuedOnce, Lacks, HoldsOne
<1> QED
  BY <1>2, <1>3, <1>4 DEF LInv

(* sendInLoop() on a connection that is up: the channel watches for room     *)
(* exactly when something is left over, and a closed write side takes no     *)
(* more data.                                                                *)
LEMMA SendKeepsInterest ==
  ASSUME SInv, LInv, st \in {"kConnected", "kDisconnecting"}, NEW s \in Senders, NEW no \in 1..MaxSends,
         sendInLoop(Bytes(s, no)), out' \in Seq(AllBytes)
  PROVE  /\ "r" \in ev' /\ ev' \in Interests /\ index' = "added" /\ (isWriting(ev') <=> out' # <<>>)
         /\ HalfCloseFlushes'
         /\ queue' = queue \/ \E name \in Mine : queue' = Append(queue, Functor(name))
<1> DEFINE data == Bytes(s, no)
<1>0. /\ "r" \in ev /\ index = "added" /\ (isWriting(ev) <=> out # <<>>) /\ ev \in Interests
      /\ out \in Seq(AllBytes) /\ UNCHANGED shutWr /\ (shutWr = TRUE => out = <<>>)
  BY UpFacts DEF LInv, Shape, SInv, StreamTyped, HalfCloseFlushes, sendInLoop
<1>1. CASE UNCHANGED <<outVars, channelVars, queue>>
  BY <1>0, <1>1 DEF outVars, channelVars, HalfCloseFlushes
<1>2. CASE /\ ~(st = "kDisconnected" \/ (TriesWrite /\ WriteFails))
           /\ \E n \in Written :
              LET rest == SubSeq(data, n + 1, MsgLen)
                  high == Len(out) + Len(rest) >= HighWater /\ Len(out) < HighWater
              IN  /\ accepted' = accepted \o data
                  /\ wire' = wire \o SubSeq(data, 1, n)
                  /\ \/ /\ rest = <<>>
                        /\ queue' = Append(queue, Functor("writeComplete"))
                        /\ UNCHANGED <<out, channelVars>>
                     \/ /\ rest # <<>>
                        /\ queue' = IF high THEN Append(queue, Functor("highWater")) ELSE queue
                        /\ Buffer(rest)
  <2>1. PICK n \in Written :
           \/ UNCHANGED <<out, ev, index>> /\ queue' = Append(queue, Functor("writeComplete"))
           \/ /\ SubSeq(data, n + 1, MsgLen) # <<>> /\ Buffer(SubSeq(data, n + 1, MsgLen))
              /\ queue' = queue \/ queue' = Append(queue, Functor("highWater"))
    BY <1>2 DEF channelVars
  <2>2. queue' = queue \/ \E name \in Mine : queue' = Append(queue, Functor(name))
    BY <2>1 DEF Mine
  <2>3. shutWr = FALSE \/ out # <<>>
    BY <1>0, <1>2 DEF TriesWrite, WriteFails, LInv, Shape
  <2>4. shutWr' = FALSE
    BY <1>0, <2>3 DEF LInv, Shape
  <2>5. CASE UNCHANGED <<out, ev, index>>
    BY <1>0, <2>2, <2>4, <2>5 DEF HalfCloseFlushes
  <2>6. CASE SubSeq(data, n + 1, MsgLen) # <<>> /\ Buffer(SubSeq(data, n + 1, MsgLen))
    <3>1. PICK rest : rest = SubSeq(data, n + 1, MsgLen) /\ rest # <<>> /\ Buffer(rest)
      BY <2>6
    <3>2. out' = out \o rest /\ rest \in Seq(AllBytes)
      <4>1. /\ data \in Seq(AllBytes) /\ Len(data) = MsgLen /\ n \in 0..MsgLen
        <5>1. \A i \in 1..MsgLen : <<s, no, i>> \in AllBytes
          BY DEF AllBytes
        <5>2. data \in [1..MsgLen -> AllBytes]
          BY <5>1 DEF Bytes
        <5>3. data \in Seq(AllBytes) /\ Len(data) = MsgLen
          BY <5>2, SeqDef, LenProperties, ConnectionAssumption DEF ConnectionAssumption
        <5> QED
          BY <2>1, <5>3, ConnectionAssumption DEF ConnectionAssumption, Written
      <4> HIDE DEF data
      <4>2. SubSeq(data, n + 1, Len(data)) \in Seq(AllBytes)
        BY <4>1, CutAndJoin
      <4> QED
        BY <3>1, <4>1, <4>2 DEF Buffer
    <3>3. out' # <<>>
      BY <1>0, <3>1, <3>2, ConcatProperties
    <3>4. /\ isWriting(ev') /\ "r" \in ev' /\ ev' \in Interests /\ index' = "added"
      BY <1>0, <3>1 DEF Buffer, setEvents, isWriting, Interests, channelVars, updateChannel, isNoneEvent
    <3> QED
      BY <2>2, <2>4, <3>3, <3>4 DEF HalfCloseFlushes
  <2> QED
    BY <2>1, <2>5, <2>6
<1> QED
  BY <1>1, <1>2 DEF sendInLoop

(* send() in a callback, or with a pointer kept.                             *)
LEMMA LoopSendsLife ==
  ASSUME SInv, SInv', LInv, LoopSends
  PROVE  LInv'
<1>0. st = "kConnected" /\ sent[LoopUser] + 1 \in 1..MaxSends /\ LoopUser \in Senders
      /\ out' \in Seq(AllBytes)
  BY ConnectionAssumption DEF ConnectionAssumption, LoopSends, SInv, StreamTyped, Senders
<1>1. /\ sendInLoop(Bytes(LoopUser, sent[LoopUser] + 1))
      /\ UNCHANGED <<st, reading, delayed, shutWr, inData, peerFin, rst, cb, ups, downs, failed>>
      /\ UNCHANGED <<server, inMap, baseQueue, created, batch, batchRef, phase, todo, held, tpc>>
  BY DEF LoopSends, sendInLoop, serverVars, loopVars, userVars
<1>2. /\ "r" \in ev' /\ ev' \in Interests /\ index' = "added" /\ (isWriting(ev') <=> out' # <<>>)
      /\ HalfCloseFlushes'
      /\ queue' = queue \/ \E name \in Mine : queue' = Append(queue, Functor(name))
  BY <1>0, <1>1, SendKeepsInterest
<1>3. Bound' /\ Running'
  BY <1>0, <1>1, <1>2, UpFacts, RowsKept DEF Running
<1>4. Shape' /\ Handlers'
  BY <1>0, <1>1, <1>2 DEF LInv, Shape, Handlers, Indices
<1> QED
  BY <1>0, <1>1, <1>2, <1>3, <1>4, UpFacts, UpStep
-----------------------------------------------------------------------------
(* Steps of the loop: events.                                                *)

(* Only a connection that is up is known to epoll.                           *)
LEMMA PollLife ==
  ASSUME SInv, LInv, Poll
  PROVE  LInv'
<1>1. /\ UNCHANGED <<inMap, created, baseQueue, st, reading, ev, index, out, shutWr>>
      /\ UNCHANGED <<inData, peerFin, rst, delayed>>
      /\ UNCHANGED <<queue, batch, batchRef, cb, held, tpc, ups, downs, failed, server>>
      /\ phase' = "reported" /\ cb = "none"
  BY DEF Poll, serverVars, channelVars, socketVars, userVars
<1>2. PICK room \in BOOLEAN : Events(room) # {} /\ todo' = handleEventWithGuard(Events(room))
  BY DEF Poll
<1>3. index = "added"
  BY <1>2 DEF Events, Reported
<1>4. st \in {"kConnected", "kDisconnecting"}
  BY <1>3 DEF LInv, Stage, Fresh, Opening, Down, Untouched, Shape, States, Announced, Posted,
              Erased, Removed
<1>5. todo' \in Seq(HandlerNames) /\ OneCloser(todo')
  BY <1>2, EventClosers
<1>6. Bound' /\ Running'
  BY <1>1, <1>4, UpFacts, RowsKept DEF Running
<1>7. Shape' /\ Handlers'
  BY <1>1, <1>5 DEF LInv, Shape, Handlers, HandlerNames
<1> QED
  BY <1>1, <1>4, <1>6, <1>7, UpFacts, UpStep DEF LInv, HalfCloseFlushes

(* The connection is still up when its turn comes, so tie_.lock() succeeds.  *)
LEMMA BeginEventLife ==
  ASSUME SInv, LInv, BeginEvent
  PROVE  LInv'
<1>1. /\ UNCHANGED <<inMap, created, baseQueue, st, reading, ev, index, out, shutWr>>
      /\ UNCHANGED <<inData, peerFin, rst, delayed>>
      /\ UNCHANGED <<queue, batch, batchRef, cb, held, tpc, ups, downs, failed, server>>
      /\ phase' = "event" /\ phase = "reported"
  BY DEF BeginEvent, serverVars, channelVars, socketVars, userVars
<1>2. st \in {"kConnected", "kDisconnecting"}
  BY <1>1 DEF LInv, Stage, Fresh, Opening, Down, Shape, States
<1>3. todo' = todo
  BY <1>2, UpFacts DEF BeginEvent
<1>4. Bound' /\ Running'
  BY <1>1, <1>2, UpFacts, RowsKept DEF Running
<1>5. Shape' /\ Handlers'
  BY <1>1, <1>3 DEF LInv, Shape, Handlers
<1> QED
  BY <1>1, <1>2, <1>4, <1>5, UpFacts, UpStep DEF LInv, HalfCloseFlushes

(* A handler runs on a connection that was established, and one that can     *)
(* close runs on a connection that is up.                                    *)
LEMMA HandlingFacts ==
  ASSUME LInv, NEW h, Handling(h), todo' = Tail(todo)
  PROVE  /\ todo' \in Seq(HandlerNames) /\ OneCloser(todo') /\ (h \in Closers => NoCloser(todo'))
         /\ st \in {"kConnected", "kDisconnecting", "kDisconnected"}
         /\ h \in Closers => st # "kDisconnected"
         /\ st = "kDisconnected" => NoCloser(todo') /\ ev = {} /\ cb # "down"
         /\ phase = "event" /\ cb = "none"
<1>1. phase = "event" /\ cb = "none" /\ todo # <<>> /\ Head(todo) = h
  BY DEF Handling
<1>2. todo \in Seq(HandlerNames) /\ OneCloser(todo)
  BY DEF LInv, Shape, Handlers, HandlerNames
<1>3. /\ todo' \in Seq(HandlerNames) /\ OneCloser(todo') /\ (h \in Closers => NoCloser(todo'))
      /\ NoCloser(todo) => NoCloser(todo') /\ h \notin Closers
  BY <1>1, <1>2, NextHandler
<1>4. st \in {"kConnected", "kDisconnecting", "kDisconnected"}
  BY <1>1 DEF LInv, Stage, Fresh, Opening, Shape, States
<1>5. st = "kDisconnected" => NoCloser(todo) /\ ev = {}
  BY DEF LInv, Stage, Down
<1> QED
  BY <1>1, <1>3, <1>4, <1>5

(* The end of a connection that is up: handleClose() and its callback.       *)
LEMMA CloseStep ==
  ASSUME LInv, st \in {"kConnected", "kDisconnecting"}, handleClose,
         UNCHANGED <<created, inMap, baseQueue, ups, server, out, shutWr>>,
         UNCHANGED <<reading, delayed, peerFin, batchRef, phase, held>>,
         inData' \in BOOLEAN, rst' \in {"no", "err", "eof"},
         todo' \in Seq(HandlerNames), NoCloser(todo'), phase # "reported",
         Bound', Handlers', Running'
  PROVE  LInv'
<1>1. /\ failed' = {} /\ st' = "kDisconnected" /\ ev' = {} /\ index' = "deleted" /\ cb' = "down"
      /\ downs' = 1
  <2>1. index = "added" /\ downs = 0 /\ failed = {}
    BY UpFacts DEF LInv, Quiet
  <2>2. failed' = {}
    BY <2>1 DEF handleClose, Fail, AssertThat
  <2> QED
    BY <2>1, <2>2 DEF handleClose, setEvents, updateChannel, isNoneEvent
<1>2. /\ created' = TRUE /\ inMap' = TRUE /\ baseQueue' = 0 /\ ups' = 1
  BY UpFacts
<1>3. Shape'
  BY <1>1 DEF LInv, Shape, States, Interests, Indices, HandlerNames
<1>4. Quiet' /\ HalfCloseFlushes'
  BY <1>1 DEF LInv, Quiet, HalfCloseFlushes
<1>5. Fresh' /\ Opening' /\ Started' /\ Up'
  BY <1>1, <1>2 DEF Fresh, Opening, Started, Up, Running
<1>6. Down'
  BY <1>1, <1>2 DEF Down, Announced, NotQueued, Running
<1> QED
  BY <1>3, <1>4, <1>5, <1>6 DEF LInv, Stage

(* A hangup with nothing to read ends a connection that is up.               *)
LEMMA HandleCloseLife ==
  ASSUME SInv, LInv, HandleCloseEvent
  PROVE  LInv'
<1>1. /\ UNCHANGED <<inMap, created, baseQueue, reading, out, shutWr>>
      /\ UNCHANGED <<inData, peerFin, rst, delayed>>
      /\ UNCHANGED <<queue, batch, batchRef, phase, held, tpc, ups, server>>
      /\ Handling("close") /\ todo' = Tail(todo) /\ handleClose
  BY DEF HandleCloseEvent, serverVars, socketVars, userVars
<1>2. /\ st \in {"kConnected", "kDisconnecting"} /\ phase = "event"
      /\ todo' \in Seq(HandlerNames) /\ OneCloser(todo') /\ NoCloser(todo')
  BY <1>1, HandlingFacts DEF Closers
<1>3. Bound' /\ Running'
  BY <1>1, <1>2, UpFacts, RowsKept DEF Running
<1>4. Handlers'
  BY <1>1, <1>2 DEF Handlers
<1>5. inData' \in BOOLEAN /\ rst' \in {"no", "err", "eof"}
  BY <1>1 DEF LInv, Shape
<1> QED
  BY <1>1, <1>2, <1>3, <1>4, <1>5, CloseStep

(* A read gives data to the user, meets the end of the stream, which closes, *)
(* or fetches the error and leaves the closing to the next event.            *)
LEMMA HandleReadLife ==
  ASSUME SInv, LInv, HandleReadEvent
  PROVE  LInv'
<1>1. /\ UNCHANGED <<inMap, created, baseQueue, reading, out, shutWr>>
      /\ UNCHANGED <<peerFin, delayed>>
      /\ UNCHANGED <<queue, batch, batchRef, phase, held, tpc, ups, server>>
      /\ Handling("read") /\ todo' = Tail(todo)
  BY DEF HandleReadEvent, serverVars, userVars
<1>2. /\ st \in {"kConnected", "kDisconnecting"} /\ phase = "event" /\ cb = "none"
      /\ todo' \in Seq(HandlerNames) /\ OneCloser(todo') /\ NoCloser(todo')
  BY <1>1, HandlingFacts DEF Closers
<1>3. Bound' /\ Running'
  BY <1>1, <1>2, UpFacts, RowsKept DEF Running
<1>4. Handlers'
  BY <1>1, <1>2 DEF Handlers
<1>5. inData' \in BOOLEAN /\ rst' \in {"no", "err", "eof"}
  BY DEF HandleReadEvent, LInv, Shape
<1>6. CASE handleClose
  BY <1>1, <1>2, <1>3, <1>4, <1>5, <1>6, CloseStep
<1>7. CASE UNCHANGED <<st, ev, index, downs, failed>> /\ cb' \in {"none", "message"}
  <2>1. Shape'
    BY <1>1, <1>2, <1>5, <1>7 DEF LInv, Shape, HandlerNames
  <2>2. HalfCloseFlushes'
    BY <1>1 DEF LInv, HalfCloseFlushes
  <2> QED
    BY <1>1, <1>2, <1>3, <1>4, <1>7, <2>1, <2>2, UpFacts, UpStep
<1> QED
  BY <1>2, <1>6, <1>7 DEF HandleReadEvent, channelVars
(* handleError() may follow a close in the same event; it changes no stage.  *)
LEMMA HandleErrorLife ==
  ASSUME SInv, LInv, HandleErrorEvent
  PROVE  LInv'
<1>1. /\ UNCHANGED <<inMap, created, baseQueue, st, reading, ev, index, out, shutWr>>
      /\ UNCHANGED <<inData, peerFin, delayed>>
      /\ UNCHANGED <<queue, batch, batchRef, phase, cb, held, tpc, ups, downs, failed, server>>
      /\ Handling("error") /\ todo' = Tail(todo)
  BY DEF HandleErrorEvent, serverVars, channelVars, userVars
<1>2. /\ st \in {"kConnected", "kDisconnecting", "kDisconnected"} /\ phase = "event" /\ cb = "none"
      /\ todo' \in Seq(HandlerNames) /\ OneCloser(todo')
      /\ st = "kDisconnected" => NoCloser(todo')
  BY <1>1, HandlingFacts
<1>3. rst' \in {"no", "err", "eof"}
  BY DEF HandleErrorEvent, LInv, Shape
<1>4. Shape' /\ Handlers' /\ HalfCloseFlushes'
  BY <1>1, <1>2, <1>3 DEF LInv, Shape, Handlers, HandlerNames, HalfCloseFlushes
<1>5. Bound'
  BY <1>1, RowsKept
<1>6. CASE st # "kDisconnected"
  <2>1. Running'
    BY <1>1, <1>2, <1>6, UpFacts DEF Running
  <2> QED
    BY <1>1, <1>2, <1>4, <1>5, <1>6, <2>1, UpFacts, UpStep
<1>7. CASE st = "kDisconnected"
  <2>1. /\ Lacks(queue', "established") /\ Lacks(batch', "established")
        /\ (NotQueued => NotQueued') /\ (QueuedOnce => QueuedOnce')
    BY <1>1, <1>7 DEF LInv, Stage, Started, NotQueued, QueuedOnce
  <2> QED
    BY <1>1, <1>2, <1>4, <1>5, <1>7, <2>1, DownStep
<1> QED
  BY <1>6, <1>7

(* handleWrite(): interest in room goes with the last byte, and a shutdown() *)
(* that waited closes the write side then.                                   *)
LEMMA HandleWriteLife ==
  ASSUME SInv, SInv', LInv, HandleWriteEvent
  PROVE  LInv'
<1>1. /\ UNCHANGED <<inMap, created, baseQueue, st, reading>>
      /\ UNCHANGED <<inData, peerFin, rst, delayed>>
      /\ UNCHANGED <<batch, batchRef, phase, cb, held, tpc, ups, downs, failed, server>>
      /\ Handling("write") /\ todo' = Tail(todo)
  BY DEF HandleWriteEvent, serverVars, userVars
<1>2. /\ st \in {"kConnected", "kDisconnecting", "kDisconnected"} /\ phase = "event" /\ cb = "none"
      /\ todo' \in Seq(HandlerNames) /\ OneCloser(todo')
      /\ st = "kDisconnected" => NoCloser(todo') /\ ev = {}
  BY <1>1, HandlingFacts
<1>3. Handlers'
  BY <1>1, <1>2 DEF Handlers
<1>4. CASE UNCHANGED <<out, ev, index, queue, shutWr>>
  <2>1. Shape' /\ HalfCloseFlushes'
    BY <1>1, <1>2, <1>4 DEF LInv, Shape, HandlerNames, HalfCloseFlushes
  <2>2. Bound'
    BY <1>1, <1>4, RowsKept
  <2>3. CASE st # "kDisconnected"
    <3>1. Running'
      BY <1>1, <1>2, <1>4, <2>3, UpFacts DEF Running
    <3> QED
      BY <1>1, <1>2, <1>3, <1>4, <2>1, <2>2, <2>3, <3>1, UpFacts, UpStep
  <2>4. CASE st = "kDisconnected"
    <3>1. /\ Lacks(queue', "established") /\ Lacks(batch', "established")
          /\ (NotQueued => NotQueued') /\ (QueuedOnce => QueuedOnce')
      BY <1>1, <1>4, <2>4 DEF LInv, Stage, Started, NotQueued, QueuedOnce
    <3> QED
      BY <1>1, <1>2, <1>3, <1>4, <2>1, <2>2, <2>4, <3>1, DownStep
  <2> QED
    BY <2>3, <2>4
<1>5. CASE isWriting(ev) /\ ~WriteFails
  <2>1. st \in {"kConnected", "kDisconnecting"}
    BY <1>2, <1>5 DEF isWriting
  <2>2. PICK n \in 1..Len(out) :
           /\ out' = SubSeq(out, n + 1, Len(out))
           /\ IF n = Len(out) THEN Drained ELSE UNCHANGED <<channelVars, queue, shutWr>>
    BY <1>5 DEF HandleWriteEvent
  <2>3. /\ "r" \in ev /\ index = "added" /\ ev \in Interests /\ shutWr = FALSE
        /\ out \in Seq(AllBytes) /\ Len(out) \in Nat /\ out # <<>>
    <3>1. out \in Seq(AllBytes) /\ Len(out) \in Nat
      BY LenProperties DEF SInv, StreamTyped
    <3>2. shutWr = FALSE
      BY <1>5 DEF WriteFails, LInv, Shape
    <3> QED
      BY <1>5, <2>1, <3>1, <3>2, UpFacts DEF LInv, Shape
  <2>4. Len(out') = Len(out) - n /\ (n = Len(out) => out' = <<>>) /\ (n # Len(out) => out' # <<>>)
    <3>1. n \in 0..Len(out)
      BY <2>3
    <3>2. out' \in Seq(AllBytes) /\ Len(out') = Len(out) - n
      BY <2>2, <2>3, <3>1, CutAndJoin
    <3> QED
      BY <2>3, <3>2, EmptySeq
  <2>5. /\ "r" \in ev' /\ ev' \in Interests /\ index' = "added" /\ (isWriting(ev') <=> out' # <<>>)
        /\ shutWr' \in BOOLEAN /\ (shutWr' = TRUE => out' = <<>>)
        /\ queue' = queue \/ queue' = Append(queue, Functor("writeComplete"))
    <3>1. CASE n = Len(out)
      <4>1. Drained /\ out' = <<>>
        BY <2>2, <2>4, <3>1
      <4> QED
        BY <2>3, <4>1 DEF Drained, setEvents, updateChannel, isNoneEvent, isWriting, Interests
    <3>2. CASE n # Len(out)
      BY <1>5, <2>2, <2>3, <2>4, <3>2 DEF channelVars
    <3> QED
      BY <3>1, <3>2
  <2>6. Bound' /\ Running'
    <3>1. queue' = queue \/ \E name \in Mine : queue' = Append(queue, Functor(name))
      BY <2>5 DEF Mine
    <3> QED
      BY <1>1, <2>1, <3>1, UpFacts, RowsKept DEF Running
  <2>7. Shape' /\ HalfCloseFlushes'
    BY <1>1, <1>2, <2>5 DEF LInv, Shape, HandlerNames, HalfCloseFlushes, Indices
  <2> QED
    BY <1>1, <1>2, <1>3, <2>1, <2>5, <2>6, <2>7, UpFacts, UpStep
<1> QED
  BY <1>4, <1>5 DEF HandleWriteEvent, channelVars
-----------------------------------------------------------------------------
(* Steps of the loop: functors.                                              *)

(* doPendingFunctors() takes the whole queue, connectDestroyed included.     *)
LEMMA SwapLife ==
  ASSUME SInv, LInv, Swap
  PROVE  LInv'
<1>1. /\ UNCHANGED <<inMap, created, baseQueue, st, reading, ev, index, out, shutWr>>
      /\ UNCHANGED <<inData, peerFin, rst, delayed, todo, cb, held, tpc, ups, downs, failed, server>>
      /\ phase' = "functors" /\ cb = "none" /\ batch' = queue /\ queue' = <<>>
      /\ phase \in {"poll", "event"} /\ (phase = "poll" => queue # <<>>)
      /\ phase = "event" => todo = <<>>
  BY DEF Swap, serverVars, channelVars, socketVars, userVars
<1>2. Bound' /\ batch = <<>>
  BY SwapRows
<1>3. batchRef' \in BOOLEAN
  BY DEF Swap, Owns
<1>4. Shape' /\ HalfCloseFlushes'
  BY <1>1, <1>3 DEF LInv, Shape, HalfCloseFlushes
<1>5. todo = <<>> /\ Handlers'
  BY <1>1 DEF LInv, Handlers
<1>6. CASE st = "kConnecting"
  <2>1. created = TRUE
    BY <1>1, <1>6 DEF LInv, Stage, Fresh, Shape
  <2>2. Untouched /\ inMap = TRUE /\ queue = <<Functor("established")>>
    BY <1>1, <1>6, <2>1 DEF LInv, Stage, Opening
  <2>3. Opening' /\ Fresh' /\ Started' /\ Up' /\ Down' /\ Quiet'
    BY <1>1, <1>6, <2>1, <2>2 DEF Opening, Fresh, Untouched, Started, Up, Down, LInv, Quiet
  <2> QED
    BY <1>2, <1>4, <1>5, <2>3 DEF LInv, Stage
<1>7. CASE st \in {"kConnected", "kDisconnecting"}
  <2>1. Running'
    BY <1>7, UpFacts, SwapRows DEF Running
  <2> QED
    BY <1>1, <1>2, <1>4, <1>5, <1>7, <2>1, UpFacts, UpStep
<1>8. CASE st = "kDisconnected"
  <2>1. NoCloser(todo')
    BY <1>1, <1>5, NoHandlers
  <2>2. Lacks(queue', "established") /\ Lacks(batch', "established")
    BY <1>8, SwapRows DEF LInv, Stage, Started
  <2>3. (NotQueued => NotQueued') /\ (QueuedOnce => QueuedOnce')
    BY SwapRows DEF NotQueued, QueuedOnce
  <2> QED
    BY <1>1, <1>2, <1>4, <1>5, <1>8, <2>1, <2>2, <2>3, DownStep
<1> QED
  BY <1>6, <1>7, <1>8 DEF LInv, Shape, States

(* The end of the batch lets go of the pointers of its functors.             *)
LEMMA BatchDoneLife ==
  ASSUME SInv, LInv, BatchDone
  PROVE  LInv'
<1>1. /\ UNCHANGED <<inMap, created, baseQueue, st, reading, ev, index, out, shutWr>>
      /\ UNCHANGED <<inData, peerFin, rst, delayed, todo, cb, held, tpc, ups, downs, failed, server>>
      /\ UNCHANGED <<queue, batch>>
      /\ phase' = "poll" /\ phase = "functors" /\ cb = "none" /\ batch = <<>> /\ batchRef' = FALSE
  BY DEF BatchDone, serverVars, channelVars, socketVars, userVars
<1>2. Shape' /\ HalfCloseFlushes' /\ Handlers' /\ todo = <<>>
  BY <1>1, ZenonT(30) DEF LInv, Shape, HalfCloseFlushes, Handlers
<1>3. Bound'
  <2>1. ~Owns(batch')
    BY <1>1, EmptyFacts
  <2> QED
    BY <1>1, <2>1 DEF LInv, Bound
<1>4. st # "kConnecting"
  BY <1>1 DEF LInv, Stage, Fresh, Opening, Shape
<1>5. CASE st # "kDisconnected"
  <2>1. st \in {"kConnected", "kDisconnecting"}
    BY <1>4, <1>5 DEF LInv, Shape, States
  <2>2. Running'
    BY <1>1, <2>1, UpFacts DEF Running
  <2> QED
    BY <1>1, <1>2, <1>3, <2>1, <2>2, UpFacts, UpStep
<1>6. CASE st = "kDisconnected"
  <2>1. NoCloser(todo')
    BY <1>1, <1>2, NoHandlers
  <2>2. /\ Lacks(queue', "established") /\ Lacks(batch', "established")
        /\ (NotQueued => NotQueued') /\ (QueuedOnce => QueuedOnce')
    BY <1>1, <1>6 DEF LInv, Stage, Started, NotQueued, QueuedOnce
  <2> QED
    BY <1>1, <1>2, <1>3, <1>6, <2>1, <2>2, DownStep
<1> QED
  BY <1>5, <1>6

(* A functor that runs finds the connection alive: it has its own pointer,   *)
(* or its sender has kept one.                                               *)
LEMMA FunctorFindsAlive ==
  ASSUME SInv, LInv, batch # <<>>
  PROVE  ~Dead
<1>1. batch \in Seq(Functors)
  BY DEF SInv, StreamTyped
<1>2. Owns(batch) \/ FromUsers(batch)
  BY <1>1, TailFacts
<1>3. batchRef = TRUE \/ held = TRUE
  BY <1>2 DEF LInv, Bound
<1> QED
  BY <1>3 DEF Dead, Referenced

(* connectEstablished(), once, from the functor or from newConnection().     *)
LEMMA EstablishStep ==
  ASSUME LInv, st = "kConnecting", Untouched, connectEstablished,
         created' = TRUE, inMap' = TRUE, phase \in {"poll", "functors"},
         UNCHANGED <<baseQueue, downs, server, out, shutWr>>,
         UNCHANGED <<reading, delayed, peerFin, inData, rst, batchRef, phase, held, todo>>,
         Bound', Running'
  PROVE  LInv'
<1>1. failed = {}
  BY DEF LInv, Quiet
<1>2. failed' = {}
  BY <1>1 DEF connectEstablished, Fail, AssertThat
<1>3. /\ st' = "kConnected" /\ cb' = "up" /\ ups' = 1 /\ ev' = {"r"} /\ index' = "added"
  BY DEF connectEstablished, Untouched, setEvents, updateChannel, isNoneEvent
<1>4. out' = <<>> /\ shutWr' = FALSE /\ baseQueue' = 0 /\ downs' = 0 /\ todo' = <<>>
  BY DEF Untouched
<1>5. Shape'
  BY <1>3, <1>4 DEF LInv, Shape, States, Interests, Indices
<1>6. Handlers' /\ HalfCloseFlushes' /\ Quiet'
  BY <1>2, <1>4, NoHandlers DEF Handlers, HalfCloseFlushes, LInv, Quiet
<1>7. ~isWriting(ev')
  BY <1>3 DEF isWriting
<1>8. Fresh' /\ Opening' /\ Started' /\ Up' /\ Down'
  BY <1>3, <1>4, <1>7 DEF Fresh, Opening, Started, Up, Down, Running
<1> QED
  BY <1>5, <1>6, <1>8 DEF LInv, Stage
(* The functor that runs, and the stage it can run in.                       *)
LEMMA RunningFunctor ==
  ASSUME SInv, LInv, RunFunctor
  PROVE  /\ FunctorBody(Head(batch)) /\ Head(batch) \in Functors
         /\ Head(batch).name \in Owning \cup {"send"} /\ Takes(Head(batch).name)
         /\ phase = "functors" /\ cb = "none" /\ todo = <<>>
         /\ UNCHANGED <<server, inMap, baseQueue, created, batchRef, phase, todo, held, tpc, sent>>
         /\ Head(batch).name = "established" =>
               /\ st = "kConnecting" /\ Untouched /\ created = TRUE /\ inMap = TRUE
               /\ queue = <<>> /\ batch' = <<>>
         /\ Head(batch).name # "established" => st # "kConnecting"
         /\ Head(batch).name = "destroyed" =>
               st = "kDisconnected" /\ Erased /\ HoldsOne(batch, "destroyed") /\ Lacks(queue, "destroyed")
<1>1. /\ batch # <<>> /\ phase = "functors" /\ cb = "none" /\ batch' = Tail(batch)
      /\ UNCHANGED <<server, inMap, baseQueue, created, batchRef, phase, todo, held, tpc, sent>>
      /\ IF Dead THEN Fail({"deadFunctor"}) ELSE FunctorBody(Head(batch))
  BY DEF RunFunctor, serverVars, userVars
<1>2. FunctorBody(Head(batch))
  BY <1>1, FunctorFindsAlive
<1>3. batch \in Seq(Functors)
  BY DEF SInv, StreamTyped
<1>4. /\ Head(batch) \in Functors /\ Head(batch).name \in Owning \cup {"send"}
      /\ \A n : Lacks(batch, n) => Head(batch).name # n
  BY <1>1, <1>3, TailFacts DEF LInv, Bound
<1>5. Takes(Head(batch).name)
  BY <1>1 DEF Takes
<1>6. todo = <<>>
  BY <1>1 DEF LInv, Handlers
<1>7. created = TRUE
  BY <1>1 DEF LInv, Stage, Fresh, Shape
<1>8. st = "kConnecting" => /\ Untouched /\ inMap = TRUE /\ queue = <<>>
                            /\ batch = <<Functor("established")>>
  BY <1>1, <1>7 DEF LInv, Stage, Opening
<1>9. st # "kConnecting" => Head(batch).name # "established"
  BY <1>4 DEF LInv, Stage, Started
<1>10. st = "kConnecting" => Head(batch).name = "established" /\ Tail(batch) = <<>>
  <2>1. Head(<<Functor("established")>>) = Functor("established")
    OBVIOUS
  <2>2. Tail(<<Functor("established")>>) = <<>>
    OBVIOUS
  <2>3. Functor("established").name = "established"
    BY DEF Functor
  <2> QED
    BY <1>8, <2>1, <2>2, <2>3
<1>11. ASSUME Head(batch).name = "destroyed"
       PROVE  st = "kDisconnected" /\ Erased /\ HoldsOne(batch, "destroyed") /\ Lacks(queue, "destroyed")
  <2>1. ~Lacks(batch, "destroyed")
    BY <1>4, <1>11
  <2>2. st = "kDisconnected"
    BY <1>10, <1>11, <2>1 DEF LInv, Stage, Up, Shape, States
  <2>3. Erased
    BY <1>1, <2>1, <2>2 DEF LInv, Stage, Down, Announced, Posted, Removed, NotQueued
  <2> QED
    BY <2>1, <2>2, <2>3 DEF Erased, QueuedOnce
<1> QED
  BY <1>1, <1>2, <1>4, <1>5, <1>6, <1>7, <1>8, <1>9, <1>10, <1>11

(* Each functor runs in a stage that it is meant for.                        *)
LEMMA RunFunctorLife ==
  ASSUME SInv, SInv', LInv, RunFunctor
  PROVE  LInv'
<1> DEFINE f == Head(batch)
<1>0. /\ FunctorBody(f) /\ f \in Functors
      /\ f.name \in Owning \cup {"send"} /\ Takes(f.name)
      /\ phase = "functors" /\ cb = "none" /\ todo = <<>>
      /\ UNCHANGED <<server, inMap, baseQueue, created, batchRef, phase, todo, held, tpc, sent>>
      /\ f.name # "established" => st # "kConnecting"
  BY RunningFunctor
<1>1. CASE f.name = "established"
  <2>1. /\ st = "kConnecting" /\ Untouched /\ created = TRUE /\ inMap = TRUE
        /\ queue = <<>> /\ batch' = <<>>
    BY <1>1, RunningFunctor
  <2>2. /\ connectEstablished
        /\ UNCHANGED <<reading, out, queue, delayed, shutWr, inData, peerFin, rst, downs>>
    BY <1>0, <1>1 DEF FunctorBody, outVars
  <2>3. Bound' /\ Running'
    BY <1>0, <2>1, <2>2, EmptyFacts DEF LInv, Bound, Running
  <2> QED
    BY <1>0, <2>1, <2>2, <2>3, EstablishStep
<1>2. CASE f.name = "destroyed"
  <2>1. /\ st = "kDisconnected" /\ Erased /\ HoldsOne(batch, "destroyed") /\ Lacks(queue, "destroyed")
    BY <1>2, RunningFunctor
  <2>2. /\ connectDestroyed
        /\ UNCHANGED <<reading, out, queue, delayed, shutWr, inData, peerFin, rst, ups>>
    BY <1>0, <1>2 DEF FunctorBody, outVars
  <2>3. /\ ev = {} /\ ups = 1 /\ downs = 1 /\ inMap = FALSE /\ baseQueue = 0 /\ index = "deleted"
        /\ failed = {}
    BY <2>1 DEF LInv, Stage, Down, Erased, Quiet
  <2>4. channelRemove /\ UNCHANGED <<st, cb, downs>>
    BY <2>1, <2>2 DEF connectDestroyed
  <2>5. failed' = {} /\ index' = "new" /\ ev' = ev
    <3>1. removeAllowed(index, ev)
      BY <2>3 DEF removeAllowed, isNoneEvent
    <3> QED
      BY <2>3, <2>4, <3>1 DEF channelRemove, Fail, AssertThat
  <2>6. /\ Bound' /\ Lacks(batch', "destroyed") /\ Lacks(queue', "destroyed")
        /\ Lacks(queue', "established") /\ Lacks(batch', "established")
    <3>1. batch \in Seq(Functors) /\ batch # <<>> /\ batch' = Tail(batch)
      BY <1>0 DEF SInv, StreamTyped, Takes
    <3>2. Lacks(batch', "destroyed")
      BY <1>2, <2>1, <3>1, TailFacts
    <3>3. Lacks(queue, "established") /\ Lacks(batch, "established")
      BY <2>1 DEF LInv, Stage, Started
    <3> QED
      BY <1>0, <2>1, <2>2, <3>2, <3>3, RowsKept
  <2>7. Shape' /\ Handlers' /\ HalfCloseFlushes' /\ Quiet'
    BY <1>0, <2>1, <2>2, <2>4, <2>5 DEF LInv, Shape, Handlers, HalfCloseFlushes, Quiet, Indices
  <2>8. Down'
    BY <1>0, <2>1, <2>2, <2>3, <2>4, <2>5, <2>6, NoHandlers DEF Down, Removed, NotQueued
  <2>9. Fresh' /\ Opening' /\ Started' /\ Up'
    BY <1>0, <2>1, <2>4, <2>6 DEF LInv, Stage, Fresh, Opening, Started, Up, Shape
  <2> QED
    BY <2>6, <2>7, <2>8, <2>9 DEF LInv, Stage
<1>3. CASE f.name \notin {"established", "destroyed"} /\ st = "kDisconnected"
  <2>1. /\ UNCHANGED <<st, reading, ev, index, out, queue, delayed, shutWr, inData, peerFin, rst>>
        /\ UNCHANGED <<ups, downs, failed>> /\ cb' \in {"none", "note"}
    BY <1>0, <1>3 DEF FunctorBody, Owning, sendInLoop, outVars, channelVars, MayClose
  <2>2. /\ Bound' /\ Lacks(queue', "established") /\ Lacks(batch', "established")
        /\ (NotQueued => NotQueued') /\ (QueuedOnce => QueuedOnce')
    <3>1. Lacks(queue, "established") /\ Lacks(batch, "established")
      BY <1>3 DEF LInv, Stage, Started
    <3>2. /\ Bound' /\ Lacks(queue', "established") /\ Lacks(batch', "established")
          /\ Lacks(queue, "destroyed") => Lacks(queue', "destroyed")
          /\ Lacks(batch, "destroyed") => Lacks(batch', "destroyed")
          /\ HoldsOne(queue, "destroyed") => HoldsOne(queue', "destroyed")
          /\ HoldsOne(batch, "destroyed") => HoldsOne(batch', "destroyed") \/ Takes("destroyed")
      BY <1>0, <2>1, <3>1, RowsKept
    <3>3. ~Takes("destroyed")
      BY <1>3 DEF Takes
    <3> QED
      BY <3>2, <3>3 DEF NotQueued, QueuedOnce
  <2>3. Shape' /\ Handlers' /\ HalfCloseFlushes'
    BY <1>0, <2>1 DEF LInv, Shape, Handlers, HalfCloseFlushes
  <2>4. NoCloser(todo')
    BY <1>0, NoHandlers
  <2> QED
    BY <1>0, <1>3, <2>1, <2>2, <2>3, <2>4, DownStep
<1>4. CASE f.name \notin {"established", "destroyed"} /\ st # "kDisconnected"
  <2>1. st \in {"kConnected", "kDisconnecting"}
    BY <1>0, <1>4 DEF LInv, Shape, States
  <2>2. CASE f.name = "send"
    <3>1. sendInLoop(Bytes(f.by, f.no)) /\ f.by \in Senders /\ f.no \in 1..MaxSends
          /\ out' \in Seq(AllBytes)
      <4>1. sendInLoop(Bytes(f.by, f.no))
        BY <1>0, <2>2 DEF FunctorBody, Owning
      <4>2. f.by \in Senders /\ f.no \in 0..MaxSends
        BY <1>0 DEF Functors
      <4>3. f.no >= 1
        <5>1. batch \in Seq(Functors) /\ batch # <<>>
          BY <1>0 DEF SInv, StreamTyped, Takes
        <5>2. 1 \in 1..Len(batch) /\ f = batch[1]
          BY <5>1, LenProperties, EmptySeq, HeadTailProperties
        <5>3. Due(f)
          BY <5>2 DEF SInv, Pending
        <5> QED
          BY <2>2, <5>3 DEF Due, Sends
      <4> QED
        BY <4>1, <4>2, <4>3, ConnectionAssumption DEF ConnectionAssumption, SInv, StreamTyped
    <3>2. /\ UNCHANGED <<st, reading, delayed, shutWr, inData, peerFin, rst, cb, ups, downs, failed>>
      BY <3>1 DEF sendInLoop
    <3>3. /\ "r" \in ev' /\ ev' \in Interests /\ index' = "added" /\ (isWriting(ev') <=> out' # <<>>)
          /\ HalfCloseFlushes'
          /\ queue' = queue \/ \E name \in Mine : queue' = Append(queue, Functor(name))
      BY <2>1, <3>1, SendKeepsInterest
    <3>4. Bound' /\ Running'
      BY <1>0, <2>1, <3>3, UpFacts, RowsKept DEF Running
    <3>5. Shape' /\ Handlers'
      BY <1>0, <2>1, <3>2, <3>3 DEF LInv, Shape, Handlers, Indices
    <3> QED
      BY <1>0, <2>1, <3>2, <3>3, <3>4, <3>5, UpFacts, UpStep
  <2>3. CASE f.name = "forceClose"
    <3>1. /\ handleClose
          /\ UNCHANGED <<reading, out, queue, delayed, shutWr, inData, peerFin, rst, ups>>
      BY <1>0, <2>1, <2>3 DEF FunctorBody, MayClose, outVars
    <3>2. Bound' /\ Running'
      BY <1>0, <2>1, <3>1, UpFacts, RowsKept DEF Running
    <3>3. /\ Handlers' /\ NoCloser(todo') /\ todo' \in Seq(HandlerNames)
          /\ inData' \in BOOLEAN /\ rst' \in {"no", "err", "eof"}
      BY <1>0, <3>1, NoHandlers DEF LInv, Handlers, Shape
    <3> QED
      BY <1>0, <2>1, <3>1, <3>2, <3>3, CloseStep
  <2>4. CASE f.name \in {"writeComplete", "highWater"}
    <3>1. /\ UNCHANGED <<st, reading, ev, index, out, queue, delayed, shutWr, inData, peerFin, rst>>
          /\ UNCHANGED <<ups, downs, failed>> /\ cb' = "note"
      BY <1>0, <2>4 DEF FunctorBody, outVars, channelVars
    <3>2. Bound' /\ Running'
      BY <1>0, <2>1, <3>1, UpFacts, RowsKept DEF Running
    <3>3. Shape' /\ Handlers' /\ HalfCloseFlushes'
      BY <1>0, <3>1 DEF LInv, Shape, Handlers, HalfCloseFlushes
    <3> QED
      BY <1>0, <2>1, <3>1, <3>2, <3>3, UpFacts, UpStep
  <2> QED
    BY <1>0, <1>4, <2>2, <2>3, <2>4 DEF Owning
<1> QED
  BY <1>1, <1>2, <1>3, <1>4
(* A callback returns; after the last one the connection leaves the map, at  *)
(* once or through the base loop.                                            *)
LEMMA CallbackLife ==
  ASSUME SInv, SInv', LInv, CallbackReturns
  PROVE  LInv'
<1>1. /\ UNCHANGED <<server, created, st, reading, out, delayed, shutWr, inData, peerFin, rst>>
      /\ UNCHANGED <<batch, batchRef, phase, todo, held, tpc, ups, downs>>
      /\ cb # "none" /\ cb' = "none"
  BY DEF CallbackReturns, socketVars, loopVars, userVars
<1>2. st # "kConnecting" /\ st \in States /\ cb # "destroyDown" /\ failed = {} /\ server = TRUE
  BY <1>1 DEF LInv, Stage, Fresh, Opening, Untouched, Shape, Quiet
<1>3. Handlers' /\ HalfCloseFlushes'
  BY <1>1 DEF LInv, Handlers, HalfCloseFlushes
<1>4. CASE cb = "down"
  <2>1. st = "kDisconnected"
    BY <1>2, <1>4 DEF LInv, Stage, Up, States
  <2>2. /\ inMap = TRUE /\ baseQueue = 0 /\ index = "deleted" /\ NotQueued /\ ev = {} /\ ups = 1
        /\ downs = 1 /\ NoCloser(todo) /\ phase # "reported"
        /\ Lacks(queue, "established") /\ Lacks(batch, "established")
    BY <1>4, <2>1 DEF LInv, Stage, Down, Announced, Posted, Erased, Removed, Started
  <2>3. removeConnection /\ UNCHANGED <<ev, index>>
    BY <1>4 DEF CallbackReturns, channelVars
  <2>4. failed' = {}
    BY <1>2, <2>2, <2>3 DEF removeConnection, removeConnectionInLoop, Fail, AssertThat
  <2>5. CASE baseQueue' = 1 /\ inMap' = TRUE /\ queue' = queue
    <3>1. Bound'
      BY <1>1, <2>5, RowsKept
    <3>2. Shape' /\ Quiet'
      BY <1>1, <2>3, <2>4, <2>5 DEF LInv, Shape, Quiet
    <3>3. NotQueued'
      BY <1>1, <2>2, <2>5 DEF NotQueued
    <3>4. Down'
      BY <1>1, <2>2, <2>3, <2>5, <3>3 DEF Down, Posted
    <3>5. Fresh' /\ Opening' /\ Started' /\ Up'
      BY <1>1, <2>1, <2>2, <2>5 DEF Fresh, Opening, Started, Up, LInv, Stage
    <3> QED
      BY <1>3, <3>1, <3>2, <3>4, <3>5 DEF LInv, Stage
  <2>6. CASE baseQueue' = 0 /\ inMap' = FALSE /\ queue' = Append(queue, Functor("destroyed"))
    <3>1. queue \in Seq(Functors) /\ batch \in Seq(Functors)
          /\ Functor("destroyed") \in Functors /\ Functor("destroyed").name = "destroyed"
          /\ "destroyed" \in Owning
      BY SelfFunctors DEF Owning, SInv, StreamTyped
    <3>2. /\ HoldsOne(queue', "destroyed") /\ Lacks(queue', "established")
          /\ Polite(queue) => Polite(queue')
          /\ FromUsers(queue') => FromUsers(queue)
      BY <2>2, <2>6, <3>1, AppendFacts DEF NotQueued
    <3>3. Bound'
      BY <1>1, <3>2 DEF LInv, Bound
    <3>4a. inMap' \in BOOLEAN
      BY <2>6, Zenon
    <3>4b. baseQueue' \in 0..1
      BY <2>6
    <3>4. Shape' /\ Quiet'
      BY <1>1, <2>3, <2>4, <3>4a, <3>4b DEF LInv, Shape, Quiet
    <3>5. Down'
      BY <1>1, <2>2, <2>3, <2>6, <3>2 DEF Down, Erased, QueuedOnce, NotQueued
    <3>6. Fresh' /\ Opening' /\ Started' /\ Up'
      BY <1>1, <2>1, <2>2, <3>2 DEF Fresh, Opening, Started, Up, LInv, Stage
    <3> QED
      BY <1>3, <3>3, <3>4, <3>5, <3>6 DEF LInv, Stage
  <2>7. CASE sameLoop
    <3>1. removeConnectionInLoop /\ baseQueue' = 0
      BY <2>2, <2>3, <2>7 DEF removeConnection
    <3> QED
      BY <1>2, <2>6, <3>1 DEF removeConnectionInLoop
  <2>8. CASE ~sameLoop
    <3>1. baseQueue' = 0 + 1 /\ UNCHANGED <<inMap, queue>>
      BY <1>2, <2>2, <2>3, <2>8 DEF removeConnection
    <3> QED
      BY <2>2, <2>5, <3>1
  <2> QED
    BY <2>7, <2>8
<1>5. CASE cb # "down"
  <2>1. UNCHANGED <<inMap, baseQueue, queue, ev, index, failed>>
    BY <1>2, <1>5 DEF CallbackReturns, channelVars
  <2>2. Bound'
    BY <1>1, <2>1, RowsKept
  <2>3. Shape'
    BY <1>1, <2>1 DEF LInv, Shape
  <2>4. CASE st # "kDisconnected"
    <3>1. st \in {"kConnected", "kDisconnecting"}
      BY <1>2, <2>4 DEF States
    <3>2. Running'
      BY <1>1, <2>1, <3>1, UpFacts DEF Running
    <3> QED
      BY <1>1, <1>3, <2>1, <2>2, <2>3, <3>1, <3>2, UpFacts, UpStep
  <2>5. CASE st = "kDisconnected"
    <3>1. /\ Lacks(queue', "established") /\ Lacks(batch', "established")
          /\ (NotQueued => NotQueued') /\ (QueuedOnce => QueuedOnce')
          /\ NoCloser(todo') /\ phase' # "reported"
      BY <1>1, <2>1, <2>5 DEF LInv, Stage, Started, Down, NotQueued, QueuedOnce
    <3> QED
      BY <1>1, <1>3, <1>5, <2>1, <2>2, <2>3, <2>5, <3>1, DownStep
  <2> QED
    BY <2>4, <2>5
<1> QED
  BY <1>4, <1>5

-----------------------------------------------------------------------------
(* Steps of the base loop and of the threads that send.                      *)

(* newConnection() establishes the connection at once or through its loop.   *)
LEMMA NewConnectionLife ==
  ASSUME SInv, SInv', LInv, newConnection
  PROVE  LInv'
<1>1. /\ created = FALSE /\ created' = TRUE /\ inMap' = TRUE
      /\ UNCHANGED <<server, baseQueue, reading, out, delayed, shutWr, inData, peerFin, rst>>
      /\ UNCHANGED <<batch, batchRef, phase, todo, held, tpc, downs>>
  BY DEF newConnection, Insert, socketVars, loopVars, userVars, LInv, Shape
<1>2. Untouched /\ st = "kConnecting" /\ queue = <<>> /\ batch = <<>> /\ phase = "poll"
  BY <1>1 DEF LInv, Stage, Fresh
<1>3. CASE connectEstablished /\ UNCHANGED queue
  <2>1. Bound' /\ Running'
    BY <1>1, <1>2, <1>3, EmptyFacts DEF LInv, Bound, Running
  <2> QED
    BY <1>1, <1>2, <1>3, <2>1, EstablishStep
<1>4. CASE /\ queue' = Append(queue, Functor("established"))
           /\ UNCHANGED <<st, channelVars, cb, ups, failed>>
  <2>1. queue' = <<Functor("established")>>
    BY <1>2, <1>4
  <2>2. UNCHANGED <<st, ev, index, cb, ups, failed>>
    BY <1>4 DEF channelVars
  <2>3. Shape' /\ Quiet' /\ Handlers' /\ HalfCloseFlushes'
    BY <1>1, <2>2 DEF LInv, Shape, Quiet, Handlers, HalfCloseFlushes
  <2>4. Bound'
    <3>1. queue \in Seq(Functors) /\ Functor("established") \in Functors
          /\ Functor("established").name = "established" /\ "established" \in Owning
      BY SelfFunctors DEF Owning, SInv, StreamTyped
    <3>2. /\ Polite(queue) => Polite(queue')
          /\ FromUsers(queue') => FromUsers(queue)
      BY <1>4, <3>1, AppendFacts
    <3> QED
      BY <1>1, <3>2 DEF LInv, Bound
  <2>5. Stage'
    BY <1>1, <1>2, <2>1, <2>2 DEF Stage, Fresh, Opening, Untouched, Started, Up, Down
  <2> QED
    BY <2>3, <2>4, <2>5 DEF LInv
<1> QED
  BY <1>3, <1>4 DEF newConnection

(* The base loop erases the connection from the map and queues               *)
(* connectDestroyed.                                                         *)
LEMMA BaseRemoveLife ==
  ASSUME SInv, SInv', LInv, BaseRunsRemove
  PROVE  LInv'
<1>1. /\ baseQueue > 0 /\ baseQueue' = baseQueue - 1 /\ removeConnectionInLoop
      /\ UNCHANGED <<server, created, st, reading, ev, index, out, delayed, shutWr, inData, peerFin, rst>>
      /\ UNCHANGED <<batch, batchRef, phase, todo, cb, held, tpc, ups, downs>>
  BY DEF BaseRunsRemove, socketVars, loopVars, userVars, channelVars
<1>2. baseQueue = 1 /\ st \in States /\ server = TRUE /\ failed = {}
  BY <1>1 DEF LInv, Shape, Quiet
<1>3. st = "kDisconnected"
  BY <1>2 DEF LInv, Stage, Fresh, Opening, Untouched, Up, Shape, States
<1>4. /\ inMap = TRUE /\ cb # "down" /\ index = "deleted" /\ NotQueued /\ ev = {} /\ ups = 1
      /\ downs = 1 /\ NoCloser(todo) /\ phase # "reported"
      /\ Lacks(queue, "established") /\ Lacks(batch, "established")
  BY <1>2, <1>3 DEF LInv, Stage, Down, Announced, Posted, Erased, Removed, Started
<1>5. inMap' = FALSE /\ queue' = Append(queue, Functor("destroyed"))
  BY <1>1, <1>2 DEF removeConnectionInLoop
<1>6. failed' = {}
  BY <1>1, <1>2, <1>4 DEF removeConnectionInLoop, Fail, AssertThat
<1>7. queue \in Seq(Functors) /\ Functor("destroyed") \in Functors
      /\ Functor("destroyed").name = "destroyed" /\ "destroyed" \in Owning
  BY SelfFunctors DEF Owning, SInv, StreamTyped
<1>8. /\ HoldsOne(queue', "destroyed") /\ Lacks(queue', "established")
      /\ Polite(queue) => Polite(queue')
      /\ FromUsers(queue') => FromUsers(queue)
  BY <1>4, <1>5, <1>7, AppendFacts DEF NotQueued
<1>9. Bound'
  BY <1>1, <1>8 DEF LInv, Bound
<1>10. Shape' /\ Quiet' /\ Handlers' /\ HalfCloseFlushes'
  <2>1. inMap' \in BOOLEAN
    BY <1>5, Zenon
  <2>2. baseQueue' \in 0..1
    BY <1>1, <1>2
  <2>3. Shape'
    BY <1>1, <2>1, <2>2 DEF LInv, Shape
  <2> QED
    BY <1>1, <1>6, <2>3 DEF LInv, Quiet, Handlers, HalfCloseFlushes
<1>11. Down'
  BY <1>1, <1>2, <1>4, <1>5, <1>8 DEF Down, Erased, QueuedOnce, NotQueued
<1>12. Fresh' /\ Opening' /\ Started' /\ Up'
  BY <1>1, <1>3, <1>4, <1>8 DEF Fresh, Opening, Started, Up, LInv, Stage
<1> QED
  BY <1>9, <1>10, <1>11, <1>12 DEF LInv, Stage

(* A thread queues its send while it still holds its pointer.                *)
LEMMA UserQueuesLife ==
  ASSUME SInv, SInv', LInv, NEW u \in Users, UserQueues(u)
  PROVE  LInv'
<1>1. /\ UNCHANGED <<inMap, created, baseQueue, st, reading, ev, index, out, shutWr, delayed>>
      /\ UNCHANGED <<inData, peerFin, rst>>
      /\ UNCHANGED <<batch, batchRef, phase, todo, cb, held, ups, downs, failed, server>>
      /\ tpc' = [tpc EXCEPT ![u] = "idle"] /\ tpc[u] \in DOMAIN Queues
      /\ queue' = Append(queue, [name |-> Queues[tpc[u]], by |-> u, no |-> sent'[u]])
  BY DEF UserQueues, serverVars, channelVars, loopVars, socketVars
<1>2. tpc[u] = "send" /\ held = TRUE
  <2>1. tpc[u] # "idle"
    BY <1>1 DEF Queues
  <2> QED
    BY <2>1 DEF LInv, Bound
<1>3. PICK f \in Functors : f.name = "send" /\ queue' = Append(queue, f)
  <2>1. sent' \in [Senders -> 0..MaxSends] /\ u \in Senders
    BY DEF SInv, StreamTyped, Senders
  <2>2. Queues["send"] = "send"
    BY DEF Queues
  <2>3. [name |-> "send", by |-> u, no |-> sent'[u]] \in Functors
    BY <2>1 DEF Functors, Ops
  <2> QED
    BY <1>1, <1>2, <2>2, <2>3
<1>4. queue \in Seq(Functors)
  BY DEF SInv, StreamTyped
<1>5. /\ \A n \in {"established", "destroyed"} :
            /\ Lacks(queue, n) => Lacks(queue', n)
            /\ HoldsOne(queue, n) => HoldsOne(queue', n)
      /\ Polite(queue) => Polite(queue')
  BY <1>3, <1>4, AppendFacts
<1>6. Bound'
  <2>1. \A v \in Users : tpc'[v] # "idle" => tpc'[v] = "send" /\ held' = TRUE
    BY <1>1, <1>2 DEF LInv, Bound, SInv, StreamTyped
  <2> QED
    BY <1>1, <1>2, <1>5, <2>1 DEF LInv, Bound
<1>7. Shape' /\ Handlers' /\ HalfCloseFlushes'
  BY <1>1 DEF LInv, Shape, Handlers, HalfCloseFlushes
<1>8. st # "kConnecting"
  BY <1>2 DEF LInv, Stage, Fresh, Opening, Untouched, Shape
<1>9. Quiet' /\ Fresh' /\ Opening'
  BY <1>1, <1>8 DEF LInv, Quiet, Stage, Fresh, Opening
<1>10. Started' /\ Up'
  BY <1>1, <1>5 DEF LInv, Stage, Started, Up
<1>11. (NotQueued => NotQueued') /\ (QueuedOnce => QueuedOnce')
  BY <1>1, <1>5 DEF NotQueued, QueuedOnce
<1>12. Down'
  BY <1>1, <1>11 DEF LInv, Stage, Down, Announced, Posted, Erased, Removed
<1> QED
  BY <1>6, <1>7, <1>9, <1>10, <1>12 DEF LInv, Stage
-----------------------------------------------------------------------------
(* A connection used with discipline goes through its stages in order.       *)
THEOREM LifeInvariant ==
  ASSUME Disciplined
  PROVE  Spec => [](SInv /\ LInv)
<1>1. Init => LInv
  <2> SUFFICES ASSUME Init PROVE LInv
    OBVIOUS
  <2>1. Shape
    <3>1. /\ inMap \in BOOLEAN /\ created \in BOOLEAN /\ reading \in BOOLEAN /\ delayed \in BOOLEAN
          /\ shutWr \in BOOLEAN /\ inData \in BOOLEAN /\ peerFin \in BOOLEAN /\ batchRef \in BOOLEAN
          /\ held \in BOOLEAN
      BY Zenon DEF Init
    <3>2. /\ baseQueue \in 0..1 /\ st \in States /\ ev \in Interests /\ index \in Indices
          /\ rst \in {"no", "err", "eof"} /\ phase \in {"poll", "reported", "event", "functors"}
          /\ cb \in {"none", "up", "message", "down", "note"} /\ ups \in Nat /\ downs \in Nat
      BY DEF Init, States, Interests, Indices
    <3>3. todo \in Seq(HandlerNames)
      BY NoHandlers DEF Init
    <3> QED
      BY <3>1, <3>2, <3>3 DEF Shape, HandlerNames
  <2>2. Quiet /\ Handlers /\ HalfCloseFlushes
    BY NoHandlers DEF Init, Quiet, Handlers, HalfCloseFlushes
  <2>3. Bound
    BY EmptyFacts DEF Init, Bound
  <2>4. Stage
    BY DEF Init, Stage, Fresh, Opening, Untouched, Started, Up, Down
  <2> QED
    BY <2>1, <2>2, <2>3, <2>4 DEF LInv
<1>2. SInv /\ SInv' /\ LInv /\ [Next]_vars => LInv'
  <2> SUFFICES ASSUME SInv, SInv', LInv, [Next]_vars PROVE LInv'
    OBVIOUS
  <2>1. CASE UNCHANGED vars
    <3>1. /\ UNCHANGED <<inMap, created, baseQueue, st, reading, ev, index, out, delayed, shutWr>>
          /\ UNCHANGED <<inData, peerFin, rst>>
          /\ UNCHANGED <<queue, batch, batchRef, phase, todo, cb, held, tpc, ups, downs, failed, server>>
      BY <2>1 DEF vars
    <3>2. Shape' /\ Quiet' /\ Handlers' /\ HalfCloseFlushes'
      BY <3>1 DEF LInv, Shape, Quiet, Handlers, HalfCloseFlushes
    <3>3. Bound'
      BY <3>1 DEF LInv, Bound
    <3>4. Stage'
      BY <3>1 DEF LInv, Stage, Fresh, Opening, Started, Up, Down, Untouched, Announced, Posted,
                  Erased, Removed, NotQueued, QueuedOnce
    <3> QED
      BY <3>2, <3>3, <3>4 DEF LInv
  <2>2. CASE Next
    <3>1. ~ServerDestructs /\ ~LoopStartsOrStopsRead
      BY DEF ServerDestructs, LoopStartsOrStopsRead, OnLoop, Disciplined
    <3>2. ASSUME NEW u \in Users, UserSetsState(u)
          PROVE  FALSE
      BY <3>2 DEF UserSetsState, LInv, Bound
    <3>3. CASE DelayExpires
      BY <3>3, ClosingLife, LateDelayLife
    <3>4. CASE LoopStep
      BY <3>4, BeginEventLife, HandleCloseLife, HandleErrorLife, HandleReadLife, HandleWriteLife,
         SwapLife, RunFunctorLife, BatchDoneLife, CallbackLife DEF LoopStep
    <3>5. CASE LoopUserStep
      BY <3>1, <3>5, LoopSendsLife, ClosingLife DEF LoopUserStep
    <3>6. CASE \E u \in Users : \/ \E op \in Ops : UserChecks(u, op)
                                \/ UserSetsState(u) \/ UserQueues(u)
      <4>1. PICK u \in Users : \/ \E op \in Ops : UserChecks(u, op)
                               \/ UserSetsState(u) \/ UserQueues(u)
        BY <3>6
      <4>2. CASE \E op \in Ops : UserChecks(u, op)
        BY <4>2, PointerLife
      <4>3. CASE UserQueues(u)
        BY <4>3, UserQueuesLife
      <4> QED
        BY <3>2, <4>1, <4>2, <4>3
    <3>7. CASE UserKeepsPointer \/ UserDropsPointer
      BY <3>7, PointerLife
    <3> QED
      BY <2>2, <3>1, <3>3, <3>4, <3>5, <3>6, <3>7, NewConnectionLife, BaseRemoveLife, PollLife,
         PeerLife DEF Next
  <2> QED
    BY <2>1, <2>2
<1> QED
  BY <1>1, <1>2, StreamInvariant, PTL DEF Spec

(* The output path of a connection used with discipline: besides the order   *)
(* of the bytes, the write side is closed only after the last of them, and   *)
(* epoll watches for room exactly while some wait.                           *)
THEOREM OutputIsSound ==
  ASSUME Disciplined
  PROVE  Spec => []OutputSound
<1>1. SInv /\ LInv => TypeOK
  BY DEF SInv, StreamTyped, LInv, Shape, Quiet, TypeOK
<1>2. LInv => HalfCloseFlushes /\ WriteInterestMatches
  <2> SUFFICES ASSUME LInv PROVE HalfCloseFlushes /\ WriteInterestMatches
    OBVIOUS
  <2>1. st \in {"kConnected", "kDisconnecting"} => (isWriting(ev) <=> out # <<>>)
    BY DEF LInv, Stage, Up
  <2>2. created = TRUE /\ st = "kConnecting" => ~isWriting(ev) /\ out = <<>>
    BY DEF LInv, Stage, Opening, Untouched, isWriting
  <2> QED
    BY <2>1, <2>2 DEF LInv, Shape, States, WriteInterestMatches
<1> QED
  BY <1>1, <1>2, LifeInvariant, BytesKeepTheirOrder, PTL DEF OutputSound

(* No assert on the close path fires, no dead object is used, and the end is *)
(* reported once, after the start: closing runs once whichever of handler,   *)
(* forced close and timer comes first.                                       *)
THEOREM ClosesOnce ==
  ASSUME Disciplined
  PROVE  Spec => []CloseOnce
<1>1. LInv => CloseOnce
  <2> SUFFICES ASSUME LInv PROVE CloseOnce
    OBVIOUS
  <2>1. failed = {}
    BY DEF LInv, Quiet
  <2>2. (ups = 0 /\ downs = 0) \/ (ups = 1 /\ downs = 0) \/ (ups = 1 /\ downs = 1)
    BY DEF LInv, Stage, Shape, States, Fresh, Opening, Untouched, Up, Down
  <2> QED
    BY <2>1, <2>2 DEF CloseOnce
<1> QED
  BY <1>1, LifeInvariant, PTL

(* A reported channel belongs to a connection that lives, and the destructor *)
(* finds the state kDisconnected and the channel out of the poller.          *)
THEOREM LivesUntilRemoved ==
  ASSUME Disciplined
  PROVE  Spec => []LifetimeSound
<1>1. SInv /\ LInv => LifetimeSound
  <2> SUFFICES ASSUME SInv, LInv PROVE LifetimeSound
    OBVIOUS
  <2>1. ASSUME Dead PROVE st = "kDisconnected" /\ index = "new" /\ downs = ups
    <3>1. created = TRUE /\ inMap = FALSE /\ batchRef = FALSE /\ ~Owns(queue) /\ cb = "none"
          /\ baseQueue = 0
      BY <2>1 DEF Dead, Referenced, LInv, Shape
    <3>2. st = "kDisconnected"
      BY <3>1 DEF LInv, Stage, Opening, Up, Shape, States
    <3>3. ~QueuedOnce
      <4>1. queue \in Seq(Functors) /\ batch \in Seq(Functors)
        BY DEF SInv, StreamTyped
      <4>2. ~Owns(batch)
        BY <3>1 DEF LInv, Bound
      <4> QED
        BY <3>1, <4>1, <4>2, HeldByFunctor DEF QueuedOnce
    <3> QED
      BY <3>1, <3>2, <3>3 DEF LInv, Stage, Down, Announced, Posted, Erased, Removed
  <2>2. phase = "reported" => ~Dead
    BY <2>1 DEF LInv, Stage, Down
  <2> QED
    BY <2>1, <2>2 DEF LifetimeSound, ActiveChannelLives, CleanDestruction
<1> QED
  BY <1>1, LifeInvariant, PTL
-----------------------------------------------------------------------------
(* The HTTP server: the input buffer by what readFd(), append(), makeSpace() and *)
(* retrieve() do to its contents.                                            *)

Octets == Texts \cup {"CR", "LF", Blank}
BufferOK(b) ==
    /\ b \in [mem : Seq(Octets), r : Nat, w : Nat]
    /\ kCheapPrepend <= b.r /\ b.r <= b.w /\ b.w <= Len(b.mem)

LEMMA CutSeq ==
  ASSUME NEW S, NEW s \in Seq(S), NEW m \in Nat, NEW n \in Nat, m <= n, n <= Len(s)
  PROVE  /\ SubSeq(s, m + 1, n) \in Seq(S) /\ Len(SubSeq(s, m + 1, n)) = n - m
         /\ \A k \in 1..n - m : SubSeq(s, m + 1, n)[k] = s[m + k]
<1>1. PICK len \in Nat : len = Len(s)
  BY LenProperties, Zenon
<1>2. DOMAIN s = 1..len
  BY <1>1, LenProperties, Zenon
<1> USE <1>1
<1>3. \A k \in m + 1..n : k \in 1..len
  OBVIOUS
<1>4. SubSeq(s, m + 1, n) \in Seq(S)
  <2>1. \A k \in m + 1..n : s[k] \in S
    BY <1>3, ElementOfSeq
  <2> QED
    BY <2>1, SubSeqProperties, <1>3
<1>5. Len(SubSeq(s, m + 1, n)) = n - m
  OBVIOUS
<1>6. \A k \in 1..n - m : SubSeq(s, m + 1, n)[k] = s[m + k]
  OBVIOUS
<1> QED
  BY <1>4, <1>5, <1>6

LEMMA SameSeq ==
  ASSUME NEW S, NEW s \in Seq(S), NEW t \in Seq(S), NEW n \in Nat, Len(s) = n, Len(t) = n,
         \A k \in 1..n : s[k] = t[k]
  PROVE  s = t
  BY SeqEqual

LEMMA RecordFields ==
  ASSUME NEW x, NEW y, NEW z, NEW mem, NEW w
  PROVE  /\ [[mem |-> x, r |-> y, w |-> z] EXCEPT !.mem = mem] = [mem |-> mem, r |-> y, w |-> z]
         /\ [[mem |-> x, r |-> y, w |-> z] EXCEPT !.w = w] = [mem |-> x, r |-> y, w |-> w]
  OBVIOUS

LEMMA BufferFields ==
  ASSUME NEW b, BufferOK(b), NEW mem, NEW len \in Nat
  PROVE  hasWritten([b EXCEPT !.mem = mem], len) = [mem |-> mem, r |-> b.r, w |-> b.w + len]
<1> DEFINE c == [mem |-> mem, r |-> b.r, w |-> b.w]
<1>1. PICK x, y, z : b = [mem |-> x, r |-> y, w |-> z]
  BY DEF BufferOK
<1>2. [b EXCEPT !.mem = mem] = c
  BY <1>1, RecordFields
<1>3. hasWritten(c, len) = [mem |-> mem, r |-> b.r, w |-> b.w + len]
  <2>1. c.w = b.w
    OBVIOUS
  <2>2. hasWritten(c, len) = [c EXCEPT !.w = c.w + len]
    BY DEF hasWritten
  <2> QED
    BY <2>1, <2>2, RecordFields
<1> QED
  BY <1>2, <1>3

LEMMA ContentsType ==
  ASSUME NEW b, BufferOK(b)
  PROVE  /\ Contents(b) \in Seq(Octets) /\ Len(Contents(b)) = b.w - b.r
         /\ \A k \in 1..b.w - b.r : Contents(b)[k] = b.mem[b.r + k]
  BY CutSeq DEF BufferOK, Contents

LEMMA OverwrittenType ==
  ASSUME NEW mem \in Seq(Octets), NEW data \in Seq(Octets), NEW i \in Nat,
         NEW m \in Nat, Len(mem) = m, NEW d \in Nat, Len(data) = d, i + d <= m
  PROVE  /\ Overwritten(mem, i, data) \in Seq(Octets) /\ Len(Overwritten(mem, i, data)) = m
         /\ \A k \in 1..m : Overwritten(mem, i, data)[k] =
               IF k > i /\ k <= i + d THEN data[k - i] ELSE mem[k]
<1>1. m = Len(mem) /\ d = Len(data)
  OBVIOUS
<1>2. DOMAIN mem = 1..m
  BY <1>1, LenProperties, Zenon
<1>3. Overwritten(mem, i, data) = [k \in 1..m |-> IF k > i /\ k <= i + d THEN data[k - i] ELSE mem[k]]
  BY <1>1, <1>2 DEF Overwritten
<1>4. \A k \in 1..m : (IF k > i /\ k <= i + d THEN data[k - i] ELSE mem[k]) \in Octets
  <2> TAKE k \in 1..m
  <2>1. CASE k > i /\ k <= i + d
    <3>1. k - i \in 1..Len(data)
      BY <2>1, <1>1
    <3> QED
      BY <2>1, <3>1, ElementOfSeq
  <2>2. CASE ~(k > i /\ k <= i + d)
    BY <2>2, <1>1, ElementOfSeq
  <2> QED
    BY <2>1, <2>2
<1> QED
  BY <1>1, <1>3, <1>4

(* Data written behind the data that is there follows it.                    *)
LEMMA WrittenBehind ==
  ASSUME NEW b, BufferOK(b), NEW data \in Seq(Octets), Len(data) <= Len(b.mem) - b.w
  PROVE  LET a == hasWritten([b EXCEPT !.mem = Overwritten(b.mem, b.w, data)], Len(data))
         IN  BufferOK(a) /\ Contents(a) = Contents(b) \o data /\ Len(a.mem) = Len(b.mem)
<1> DEFINE mem == Overwritten(b.mem, b.w, data)
           a == hasWritten([b EXCEPT !.mem = mem], Len(data))
<1>1. PICK m \in Nat, d \in Nat : m = Len(b.mem) /\ d = Len(data)
  BY LenProperties, Zenon DEF BufferOK
<1>2. /\ b.mem \in Seq(Octets) /\ b.r \in Nat /\ b.w \in Nat /\ b = [mem |-> b.mem, r |-> b.r, w |-> b.w]
      /\ kCheapPrepend <= b.r /\ b.r <= b.w /\ b.w <= m /\ b.w + d <= m
  BY <1>1 DEF BufferOK
<1>3. /\ mem \in Seq(Octets) /\ Len(mem) = m
      /\ \A k \in 1..m : mem[k] = IF k > b.w /\ k <= b.w + d THEN data[k - b.w] ELSE b.mem[k]
  BY <1>1, <1>2, OverwrittenType
<1> HIDE DEF mem
<1>4. a = [mem |-> mem, r |-> b.r, w |-> b.w + d]
  BY <1>1, BufferFields
<1>5. BufferOK(a)
  BY <1>2, <1>3, <1>4 DEF BufferOK
<1> HIDE DEF a
<1>6. /\ Contents(a) \in Seq(Octets) /\ Len(Contents(a)) = (b.w + d) - b.r
      /\ \A k \in 1..(b.w + d) - b.r : Contents(a)[k] = mem[b.r + k]
  BY <1>4, <1>5, ContentsType
<1>7. /\ Contents(b) \in Seq(Octets) /\ Len(Contents(b)) = b.w - b.r
      /\ \A k \in 1..b.w - b.r : Contents(b)[k] = b.mem[b.r + k]
  BY ContentsType
<1> DEFINE c == Contents(b)
           n == b.w - b.r
<1>8. /\ c \o data \in Seq(Octets) /\ Len(c \o data) = n + d
      /\ \A k \in 1..n + d : (c \o data)[k] = IF k <= n THEN c[k] ELSE data[k - n]
  <2>1. n \in Nat
    BY <1>2
  <2> HIDE DEF n
  <2>2. Len(c) = n
    BY <1>7 DEF n
  <2> QED
    BY <2>1, <2>2, <1>7, <1>1
<1>9. \A k \in 1..n + d : Contents(a)[k] = (c \o data)[k]
  <2> TAKE k \in 1..n + d
  <2>1. b.r + k \in 1..m /\ n + d = (b.w + d) - b.r /\ n \in Nat
    BY <1>2
  <2>2. CASE k <= n
    <3>1. ~(b.r + k > b.w) /\ k \in 1..n
      BY <2>2, <1>2
    <3>2. mem[b.r + k] = b.mem[b.r + k]
      BY <3>1, <2>1, <1>3
    <3> QED
      BY <2>1, <3>1, <3>2, <1>6, <1>7, <1>8, <2>2
  <2>3. CASE k > n
    <3>1. b.r + k > b.w /\ b.r + k <= b.w + d /\ (b.r + k) - b.w = k - n /\ ~(k <= n)
      BY <2>3, <1>2, <2>1, SMTT(30)
    <3>2. mem[b.r + k] = data[k - n]
      BY <3>1, <2>1, <1>3
    <3> QED
      BY <2>1, <3>1, <3>2, <1>6, <1>8
  <2>4. k <= n \/ k > n
    BY <2>1
  <2> QED
    BY <2>2, <2>3, <2>4, Zenon
<1>10. Contents(a) = c \o data
  <2>1. n + d \in Nat /\ Len(Contents(a)) = n + d
    BY <1>2, <1>6
  <2> QED
    BY <2>1, <1>6, <1>8, <1>9, SameSeq
<1>11. a.mem = mem
  BY <1>4
<1> QED
  BY <1>5, <1>10, <1>3, <1>11, <1>1, Zenon DEF a, mem

LEMMA BlanksType == \A n \in Nat : Blanks(n) \in Seq(Octets) /\ Len(Blanks(n)) = n
  BY DEF Blanks, Octets

(* makeSpace() keeps the data and makes the room it was asked for.           *)
LEMMA SpaceMade ==
  ASSUME NEW b, BufferOK(b), NEW len \in Nat, Len(b.mem) - b.w < len
  PROVE  LET e == makeSpace(b, len)
         IN  BufferOK(e) /\ Contents(e) = Contents(b) /\ len <= Len(e.mem) - e.w
<1> USE BufferAssumption
<1> DEFINE e == makeSpace(b, len)
<1>1. PICK m \in Nat : m = Len(b.mem)
  BY LenProperties, Zenon DEF BufferOK
<1>2. /\ b.mem \in Seq(Octets) /\ b.r \in Nat /\ b.w \in Nat /\ b = [mem |-> b.mem, r |-> b.r, w |-> b.w]
      /\ kCheapPrepend <= b.r /\ b.r <= b.w /\ b.w <= m /\ m < b.w + len
  BY <1>1 DEF BufferOK
<1>3. /\ Contents(b) \in Seq(Octets) /\ Len(Contents(b)) = b.w - b.r
      /\ \A k \in 1..b.w - b.r : Contents(b)[k] = b.mem[b.r + k]
  BY ContentsType
<1>4. CASE NoRoomInside(b, len)
  <2> DEFINE more == Blanks((b.w + len) - m)
  <2>1. more \in Seq(Octets) /\ Len(more) = (b.w + len) - m
    BY <1>2, BlanksType
  <2> HIDE DEF more
  <2>2. e = [mem |-> b.mem \o more, r |-> b.r, w |-> b.w]
    <3>1. e = [b EXCEPT !.mem = b.mem \o more]
      <4>1. e = [b EXCEPT !.mem = b.mem \o Blanks(b.w + (len - Len(b.mem)))]
        BY <1>4, Zenon DEF makeSpace
      <4>2. b.w + (len - Len(b.mem)) = (b.w + len) - m
        BY <1>1, <1>2
      <4> QED
        BY <4>1, <4>2, Zenon DEF more
    <3>2. PICK x, y, z : b = [mem |-> x, r |-> y, w |-> z]
      BY DEF BufferOK
    <3> HIDE DEF e
    <3> DEFINE joined == b.mem \o more
    <3> HIDE DEF joined
    <3>3. e = [b EXCEPT !.mem = joined]
      BY <3>1 DEF joined
    <3>4. e = [mem |-> joined, r |-> b.r, w |-> b.w]
      BY <3>2, <3>3, RecordFields
    <3> QED
      BY <3>4 DEF joined
  <2> DEFINE mem == b.mem \o more
  <2>3. /\ mem \in Seq(Octets) /\ Len(mem) = b.w + len
        /\ \A k \in 1..m : mem[k] = b.mem[k]
    <3>1. PICK q \in Nat : q = (b.w + len) - m /\ m + q = b.w + len
      BY <1>2
    <3>2. PICK s \in Seq(Octets) : s = b.mem
      BY <1>2
    <3>3. s \o more \in Seq(Octets) /\ Len(s \o more) = m + q
      BY <3>1, <3>2, <1>1, <2>1
    <3>4. \A k \in 1..m : (s \o more)[k] = s[k]
      BY <3>1, <3>2, <1>1, <2>1
    <3> QED
      BY <3>1, <3>2, <3>3, <3>4
  <2> HIDE DEF mem
  <2>4. BufferOK(e)
    BY <1>2, <2>2, <2>3 DEF BufferOK, mem
  <2> HIDE DEF e
  <2>5. e.mem = mem /\ e.r = b.r /\ e.w = b.w
    BY <2>2 DEF mem
  <2>6. /\ Contents(e) \in Seq(Octets) /\ Len(Contents(e)) = b.w - b.r
        /\ \A k \in 1..b.w - b.r : Contents(e)[k] = mem[b.r + k]
    BY <2>4, <2>5, ContentsType
  <2>7. \A k \in 1..b.w - b.r : Contents(e)[k] = Contents(b)[k]
    <3> TAKE k \in 1..b.w - b.r
    <3>1. b.r + k \in 1..m
      BY <1>2
    <3> QED
      BY <3>1, <2>3, <2>6, <1>3
  <2>8. b.w - b.r \in Nat
    BY <1>2
  <2>9. Contents(e) = Contents(b)
    BY <2>6, <2>7, <2>8, <1>3, SameSeq
  <2> QED
    BY <2>4, <2>5, <2>9, <2>3, <1>2 DEF e
<1>5. CASE ~NoRoomInside(b, len)
  <2> DEFINE n == b.w - b.r
             mem == Overwritten(b.mem, kCheapPrepend, Contents(b))
  <2>1. n \in Nat /\ kCheapPrepend + n <= m /\ (m - b.w) + b.r >= len + kCheapPrepend
    BY <1>1, <1>2, <1>5 DEF NoRoomInside, writableBytes, prependableBytes
  <2>2. /\ mem \in Seq(Octets) /\ Len(mem) = m
        /\ \A k \in 1..m : mem[k] = IF k > kCheapPrepend /\ k <= kCheapPrepend + n
                                    THEN Contents(b)[k - kCheapPrepend] ELSE b.mem[k]
    <3> HIDE DEF n
    <3>1. Contents(b) \in Seq(Octets) /\ Len(Contents(b)) = n
      BY <1>3 DEF n
    <3>2. PICK s \in Seq(Octets) : s = b.mem /\ Len(s) = m
      BY <1>1, <1>2
    <3> QED
      BY <2>1, <3>1, <3>2, OverwrittenType
  <2> HIDE DEF mem
  <2>3. e = [mem |-> mem, r |-> kCheapPrepend, w |-> kCheapPrepend + n]
    BY <1>5 DEF makeSpace, readableBytes, mem
  <2>4. BufferOK(e)
    BY <2>1, <2>2, <2>3 DEF BufferOK
  <2> HIDE DEF e
  <2>5. e.mem = mem /\ e.r = kCheapPrepend /\ e.w = kCheapPrepend + n /\ e.w - e.r = n
    BY <2>3, <2>1
  <2>6. /\ Contents(e) \in Seq(Octets) /\ Len(Contents(e)) = n
        /\ \A k \in 1..n : Contents(e)[k] = mem[kCheapPrepend + k]
    BY <2>4, <2>5, ContentsType
  <2>7. \A k \in 1..n : Contents(e)[k] = Contents(b)[k]
    <3> TAKE k \in 1..n
    <3>1. /\ kCheapPrepend + k \in 1..m /\ kCheapPrepend + k > kCheapPrepend
          /\ kCheapPrepend + k <= kCheapPrepend + n /\ (kCheapPrepend + k) - kCheapPrepend = k
      BY <2>1
    <3> QED
      BY <3>1, <2>2, <2>6
  <2>8. Contents(e) = Contents(b)
    BY <2>6, <2>7, <2>1, <1>3, SameSeq
  <2> QED
    <3>1. len <= Len(e.mem) - e.w
      <4>1. Len(e.mem) = m /\ e.w = kCheapPrepend + (b.w - b.r)
        BY <2>5, <2>2, Zenon DEF n
      <4>2. len <= m - (kCheapPrepend + (b.w - b.r))
        <5>1. PICK r \in Nat, w \in Nat : r = b.r /\ w = b.w
          BY <1>2
        <5>2. (m - w) + r >= len + kCheapPrepend
          BY <5>1, <2>1, Zenon
        <5>3. len <= m - (kCheapPrepend + (w - r))
          BY <5>2
        <5> QED
          BY <5>1, <5>3, Zenon
      <4> QED
        BY <4>1, <4>2, Zenon
    <3> QED
      BY <2>4, <2>8, <3>1, Zenon DEF e
<1> QED
  BY <1>4, <1>5

LEMMA Appended ==
  ASSUME NEW b, BufferOK(b), NEW data \in Seq(Octets)
  PROVE  LET a == append(b, data) IN BufferOK(a) /\ Contents(a) = Contents(b) \o data
<1> DEFINE e == ensureWritableBytes(b, Len(data))
<1>1. PICK d \in Nat, m \in Nat : d = Len(data) /\ m = Len(b.mem)
  BY LenProperties, Zenon DEF BufferOK
<1>2. b.w \in Nat
  BY DEF BufferOK
<1>3. BufferOK(e) /\ Contents(e) = Contents(b) /\ d <= Len(e.mem) - e.w
  <2>1. CASE m - b.w < d
    BY <2>1, <1>1, SpaceMade DEF ensureWritableBytes, writableBytes
  <2>2. CASE ~(m - b.w < d)
    BY <2>2, <1>1, <1>2 DEF ensureWritableBytes, writableBytes
  <2> QED
    BY <2>1, <2>2
<1> HIDE DEF e
<1>4. append(b, data) = hasWritten([e EXCEPT !.mem = Overwritten(e.mem, e.w, data)], Len(data))
  BY DEF append, e
<1> QED
  BY <1>1, <1>3, <1>4, WrittenBehind

LEMMA ReadFd ==
  ASSUME NEW b, BufferOK(b), NEW data \in Seq(Octets)
  PROVE  LET a == readFd(b, data) IN BufferOK(a) /\ Contents(a) = Contents(b) \o data
<1>1. PICK d \in Nat, m \in Nat : d = Len(data) /\ m = Len(b.mem)
  BY LenProperties, Zenon DEF BufferOK
<1>2. b.mem \in Seq(Octets) /\ b.r \in Nat /\ b.w \in Nat /\ b.w <= m /\ b = [mem |-> b.mem, r |-> b.r, w |-> b.w]
  BY <1>1 DEF BufferOK
<1> DEFINE room == m - b.w
<1>3. CASE d <= room
  <2>1. readFd(b, data) = hasWritten([b EXCEPT !.mem = Overwritten(b.mem, b.w, data)], Len(data))
    BY <1>1, <1>3 DEF readFd, writableBytes
  <2> QED
    BY <2>1, <1>1, <1>3, WrittenBehind
<1>4. CASE ~(d <= room)
  <2> DEFINE first == SubSeq(data, 1, room)
             rest == SubSeq(data, room + 1, d)
             full == [mem |-> Overwritten(b.mem, b.w, first), r |-> b.r, w |-> m]
             a == hasWritten([b EXCEPT !.mem = Overwritten(b.mem, b.w, first)], Len(first))
  <2>1. room \in Nat /\ room <= d /\ 0 + 1 = 1
    BY <1>2, <1>4
  <2>2. first \in Seq(Octets) /\ Len(first) = room
    <3>1. room - 0 = room
      BY <2>1
    <3>2. SubSeq(data, 0 + 1, room) \in Seq(Octets) /\ Len(SubSeq(data, 0 + 1, room)) = room - 0
      BY <2>1, <1>1, CutSeq
    <3> QED
      BY <3>1, <3>2, <2>1
  <2>3. rest \in Seq(Octets)
    BY <2>1, <1>1, CutSeq
  <2>4. first \o rest = data
    <3>1. /\ Len(first) = room /\ \A k \in 1..room : first[k] = data[k]
      BY <2>1, <1>1
    <3>2. Len(rest) = d - room /\ \A k \in 1..d - room : rest[k] = data[room + k]
      BY <2>1, <1>1, CutSeq
    <3> HIDE DEF first, rest
    <3>3. first \o rest \in Seq(Octets) /\ Len(first \o rest) = d
      <4>1. first \o rest \in Seq(Octets)
        BY <2>2, <2>3
      <4>2. Len(first \o rest) = Len(first) + Len(rest)
        BY <2>2, <2>3
      <4>3. room + (d - room) = d
        BY <2>1
      <4> QED
        BY <4>1, <4>2, <4>3, <3>1, <3>2, Zenon
    <3>4. \A k \in 1..d : (first \o rest)[k] = data[k]
      <4> TAKE k \in 1..d
      <4>1. d - room \in Nat /\ room + (d - room) = d
        BY <2>1
      <4>2. (first \o rest)[k] = IF k <= room THEN first[k] ELSE rest[k - room]
        <5>1. PICK p \in Seq(Octets), q \in Seq(Octets), i \in Nat :
                 p = first /\ q = rest /\ Len(p) = room /\ Len(q) = i /\ room + i = d
          BY <4>1, <2>2, <2>3, <3>2, Zenon
        <5>2. (p \o q)[k] = IF k <= room THEN p[k] ELSE q[k - room]
          BY <5>1, <2>1
        <5> QED
          BY <5>1, <5>2
      <4>3. CASE k <= room
        BY <4>2, <4>3, <3>1
      <4>4. CASE ~(k <= room)
        <5>1. k - room \in 1..d - room /\ room + (k - room) = k
          BY <4>4, <2>1
        <5> QED
          BY <4>2, <4>4, <5>1, <3>2
      <4> QED
        BY <4>3, <4>4
    <3>5. PICK j \in Seq(Octets) : j = first \o rest
      BY <3>3
    <3>6. Len(j) = d /\ \A k \in 1..d : j[k] = data[k]
      BY <3>3, <3>4, <3>5
    <3>7. j = data
      BY <3>6, <1>1, SameSeq
    <3> QED
      BY <3>5, <3>7
  <2>5. BufferOK(a) /\ Contents(a) = Contents(b) \o first
    <3> HIDE DEF first
    <3>1. Len(first) <= Len(b.mem) - b.w
      BY <2>1, <2>2, <1>1
    <3> QED
      BY <2>2, <3>1, WrittenBehind, Zenon
  <2>6. a = full
    <3> HIDE DEF first
    <3>1. b.w + room = m
      BY <1>2
    <3>2. Len(first) \in Nat
      BY <2>1, <2>2
    <3>3. a = [mem |-> Overwritten(b.mem, b.w, first), r |-> b.r, w |-> b.w + Len(first)]
      BY <3>2, BufferFields, Zenon
    <3>4. b.w + Len(first) = m
      BY <2>2, <3>1
    <3> QED
      BY <3>3, <3>4, Zenon
  <2>7. readFd(b, data) = append(full, rest)
    BY <1>1, <1>4 DEF readFd, writableBytes
  <2> HIDE DEF full, a, first, rest
  <2>8. BufferOK(full) /\ Contents(full) = Contents(b) \o first
    BY <2>5, <2>6
  <2>9. BufferOK(append(full, rest)) /\ Contents(append(full, rest)) = (Contents(b) \o first) \o rest
    BY <2>3, <2>8, Appended
  <2>10. (Contents(b) \o first) \o rest = Contents(b) \o data
    <3>1. PICK c \in Seq(Octets) : c = Contents(b)
      BY ContentsType
    <3>2. (c \o first) \o rest = c \o (first \o rest)
      BY <2>2, <2>3, ConcatAssociative, SMTT(30)
    <3> QED
      BY <3>1, <3>2, <2>4
  <2> QED
    BY <2>7, <2>9, <2>10
<1> QED
  BY <1>3, <1>4

(* retrieve() drops bytes at the front.                                      *)
LEMMA Retrieved ==
  ASSUME NEW b, BufferOK(b), NEW len \in 0..b.w - b.r
  PROVE  LET a == retrieve(b, len)
         IN  BufferOK(a) /\ Contents(a) = SubSeq(Contents(b), len + 1, b.w - b.r)
<1> DEFINE a == retrieve(b, len)
           n == b.w - b.r
<1> USE BufferAssumption
<1>1. PICK m \in Nat : m = Len(b.mem)
  BY LenProperties, Zenon DEF BufferOK
<1>2. /\ b.mem \in Seq(Octets) /\ b.r \in Nat /\ b.w \in Nat /\ b = [mem |-> b.mem, r |-> b.r, w |-> b.w]
      /\ kCheapPrepend <= b.r /\ b.r <= b.w /\ b.w <= m /\ n \in Nat /\ len \in Nat /\ len <= n
  BY <1>1 DEF BufferOK
<1>3. /\ Contents(b) \in Seq(Octets) /\ Len(Contents(b)) = n
      /\ \A k \in 1..n : Contents(b)[k] = b.mem[b.r + k]
  BY ContentsType
<1>4. /\ SubSeq(Contents(b), len + 1, n) \in Seq(Octets) /\ Len(SubSeq(Contents(b), len + 1, n)) = n - len
      /\ \A k \in 1..n - len : SubSeq(Contents(b), len + 1, n)[k] = Contents(b)[len + k]
  <2> HIDE DEF n
  <2>1. n \in Nat /\ len \in Nat /\ len <= n
    BY <1>2
  <2>2. PICK c \in Seq(Octets) : c = Contents(b) /\ Len(c) = n
    BY <1>3
  <2> QED
    BY <2>1, <2>2, CutSeq
<1>5. BufferOK(a) /\ a.mem = b.mem /\ a.w - a.r = n - len /\ (len < n => a.r = b.r + len)
  <2>1. CASE len < n
    <3>1. a = [mem |-> b.mem, r |-> b.r + len, w |-> b.w]
      BY <1>2, <2>1 DEF retrieve, readableBytes
    <3> QED
      BY <3>1, <1>1, <1>2, <2>1 DEF BufferOK
  <2>2. CASE ~(len < n)
    <3>1. a = [mem |-> b.mem, r |-> kCheapPrepend, w |-> kCheapPrepend]
      BY <1>2, <2>2 DEF retrieve, retrieveAll, readableBytes
    <3> QED
      BY <3>1, <1>1, <1>2, <2>2 DEF BufferOK
  <2> QED
    BY <2>1, <2>2
<1> HIDE DEF a
<1>6. /\ Contents(a) \in Seq(Octets) /\ Len(Contents(a)) = n - len
      /\ \A k \in 1..n - len : Contents(a)[k] = b.mem[a.r + k]
  BY <1>5, ContentsType
<1>7. \A k \in 1..n - len : Contents(a)[k] = SubSeq(Contents(b), len + 1, n)[k]
  <2> TAKE k \in 1..n - len
  <2>1. len < n /\ len + k \in 1..n /\ (b.r + len) + k = b.r + (len + k)
    BY <1>2
  <2>2. Contents(a)[k] = b.mem[a.r + k] /\ a.r = b.r + len
    BY <2>1, <1>5, <1>6, Zenon
  <2>3. SubSeq(Contents(b), len + 1, n)[k] = Contents(b)[len + k]
    BY <1>4, Zenon
  <2>4. Contents(b)[len + k] = b.mem[b.r + (len + k)]
    BY <2>1, <1>3, Zenon
  <2> QED
    BY <2>1, <2>2, <2>3, <2>4, Zenon
<1>8. n - len \in Nat
  BY <1>2
<1> QED
  BY <1>4, <1>5, <1>6, <1>7, <1>8, SameSeq DEF a

-----------------------------------------------------------------------------
(* The bytes of the peer's lines.                                            *)

LEMMA LeastOf ==
  ASSUME NEW S \in SUBSET Nat, S # {}
  PROVE  \E m \in S : \A n \in S : m <= n
<1>1. PICK m \in S : \A n \in S : ~(<<n, m>> \in OpToRel(<, Nat))
  BY NatLessThanWellFounded, WFMin, Zenon
<1>2. \A n \in S : ~(n < m)
  BY <1>1 DEF OpToRel
<1> QED
  BY <1>2

LEMMA LineBytesType ==
  ASSUME NEW t \in Texts
  PROVE  LineBytes(t) \in Seq(Octets) /\ Len(LineBytes(t)) \in {2, 3}
<1>1. "CR" \in Octets /\ "LF" \in Octets /\ t \in Octets
  BY DEF Octets
<1> QED
  BY <1>1 DEF LineBytes

UpTo(ls, n, f) == f = [k \in 0..n |-> IF k = 0 THEN <<>> ELSE f[k - 1] \o LineBytes(ls[k])]

LEMMA UpToValues ==
  ASSUME NEW ls, NEW n \in Nat, NEW f, UpTo(ls, n, f)
  PROVE  f[0] = <<>> /\ \A k \in 1..n : f[k] = f[k - 1] \o LineBytes(ls[k])
<1>1. \A k \in 0..n : f[k] = IF k = 0 THEN <<>> ELSE f[k - 1] \o LineBytes(ls[k])
  BY Zenon DEF UpTo
<1>2. 0 \in 0..n
  OBVIOUS
<1>3. f[0] = <<>>
  BY <1>1, <1>2, Zenon
<1>4. ASSUME NEW k \in 1..n PROVE f[k] = f[k - 1] \o LineBytes(ls[k])
  <2>1. k \in 0..n /\ k # 0
    OBVIOUS
  <2> QED
    BY <1>1, <2>1, Zenon
<1> QED
  BY <1>3, <1>4

LEMMA UpToExists ==
  ASSUME NEW ls, NEW n \in Nat
  PROVE  \E f : UpTo(ls, n, f)
<1> DEFINE S == {m \in Nat : ~ \E f : UpTo(ls, m, f)}
<1>1. SUFFICES ASSUME S # {} PROVE FALSE
  OBVIOUS
<1>2. PICK m \in S : \A i \in S : m <= i
  <2> HIDE DEF S
  <2>1. S \in SUBSET Nat
    BY DEF S
  <2> QED
    BY <1>1, <2>1, LeastOf
<1>3. CASE m = 0
  <2> DEFINE f == [k \in 0..0 |-> <<>>]
  <2>1. \A k \in 0..0 : k = 0
    OBVIOUS
  <2>2. UpTo(ls, 0, f)
    BY <2>1 DEF UpTo
  <2> QED
    BY <1>2, <1>3, <2>2
<1>4. CASE m # 0
  <2>1. m - 1 \in Nat /\ ~(m <= m - 1) /\ m \in Nat
    BY <1>2, <1>4
  <2>2. PICK g : UpTo(ls, m - 1, g)
    BY <1>2, <2>1
  <2>3. g[0] = <<>> /\ \A k \in 1..m - 1 : g[k] = g[k - 1] \o LineBytes(ls[k])
    BY <2>1, <2>2, UpToValues
  <2> DEFINE f == [k \in 0..m |-> IF k = m THEN g[m - 1] \o LineBytes(ls[m]) ELSE g[k]]
  <2>4. \A k \in 0..m : f[k] = IF k = 0 THEN <<>> ELSE f[k - 1] \o LineBytes(ls[k])
    <3> TAKE k \in 0..m
    <3>1. CASE k = 0
      BY <3>1, <2>3, <1>4, Zenon
    <3>2. CASE k = m
      <4>1. m - 1 \in 0..m /\ m - 1 # m
        BY <2>1, <1>4
      <4>2. f[m - 1] = g[m - 1]
        BY <4>1, Zenon
      <4> QED
        BY <3>2, <4>2, <1>4, Zenon
    <3>3. CASE k # 0 /\ k # m
      <4>1. k - 1 \in 0..m /\ k - 1 # m /\ k \in 1..m - 1
        BY <3>3, <2>1
      <4>2. f[k - 1] = g[k - 1] /\ f[k] = g[k]
        BY <4>1, <3>3, Zenon
      <4> QED
        BY <3>3, <4>1, <4>2, <2>3, Zenon
    <3> QED
      BY <3>1, <3>2, <3>3
  <2>5. f = [k \in 0..m |-> f[k]]
    BY Zenon
  <2> HIDE DEF f
  <2>6. UpTo(ls, m, f)
    BY <2>4, <2>5 DEF UpTo
  <2> QED
    BY <1>2, <2>6
<1> QED
  BY <1>3, <1>4

LEMMA BytesFrom ==
  ASSUME NEW ls, NEW n \in Nat, Len(ls) = n
  PROVE  \E f : UpTo(ls, n, f) /\ BytesOf(ls) = f[n]
<1> DEFINE f == CHOOSE g : UpTo(ls, n, g)
<1>1. UpTo(ls, n, f)
  BY UpToExists, Zenon
<1>2. BytesOf(ls) = f[n]
  BY DEF BytesOf, UpTo
<1> QED
  BY <1>1, <1>2

LEMMA UpToAgree ==
  ASSUME NEW ls, NEW ms, NEW m \in Nat, NEW n \in Nat, NEW f, UpTo(ls, m, f), NEW g, UpTo(ms, n, g),
         NEW q \in Nat, q <= m, q <= n, \A k \in 1..q : ls[k] = ms[k]
  PROVE  \A k \in 0..q : f[k] = g[k]
<1> DEFINE S == {k \in 0..q : f[k] # g[k]}
<1>1. SUFFICES ASSUME S # {} PROVE FALSE
  OBVIOUS
<1>2. PICK k \in S : \A i \in S : k <= i
  <2> HIDE DEF S
  <2>1. S \in SUBSET Nat
    BY DEF S
  <2> QED
    BY <1>1, <2>1, LeastOf
<1>3. /\ f[0] = <<>> /\ g[0] = <<>>
      /\ \A i \in 1..m : f[i] = f[i - 1] \o LineBytes(ls[i])
      /\ \A i \in 1..n : g[i] = g[i - 1] \o LineBytes(ms[i])
  BY UpToValues
<1>4. k # 0
  BY <1>2, <1>3
<1>5. k \in 1..m /\ k \in 1..n /\ k \in 1..q /\ k - 1 \in 0..q /\ ~(k <= k - 1)
  BY <1>2, <1>4
<1>6. f[k - 1] = g[k - 1]
  BY <1>2, <1>5
<1>7. f[k] = g[k]
  BY <1>3, <1>5, <1>6, Zenon
<1> QED
  BY <1>2, <1>7

LEMMA UpToType ==
  ASSUME NEW ls \in Seq(Texts), NEW n \in Nat, n <= Len(ls), NEW f, UpTo(ls, n, f)
  PROVE  \A k \in 0..n : f[k] \in Seq(Octets)
<1> DEFINE S == {k \in 0..n : f[k] \notin Seq(Octets)}
<1>1. SUFFICES ASSUME S # {} PROVE FALSE
  OBVIOUS
<1>2. PICK k \in S : \A i \in S : k <= i
  <2> HIDE DEF S
  <2>1. S \in SUBSET Nat
    BY DEF S
  <2> QED
    BY <1>1, <2>1, LeastOf
<1>3. f[0] = <<>> /\ \A i \in 1..n : f[i] = f[i - 1] \o LineBytes(ls[i])
  BY UpToValues
<1>4. <<>> \in Seq(Octets)
  OBVIOUS
<1>5. k # 0
  BY <1>2, <1>3, <1>4, Zenon
<1>6. k \in 1..n /\ k - 1 \in 0..n /\ ~(k <= k - 1)
  BY <1>2, <1>5
<1>7. f[k - 1] \in Seq(Octets)
  BY <1>2, <1>6
<1>8. ls[k] \in Texts
  BY <1>6, ElementOfSeq
<1>9. f[k] \in Seq(Octets)
  <2>1. PICK u \in Seq(Octets), v \in Seq(Octets) : u = f[k - 1] /\ v = LineBytes(ls[k])
    BY <1>7, <1>8, LineBytesType
  <2>2. u \o v \in Seq(Octets)
    OBVIOUS
  <2> QED
    BY <1>3, <1>6, <2>1, <2>2, Zenon
<1> QED
  BY <1>2, <1>9

(* The bytes of the first k lines.                                           *)
Part(ls, k) == BytesOf(SubSeq(ls, 1, k))

LEMMA FirstLinesOf ==
  ASSUME NEW S, NEW ls \in Seq(S), NEW k \in 0..Len(ls)
  PROVE  /\ SubSeq(ls, 1, k) \in Seq(S) /\ Len(SubSeq(ls, 1, k)) = k
         /\ \A i \in 1..k : SubSeq(ls, 1, k)[i] = ls[i]
<1>1. PICK n \in Nat : n = Len(ls)
  BY LenProperties, Zenon
<1>2. /\ SubSeq(ls, 0 + 1, k) \in Seq(S) /\ Len(SubSeq(ls, 0 + 1, k)) = k - 0
      /\ \A i \in 1..k - 0 : SubSeq(ls, 0 + 1, k)[i] = ls[0 + i]
  BY <1>1, CutSeq
<1>3. 0 + 1 = 1 /\ k - 0 = k /\ \A i \in 1..k : 0 + i = i
  BY <1>1
<1> QED
  BY <1>2, <1>3, Zenon

LEMMA PartFrom ==
  ASSUME NEW ls \in Seq(Texts), NEW n \in Nat, Len(ls) = n, NEW f, UpTo(ls, n, f), NEW k \in 0..n
  PROVE  Part(ls, k) = f[k]
<1> DEFINE s == SubSeq(ls, 1, k)
<1>1. s \in Seq(Texts) /\ Len(s) = k /\ \A i \in 1..k : s[i] = ls[i]
  BY FirstLinesOf
<1> HIDE DEF s
<1>2. k \in Nat /\ k <= n /\ k <= k /\ k \in 0..k
  OBVIOUS
<1>3. PICK g : UpTo(s, k, g) /\ BytesOf(s) = g[k]
  BY <1>1, <1>2, BytesFrom
<1>4. \A i \in 0..k : g[i] = f[i]
  BY <1>1, <1>2, <1>3, UpToAgree
<1> QED
  BY <1>2, <1>3, <1>4 DEF Part, s

LEMMA PartIs ==
  ASSUME NEW ls \in Seq(Texts), NEW n \in Nat, Len(ls) = n
  PROVE  /\ \A k \in 0..n : Part(ls, k) \in Seq(Octets)
         /\ Part(ls, 0) = <<>> /\ BytesOf(ls) = Part(ls, n)
         /\ \A k \in 1..n : Part(ls, k) = Part(ls, k - 1) \o LineBytes(ls[k])
<1>1. PICK f : UpTo(ls, n, f) /\ BytesOf(ls) = f[n]
  BY BytesFrom
<1>2. \A k \in 0..n : Part(ls, k) = f[k]
  BY <1>1, PartFrom
<1>3. f[0] = <<>> /\ \A i \in 1..n : f[i] = f[i - 1] \o LineBytes(ls[i])
  BY <1>1, UpToValues
<1>4. \A k \in 0..n : f[k] \in Seq(Octets)
  BY <1>1, UpToType
<1>5. 0 \in 0..n /\ n \in 0..n /\ \A k \in 1..n : k \in 0..n /\ k - 1 \in 0..n
  OBVIOUS
<1> QED
  BY <1>1, <1>2, <1>3, <1>4, <1>5, Zenon

(* How many bytes the first k lines have.                                    *)
Ends(ls, k) == Len(Part(ls, k))

LEMMA LineJoins ==
  ASSUME NEW ls \in Seq(Texts), NEW n \in Nat, Len(ls) = n, NEW k \in 1..n
  PROVE  /\ Ends(ls, k - 1) \in Nat /\ Ends(ls, k) = Ends(ls, k - 1) + Len(LineBytes(ls[k]))
         /\ \A i \in 1..Ends(ls, k - 1) : Part(ls, k)[i] = Part(ls, k - 1)[i]
         /\ \A i \in 1..Len(LineBytes(ls[k])) : Part(ls, k)[Ends(ls, k - 1) + i] = LineBytes(ls[k])[i]
<1>1. ls[k] \in Texts
  BY ElementOfSeq
<1>2. k - 1 \in 0..n
  OBVIOUS
<1>3. PICK u \in Seq(Octets), v \in Seq(Octets) : u = Part(ls, k - 1) /\ v = LineBytes(ls[k])
  BY <1>1, <1>2, LineBytesType, PartIs
<1>4. Part(ls, k) = u \o v
  BY <1>3, PartIs
<1>5. PICK a \in Nat, b \in Nat : a = Len(u) /\ b = Len(v)
  BY LenProperties, Zenon
<1>6. Len(u \o v) = a + b
  BY <1>5
<1>7. \A i \in 1..a : (u \o v)[i] = u[i]
  BY <1>5
<1>8. \A i \in 1..b : (u \o v)[a + i] = v[i]
  BY <1>5
<1>9. Ends(ls, k - 1) = a /\ Ends(ls, k) = a + b
  BY <1>3, <1>4, <1>5, <1>6, Zenon DEF Ends
<1> QED
  BY <1>3, <1>4, <1>5, <1>7, <1>8, <1>9, Zenon

LEMMA PartGrows ==
  ASSUME NEW ls \in Seq(Texts), NEW n \in Nat, Len(ls) = n, NEW j \in 0..n, NEW k \in 0..n, j <= k
  PROVE  /\ Ends(ls, j) \in Nat /\ Ends(ls, k) \in Nat
         /\ Ends(ls, j) + 2 * (k - j) <= Ends(ls, k)
         /\ \A i \in 1..Ends(ls, j) : Part(ls, k)[i] = Part(ls, j)[i]
<1>1. \A q \in 0..n : Ends(ls, q) \in Nat
  BY PartIs, LenProperties, Zenon DEF Ends
<1> DEFINE Bad(q) == ~ /\ Ends(ls, j) + 2 * (q - j) <= Ends(ls, q)
                       /\ \A i \in 1..Ends(ls, j) : Part(ls, q)[i] = Part(ls, j)[i]
           S == {q \in j..n : Bad(q)}
<1>2. SUFFICES ASSUME S # {} PROVE FALSE
  <2>1. k \in j..n
    OBVIOUS
  <2> QED
    BY <1>1, <2>1
<1>3. PICK q \in S : \A i \in S : q <= i
  <2> HIDE DEF S
  <2>1. S \in SUBSET Nat
    BY DEF S
  <2> QED
    BY <1>2, <2>1, LeastOf
<1> HIDE DEF Bad
<1>4. q \in j..n /\ Bad(q) /\ q \in 0..n
  BY <1>3
<1>5. q # j
  BY <1>1, <1>4 DEF Bad
<1>6. q \in 1..n /\ q - 1 \in j..n /\ q - 1 \in 0..n /\ ~(q <= q - 1)
  BY <1>4, <1>5
<1>7. ~Bad(q - 1)
  BY <1>3, <1>6
<1> DEFINE len == Len(LineBytes(ls[q]))
<1>8. len \in {2, 3}
  <2>1. ls[q] \in Texts
    BY <1>6, ElementOfSeq
  <2> QED
    BY <2>1, LineBytesType
<1> HIDE DEF len
<1>9. /\ Ends(ls, q) = Ends(ls, q - 1) + len
      /\ \A i \in 1..Ends(ls, q - 1) : Part(ls, q)[i] = Part(ls, q - 1)[i]
  BY <1>6, LineJoins DEF len
<1>10. PICK a \in Nat, b \in Nat, c \in Nat : a = Ends(ls, j) /\ b = Ends(ls, q - 1) /\ c = Ends(ls, q)
  BY <1>1, <1>4, <1>6
<1>11. a + 2 * ((q - 1) - j) <= b /\ \A i \in 1..a : Part(ls, q - 1)[i] = Part(ls, j)[i]
  BY <1>7, <1>10 DEF Bad
<1>12. a + 2 * (q - j) <= c /\ a <= b
  BY <1>4, <1>6, <1>8, <1>9, <1>10, <1>11
<1>13. \A i \in 1..a : Part(ls, q)[i] = Part(ls, j)[i]
  <2> TAKE i \in 1..a
  <2>1. i \in 1..b
    BY <1>12
  <2> QED
    BY <2>1, <1>9, <1>10, <1>11, Zenon
<1> QED
  BY <1>4, <1>10, <1>12, <1>13 DEF Bad

LEMMA ByteOfLine ==
  ASSUME NEW ls \in Seq(Texts), NEW n \in Nat, Len(ls) = n, NEW c \in 0..n, c < n,
         NEW i \in 1..Len(LineBytes(ls[c + 1]))
  PROVE  /\ ls[c + 1] \in Texts /\ Ends(ls, c) \in Nat
         /\ Ends(ls, c + 1) = Ends(ls, c) + Len(LineBytes(ls[c + 1])) /\ Ends(ls, c + 1) <= Ends(ls, n)
         /\ BytesOf(ls)[Ends(ls, c) + i] = LineBytes(ls[c + 1])[i]
<1>1. c + 1 \in 1..n /\ (c + 1) - 1 = c /\ c + 1 \in 0..n /\ n \in 0..n /\ c + 1 <= n
  OBVIOUS
<1>2. ls[c + 1] \in Texts
  BY <1>1, ElementOfSeq
<1> DEFINE line == LineBytes(ls[c + 1])
<1>3. PICK len \in Nat : len = Len(line) /\ len \in {2, 3}
  BY <1>2, LineBytesType
<1> HIDE DEF line
<1>4. /\ Ends(ls, c) \in Nat /\ Ends(ls, c + 1) = Ends(ls, c) + len
      /\ \A k \in 1..len : Part(ls, c + 1)[Ends(ls, c) + k] = line[k]
  <2>1. /\ Ends(ls, (c + 1) - 1) \in Nat
        /\ Ends(ls, c + 1) = Ends(ls, (c + 1) - 1) + Len(LineBytes(ls[c + 1]))
        /\ \A k \in 1..Len(LineBytes(ls[c + 1])) :
              Part(ls, c + 1)[Ends(ls, (c + 1) - 1) + k] = LineBytes(ls[c + 1])[k]
    BY <1>1, LineJoins, Zenon
  <2> QED
    BY <2>1, <1>1, <1>3, Zenon DEF line
<1>5. /\ Ends(ls, c + 1) \in Nat /\ Ends(ls, n) \in Nat /\ Ends(ls, c + 1) + 2 * (n - (c + 1)) <= Ends(ls, n)
      /\ \A k \in 1..Ends(ls, c + 1) : Part(ls, n)[k] = Part(ls, c + 1)[k]
  BY <1>1, PartGrows
<1>6. BytesOf(ls) = Part(ls, n)
  BY PartIs
<1>7. i \in 1..len /\ Ends(ls, c) + i \in 1..Ends(ls, c + 1) /\ Ends(ls, c + 1) <= Ends(ls, n)
  BY <1>1, <1>3, <1>4, <1>5 DEF line
<1> QED
  BY <1>2, <1>3, <1>4, <1>5, <1>6, <1>7, Zenon DEF line

(* The text of a line.                                                       *)
TextOf(t) == IF t = "empty" THEN <<>> ELSE <<t>>

LEMMA LineIs ==
  ASSUME NEW t \in Texts
  PROVE  /\ t = "empty" => LineBytes(t) = <<"CR", "LF">> /\ TextOf(t) = <<>>
         /\ t # "empty" => LineBytes(t) = <<t, "CR", "LF">> /\ TextOf(t) = <<t>>
         /\ t # "CR" /\ t # "LF"
  BY DEF LineBytes, TextOf, Texts, Versions, Headers

LEMMA LeastIsMin ==
  ASSUME NEW S \in SUBSET Nat, NEW m \in S, \A i \in S : m <= i
  PROVE  Min(S) = m
<1>1. /\ Min(S) \in S /\ \A i \in S : Min(S) <= i
  BY DEF Min
<1>2. Min(S) \in Nat /\ m \in Nat /\ Min(S) <= m /\ m <= Min(S)
  BY <1>1
<1> QED
  BY <1>2

LEMMA GreatestIsMax ==
  ASSUME NEW S \in SUBSET Nat, NEW m \in S, \A i \in S : i <= m
  PROVE  Max(S) = m
<1>1. /\ Max(S) \in S /\ \A i \in S : i <= Max(S)
  <2>1. \A i \in S : m >= i
    OBVIOUS
  <2> QED
    BY <2>1 DEF Max
<1>2. Max(S) \in Nat /\ m \in Nat /\ Max(S) <= m /\ m <= Max(S)
  BY <1>1
<1> QED
  BY <1>2

(* A stretch of bytes that begins with a line: its first CR LF ends the line. *)
LEMMA FirstLine ==
  ASSUME NEW d \in Seq(Octets), NEW len \in Nat, Len(d) = len, NEW t \in Texts,
         Len(LineBytes(t)) <= len, \A i \in 1..Len(LineBytes(t)) : d[i] = LineBytes(t)[i]
  PROVE  /\ CRLFs(d) # {} /\ BeforeCRLF(d) = TextOf(t)
         /\ Len(TextOf(t)) + 2 = Len(LineBytes(t))
<1>1. CRLFs(d) \in SUBSET Nat
  BY DEF CRLFs
<1>2. CASE t = "empty"
  <2>1. LineBytes(t) = <<"CR", "LF">> /\ TextOf(t) = <<>> /\ Len(LineBytes(t)) = 2
    BY <1>2, LineIs
  <2>2. d[1] = "CR" /\ d[2] = "LF" /\ len >= 2
    BY <2>1
  <2>3. 1 \in CRLFs(d)
    BY <2>2 DEF CRLFs
  <2>4. Min(CRLFs(d)) = 1
    <3>1. \A i \in CRLFs(d) : 1 <= i
      BY DEF CRLFs
    <3> QED
      BY <1>1, <2>3, <3>1, LeastIsMin
  <2>5. BeforeCRLF(d) = SubSeq(d, 1, 0)
    BY <2>4 DEF BeforeCRLF
  <2>6. SubSeq(d, 1, 0) = <<>>
    OBVIOUS
  <2> QED
    BY <2>1, <2>3, <2>5, <2>6
<1>3. CASE t # "empty"
  <2>1. LineBytes(t) = <<t, "CR", "LF">> /\ TextOf(t) = <<t>> /\ Len(LineBytes(t)) = 3 /\ t # "CR"
    BY <1>3, LineIs
  <2>2. d[1] = t /\ d[2] = "CR" /\ d[3] = "LF" /\ len >= 3
    BY <2>1
  <2>3. 2 \in CRLFs(d)
    BY <2>2 DEF CRLFs
  <2>4. Min(CRLFs(d)) = 2
    <3>1. 1 \notin CRLFs(d)
      BY <2>1, <2>2 DEF CRLFs
    <3>2. \A i \in CRLFs(d) : 1 <= i
      BY DEF CRLFs
    <3>3. \A i \in CRLFs(d) : 2 <= i
      BY <1>1, <3>1, <3>2
    <3> QED
      BY <1>1, <2>3, <3>3, LeastIsMin
  <2>5. BeforeCRLF(d) = SubSeq(d, 1, 1)
    BY <2>4 DEF BeforeCRLF
  <2>6. SubSeq(d, 1, 1) = <<d[1]>>
    <3>1. 1 \in 0..Len(d) /\ 1 \in 1..1
      BY <2>2
    <3>2. PICK s \in Seq(Octets) : s = SubSeq(d, 1, 1) /\ Len(s) = 1 /\ s[1] = d[1]
      BY <3>1, FirstLinesOf, ZenonT(30)
    <3>3. s = <<s[1]>>
      <4>1. PICK x \in Octets : x = s[1]
        BY <3>2, ElementOfSeq
      <4>2. <<x>> \in Seq(Octets) /\ Len(<<x>>) = 1 /\ <<x>>[1] = x
        OBVIOUS
      <4>3. PICK u \in Seq(Octets) : u = <<s[1]>> /\ Len(u) = 1 /\ u[1] = s[1]
        BY <4>1, <4>2, Zenon
      <4>4. \A k \in 1..1 : s[k] = u[k]
        BY <4>3
      <4>5. s = u
        <5>1. 1 \in Nat /\ Len(s) = 1 /\ Len(u) = 1
          BY <3>2, <4>3
        <5> QED
          BY <5>1, <4>4, SameSeq, Zenon
      <4> QED
        BY <4>3, <4>5
    <3> QED
      BY <3>2, <3>3, Zenon
  <2> QED
    BY <2>1, <2>2, <2>3, <2>5, <2>6
<1> QED
  BY <1>2, <1>3

(* Part of a line holds no CR LF.                                            *)
LEMMA NoLine ==
  ASSUME NEW d \in Seq(Octets), NEW len \in Nat, Len(d) = len, NEW t \in Texts,
         len < Len(LineBytes(t)), \A i \in 1..len : d[i] = LineBytes(t)[i]
  PROVE  CRLFs(d) = {}
<1>1. CASE t = "empty"
  <2>1. LineBytes(t) = <<"CR", "LF">> /\ Len(LineBytes(t)) = 2
    BY <1>1, LineIs
  <2>2. len - 1 < 1
    BY <2>1
  <2> QED
    BY <2>2 DEF CRLFs
<1>2. CASE t # "empty"
  <2>1. LineBytes(t) = <<t, "CR", "LF">> /\ Len(LineBytes(t)) = 3 /\ t # "CR"
    BY <1>2, LineIs
  <2>2. len - 1 <= 1 /\ (len = 2 => d[1] = t)
    BY <2>1
  <2> QED
    BY <2>1, <2>2 DEF CRLFs
<1> QED
  BY <1>1, <1>2

LEMMA BytesTyped ==
  ASSUME NEW ls \in Seq(Texts), NEW n \in Nat, Len(ls) = n, NEW c \in 0..n
  PROVE  /\ BytesOf(ls) \in Seq(Octets) /\ Len(BytesOf(ls)) = Ends(ls, n)
         /\ Ends(ls, n) \in Nat /\ Ends(ls, c) \in Nat
<1>1. n \in 0..n
  OBVIOUS
<1>2. Part(ls, n) \in Seq(Octets) /\ Part(ls, c) \in Seq(Octets) /\ BytesOf(ls) = Part(ls, n)
  BY <1>1, PartIs
<1> QED
  BY <1>2, LenProperties, Zenon DEF Ends

LEMMA LineAhead ==
  ASSUME NEW ls \in Seq(Texts), NEW n \in Nat, Len(ls) = n, NEW c \in 0..n, c < n,
         NEW m \in Nat, Ends(ls, c + 1) <= m, m <= Ends(ls, n),
         NEW d, d = SubSeq(BytesOf(ls), Ends(ls, c) + 1, m)
  PROVE  /\ ls[c + 1] \in Texts /\ CRLFs(d) # {} /\ BeforeCRLF(d) = TextOf(ls[c + 1])
         /\ Ends(ls, c) \in Nat /\ Ends(ls, c + 1) = Ends(ls, c) + (Len(TextOf(ls[c + 1])) + 2)
         /\ Len(TextOf(ls[c + 1])) \in Nat
<1>1. c + 1 \in 1..n /\ n \in 0..n
  OBVIOUS
<1>2. ls[c + 1] \in Texts
  BY <1>1, ElementOfSeq
<1> DEFINE t == ls[c + 1]
<1>3. PICK len \in Nat : len = Len(LineBytes(t)) /\ len \in {2, 3}
  BY <1>2, LineBytesType
<1>4. 1 \in 1..len
  <2>1. len \in {2, 3}
    BY <1>3
  <2> QED
    BY <2>1
<1>5. /\ Ends(ls, c) \in Nat /\ Ends(ls, c + 1) = Ends(ls, c) + len /\ Ends(ls, c + 1) <= Ends(ls, n)
      /\ \A i \in 1..len : BytesOf(ls)[Ends(ls, c) + i] = LineBytes(t)[i]
  BY <1>3, <1>4, ByteOfLine
<1>6. PICK a \in Nat : a = Ends(ls, c)
  BY <1>5
<1>7. BytesOf(ls) \in Seq(Octets) /\ Len(BytesOf(ls)) = Ends(ls, n) /\ Ends(ls, n) \in Nat
  BY BytesTyped
<1>8. PICK s \in Seq(Octets) : s = BytesOf(ls) /\ Len(s) \in Nat /\ m <= Len(s)
  BY <1>7
<1>9. a <= m /\ len <= m - a /\ m - a \in Nat
  BY <1>3, <1>5, <1>6
<1>10. /\ SubSeq(s, a + 1, m) \in Seq(Octets) /\ Len(SubSeq(s, a + 1, m)) = m - a
       /\ \A k \in 1..m - a : SubSeq(s, a + 1, m)[k] = s[a + k]
  BY <1>8, <1>9, CutSeq, SMTT(30)
<1>11. d \in Seq(Octets) /\ Len(d) = m - a /\ \A k \in 1..m - a : d[k] = s[a + k]
  BY <1>6, <1>8, <1>10, Zenon
<1>12. \A i \in 1..len : d[i] = LineBytes(t)[i]
  <2> TAKE i \in 1..len
  <2>1. i \in 1..m - a
    BY <1>9
  <2> QED
    BY <2>1, <1>5, <1>6, <1>8, <1>11, Zenon
<1> HIDE DEF t
<1>13. CRLFs(d) # {} /\ BeforeCRLF(d) = TextOf(t) /\ Len(TextOf(t)) + 2 = len
  BY <1>2, <1>3, <1>9, <1>11, <1>12, FirstLine DEF t
<1>14. Len(TextOf(t)) \in Nat
  <2>1. t \in Texts /\ <<>> \in Seq(Texts) /\ <<t>> \in Seq(Texts)
    BY <1>2 DEF t
  <2>2. TextOf(t) \in Seq(Texts)
    BY <2>1, Zenon DEF TextOf
  <2> QED
    BY <2>2, LenProperties, Zenon
<1> QED
  BY <1>2, <1>5, <1>13, <1>14, Zenon DEF t

LEMMA NoLineAhead ==
  ASSUME NEW ls \in Seq(Texts), NEW n \in Nat, Len(ls) = n, NEW c \in 0..n,
         NEW m \in Nat, Ends(ls, c) <= m, m <= Ends(ls, n), c = n \/ m < Ends(ls, c + 1),
         NEW d, d = SubSeq(BytesOf(ls), Ends(ls, c) + 1, m)
  PROVE  CRLFs(d) = {}
<1>1. n \in 0..n
  OBVIOUS
<1>2. BytesOf(ls) \in Seq(Octets) /\ Len(BytesOf(ls)) = Ends(ls, n) /\ Ends(ls, n) \in Nat /\ Ends(ls, c) \in Nat
  BY BytesTyped
<1>3. PICK a \in Nat : a = Ends(ls, c)
  BY <1>2
<1>4. PICK s \in Seq(Octets) : s = BytesOf(ls) /\ Len(s) \in Nat /\ m <= Len(s)
  BY <1>2
<1>5. /\ SubSeq(s, a + 1, m) \in Seq(Octets) /\ Len(SubSeq(s, a + 1, m)) = m - a
      /\ \A k \in 1..m - a : SubSeq(s, a + 1, m)[k] = s[a + k]
  BY <1>3, <1>4, CutSeq, SMTT(30)
<1>6. d \in Seq(Octets) /\ Len(d) = m - a /\ \A k \in 1..m - a : d[k] = s[a + k]
  BY <1>3, <1>4, <1>5, Zenon
<1>7. CASE c = n
  <2>1. Len(d) - 1 < 1
    BY <1>7, <1>6, <1>3, <1>2
  <2> QED
    BY <2>1, <1>6, <1>3 DEF CRLFs
<1>8. CASE c # n
  <2>1. c + 1 \in 1..n /\ c < n /\ m < Ends(ls, c + 1)
    BY <1>8
  <2>2. ls[c + 1] \in Texts
    BY <2>1, ElementOfSeq
  <2> DEFINE t == ls[c + 1]
  <2>3. PICK len \in Nat : len = Len(LineBytes(t)) /\ len \in {2, 3}
    BY <2>2, LineBytesType
  <2>4. 1 \in 1..len
    <3>1. len \in {2, 3}
      BY <2>3
    <3> QED
      BY <3>1
  <2>5. /\ Ends(ls, c + 1) = a + len
        /\ \A i \in 1..len : s[a + i] = LineBytes(t)[i]
    BY <2>1, <2>3, <2>4, <1>3, <1>4, ByteOfLine
  <2>6. m - a < len /\ m - a \in Nat
    BY <2>1, <2>5, <1>3
  <2>7. \A i \in 1..m - a : d[i] = LineBytes(t)[i]
    <3> TAKE i \in 1..m - a
    <3>1. i \in 1..len
      BY <2>6
    <3> QED
      BY <3>1, <1>6, <2>5, Zenon
  <2> HIDE DEF t
  <2> QED
    BY <2>2, <2>3, <2>6, <2>7, <1>6, NoLine DEF t
<1> QED
  BY <1>7, <1>8

Buffers == [mem : Seq(Octets), r : Nat, w : Nat]

(* The buffer b holds what has arrived behind the first c lines.             *)
At(ls, m, c, b) ==
    /\ c \in 0..Len(ls) /\ Ends(ls, c) <= m /\ BufferOK(b)
    /\ Contents(b) = SubSeq(BytesOf(ls), Ends(ls, c) + 1, m)

(* retrieve() after a line has been found.                                   *)
LEMMA LineTaken ==
  ASSUME NEW ls \in Seq(Texts), NEW n \in Nat, Len(ls) = n, NEW c \in 0..n, c < n,
         NEW m \in Nat, Ends(ls, c + 1) <= m, m <= Ends(ls, n),
         NEW b, At(ls, m, c, b), NEW len \in Nat, Ends(ls, c + 1) = Ends(ls, c) + len
  PROVE  /\ At(ls, m, c + 1, retrieve(b, len))
         /\ readableBytes(retrieve(b, len)) + len = readableBytes(b) /\ readableBytes(b) \in Nat
<1>1. n \in 0..n /\ c + 1 \in 0..n
  OBVIOUS
<1>2. BytesOf(ls) \in Seq(Octets) /\ Len(BytesOf(ls)) = Ends(ls, n) /\ Ends(ls, n) \in Nat /\ Ends(ls, c) \in Nat
  BY BytesTyped
<1>3. PICK a \in Nat : a = Ends(ls, c)
  BY <1>2
<1>4. PICK s \in Seq(Octets), z \in Nat : s = BytesOf(ls) /\ z = Len(s) /\ m <= z
  BY <1>2
<1>5. a <= m /\ a + len <= m
  BY <1>3 DEF At
<1> DEFINE d == Contents(b)
<1>6. BufferOK(b) /\ d = SubSeq(s, a + 1, m)
  BY <1>3, <1>4 DEF At
<1>7. /\ d \in Seq(Octets) /\ Len(d) = m - a
      /\ \A k \in 1..m - a : d[k] = s[a + k]
  <2>1. /\ SubSeq(s, a + 1, m) \in Seq(Octets) /\ Len(SubSeq(s, a + 1, m)) = m - a
        /\ \A k \in 1..m - a : SubSeq(s, a + 1, m)[k] = s[a + k]
    BY <1>4, <1>5, CutSeq
  <2> QED
    BY <2>1, <1>6, Zenon
<1>8. Len(d) = b.w - b.r
  BY <1>6, ContentsType
<1>9. b.w - b.r = m - a /\ len \in 0..b.w - b.r
  <2>1. b.w - b.r = m - a
    BY <1>7, <1>8, Zenon
  <2>2. len \in 0..m - a
    BY <1>5
  <2> QED
    BY <2>1, <2>2, Zenon
<1> HIDE DEF d
<1> DEFINE q == retrieve(b, len)
<1>10. BufferOK(q) /\ Contents(q) = SubSeq(d, len + 1, m - a)
  <2>1. BufferOK(q) /\ Contents(q) = SubSeq(Contents(b), len + 1, b.w - b.r)
    BY <1>6, <1>9, Retrieved
  <2> QED
    BY <2>1, <1>9, Zenon DEF d
<1> HIDE DEF q
<1>11. /\ SubSeq(d, len + 1, m - a) \in Seq(Octets) /\ Len(SubSeq(d, len + 1, m - a)) = (m - a) - len
       /\ \A k \in 1..(m - a) - len : SubSeq(d, len + 1, m - a)[k] = d[len + k]
  <2>1. PICK l \in Nat : l = m - a /\ len <= l
    BY <1>5
  <2>2. /\ SubSeq(d, len + 1, l) \in Seq(Octets) /\ Len(SubSeq(d, len + 1, l)) = l - len
        /\ \A k \in 1..l - len : SubSeq(d, len + 1, l)[k] = d[len + k]
    BY <2>1, <1>7, CutSeq
  <2> QED
    BY <2>1, <2>2, Zenon
<1>12. /\ SubSeq(s, (a + len) + 1, m) \in Seq(Octets) /\ Len(SubSeq(s, (a + len) + 1, m)) = m - (a + len)
       /\ \A k \in 1..m - (a + len) : SubSeq(s, (a + len) + 1, m)[k] = s[(a + len) + k]
  <2>1. PICK l \in Nat : l = a + len /\ l <= m
    BY <1>5
  <2>2. /\ SubSeq(s, l + 1, m) \in Seq(Octets) /\ Len(SubSeq(s, l + 1, m)) = m - l
        /\ \A k \in 1..m - l : SubSeq(s, l + 1, m)[k] = s[l + k]
    BY <2>1, <1>4, CutSeq
  <2> QED
    BY <2>1, <2>2, Zenon
<1>13. PICK u \in Seq(Octets), v \in Seq(Octets) : u = Contents(q) /\ v = SubSeq(s, (a + len) + 1, m)
  BY <1>10, <1>11, <1>12
<1>14. PICK l \in Nat : l = (m - a) - len /\ l = m - (a + len)
  BY <1>5
<1>15. \A k \in 1..l : u[k] = v[k]
  <2> TAKE k \in 1..l
  <2>1. len + k \in 1..m - a /\ a + (len + k) = (a + len) + k
    BY <1>14, <1>5
  <2>2. u[k] = s[a + (len + k)]
    BY <2>1, <1>7, <1>10, <1>11, <1>13, <1>14, Zenon
  <2>3. v[k] = s[(a + len) + k]
    BY <1>12, <1>13, <1>14, Zenon
  <2> QED
    BY <2>1, <2>2, <2>3, Zenon
<1>16. Len(u) = l /\ Len(v) = l
  BY <1>10, <1>11, <1>12, <1>13, <1>14, Zenon
<1>17. u = v
  BY <1>15, <1>16, SameSeq
<1>18. At(ls, m, c + 1, q)
  <2>1. Ends(ls, c + 1) = a + len
    BY <1>3
  <2> QED
    BY <2>1, <1>1, <1>4, <1>10, <1>13, <1>17, Zenon DEF At
<1>19. readableBytes(q) + len = readableBytes(b) /\ readableBytes(b) \in Nat
  <2>1. Len(Contents(q)) = q.w - q.r
    BY <1>10, ContentsType
  <2>2. q.w - q.r = (m - a) - len
    BY <2>1, <1>10, <1>11, Zenon
  <2>3. readableBytes(q) = (m - a) - len /\ readableBytes(b) = m - a
    BY <2>2, <1>9 DEF readableBytes
  <2> QED
    BY <2>3, <1>5
<1> QED
  BY <1>18, <1>19 DEF q

-----------------------------------------------------------------------------
(* The reference: the lines that begin and end requests.                     *)

PlainUpTo(ls, k) == {j \in Plain(ls) : j <= k}
Plains(ls, k) == Cardinality(PlainUpTo(ls, k))
Clean(ls, c) == \A j \in BadLines(ls) : j > c
Between(ls, c) == c = 0 \/ c \in EndLines(ls)
Inside(ls, c, req) ==
    \E s \in FirstLines(ls) :
       /\ s <= c /\ s \notin EndLines(ls) /\ ls[s] \in Versions /\ \A j \in s + 1..c : ls[j] \in Headers
       /\ req = [method |-> "kGet", version |-> ls[s], connection |-> IF c = s THEN "none" ELSE ls[c]]

LEMMA LinesTyped ==
  ASSUME NEW ls \in Seq(Texts), NEW n \in Nat, Len(ls) = n
  PROVE  /\ Plain(ls) = {k \in 1..n : ls[k] \notin Headers}
         /\ FirstLines(ls) = {k \in 1..n : k = 1 \/ k - 1 \in EndLines(ls)}
         /\ EndLines(ls) = {k \in Plain(ls) : Plains(ls, k) % 2 = 0}
         /\ BadLines(ls) = {k \in FirstLines(ls) : ls[k] \notin Versions}
         /\ GoodEnds(ls) = {k \in EndLines(ls) : Clean(ls, k)}
<1>1. DOMAIN ls = 1..n
  BY LenProperties, Zenon
<1> QED
  BY <1>1, Zenon DEF Plain, FirstLines, EndLines, BadLines, GoodEnds, Plains, PlainUpTo, Clean

LEMMA PlainsTyped ==
  ASSUME NEW ls \in Seq(Texts), NEW n \in Nat, Len(ls) = n, NEW k \in Nat
  PROVE  IsFiniteSet(PlainUpTo(ls, k)) /\ Plains(ls, k) \in Nat
<1>1. PlainUpTo(ls, k) \in SUBSET (1..n)
  BY LinesTyped DEF PlainUpTo
<1>2. IsFiniteSet(1..n)
  BY FS_Interval
<1>3. IsFiniteSet(PlainUpTo(ls, k))
  BY <1>1, <1>2, FS_Subset, Zenon
<1> QED
  BY <1>3, FS_CardinalityType DEF Plains

LEMMA PlainStep ==
  ASSUME NEW ls \in Seq(Texts), NEW n \in Nat, Len(ls) = n, NEW c \in 0..n, c < n
  PROVE  Plains(ls, c + 1) = IF ls[c + 1] \in Headers THEN Plains(ls, c) ELSE Plains(ls, c) + 1
<1>1. Plain(ls) = {k \in 1..n : ls[k] \notin Headers}
  BY LinesTyped
<1>2. c + 1 \in 1..n /\ c \in Nat
  OBVIOUS
<1>3. CASE ls[c + 1] \in Headers
  <2>1. PlainUpTo(ls, c + 1) = PlainUpTo(ls, c)
    BY <1>1, <1>2, <1>3 DEF PlainUpTo
  <2> QED
    BY <2>1, <1>3 DEF Plains
<1>4. CASE ls[c + 1] \notin Headers
  <2>1. PlainUpTo(ls, c + 1) = PlainUpTo(ls, c) \cup {c + 1} /\ c + 1 \notin PlainUpTo(ls, c)
    BY <1>1, <1>2, <1>4 DEF PlainUpTo
  <2>2. Cardinality(PlainUpTo(ls, c) \cup {c + 1}) = Cardinality(PlainUpTo(ls, c)) + 1
    BY <2>1, <1>2, PlainsTyped, FS_AddElement, Zenon
  <2> QED
    BY <2>1, <2>2, <1>4, Zenon DEF Plains
<1> QED
  BY <1>3, <1>4

LEMMA PlainsBegin ==
  ASSUME NEW ls \in Seq(Texts), NEW n \in Nat, Len(ls) = n
  PROVE  Plains(ls, 0) = 0
<1>1. PlainUpTo(ls, 0) = {}
  BY LinesTyped DEF PlainUpTo
<1> QED
  BY <1>1, FS_EmptySet DEF Plains

LEMMA ClassesApart ==
  \A t \in Versions : t \notin Headers
  BY DEF Versions, Headers

(* A line after whole requests begins a request.                             *)
LEMMA RequestBegins ==
  ASSUME NEW ls \in Seq(Texts), NEW n \in Nat, Len(ls) = n, NEW c \in 0..n, c < n, Between(ls, c)
  PROVE  /\ c + 1 \in FirstLines(ls)
         /\ ls[c + 1] \notin Versions => c + 1 \in BadLines(ls)
         /\ ls[c + 1] \in Versions =>
               /\ c + 1 \notin EndLines(ls) /\ Plains(ls, c + 1) % 2 = 1
               /\ Clean(ls, c) => Clean(ls, c + 1)
               /\ Inside(ls, c + 1, [method |-> "kGet", version |-> ls[c + 1], connection |-> "none"])
<1>1. /\ FirstLines(ls) = {k \in 1..n : k = 1 \/ k - 1 \in EndLines(ls)}
      /\ EndLines(ls) = {k \in Plain(ls) : Plains(ls, k) % 2 = 0}
      /\ BadLines(ls) = {k \in FirstLines(ls) : ls[k] \notin Versions}
  BY LinesTyped
<1>2. c + 1 \in 1..n /\ (c + 1) - 1 = c /\ (c = 0 => c + 1 = 1) /\ c \in Nat
  OBVIOUS
<1>3. c + 1 \in FirstLines(ls)
  BY <1>1, <1>2, Zenon DEF Between
<1>4. ls[c + 1] \notin Versions => c + 1 \in BadLines(ls)
  BY <1>1, <1>3, Zenon
<1>5. ASSUME ls[c + 1] \in Versions
      PROVE  /\ c + 1 \notin EndLines(ls) /\ Plains(ls, c + 1) % 2 = 1
             /\ Clean(ls, c) => Clean(ls, c + 1)
             /\ Inside(ls, c + 1, [method |-> "kGet", version |-> ls[c + 1], connection |-> "none"])
  <2>1. PICK a \in Nat : a = Plains(ls, c)
    BY <1>2, PlainsTyped
  <2>2. a % 2 = 0
    <3>1. CASE c = 0
      BY <3>1, <2>1, PlainsBegin
    <3>2. CASE c \in EndLines(ls)
      BY <3>2, <2>1, <1>1, Zenon
    <3> QED
      BY <3>1, <3>2 DEF Between
  <2>3. Plains(ls, c + 1) = a + 1
    BY <1>5, <2>1, PlainStep, ClassesApart
  <2>4. (a + 1) % 2 = 1 /\ 1 # 0
    BY <2>2
  <2>5. c + 1 \notin EndLines(ls) /\ Plains(ls, c + 1) % 2 = 1
    BY <2>3, <2>4, <1>1, Zenon
  <2>6. ASSUME Clean(ls, c) PROVE Clean(ls, c + 1)
    <3>1. c + 1 \notin BadLines(ls)
      BY <1>1, <1>5
    <3>2. BadLines(ls) \subseteq 1..n
      BY <1>1
    <3>3. \A j \in BadLines(ls) : j > c /\ j # c + 1 /\ j \in 1..n
      BY <2>6, <3>1, <3>2 DEF Clean
    <3> QED
      BY <3>3 DEF Clean
  <2>7. \A j \in (c + 1) + 1..c + 1 : ls[j] \in Headers
    OBVIOUS
  <2>8. c + 1 <= c + 1
    OBVIOUS
  <2>9. Inside(ls, c + 1, [method |-> "kGet", version |-> ls[c + 1], connection |-> "none"])
    BY <1>3, <1>5, <2>5, <2>7, <2>8, Zenon DEF Inside
  <2> QED
    BY <2>5, <2>6, <2>9
<1> QED
  BY <1>3, <1>4, <1>5

(* Inside a request no line begins another one.                              *)
LEMMA StaysClean ==
  ASSUME NEW ls \in Seq(Texts), NEW n \in Nat, Len(ls) = n, NEW c \in 0..n, c < n, c # 0,
         Plains(ls, c) % 2 = 1
  PROVE  c + 1 \notin FirstLines(ls) /\ (Clean(ls, c) => Clean(ls, c + 1))
<1>1. /\ FirstLines(ls) = {k \in 1..n : k = 1 \/ k - 1 \in EndLines(ls)}
      /\ EndLines(ls) = {k \in Plain(ls) : Plains(ls, k) % 2 = 0}
      /\ BadLines(ls) = {k \in FirstLines(ls) : ls[k] \notin Versions}
  BY LinesTyped
<1>2. c + 1 \in 1..n /\ (c + 1) - 1 = c /\ c + 1 # 1 /\ 1 # 0
  OBVIOUS
<1>3. c \notin EndLines(ls)
  BY <1>1, <1>2, Zenon
<1>4. c + 1 \notin FirstLines(ls)
  BY <1>1, <1>2, <1>3, Zenon
<1>5. ASSUME Clean(ls, c) PROVE Clean(ls, c + 1)
  <2>1. BadLines(ls) \subseteq 1..n
    BY <1>1
  <2>2. \A j \in BadLines(ls) : j > c /\ j # c + 1 /\ j \in 1..n
    BY <1>1, <1>4, <1>5, <2>1 DEF Clean
  <2> QED
    BY <2>2 DEF Clean
<1> QED
  BY <1>4, <1>5

LEMMA HeaderFollows ==
  ASSUME NEW ls \in Seq(Texts), NEW n \in Nat, Len(ls) = n, NEW c \in 0..n, c < n,
         Plains(ls, c) % 2 = 1, NEW req, Inside(ls, c, req), ls[c + 1] \in Headers
  PROVE  /\ Plains(ls, c + 1) % 2 = 1 /\ c + 1 \notin EndLines(ls)
         /\ Clean(ls, c) => Clean(ls, c + 1)
         /\ Inside(ls, c + 1, [method |-> "kGet", version |-> req.version, connection |-> ls[c + 1]])
<1>1. /\ FirstLines(ls) = {k \in 1..n : k = 1 \/ k - 1 \in EndLines(ls)}
      /\ EndLines(ls) = {k \in Plain(ls) : Plains(ls, k) % 2 = 0}
      /\ Plain(ls) = {k \in 1..n : ls[k] \notin Headers}
  BY LinesTyped
<1>2. PICK s \in FirstLines(ls) :
        /\ s <= c /\ s \notin EndLines(ls) /\ ls[s] \in Versions /\ \A j \in s + 1..c : ls[j] \in Headers
        /\ req = [method |-> "kGet", version |-> ls[s], connection |-> IF c = s THEN "none" ELSE ls[c]]
  BY Zenon DEF Inside
<1>3. s \in 1..n
  BY <1>1
<1>4. c # 0 /\ c + 1 # s /\ s <= c + 1
  BY <1>2, <1>3
<1>5. Plains(ls, c + 1) = Plains(ls, c)
  BY PlainStep
<1>6. c + 1 \notin EndLines(ls)
  BY <1>1
<1>7. Clean(ls, c) => Clean(ls, c + 1)
  BY <1>4, StaysClean
<1>8. \A j \in s + 1..c + 1 : ls[j] \in Headers
  <2> TAKE j \in s + 1..c + 1
  <2>1. j = c + 1 \/ j \in s + 1..c
    BY <1>3
  <2> QED
    BY <2>1, <1>2, Zenon
<1>9. req.version = ls[s]
  BY <1>2
<1>10. Inside(ls, c + 1, [method |-> "kGet", version |-> req.version, connection |-> ls[c + 1]])
  BY <1>2, <1>4, <1>8, <1>9, Zenon DEF Inside
<1> QED
  BY <1>5, <1>6, <1>7, <1>10

LEMMA RequestEnds ==
  ASSUME NEW ls \in Seq(Texts), NEW n \in Nat, Len(ls) = n, NEW c \in 0..n, c < n,
         Plains(ls, c) % 2 = 1, NEW req, Inside(ls, c, req), ls[c + 1] \notin Headers
  PROVE  /\ c + 1 \in EndLines(ls)
         /\ Clean(ls, c) => Clean(ls, c + 1)
         /\ req = RequestEndingAt(ls, c + 1)
<1>1. /\ FirstLines(ls) = {k \in 1..n : k = 1 \/ k - 1 \in EndLines(ls)}
      /\ EndLines(ls) = {k \in Plain(ls) : Plains(ls, k) % 2 = 0}
      /\ Plain(ls) = {k \in 1..n : ls[k] \notin Headers}
  BY LinesTyped
<1>2. PICK s \in FirstLines(ls) :
        /\ s <= c /\ s \notin EndLines(ls) /\ ls[s] \in Versions /\ \A j \in s + 1..c : ls[j] \in Headers
        /\ req = [method |-> "kGet", version |-> ls[s], connection |-> IF c = s THEN "none" ELSE ls[c]]
  BY Zenon DEF Inside
<1>3. s \in 1..n
  BY <1>1
<1>4. c # 0 /\ s <= c + 1 /\ c + 1 \in 1..n /\ (c + 1) - 1 = c /\ (c + 1 = s + 1 <=> c = s)
  BY <1>2, <1>3
<1>5. c + 1 \in EndLines(ls)
  <2>1. PICK a \in Nat : a = Plains(ls, c)
    BY PlainsTyped
  <2>2. Plains(ls, c + 1) = a + 1
    BY <2>1, PlainStep
  <2>3. (a + 1) % 2 = 0
    BY <2>1
  <2> QED
    BY <1>1, <1>4, <2>2, <2>3, Zenon
<1>6. Clean(ls, c) => Clean(ls, c + 1)
  BY <1>4, StaysClean
<1>7. \A j \in FirstLines(ls) : j <= c + 1 => j <= s
  <2> SUFFICES ASSUME NEW j \in FirstLines(ls), j <= c + 1, j > s PROVE FALSE
    BY <1>1, <1>3
  <2>1. j \in 1..n /\ (j = 1 \/ j - 1 \in EndLines(ls))
    BY <1>1
  <2>2. j # 1 /\ (j - 1 = s \/ j - 1 \in s + 1..c)
    BY <2>1, <1>3
  <2>3. j - 1 \notin EndLines(ls)
    BY <2>2, <1>1, <1>2, Zenon
  <2> QED
    BY <2>1, <2>2, <2>3
<1> DEFINE S == {j \in FirstLines(ls) : j <= c + 1}
<1>8. Max(S) = s
  <2>1. S \in SUBSET Nat /\ s \in S /\ \A j \in S : j <= s
    BY <1>1, <1>4, <1>7
  <2> HIDE DEF S
  <2> QED
    BY <2>1, GreatestIsMax
<1> HIDE DEF S
<1>9. RequestEndingAt(ls, c + 1) = [method |-> "kGet", version |-> ls[s],
                                    connection |-> IF c + 1 = s + 1 THEN "none" ELSE ls[(c + 1) - 1]]
  BY <1>8, Zenon DEF RequestEndingAt, S
<1>10. req = RequestEndingAt(ls, c + 1)
  BY <1>2, <1>4, <1>9, Zenon
<1> QED
  BY <1>5, <1>6, <1>10

(* js begins with the lines ls.                                              *)
Begins(ls, js) ==
    /\ ls \in Seq(Texts) /\ js \in Seq(Texts) /\ Len(ls) <= Len(js)
    /\ \A i \in 1..Len(ls) : js[i] = ls[i]

LEMMA GreatestOf ==
  ASSUME NEW k \in Nat, NEW S \in SUBSET (0..k), S # {}
  PROVE  /\ Max(S) \in S /\ \A i \in S : i <= Max(S)
<1> DEFINE T == {x \in 0..k : k - x \in S}
<1>1. T # {}
  <2>1. PICK i \in S : TRUE
    OBVIOUS
  <2>2. i \in 0..k /\ k - i \in 0..k /\ k - (k - i) = i
    BY <2>1
  <2>3. k - i \in T
    BY <2>1, <2>2
  <2> QED
    BY <2>3
<1>2. PICK x \in T : \A y \in T : x <= y
  <2> HIDE DEF T
  <2>1. T \in SUBSET Nat
    BY DEF T
  <2> QED
    BY <1>1, <2>1, LeastOf
<1>3. x \in 0..k /\ k - x \in S
  BY <1>2
<1>4. \A i \in S : i <= k - x
  <2> TAKE i \in S
  <2>1. i \in 0..k /\ k - i \in 0..k /\ k - (k - i) = i
    OBVIOUS
  <2>2. k - i \in T
    BY <2>1
  <2>3. x <= k - i
    BY <1>2, <2>2
  <2> QED
    BY <2>1, <2>3, <1>3
<1>5. S \in SUBSET Nat
  OBVIOUS
<1>6. Max(S) = k - x
  <2>1. PICK m \in S : m = k - x /\ \A i \in S : i <= m
    BY <1>3, <1>4
  <2> QED
    BY <2>1, <1>5, GreatestIsMax
<1> QED
  BY <1>3, <1>4, <1>6

LEMMA BeginsTyped ==
  ASSUME NEW ls, NEW js, Begins(ls, js)
  PROVE  \E n \in Nat, m \in Nat : Len(ls) = n /\ Len(js) = m /\ n <= m
  BY LenProperties DEF Begins

LEMMA SameLines ==
  ASSUME NEW ls, NEW js, Begins(ls, js), NEW k \in 0..Len(ls)
  PROVE  /\ Plains(js, k) = Plains(ls, k)
         /\ k \in Plain(js) <=> k \in Plain(ls)
         /\ k \in EndLines(js) <=> k \in EndLines(ls)
<1>1. PICK n \in Nat, m \in Nat : Len(ls) = n /\ Len(js) = m /\ n <= m
  BY BeginsTyped
<1>2. ls \in Seq(Texts) /\ js \in Seq(Texts) /\ \A i \in 1..n : js[i] = ls[i]
  BY <1>1 DEF Begins
<1>3. Plain(ls) = {i \in 1..n : ls[i] \notin Headers} /\ Plain(js) = {i \in 1..m : js[i] \notin Headers}
  BY <1>1, <1>2, LinesTyped
<1>4. k \in 0..n /\ \A i \in 1..n : i \in 1..m
  BY <1>1
<1>5. \A i \in 1..n : i \in Plain(js) <=> i \in Plain(ls)
  BY <1>2, <1>3, <1>4, Zenon
<1>6. k \in Plain(js) <=> k \in Plain(ls)
  <2>1. CASE k = 0
    <3>1. 0 \notin 1..n /\ 0 \notin 1..m
      BY <1>1
    <3> QED
      BY <2>1, <3>1, <1>3, Zenon
  <2>2. CASE k # 0
    <3>1. k \in 1..n
      BY <2>2, <1>4
    <3> QED
      BY <3>1, <1>5, Zenon
  <2> QED
    BY <2>1, <2>2
<1>7. PlainUpTo(js, k) = PlainUpTo(ls, k)
  <2>1. \A i \in 1..m : i <= k => i \in 1..n
    BY <1>1, <1>4
  <2>2. PlainUpTo(js, k) \subseteq PlainUpTo(ls, k)
    BY <2>1, <1>3, <1>5, Zenon DEF PlainUpTo
  <2>3. PlainUpTo(ls, k) \subseteq PlainUpTo(js, k)
    BY <1>3, <1>5, Zenon DEF PlainUpTo
  <2> QED
    BY <2>2, <2>3, Zenon
<1>8. Plains(js, k) = Plains(ls, k)
  BY <1>7, Zenon DEF Plains
<1>9. /\ EndLines(ls) = {i \in Plain(ls) : Plains(ls, i) % 2 = 0}
      /\ EndLines(js) = {i \in Plain(js) : Plains(js, i) % 2 = 0}
  BY <1>1, <1>2, LinesTyped
<1> QED
  BY <1>6, <1>8, <1>9, Zenon

LEMMA SameFirstLines ==
  ASSUME NEW ls, NEW js, Begins(ls, js), NEW k \in 1..Len(ls)
  PROVE  /\ js[k] = ls[k]
         /\ k \in FirstLines(js) <=> k \in FirstLines(ls)
         /\ k \in BadLines(js) <=> k \in BadLines(ls)
<1>1. PICK n \in Nat, m \in Nat : Len(ls) = n /\ Len(js) = m /\ n <= m
  BY BeginsTyped
<1>2. ls \in Seq(Texts) /\ js \in Seq(Texts) /\ \A i \in 1..n : js[i] = ls[i]
  BY <1>1 DEF Begins
<1>3. k \in 1..n /\ k \in 1..m /\ k - 1 \in 0..Len(ls)
  BY <1>1
<1>4. k - 1 \in EndLines(js) <=> k - 1 \in EndLines(ls)
  BY <1>3, SameLines
<1>5. /\ FirstLines(ls) = {i \in 1..n : i = 1 \/ i - 1 \in EndLines(ls)}
      /\ BadLines(ls) = {i \in FirstLines(ls) : ls[i] \notin Versions}
  BY <1>1, <1>2, LinesTyped
<1>6. /\ FirstLines(js) = {i \in 1..m : i = 1 \/ i - 1 \in EndLines(js)}
      /\ BadLines(js) = {i \in FirstLines(js) : js[i] \notin Versions}
  BY <1>1, <1>2, LinesTyped
<1>7. js[k] = ls[k]
  BY <1>2, <1>3, Zenon
<1>8. k \in FirstLines(js) <=> k \in FirstLines(ls)
  BY <1>3, <1>4, <1>5, <1>6, Zenon
<1> QED
  BY <1>5, <1>6, <1>7, <1>8, Zenon

LEMMA FirstLinesRange ==
  ASSUME NEW ls \in Seq(Texts), NEW n \in Nat, Len(ls) = n
  PROVE  /\ FirstLines(ls) \subseteq 1..n /\ BadLines(ls) \subseteq 1..n /\ EndLines(ls) \subseteq 1..n
         /\ GoodEnds(ls) \subseteq EndLines(ls)
<1>1. /\ Plain(ls) = {k \in 1..n : ls[k] \notin Headers}
      /\ FirstLines(ls) = {k \in 1..n : k = 1 \/ k - 1 \in EndLines(ls)}
      /\ EndLines(ls) = {k \in Plain(ls) : Plains(ls, k) % 2 = 0}
      /\ BadLines(ls) = {k \in FirstLines(ls) : ls[k] \notin Versions}
      /\ GoodEnds(ls) = {k \in EndLines(ls) : Clean(ls, k)}
  BY LinesTyped
<1> QED
  BY <1>1, Zenon

LEMMA SameClean ==
  ASSUME NEW ls, NEW js, Begins(ls, js), NEW k \in 0..Len(ls)
  PROVE  /\ Clean(js, k) <=> Clean(ls, k)
         /\ k \in GoodEnds(js) <=> k \in GoodEnds(ls)
<1>1. PICK n \in Nat, m \in Nat : Len(ls) = n /\ Len(js) = m /\ n <= m
  BY BeginsTyped
<1>2. ls \in Seq(Texts) /\ js \in Seq(Texts)
  BY DEF Begins
<1>3. BadLines(ls) \subseteq 1..n /\ BadLines(js) \subseteq 1..m
  BY <1>1, <1>2, FirstLinesRange
<1>4. \A j \in 1..n : j \in BadLines(js) <=> j \in BadLines(ls)
  BY <1>1, SameFirstLines
<1>5. k \in 0..n
  BY <1>1
<1>6. ASSUME Clean(js, k) PROVE Clean(ls, k)
  BY <1>3, <1>4, <1>6, Zenon DEF Clean
<1>7. ASSUME Clean(ls, k) PROVE Clean(js, k)
  <2> SUFFICES ASSUME NEW j \in BadLines(js) PROVE j > k
    BY DEF Clean
  <2>1. j \in 1..m
    BY <1>3
  <2>2. CASE j \in 1..n
    BY <2>2, <1>4, <1>7, Zenon DEF Clean
  <2>3. CASE j \notin 1..n
    BY <2>1, <2>3, <1>5
  <2> QED
    BY <2>2, <2>3
<1>8. GoodEnds(ls) = {i \in EndLines(ls) : Clean(ls, i)} /\ GoodEnds(js) = {i \in EndLines(js) : Clean(js, i)}
  BY <1>1, <1>2, LinesTyped
<1>9. k \in EndLines(js) <=> k \in EndLines(ls)
  BY SameLines
<1> QED
  BY <1>6, <1>7, <1>8, <1>9, Zenon

(* No request is a single line.                                              *)
LEMMA EndsLater ==
  ASSUME NEW ls \in Seq(Texts), NEW n \in Nat, Len(ls) = n, NEW k \in EndLines(ls)
  PROVE  k \in 2..n
<1>1. EndLines(ls) = {i \in Plain(ls) : Plains(ls, i) % 2 = 0} /\ Plain(ls) = {i \in 1..n : ls[i] \notin Headers}
  BY LinesTyped
<1>2. k \in 1..n /\ ls[k] \notin Headers /\ Plains(ls, k) % 2 = 0
  BY <1>1
<1>3. ASSUME k = 1 PROVE FALSE
  <2>1. 0 \in 0..n /\ 0 < n /\ 0 + 1 = 1
    BY <1>2, <1>3
  <2>2. Plains(ls, 1) = 0 + 1
    BY <2>1, <1>2, <1>3, PlainStep, PlainsBegin
  <2> QED
    BY <2>2, <1>2, <1>3
<1> QED
  BY <1>2, <1>3

LEMMA SameRequest ==
  ASSUME NEW ls, NEW js, Begins(ls, js), NEW k \in 2..Len(ls)
  PROVE  RequestEndingAt(js, k) = RequestEndingAt(ls, k)
<1>1. PICK n \in Nat, m \in Nat : Len(ls) = n /\ Len(js) = m /\ n <= m
  BY BeginsTyped
<1>2. ls \in Seq(Texts) /\ js \in Seq(Texts)
  BY DEF Begins
<1>3. k \in 1..n /\ k \in Nat /\ k - 1 \in 1..n
  BY <1>1
<1> DEFINE S(x) == {j \in FirstLines(x) : j <= k}
<1>4. S(js) = S(ls)
  <2>1. FirstLines(ls) \subseteq 1..n /\ FirstLines(js) \subseteq 1..m
    BY <1>1, <1>2, FirstLinesRange
  <2>2. \A j \in 1..n : j \in FirstLines(js) <=> j \in FirstLines(ls)
    BY <1>1, SameFirstLines
  <2>3. \A j \in 1..m : j <= k => j \in 1..n
    BY <1>1, <1>3
  <2>4. S(js) \subseteq S(ls)
    BY <2>1, <2>2, <2>3, Zenon
  <2>5. S(ls) \subseteq S(js)
    BY <2>1, <2>2, Zenon
  <2> QED
    BY <2>4, <2>5, Zenon
<1>5. Max(S(ls)) \in 1..k
  <2>1. FirstLines(ls) = {i \in 1..n : i = 1 \/ i - 1 \in EndLines(ls)}
    BY <1>1, <1>2, LinesTyped
  <2>2. 1 \in S(ls) /\ S(ls) \in SUBSET (0..k) /\ S(ls) \subseteq 1..k
    BY <2>1, <1>3
  <2> HIDE DEF S
  <2>3. S(ls) # {}
    BY <2>2, Zenon
  <2>4. Max(S(ls)) \in S(ls)
    BY <2>2, <2>3, <1>3, GreatestOf
  <2> QED
    BY <2>2, <2>4, Zenon
<1> DEFINE s == Max(S(ls))
<1>6. RequestEndingAt(ls, k) = [method |-> "kGet", version |-> ls[s],
                                connection |-> IF k = s + 1 THEN "none" ELSE ls[k - 1]]
  BY Zenon DEF RequestEndingAt
<1>7. RequestEndingAt(js, k) = [method |-> "kGet", version |-> js[s],
                                connection |-> IF k = s + 1 THEN "none" ELSE js[k - 1]]
  BY <1>4, Zenon DEF RequestEndingAt
<1> HIDE DEF s, S
<1>8. s \in 1..k
  BY <1>5 DEF s
<1>9. s \in 1..n
  BY <1>3, <1>8
<1>10. js[s] = ls[s]
  BY <1>1, <1>9, SameFirstLines, Zenon
<1>11. js[k - 1] = ls[k - 1]
  BY <1>1, <1>3, SameFirstLines, Zenon
<1> DEFINE c == IF k = s + 1 THEN "none" ELSE ls[k - 1]
           e == IF k = s + 1 THEN "none" ELSE js[k - 1]
<1>12. c = e
  BY <1>11, Zenon
<1> HIDE DEF c, e
<1>13. RequestEndingAt(ls, k) = [method |-> "kGet", version |-> ls[s], connection |-> c]
  BY <1>6 DEF c
<1>14. RequestEndingAt(js, k) = [method |-> "kGet", version |-> js[s], connection |-> e]
  BY <1>7 DEF e
<1> QED
  BY <1>10, <1>12, <1>13, <1>14, Zenon

-----------------------------------------------------------------------------
(* parseRequest(), line by line.                                             *)

Flag == BOOLEAN
ParseStates == {"kExpectRequestLine", "kExpectHeaders", "kGotAll"}
Methods == {"kInvalid", "kGet"}
VersionSet == Versions \cup {"kUnknown"}
ConnectionSet == Headers \cup {"none"}
RequestSet == [method : Methods, version : VersionSet, connection : ConnectionSet]
Parses == [state : ParseStates, request : RequestSet, buf : Buffers, ok : Flag, more : Flag, aborted : Flag]

LEMMA ParseValues ==
    /\ FALSE \in Flag /\ TRUE \in Flag /\ "kExpectHeaders" \in ParseStates /\ "kGotAll" \in ParseStates
    /\ "kInvalid" \in Methods /\ "kGet" \in Methods
    /\ \A t \in Versions : t \in VersionSet
    /\ \A t \in Headers : t \in ConnectionSet
    /\ "kUnknown" \in VersionSet /\ "none" \in ConnectionSet
  BY DEF Flag, ParseStates, Methods, VersionSet, ConnectionSet

(* One turn of the loop, by what it changes.                                 *)
SameBut(p, q) == q \in Parses /\ q.ok = p.ok /\ q.aborted = p.aborted

LEMMA TurnEnds ==
  ASSUME NEW p \in Parses
  PROVE  LET q == [p EXCEPT !.more = FALSE]
         IN  /\ SameBut(p, q) /\ ~q.more
             /\ q.state = p.state /\ q.request = p.request /\ q.buf = p.buf
  BY ParseValues DEF Parses, SameBut

LEMMA TurnAborts ==
  ASSUME NEW p \in Parses
  PROVE  LET q == [p EXCEPT !.aborted = TRUE, !.more = FALSE]
         IN  /\ q \in Parses /\ ~q.more /\ q.aborted /\ q.ok = p.ok
             /\ q.state = p.state /\ q.request = p.request /\ q.buf = p.buf
  BY ParseValues DEF Parses

(* What the parser sees of a line.                                           *)
LEMMA TextIs ==
  ASSUME NEW t \in Texts
  PROVE  /\ HasSpace(TextOf(t)) <=> t # "empty"
         /\ processRequestLine(TextOf(t)) <=> t \in Versions
         /\ HasColon(TextOf(t)) <=> t \in Headers
         /\ t \in Versions \cup Headers => TextOf(t)[1] = t
<1>1. "empty" \notin Versions /\ "empty" \notin Headers
  BY DEF Versions, Headers
<1>2. CASE t = "empty"
  <2>1. TextOf(t) = <<>>
    BY <1>2 DEF TextOf
  <2> QED
    BY <2>1, <1>1, <1>2, Zenon DEF HasSpace, processRequestLine, HasColon
<1>3. CASE t # "empty"
  <2>1. TextOf(t) = <<t>>
    BY <1>3 DEF TextOf
  <2>2. <<t>> # <<>> /\ <<t>>[1] = t
    OBVIOUS
  <2> QED
    BY <2>1, <2>2, <1>3, Zenon DEF HasSpace, processRequestLine, HasColon
<1> QED
  BY <1>2, <1>3

Rejected(ls, m, c) == c + 1 \in BadLines(ls) /\ Ends(ls, c + 1) <= m
NoneLeft(ls, m, c) == c = Len(ls) \/ m < Ends(ls, c + 1)

(* How far the request has come when the first c lines are parsed.           *)
Progress(ls, m, c, state, req) ==
    /\ Clean(ls, c)
    /\ \/ state = "kExpectRequestLine" /\ Between(ls, c) /\ (req = NoRequest \/ Rejected(ls, m, c))
       \/ state = "kExpectHeaders" /\ Plains(ls, c) % 2 = 1 /\ Inside(ls, c, req)
       \/ state = "kGotAll" /\ c \in EndLines(ls) /\ req = RequestEndingAt(ls, c)

(* The loop, begun behind line c0 and now behind line c.                     *)
Passed(ls, c0, c, p) ==
    \A k \in EndLines(ls) : k > c0 => k > c \/ (k = c /\ p.state = "kGotAll")
Outcome(ls, m, c0, c, p) ==
    /\ p.state = "kGotAll" => c > c0 /\ ~p.more /\ p.ok /\ ~p.aborted
    /\ ~p.ok => p.state = "kExpectRequestLine" /\ Rejected(ls, m, c) /\ ~p.more /\ ~p.aborted
    /\ p.aborted => p.state = "kExpectRequestLine" /\ p.request # NoRequest /\ ~p.more
    /\ ~p.more => ~p.ok \/ p.aborted \/ p.state = "kGotAll" \/ NoneLeft(ls, m, c)
Parsing(ls, m, c0, c, p) ==
    /\ p \in Parses /\ c0 <= c /\ At(ls, m, c, p.buf)
    /\ Progress(ls, m, c, p.state, p.request)
    /\ Passed(ls, c0, c, p) /\ Outcome(ls, m, c0, c, p)

(* Nothing is left of a rejected line.                                       *)
Unspoilt(p) == ~p.aborted /\ (p.ok /\ p.state = "kExpectRequestLine" => p.request = NoRequest)

LEMMA ParsesRequestLine ==
  ASSUME NEW ls \in Seq(Texts), NEW n \in Nat, Len(ls) = n, NEW m \in Nat, m <= Ends(ls, n),
         NEW c0 \in 0..n, NEW c \in 0..n, NEW p, Parsing(ls, m, c0, c, p), p.more,
         p.state = "kExpectRequestLine", c < n, ls[c + 1] \in Texts, Ends(ls, c + 1) <= m,
         NEW rest, At(ls, m, c + 1, rest), NEW q, q = RequestLine(p, TextOf(ls[c + 1]), rest)
  PROVE  /\ \/ Parsing(ls, m, c0, c, q) /\ ~q.more
            \/ Parsing(ls, m, c0, c + 1, q) /\ q.buf = rest
         /\ Unspoilt(p) => Unspoilt(q)
<1> DEFINE t == ls[c + 1]
<1>1. /\ p \in Parses /\ c0 <= c /\ At(ls, m, c, p.buf) /\ Progress(ls, m, c, p.state, p.request)
      /\ Passed(ls, c0, c, p) /\ Outcome(ls, m, c0, c, p)
  BY DEF Parsing
<1>2. Clean(ls, c) /\ Between(ls, c) /\ (p.request = NoRequest \/ Rejected(ls, m, c))
  BY <1>1, Zenon DEF Progress
<1>3. p.ok /\ ~p.aborted
  BY <1>1, Zenon DEF Outcome
<1>4. rest \in Buffers
  BY DEF At, BufferOK, Buffers
<1>5. /\ HasSpace(TextOf(t)) <=> t # "empty"
      /\ processRequestLine(TextOf(t)) <=> t \in Versions
      /\ t \in Versions => TextOf(t)[1] = t
  BY TextIs, Zenon
<1>6. /\ t \notin Versions => c + 1 \in BadLines(ls)
      /\ t \in Versions =>
            /\ c + 1 \notin EndLines(ls) /\ Plains(ls, c + 1) % 2 = 1
            /\ Clean(ls, c) => Clean(ls, c + 1)
            /\ Inside(ls, c + 1, [method |-> "kGet", version |-> t, connection |-> "none"])
  BY <1>2, RequestBegins
<1>7. c \in Nat /\ c0 \in Nat /\ c0 <= c + 1
  BY <1>1
<1> HIDE DEF t
<1>8. CASE HasSpace(TextOf(t)) /\ p.request.method # "kInvalid"
  <2>1. q = [p EXCEPT !.aborted = TRUE, !.more = FALSE]
    BY <1>8, Zenon DEF RequestLine, t
  <2>2. /\ q \in Parses /\ ~q.more /\ q.aborted /\ q.ok = p.ok
        /\ q.state = p.state /\ q.request = p.request /\ q.buf = p.buf
    BY <2>1, <1>1, TurnAborts
  <2>3. p.request # NoRequest
    BY <1>8 DEF NoRequest
  <2>4. Passed(ls, c0, c, q) /\ Outcome(ls, m, c0, c, q)
    BY <1>1, <1>3, <2>2, <2>3 DEF Passed, Outcome
  <2>5. Parsing(ls, m, c0, c, q)
    BY <1>1, <2>2, <2>4, Zenon DEF Parsing
  <2>6. ~Unspoilt(p)
    BY <1>3, <2>3 DEF Unspoilt
  <2> QED
    BY <2>2, <2>5, <2>6, Zenon
<1>9. CASE ~(HasSpace(TextOf(t)) /\ p.request.method # "kInvalid") /\ t \in Versions
  <2>1. q = [p EXCEPT !.state = "kExpectHeaders", !.buf = rest,
                      !.request.method = "kGet", !.request.version = t]
    BY <1>5, <1>9, Zenon DEF RequestLine, t
  <2>2. /\ SameBut(p, q) /\ q.more = p.more /\ q.state = "kExpectHeaders" /\ q.buf = rest
        /\ q.request = [method |-> "kGet", version |-> t, connection |-> p.request.connection]
    <3>1. p \in Parses /\ t \in Versions
      BY <1>1, <1>9
    <3>2. PICK r : r = [p EXCEPT !.state = "kExpectHeaders", !.buf = rest,
                                 !.request.method = "kGet", !.request.version = t]
      OBVIOUS
    <3>3. /\ SameBut(p, r) /\ r.more = p.more /\ r.state = "kExpectHeaders" /\ r.buf = rest
          /\ r.request = [method |-> "kGet", version |-> t, connection |-> p.request.connection]
      BY <3>1, <3>2, <1>4, ParseValues DEF Parses, RequestSet, SameBut
    <3>4. q = r
      BY <2>1, <3>2, Zenon
    <3> QED
      BY <3>3, <3>4, Zenon
  <2>3. p.request = NoRequest
    <3>1. ~Rejected(ls, m, c)
      <4>1. BadLines(ls) = {k \in FirstLines(ls) : ls[k] \notin Versions}
        BY LinesTyped
      <4> QED
        BY <4>1, <1>9, Zenon DEF Rejected, t
    <3> QED
      BY <3>1, <1>2
  <2>4. q.request = [method |-> "kGet", version |-> t, connection |-> "none"]
    BY <2>2, <2>3 DEF NoRequest
  <2>5. Progress(ls, m, c + 1, q.state, q.request)
    BY <1>2, <1>6, <1>9, <2>2, <2>4, Zenon DEF Progress
  <2>6. Passed(ls, c0, c + 1, q)
    <3> SUFFICES ASSUME NEW k \in EndLines(ls), k > c0 PROVE k > c + 1
      BY Zenon DEF Passed
    <3>1. k > c /\ k # c + 1
      BY <1>1, <1>6, <1>9 DEF Passed
    <3>2. k \in 1..n
      BY FirstLinesRange
    <3> QED
      BY <3>1, <3>2, <1>7
  <2>7. q.ok = p.ok /\ q.aborted = p.aborted /\ q \in Parses
    BY <2>2 DEF SameBut
  <2>8. Outcome(ls, m, c0, c + 1, q)
    BY <1>3, <2>2, <2>7 DEF Outcome
  <2>9. Parsing(ls, m, c0, c + 1, q)
    BY <1>7, <2>2, <2>5, <2>6, <2>7, <2>8, Zenon DEF Parsing
  <2>10. Unspoilt(q)
    BY <1>3, <2>2, <2>7 DEF Unspoilt
  <2> QED
    BY <2>2, <2>9, <2>10
<1>10. CASE ~(HasSpace(TextOf(t)) /\ p.request.method # "kInvalid") /\ t \notin Versions
  <2> DEFINE x == IF HasMethod(TextOf(t)) THEN "kGet" ELSE p.request.method
  <2>1. q = [p EXCEPT !.ok = FALSE, !.more = FALSE, !.request.method = x]
    BY <1>5, <1>10, Zenon DEF RequestLine, t
  <2>2. x \in Methods
    BY <1>1, ParseValues DEF Parses, RequestSet
  <2> HIDE DEF x
  <2>3. /\ q \in Parses /\ ~q.ok /\ ~q.more /\ q.aborted = p.aborted
        /\ q.state = p.state /\ q.buf = p.buf
    <3>1. p \in Parses
      BY <1>1
    <3>2. PICK r : r = [p EXCEPT !.ok = FALSE, !.more = FALSE, !.request.method = x]
      OBVIOUS
    <3>3. /\ r \in Parses /\ ~r.ok /\ ~r.more /\ r.aborted = p.aborted
          /\ r.state = p.state /\ r.buf = p.buf
      BY <3>1, <3>2, <2>2, ParseValues DEF Parses, RequestSet
    <3>4. q = r
      BY <2>1, <3>2, Zenon
    <3> QED
      BY <3>3, <3>4, Zenon
  <2>4. Rejected(ls, m, c)
    BY <1>6, <1>10 DEF Rejected
  <2>5. Progress(ls, m, c, q.state, q.request)
    BY <1>2, <2>3, <2>4, Zenon DEF Progress
  <2>6. Passed(ls, c0, c, q) /\ Outcome(ls, m, c0, c, q)
    BY <1>1, <1>3, <2>3, <2>4 DEF Passed, Outcome
  <2>7. Parsing(ls, m, c0, c, q)
    BY <1>1, <2>3, <2>5, <2>6, Zenon DEF Parsing
  <2>8. Unspoilt(q)
    BY <1>3, <2>3 DEF Unspoilt
  <2> QED
    BY <2>3, <2>7, <2>8
<1> QED
  BY <1>8, <1>9, <1>10

LEMMA ParsesHeaderLine ==
  ASSUME NEW ls \in Seq(Texts), NEW n \in Nat, Len(ls) = n, NEW m \in Nat, m <= Ends(ls, n),
         NEW c0 \in 0..n, NEW c \in 0..n, NEW p, Parsing(ls, m, c0, c, p), p.more,
         p.state # "kExpectRequestLine", c < n, ls[c + 1] \in Texts, Ends(ls, c + 1) <= m,
         NEW rest, At(ls, m, c + 1, rest), NEW q, q = HeaderLine(p, TextOf(ls[c + 1]), rest)
  PROVE  /\ Parsing(ls, m, c0, c + 1, q) /\ q.buf = rest
         /\ Unspoilt(p) => Unspoilt(q)
<1> DEFINE t == ls[c + 1]
<1>1. /\ p \in Parses /\ c0 <= c /\ At(ls, m, c, p.buf) /\ Progress(ls, m, c, p.state, p.request)
      /\ Passed(ls, c0, c, p) /\ Outcome(ls, m, c0, c, p)
  BY DEF Parsing
<1>2. p.state = "kExpectHeaders"
  BY <1>1 DEF Outcome, Progress
<1>3. Clean(ls, c) /\ Plains(ls, c) % 2 = 1 /\ Inside(ls, c, p.request)
  BY <1>1, <1>2 DEF Progress
<1>4. p.ok /\ ~p.aborted
  BY <1>1, <1>2 DEF Outcome
<1>5. rest \in Buffers
  BY DEF At, BufferOK, Buffers
<1>6. (HasColon(TextOf(t)) <=> t \in Headers) /\ (t \in Headers => TextOf(t)[1] = t)
  BY TextIs, Zenon
<1>7. c \in Nat /\ c0 \in Nat /\ c0 <= c + 1 /\ c + 1 > c0
  BY <1>1
<1>8. \A k \in EndLines(ls) : k > c0 => k > c /\ k \in 1..n
  BY <1>1, <1>2, FirstLinesRange DEF Passed
<1> HIDE DEF t
<1>9. CASE t \in Headers
  <2>1. q = [p EXCEPT !.request.connection = t, !.buf = rest]
    BY <1>6, <1>9, Zenon DEF HeaderLine, t
  <2>2. /\ SameBut(p, q) /\ q.more = p.more /\ q.state = p.state /\ q.buf = rest
        /\ q.request = [method |-> p.request.method, version |-> p.request.version, connection |-> t]
    BY <2>1, <1>1, <1>5, <1>9, ParseValues DEF Parses, RequestSet, SameBut
  <2>3. /\ Plains(ls, c + 1) % 2 = 1 /\ c + 1 \notin EndLines(ls)
        /\ Clean(ls, c) => Clean(ls, c + 1)
        /\ Inside(ls, c + 1, [method |-> "kGet", version |-> p.request.version, connection |-> t])
    BY <1>3, <1>9, HeaderFollows DEF t
  <2>4. p.request.method = "kGet"
    BY <1>3 DEF Inside
  <2>5. Progress(ls, m, c + 1, q.state, q.request)
    BY <1>2, <1>3, <2>2, <2>3, <2>4, Zenon DEF Progress
  <2>6. Passed(ls, c0, c + 1, q)
    <3> SUFFICES ASSUME NEW k \in EndLines(ls), k > c0 PROVE k > c + 1
      BY Zenon DEF Passed
    <3>1. k > c /\ k # c + 1 /\ k \in 1..n
      BY <1>8, <2>3
    <3> QED
      BY <3>1, <1>7
  <2>7. q.ok = p.ok /\ q.aborted = p.aborted /\ q \in Parses
    BY <2>2 DEF SameBut
  <2>8. Outcome(ls, m, c0, c + 1, q)
    BY <1>2, <1>4, <2>2, <2>7 DEF Outcome
  <2>9. Parsing(ls, m, c0, c + 1, q)
    BY <1>7, <2>2, <2>5, <2>6, <2>7, <2>8, Zenon DEF Parsing
  <2>10. Unspoilt(q)
    BY <1>2, <1>4, <2>2, <2>7 DEF Unspoilt
  <2> QED
    BY <2>2, <2>9, <2>10
<1>10. CASE t \notin Headers
  <2>1. q = [p EXCEPT !.state = "kGotAll", !.more = FALSE, !.buf = rest]
    BY <1>6, <1>10, Zenon DEF HeaderLine, t
  <2>2. SameBut(p, q) /\ ~q.more /\ q.state = "kGotAll" /\ q.buf = rest /\ q.request = p.request
    BY <2>1, <1>1, <1>5, ParseValues DEF Parses, SameBut
  <2>3. /\ c + 1 \in EndLines(ls) /\ p.request = RequestEndingAt(ls, c + 1)
        /\ Clean(ls, c) => Clean(ls, c + 1)
    BY <1>3, <1>10, RequestEnds DEF t
  <2>4. Progress(ls, m, c + 1, q.state, q.request)
    BY <1>3, <2>2, <2>3, Zenon DEF Progress
  <2>5. Passed(ls, c0, c + 1, q)
    <3> SUFFICES ASSUME NEW k \in EndLines(ls), k > c0 PROVE k > c + 1 \/ k = c + 1
      BY <2>2, Zenon DEF Passed
    <3>1. k > c /\ k \in 1..n
      BY <1>8
    <3> QED
      BY <3>1, <1>7
  <2>6. q.ok = p.ok /\ q.aborted = p.aborted /\ q \in Parses
    BY <2>2 DEF SameBut
  <2>7. Outcome(ls, m, c0, c + 1, q)
    BY <1>4, <1>7, <2>2, <2>6 DEF Outcome
  <2>8. Parsing(ls, m, c0, c + 1, q)
    BY <1>7, <2>2, <2>4, <2>5, <2>6, <2>7, Zenon DEF Parsing
  <2>9. Unspoilt(q)
    BY <1>4, <2>2, <2>6 DEF Unspoilt
  <2> QED
    BY <2>2, <2>8, <2>9
<1> QED
  BY <1>9, <1>10

(* One turn of the loop in parseRequest().                                   *)
LEMMA ParsesLine ==
  ASSUME NEW ls \in Seq(Texts), NEW n \in Nat, Len(ls) = n, NEW m \in Nat, m <= Ends(ls, n),
         NEW c0 \in 0..n, NEW c \in 0..n, NEW p, Parsing(ls, m, c0, c, p), NEW q, q = ParseLine(p)
  PROVE  /\ \E e \in 0..n : Parsing(ls, m, c0, e, q)
         /\ Unspoilt(p) => Unspoilt(q)
         /\ readableBytes(p.buf) \in Nat /\ readableBytes(q.buf) \in Nat
         /\ q.more => p.more /\ readableBytes(q.buf) + 2 <= readableBytes(p.buf)
<1> DEFINE d == Contents(p.buf)
<1>1. /\ p \in Parses /\ c0 <= c /\ At(ls, m, c, p.buf) /\ Progress(ls, m, c, p.state, p.request)
      /\ Passed(ls, c0, c, p) /\ Outcome(ls, m, c0, c, p)
  BY DEF Parsing
<1>2. /\ Ends(ls, c) <= m /\ BufferOK(p.buf)
      /\ d = SubSeq(BytesOf(ls), Ends(ls, c) + 1, m)
  BY <1>1 DEF At
<1>3. \A e \in 0..n : Parsing(ls, m, c0, e, q) => readableBytes(q.buf) \in Nat
  BY DEF Parsing, At, BufferOK, readableBytes
<1>4. readableBytes(p.buf) \in Nat
  BY <1>2 DEF BufferOK, readableBytes
<1> HIDE DEF d
<1>5. CASE ~p.more \/ NoneLeft(ls, m, c)
  <2>1. ~p.more \/ CRLFs(d) = {}
    BY <1>2, <1>5, NoLineAhead DEF NoneLeft
  <2>2. q = [p EXCEPT !.more = FALSE]
    BY <2>1, Zenon DEF ParseLine, d
  <2>3. /\ SameBut(p, q) /\ ~q.more
        /\ q.state = p.state /\ q.request = p.request /\ q.buf = p.buf
    BY <2>2, <1>1, TurnEnds
  <2>4. q \in Parses /\ q.ok = p.ok /\ q.aborted = p.aborted
    BY <2>3 DEF SameBut
  <2>5. Passed(ls, c0, c, q) /\ Outcome(ls, m, c0, c, q)
    BY <1>1, <1>5, <2>3, <2>4, Zenon DEF Passed, Outcome
  <2>6. Parsing(ls, m, c0, c, q)
    BY <1>1, <2>3, <2>4, <2>5, Zenon DEF Parsing
  <2>7. Unspoilt(p) => Unspoilt(q)
    BY <2>3, <2>4, Zenon DEF Unspoilt
  <2> QED
    BY <1>3, <1>4, <2>3, <2>6, <2>7, Zenon
<1>6. CASE p.more /\ ~NoneLeft(ls, m, c)
  <2>1. c < n /\ Ends(ls, c + 1) <= m /\ c + 1 \in 0..n
    <3>1. c < n /\ c + 1 \in 0..n /\ ~(m < Ends(ls, c + 1))
      BY <1>6 DEF NoneLeft
    <3>2. Ends(ls, c + 1) \in Nat
      BY <3>1, BytesTyped
    <3> QED
      BY <3>1, <3>2
  <2> DEFINE t == ls[c + 1]
             len == Len(TextOf(t)) + 2
             rest == retrieve(p.buf, len)
  <2>2. /\ t \in Texts /\ CRLFs(d) # {} /\ BeforeCRLF(d) = TextOf(t)
        /\ Ends(ls, c + 1) = Ends(ls, c) + len /\ Len(TextOf(t)) \in Nat
    BY <2>1, <1>2, LineAhead, ZenonT(30)
  <2>3. len \in Nat /\ 2 <= len
    BY <2>2
  <2>4. q = IF p.state = "kExpectRequestLine" THEN RequestLine(p, TextOf(t), rest)
            ELSE HeaderLine(p, TextOf(t), rest)
    BY <2>2, <1>6, Zenon DEF ParseLine, d
  <2> HIDE DEF len
  <2>5. /\ At(ls, m, c + 1, rest)
        /\ readableBytes(rest) + len = readableBytes(p.buf)
    BY <2>1, <2>2, <2>3, <1>1, LineTaken
  <2> HIDE DEF rest
  <2>6. readableBytes(rest) + 2 <= readableBytes(p.buf)
    <3>1. readableBytes(rest) \in Nat
      BY <2>5 DEF At, BufferOK, readableBytes
    <3> QED
      BY <3>1, <2>3, <2>5, <1>4
  <2>7. /\ \/ Parsing(ls, m, c0, c, q) /\ ~q.more
           \/ Parsing(ls, m, c0, c + 1, q) /\ q.buf = rest
        /\ Unspoilt(p) => Unspoilt(q)
    <3>1. CASE p.state = "kExpectRequestLine"
      <4>1. q = RequestLine(p, TextOf(ls[c + 1]), rest)
        BY <3>1, <2>4, Zenon
      <4> QED
        BY <4>1, <3>1, <2>1, <2>2, <2>5, <1>6, ParsesRequestLine, SMTT(60)
    <3>2. CASE p.state # "kExpectRequestLine"
      <4>1. q = HeaderLine(p, TextOf(ls[c + 1]), rest)
        BY <3>2, <2>4, Zenon
      <4> QED
        BY <4>1, <3>2, <2>1, <2>2, <2>5, <1>6, ParsesHeaderLine
    <3> QED
      BY <3>1, <3>2
  <2>8. c \in 0..n
    OBVIOUS
  <2> QED
    BY <1>3, <1>4, <1>6, <2>1, <2>6, <2>7, <2>8, Zenon
<1> QED
  BY <1>5, <1>6

(* The turns of parseRequest() on the buffer b.                              *)
Turns(b, n, f) == f = [i \in 0..n |-> IF i = 0 THEN Unparsed(b) ELSE ParseLine(f[i - 1])]

LEMMA TurnValues ==
  ASSUME NEW b, NEW n \in Nat, NEW f, Turns(b, n, f)
  PROVE  f[0] = Unparsed(b) /\ \A k \in 1..n : f[k] = ParseLine(f[k - 1])
<1>1. \A k \in 0..n : f[k] = IF k = 0 THEN Unparsed(b) ELSE ParseLine(f[k - 1])
  BY Zenon DEF Turns
<1>2. 0 \in 0..n
  OBVIOUS
<1>3. f[0] = Unparsed(b)
  BY <1>1, <1>2, Zenon
<1>4. ASSUME NEW k \in 1..n PROVE f[k] = ParseLine(f[k - 1])
  <2>1. k \in 0..n /\ k # 0
    OBVIOUS
  <2> QED
    BY <1>1, <2>1, Zenon
<1> QED
  BY <1>3, <1>4

LEMMA TurnsExist ==
  ASSUME NEW b, NEW n \in Nat
  PROVE  \E f : Turns(b, n, f)
<1> DEFINE S == {m \in Nat : ~ \E f : Turns(b, m, f)}
<1>1. SUFFICES ASSUME S # {} PROVE FALSE
  OBVIOUS
<1>2. PICK m \in S : \A i \in S : m <= i
  <2> HIDE DEF S
  <2>1. S \in SUBSET Nat
    BY DEF S
  <2> QED
    BY <1>1, <2>1, LeastOf
<1>3. CASE m = 0
  <2> DEFINE f == [k \in 0..0 |-> Unparsed(b)]
  <2>1. \A k \in 0..0 : k = 0
    OBVIOUS
  <2>2. Turns(b, 0, f)
    BY <2>1 DEF Turns
  <2> QED
    BY <1>2, <1>3, <2>2
<1>4. CASE m # 0
  <2>1. m - 1 \in Nat /\ ~(m <= m - 1) /\ m \in Nat
    BY <1>2, <1>4
  <2>2. PICK g : Turns(b, m - 1, g)
    BY <1>2, <2>1
  <2>3. g[0] = Unparsed(b) /\ \A k \in 1..m - 1 : g[k] = ParseLine(g[k - 1])
    BY <2>1, <2>2, TurnValues
  <2> DEFINE f == [k \in 0..m |-> IF k = m THEN ParseLine(g[m - 1]) ELSE g[k]]
  <2>4. \A k \in 0..m : f[k] = IF k = 0 THEN Unparsed(b) ELSE ParseLine(f[k - 1])
    <3> TAKE k \in 0..m
    <3>1. CASE k = 0
      BY <3>1, <2>3, <1>4, Zenon
    <3>2. CASE k = m
      <4>1. m - 1 \in 0..m /\ m - 1 # m
        BY <2>1, <1>4
      <4>2. f[m - 1] = g[m - 1]
        BY <4>1, Zenon
      <4> QED
        BY <3>2, <4>2, <1>4, Zenon
    <3>3. CASE k # 0 /\ k # m
      <4>1. k - 1 \in 0..m /\ k - 1 # m /\ k \in 1..m - 1
        BY <3>3, <2>1
      <4>2. f[k - 1] = g[k - 1] /\ f[k] = g[k]
        BY <4>1, <3>3, Zenon
      <4> QED
        BY <3>3, <4>1, <4>2, <2>3, Zenon
    <3> QED
      BY <3>1, <3>2, <3>3
  <2>5. f = [k \in 0..m |-> f[k]]
    BY Zenon
  <2> HIDE DEF f
  <2>6. Turns(b, m, f)
    BY <2>4, <2>5 DEF Turns
  <2> QED
    BY <1>2, <2>6
<1> QED
  BY <1>3, <1>4

LEMMA ParsedFrom ==
  ASSUME NEW b, NEW n \in Nat, readableBytes(b) = n
  PROVE  \E f : Turns(b, n, f) /\ parseRequest(b) = f[n]
<1> DEFINE f == CHOOSE g : Turns(b, n, g)
<1>1. Turns(b, n, f)
  BY TurnsExist, Zenon
<1>2. parseRequest(b) = f[n]
  BY DEF parseRequest, Turns
<1> QED
  BY <1>1, <1>2

(* The loop in parseRequest() stops for one of its reasons, since each turn  *)
(* that goes on takes at least two bytes from the buffer.                    *)
LEMMA ParsesRequest ==
  ASSUME NEW ls \in Seq(Texts), NEW n \in Nat, Len(ls) = n, NEW m \in Nat, m <= Ends(ls, n),
         NEW c0 \in 0..n, NEW b, Parsing(ls, m, c0, c0, Unparsed(b)), readableBytes(b) \in Nat \ {0},
         NEW p, p = parseRequest(b)
  PROVE  /\ \E c \in 0..n : Parsing(ls, m, c0, c, p)
         /\ ~p.more
         /\ Unspoilt(Unparsed(b)) => Unspoilt(p)
<1>1. PICK z \in Nat : z = readableBytes(b) /\ z # 0
  OBVIOUS
<1>2. PICK f : Turns(b, z, f) /\ p = f[z]
  BY <1>1, ParsedFrom
<1>3. f[0] = Unparsed(b) /\ \A k \in 1..z : f[k] = ParseLine(f[k - 1])
  BY <1>2, TurnValues
<1> DEFINE Good(k) == /\ \E c \in 0..n : Parsing(ls, m, c0, c, f[k])
                      /\ Unspoilt(f[0]) => Unspoilt(f[k])
                      /\ readableBytes(f[k].buf) \in Nat
                      /\ f[k].more => readableBytes(f[k].buf) + 2 * k <= z
           S == {k \in 0..z : ~Good(k)}
<1>4. Good(0)
  <2>1. f[0].buf = b
    BY <1>3 DEF Unparsed
  <2>2. readableBytes(f[0].buf) + 2 * 0 <= z
    BY <2>1, <1>1
  <2> QED
    BY <1>1, <1>3, <2>1, <2>2, Zenon
<1>5. ASSUME NEW k \in 1..z, Good(k - 1) PROVE Good(k)
  <2>1. PICK c \in 0..n : Parsing(ls, m, c0, c, f[k - 1])
    BY <1>5
  <2>2. /\ \E e \in 0..n : Parsing(ls, m, c0, e, f[k])
        /\ Unspoilt(f[k - 1]) => Unspoilt(f[k])
        /\ readableBytes(f[k].buf) \in Nat
        /\ f[k].more => f[k - 1].more /\ readableBytes(f[k].buf) + 2 <= readableBytes(f[k - 1].buf)
    <3>1. PICK q, r : q = f[k] /\ r = f[k - 1] /\ q = ParseLine(r) /\ Parsing(ls, m, c0, c, r)
      BY <1>3, <2>1, Zenon
    <3>2. /\ \E e \in 0..n : Parsing(ls, m, c0, e, q)
          /\ Unspoilt(r) => Unspoilt(q)
          /\ readableBytes(q.buf) \in Nat
          /\ q.more => r.more /\ readableBytes(q.buf) + 2 <= readableBytes(r.buf)
      BY <3>1, ParsesLine, SMTT(30)
    <3> QED
      BY <3>1, <3>2, Zenon
  <2>3. ASSUME f[k].more PROVE readableBytes(f[k].buf) + 2 * k <= z
    <3>1. /\ readableBytes(f[k].buf) + 2 <= readableBytes(f[k - 1].buf)
          /\ readableBytes(f[k - 1].buf) + 2 * (k - 1) <= z
          /\ readableBytes(f[k - 1].buf) \in Nat
      BY <2>2, <2>3, <1>5, Zenon
    <3> QED
      BY <3>1, <2>2
  <2> QED
    BY <2>2, <2>3, <1>5, Zenon
<1> HIDE DEF Good
<1>6. Good(z)
  <2>1. SUFFICES ASSUME S # {} PROVE FALSE
    <3>1. z \in 0..z
      OBVIOUS
    <3> QED
      BY <3>1
  <2>2. PICK k \in S : \A i \in S : k <= i
    <3> HIDE DEF S
    <3>1. S \in SUBSET Nat
      BY DEF S
    <3> QED
      BY <2>1, <3>1, LeastOf
  <2>3. k # 0
    BY <2>2, <1>4
  <2>4. k \in 1..z /\ k - 1 \in 0..z /\ ~(k <= k - 1)
    BY <2>2, <2>3
  <2>5. Good(k - 1)
    BY <2>2, <2>4
  <2> QED
    BY <1>5, <2>2, <2>4, <2>5
<1>7. ~f[z].more
  <2> SUFFICES ASSUME f[z].more PROVE FALSE
    OBVIOUS
  <2>1. readableBytes(f[z].buf) + 2 * z <= z /\ readableBytes(f[z].buf) \in Nat
    BY <1>6, Zenon DEF Good
  <2> QED
    BY <2>1, <1>1
<1> QED
  BY <1>2, <1>3, <1>6, <1>7, Zenon DEF Good

-----------------------------------------------------------------------------
(* Further lines and pieces leave what was parsed alone.                     *)

LEMMA JoinBegins ==
  ASSUME NEW ls \in Seq(Texts), NEW more \in Seq(Texts), NEW js, js = ls \o more
  PROVE  Begins(ls, js) /\ Len(js) = Len(ls) + Len(more)
<1>1. PICK n \in Nat, m \in Nat : n = Len(ls) /\ m = Len(more)
  BY LenProperties, Zenon
<1>2. js \in Seq(Texts) /\ Len(js) = n + m /\ \A i \in 1..n : js[i] = ls[i]
  BY <1>1
<1> QED
  BY <1>1, <1>2 DEF Begins

(* Further lines leave the bytes of the first ones alone.                    *)
LEMMA SameBytes ==
  ASSUME NEW ls, NEW js, Begins(ls, js), NEW k \in 0..Len(ls)
  PROVE  Part(js, k) = Part(ls, k) /\ Ends(js, k) = Ends(ls, k)
<1>1. PICK n \in Nat, m \in Nat : Len(ls) = n /\ Len(js) = m /\ n <= m
  BY BeginsTyped
<1>2. ls \in Seq(Texts) /\ js \in Seq(Texts) /\ \A i \in 1..n : js[i] = ls[i]
  BY <1>1 DEF Begins
<1>3. k \in 0..Len(js) /\ k \in Nat /\ k <= n
  BY <1>1
<1>4. /\ SubSeq(js, 1, k) \in Seq(Texts) /\ Len(SubSeq(js, 1, k)) = k
      /\ \A i \in 1..k : SubSeq(js, 1, k)[i] = js[i]
  BY <1>2, <1>3, FirstLinesOf
<1>5. /\ SubSeq(ls, 1, k) \in Seq(Texts) /\ Len(SubSeq(ls, 1, k)) = k
      /\ \A i \in 1..k : SubSeq(ls, 1, k)[i] = ls[i]
  BY <1>2, FirstLinesOf
<1>6. \A i \in 1..k : SubSeq(js, 1, k)[i] = SubSeq(ls, 1, k)[i]
  <2> TAKE i \in 1..k
  <2>1. i \in 1..n
    BY <1>3
  <2> QED
    BY <2>1, <1>2, <1>4, <1>5, Zenon
<1>7. PICK s \in Seq(Texts), t \in Seq(Texts) : s = SubSeq(js, 1, k) /\ t = SubSeq(ls, 1, k)
  BY <1>4, <1>5
<1>8. s = t
  <2>1. Len(s) = k /\ Len(t) = k /\ \A i \in 1..k : s[i] = t[i]
    BY <1>4, <1>5, <1>6, <1>7, Zenon
  <2> QED
    BY <2>1, <1>3, SameSeq
<1> QED
  BY <1>7, <1>8, Zenon DEF Part, Ends

(* Further lines and bytes change nothing about the lines parsed so far.     *)
LEMMA ProgressStays ==
  ASSUME NEW ls, NEW js, Begins(ls, js), NEW c \in 0..Len(ls), NEW m \in Nat, NEW n \in Nat, m <= n,
         NEW state, NEW req, Progress(ls, m, c, state, req)
  PROVE  Progress(js, n, c, state, req)
<1>1. PICK z \in Nat : z = Len(ls)
  BY BeginsTyped
<1>2. ls \in Seq(Texts) /\ Begins(ls, js)
  BY DEF Begins
<1>3. FirstLines(ls) \subseteq 1..z /\ BadLines(ls) \subseteq 1..z /\ EndLines(ls) \subseteq 1..z
  BY <1>1, <1>2, FirstLinesRange
<1>4. /\ Clean(ls, c) /\ Clean(js, c)
      /\ Plains(js, c) = Plains(ls, c) /\ (c \in EndLines(js) <=> c \in EndLines(ls))
  <2>1. Clean(ls, c)
    BY DEF Progress
  <2> QED
    BY <2>1, <1>2, SameClean, SameLines
<1>5. ASSUME Rejected(ls, m, c) PROVE Rejected(js, n, c)
  <2>1. c + 1 \in BadLines(ls) /\ Ends(ls, c + 1) <= m
    BY <1>5 DEF Rejected
  <2>2. c + 1 \in 1..Len(ls) /\ c + 1 \in 0..Len(ls)
    BY <2>1, <1>1, <1>3
  <2>3. c + 1 \in BadLines(js)
    BY <2>1, <2>2, <1>2, SameFirstLines
  <2>4. Ends(js, c + 1) = Ends(ls, c + 1) /\ Ends(ls, c + 1) \in Nat
    <3>1. Ends(js, c + 1) = Ends(ls, c + 1)
      BY <2>2, SameBytes
    <3>2. Len(ls) = z /\ c + 1 \in 0..z
      BY <2>2, <1>1
    <3>3. Ends(ls, c + 1) \in Nat
      BY <1>2, <3>2, BytesTyped
    <3> QED
      BY <3>1, <3>3
  <2> QED
    BY <2>1, <2>3, <2>4 DEF Rejected
<1>6. ASSUME Inside(ls, c, req) PROVE Inside(js, c, req)
  <2>1. PICK s \in FirstLines(ls) :
          /\ s <= c /\ s \notin EndLines(ls) /\ ls[s] \in Versions /\ \A j \in s + 1..c : ls[j] \in Headers
          /\ req = [method |-> "kGet", version |-> ls[s], connection |-> IF c = s THEN "none" ELSE ls[c]]
    BY <1>6, Zenon DEF Inside
  <2>2. s \in 1..z /\ s \in 1..Len(ls) /\ s \in 0..Len(ls) /\ c \in 1..Len(ls)
    BY <2>1, <1>1, <1>3
  <2>3. s \in FirstLines(js) /\ s \notin EndLines(js) /\ js[s] = ls[s] /\ js[c] = ls[c]
    BY <2>1, <2>2, <1>2, SameFirstLines, SameLines
  <2>4. \A j \in s + 1..c : js[j] \in Headers
    <3> TAKE j \in s + 1..c
    <3>1. j \in 1..Len(ls)
      BY <2>2, <1>1
    <3>2. js[j] = ls[j]
      BY <3>1, <1>2, SameFirstLines
    <3> QED
      BY <3>2, <2>1
  <2> QED
    BY <2>1, <2>3, <2>4, Zenon DEF Inside
<1>7. ASSUME c \in EndLines(ls) PROVE RequestEndingAt(js, c) = RequestEndingAt(ls, c)
  <2>1. c \in 2..Len(ls)
    BY <1>1, <1>2, <1>7, EndsLater
  <2> QED
    BY <2>1, <1>2, SameRequest
<1>8. Between(ls, c) => Between(js, c)
  BY <1>4, Zenon DEF Between
<1> QED
  BY <1>4, <1>5, <1>6, <1>7, <1>8, Zenon DEF Progress

LEMMA AllBytesStay ==
  ASSUME NEW ls, NEW js, Begins(ls, js)
  PROVE  /\ BytesOf(ls) \in Seq(Octets) /\ BytesOf(js) \in Seq(Octets)
         /\ \A i \in 1..Len(BytesOf(ls)) : BytesOf(js)[i] = BytesOf(ls)[i]
<1>1. PICK n \in Nat, m \in Nat : Len(ls) = n /\ Len(js) = m /\ n <= m
  BY BeginsTyped
<1>2. ls \in Seq(Texts) /\ js \in Seq(Texts)
  BY DEF Begins
<1>3. n \in 0..m /\ m \in 0..m /\ n \in 0..n /\ n \in 0..Len(ls)
  BY <1>1
<1>4. \A i \in 1..Ends(js, n) : Part(js, m)[i] = Part(js, n)[i]
  BY <1>1, <1>2, <1>3, PartGrows
<1>5. Part(js, n) = Part(ls, n)
  BY <1>3, SameBytes
<1>6. Part(ls, n) = BytesOf(ls) /\ Part(js, m) = BytesOf(js)
  BY <1>1, <1>2, PartIs
<1>7. BytesOf(ls) \in Seq(Octets) /\ BytesOf(js) \in Seq(Octets)
  BY <1>1, <1>2, <1>3, BytesTyped
<1> QED
  BY <1>4, <1>5, <1>6, <1>7, Zenon DEF Ends

LEMMA CutsJoin ==
  ASSUME NEW s \in Seq(Octets), NEW t \in Seq(Octets), NEW a \in Nat, NEW m \in Nat, NEW n \in Nat,
         a <= m, m <= n, m <= Len(s), n <= Len(t), \A i \in 1..Len(s) : t[i] = s[i]
  PROVE  /\ SubSeq(t, m + 1, n) \in Seq(Octets)
         /\ SubSeq(s, a + 1, m) \o SubSeq(t, m + 1, n) = SubSeq(t, a + 1, n)
         /\ Len(SubSeq(t, a + 1, n)) = n - a
<1>1. /\ SubSeq(s, a + 1, m) \in Seq(Octets) /\ Len(SubSeq(s, a + 1, m)) = m - a
      /\ \A k \in 1..m - a : SubSeq(s, a + 1, m)[k] = s[a + k]
  BY CutSeq
<1>2. /\ SubSeq(t, m + 1, n) \in Seq(Octets) /\ Len(SubSeq(t, m + 1, n)) = n - m
      /\ \A k \in 1..n - m : SubSeq(t, m + 1, n)[k] = t[m + k]
  BY CutSeq
<1>3. a <= n
  OBVIOUS
<1>4. /\ SubSeq(t, a + 1, n) \in Seq(Octets) /\ Len(SubSeq(t, a + 1, n)) = n - a
      /\ \A k \in 1..n - a : SubSeq(t, a + 1, n)[k] = t[a + k]
  BY <1>3, CutSeq
<1>5. PICK l \in Nat, q \in Nat, r \in Nat : l = n - a /\ q = m - a /\ r = n - m /\ l = q + r
  BY <1>3
<1>6. PICK d \in Seq(Octets), e \in Seq(Octets), h \in Seq(Octets) :
         d = SubSeq(s, a + 1, m) /\ e = SubSeq(t, m + 1, n) /\ h = SubSeq(t, a + 1, n)
  BY <1>1, <1>2, <1>4, Zenon
<1>7. /\ Len(d) = q /\ Len(e) = r /\ Len(h) = l
      /\ \A k \in 1..q : d[k] = s[a + k]
      /\ \A k \in 1..r : e[k] = t[m + k]
      /\ \A k \in 1..l : h[k] = t[a + k]
  BY <1>1, <1>2, <1>4, <1>5, <1>6, Zenon
<1>8. d \o e \in Seq(Octets) /\ Len(d \o e) = l
  <2>1. d \o e \in Seq(Octets)
    OBVIOUS
  <2>2. Len(d \o e) = Len(d) + Len(e)
    BY Z3
  <2> QED
    BY <2>1, <2>2, <1>5, <1>7
<1>9. \A k \in 1..l : (d \o e)[k] = h[k]
  <2> TAKE k \in 1..l
  <2>1. h[k] = t[a + k]
    BY <1>7, Zenon
  <2>2. CASE k <= q
    <3>1. k \in 1..q /\ a + k \in 1..Len(s)
      <4>1. PICK u \in Nat : u = Len(s) /\ m <= u
        BY LenProperties, Zenon
      <4> QED
        BY <2>2, <4>1, <1>5
    <3>2. (d \o e)[k] = d[k]
      BY <3>1, <1>7
    <3> QED
      BY <3>1, <3>2, <2>1, <1>7, Zenon
  <2>3. CASE k > q
    <3>1. k - q \in 1..r /\ m + (k - q) = a + k
      <4>1. k \in Int /\ q < k /\ k <= q + r
        BY <2>3, <1>5
      <4>2. m + (k - q) = a + k
        BY <4>1, <1>5
      <4> QED
        BY <4>1, <4>2
    <3>2. (d \o e)[k] = e[k - q]
      <4>1. PICK i \in 1..r : i = k - q /\ q + i = k
        BY <3>1
      <4>2. Len(d) = q /\ Len(e) = r
        BY <1>7
      <4>3. \A j \in 1..r : (d \o e)[q + j] = e[j]
        BY <4>2
      <4> QED
        BY <4>1, <4>3, Zenon
    <3> QED
      BY <3>1, <3>2, <2>1, <1>7, Zenon
  <2>4. k <= q \/ k > q
    BY <1>5
  <2> QED
    BY <2>2, <2>3, <2>4, Zenon
<1>10. d \o e = h
  <2>1. PICK g \in Seq(Octets) : g = d \o e
    BY <1>8
  <2>2. Len(g) = l /\ Len(h) = l /\ \A k \in 1..l : g[k] = h[k]
    BY <2>1, <1>7, <1>8, <1>9, Zenon
  <2>3. g = h
    BY <2>2, SameSeq
  <2> QED
    BY <2>1, <2>3
<1> QED
  BY <1>2, <1>4, <1>6, <1>10, Zenon

(* readFd() of the next piece.                                               *)
LEMMA PieceRead ==
  ASSUME NEW ls, NEW js, Begins(ls, js), NEW c \in 0..Len(ls), NEW m \in Nat, m <= TotalBytes(ls),
         NEW n \in Nat, m < n, n <= TotalBytes(js), NEW b, At(ls, m, c, b)
  PROVE  LET e == readFd(b, SubSeq(BytesOf(js), m + 1, n))
         IN  At(js, n, c, e) /\ readableBytes(e) \in Nat \ {0}
<1>1. PICK z \in Nat, x \in Nat : Len(ls) = z /\ Len(js) = x /\ z <= x
  BY BeginsTyped
<1>2. PICK s \in Seq(Octets), t \in Seq(Octets) :
         s = BytesOf(ls) /\ t = BytesOf(js) /\ \A i \in 1..Len(s) : t[i] = s[i]
  BY AllBytesStay
<1>3. PICK a \in Nat : a = Ends(ls, c)
  <2>1. ls \in Seq(Texts) /\ c \in 0..z
    BY <1>1 DEF Begins
  <2> QED
    BY <2>1, <1>1, BytesTyped
<1>4. a <= m /\ m <= n /\ m <= Len(s) /\ n <= Len(t)
  BY <1>2, <1>3 DEF At, TotalBytes
<1> DEFINE data == SubSeq(t, m + 1, n)
           e == readFd(b, data)
<1>5. /\ data \in Seq(Octets) /\ SubSeq(s, a + 1, m) \o data = SubSeq(t, a + 1, n)
      /\ Len(SubSeq(t, a + 1, n)) = n - a
  <2> HIDE DEF e
  <2>1. \A i \in 1..Len(s) : t[i] = s[i]
    BY <1>2, Zenon
  <2>2. /\ a <= m /\ m <= n /\ m <= Len(s) /\ n <= Len(t) /\ \A i \in 1..Len(s) : t[i] = s[i]
        => /\ SubSeq(t, m + 1, n) \in Seq(Octets)
           /\ SubSeq(s, a + 1, m) \o SubSeq(t, m + 1, n) = SubSeq(t, a + 1, n)
           /\ Len(SubSeq(t, a + 1, n)) = n - a
    BY CutsJoin
  <2> QED
    BY <2>1, <2>2, <1>4, Zenon
<1> HIDE DEF data
<1>6. BufferOK(b) /\ Contents(b) = SubSeq(s, a + 1, m)
  BY <1>2, <1>3 DEF At
<1>7. BufferOK(e) /\ Contents(e) = Contents(b) \o data
  BY <1>5, <1>6, ReadFd
<1> HIDE DEF e
<1>8. Contents(e) = SubSeq(t, a + 1, n)
  BY <1>5, <1>6, <1>7, Zenon
<1>9. Ends(js, c) = a /\ c \in 0..Len(js) /\ a <= n
  <2>1. Ends(js, c) = Ends(ls, c)
    BY SameBytes
  <2>2. c \in 0..Len(js) /\ a <= n
    BY <1>1, <1>4
  <2> QED
    BY <2>1, <2>2, <1>3, Zenon
<1>10. At(js, n, c, e)
  BY <1>2, <1>7, <1>8, <1>9, Zenon DEF At
<1>11. readableBytes(e) \in Nat \ {0}
  <2>1. Len(Contents(e)) = e.w - e.r
    BY <1>7, ContentsType
  <2>2. e.w - e.r = n - a
    BY <2>1, <1>5, <1>8, Zenon
  <2> QED
    BY <2>2, <1>4 DEF readableBytes
<1> QED
  BY <1>2, <1>10, <1>11, Zenon DEF e, data

(* How many requests end by line k, and the requests hs that do.             *)
GoodUpTo(ls, k) == {j \in GoodEnds(ls) : j <= k}
Rank(ls, k) == Cardinality(GoodUpTo(ls, k))
Answered(ls, c, hs) ==
    /\ Len(hs) = Rank(ls, c)
    /\ \A i \in 1..Len(hs) : \E k \in GoodEnds(ls) :
          k <= c /\ Rank(ls, k) = i /\ hs[i] = RequestEndingAt(ls, k)

LEMMA GoodEndsTyped ==
  ASSUME NEW ls \in Seq(Texts), NEW n \in Nat, Len(ls) = n
  PROVE  /\ \A k \in GoodEnds(ls) : k \in 2..n /\ k \in EndLines(ls) /\ Clean(ls, k)
         /\ \A k \in EndLines(ls) : Clean(ls, k) => k \in GoodEnds(ls)
         /\ IsFiniteSet(GoodEnds(ls)) /\ \A k \in Nat : IsFiniteSet(GoodUpTo(ls, k)) /\ Rank(ls, k) \in Nat
<1>1. GoodEnds(ls) = {k \in EndLines(ls) : Clean(ls, k)}
  BY LinesTyped
<1>2. \A k \in GoodEnds(ls) : k \in 2..n /\ k \in EndLines(ls) /\ Clean(ls, k)
  BY <1>1, EndsLater
<1>3. GoodEnds(ls) \in SUBSET (2..n)
  BY <1>2
<1>4. IsFiniteSet(2..n)
  BY FS_Interval
<1>5. IsFiniteSet(GoodEnds(ls))
  BY <1>3, <1>4, FS_Subset, Zenon
<1>6. \A k \in Nat : GoodUpTo(ls, k) \in SUBSET GoodEnds(ls)
  BY DEF GoodUpTo
<1>7. \A k \in Nat : IsFiniteSet(GoodUpTo(ls, k))
  BY <1>5, <1>6, FS_Subset, Zenon
<1>8. \A k \in Nat : Rank(ls, k) \in Nat
  BY <1>7, FS_CardinalityType, Zenon DEF Rank
<1> QED
  BY <1>1, <1>2, <1>5, <1>7, <1>8, Zenon

LEMMA SameRank ==
  ASSUME NEW ls, NEW js, Begins(ls, js), NEW k \in 0..Len(ls)
  PROVE  GoodUpTo(js, k) = GoodUpTo(ls, k) /\ Rank(js, k) = Rank(ls, k)
<1>1. PICK n \in Nat, m \in Nat : Len(ls) = n /\ Len(js) = m /\ n <= m
  BY BeginsTyped
<1>2. ls \in Seq(Texts) /\ js \in Seq(Texts)
  BY DEF Begins
<1>3. (\A j \in GoodEnds(ls) : j \in 2..n) /\ (\A j \in GoodEnds(js) : j \in 2..m)
  BY <1>1, <1>2, GoodEndsTyped
<1>4. \A j \in 0..n : j \in GoodEnds(js) <=> j \in GoodEnds(ls)
  BY <1>1, SameClean
<1>5. (\A j \in 2..n : j \in 0..n) /\ (\A j \in 2..m : j <= k => j \in 0..n)
  BY <1>1
<1>6. GoodUpTo(js, k) = GoodUpTo(ls, k)
  <2>1. \A j \in GoodUpTo(js, k) : j \in GoodUpTo(ls, k)
    BY <1>3, <1>4, <1>5, Zenon DEF GoodUpTo
  <2>2. \A j \in GoodUpTo(ls, k) : j \in GoodUpTo(js, k)
    BY <1>3, <1>4, <1>5, Zenon DEF GoodUpTo
  <2> QED
    BY <2>1, <2>2, Zenon
<1> QED
  BY <1>6, Zenon DEF Rank

LEMMA AnsweredStays ==
  ASSUME NEW ls, NEW js, Begins(ls, js), NEW c \in 0..Len(ls), NEW hs, Answered(ls, c, hs)
  PROVE  Answered(js, c, hs)
<1>1. PICK n \in Nat, m \in Nat : Len(ls) = n /\ Len(js) = m /\ n <= m
  BY BeginsTyped
<1>2. ls \in Seq(Texts) /\ js \in Seq(Texts)
  BY DEF Begins
<1>3. Rank(js, c) = Rank(ls, c)
  BY SameRank
<1>4. ASSUME NEW i \in 1..Len(hs)
      PROVE  \E k \in GoodEnds(js) : k <= c /\ Rank(js, k) = i /\ hs[i] = RequestEndingAt(js, k)
  <2>1. PICK k \in GoodEnds(ls) : k <= c /\ Rank(ls, k) = i /\ hs[i] = RequestEndingAt(ls, k)
    BY Zenon DEF Answered
  <2>2. k \in 2..n
    BY <1>1, <1>2, GoodEndsTyped
  <2>3. k \in 2..Len(ls) /\ k \in 0..Len(ls)
    BY <1>1, <2>2
  <2>4. k \in GoodEnds(js) /\ Rank(js, k) = Rank(ls, k) /\ RequestEndingAt(js, k) = RequestEndingAt(ls, k)
    BY <2>3, SameClean, SameRank, SameRequest
  <2> QED
    BY <2>1, <2>4, Zenon
<1> QED
  BY <1>3, <1>4, Zenon DEF Answered

LEMMA RankStays ==
  ASSUME NEW ls \in Seq(Texts), NEW n \in Nat, Len(ls) = n, NEW c0 \in 0..n, NEW c \in 0..n, c0 <= c,
         \A k \in GoodEnds(ls) : k > c0 => k > c
  PROVE  Rank(ls, c) = Rank(ls, c0)
<1>1. \A k \in GoodEnds(ls) : k \in 2..n
  BY GoodEndsTyped
<1>2. \A k \in GoodEnds(ls) : k <= c <=> k <= c0
  BY <1>1
<1>3. GoodUpTo(ls, c) = GoodUpTo(ls, c0)
  BY <1>2, Zenon DEF GoodUpTo
<1> QED
  BY <1>3, Zenon DEF Rank

LEMMA RankGrows ==
  ASSUME NEW ls \in Seq(Texts), NEW n \in Nat, Len(ls) = n, NEW c0 \in 0..n, NEW c \in 0..n, c0 < c,
         c \in GoodEnds(ls), \A k \in GoodEnds(ls) : k > c0 => k > c \/ k = c
  PROVE  Rank(ls, c) = Rank(ls, c0) + 1
<1>1. \A k \in GoodEnds(ls) : k \in 2..n
  BY GoodEndsTyped
<1>2. \A k \in GoodEnds(ls) : k <= c <=> k <= c0 \/ k = c
  BY <1>1
<1>3. GoodUpTo(ls, c) = GoodUpTo(ls, c0) \cup {c}
  BY <1>2, Zenon DEF GoodUpTo
<1>4. ~(c <= c0) /\ c0 \in Nat
  OBVIOUS
<1>5. c \notin GoodUpTo(ls, c0)
  BY <1>4, Zenon DEF GoodUpTo
<1>6. IsFiniteSet(GoodUpTo(ls, c0))
  BY <1>4, GoodEndsTyped
<1> QED
  BY <1>3, <1>5, <1>6, FS_AddElement, Zenon DEF Rank

(* onMessage() hands over the request whose end the parser has reached.      *)
LEMMA Handles ==
  ASSUME NEW ls \in Seq(Texts), NEW n \in Nat, Len(ls) = n, NEW m \in Nat,
         NEW c0 \in 0..n, NEW c \in 0..n, NEW p, Parsing(ls, m, c0, c, p),
         NEW hs \in Seq(RequestSet), Answered(ls, c0, hs)
  PROVE  /\ p.state # "kGotAll" => Answered(ls, c, hs)
         /\ p.state = "kGotAll" => c \in GoodEnds(ls) /\ c > c0 /\ Answered(ls, c, Append(hs, p.request))
<1>1. /\ p \in Parses /\ c0 <= c /\ Progress(ls, m, c, p.state, p.request)
      /\ Passed(ls, c0, c, p) /\ Outcome(ls, m, c0, c, p)
  BY Zenon DEF Parsing
<1>2. /\ \A k \in GoodEnds(ls) : k \in 2..n /\ k \in EndLines(ls) /\ Clean(ls, k)
      /\ \A k \in EndLines(ls) : Clean(ls, k) => k \in GoodEnds(ls)
      /\ \A k \in Nat : Rank(ls, k) \in Nat
  BY GoodEndsTyped
<1>3. \A k \in GoodEnds(ls) : k > c0 => k > c \/ (k = c /\ p.state = "kGotAll")
  BY <1>1, <1>2, Zenon DEF Passed
<1>4. PICK z \in Nat : z = Len(hs)
  BY LenProperties, Zenon
<1>5. /\ z = Rank(ls, c0)
      /\ \A i \in 1..z : \E k \in GoodEnds(ls) :
            k <= c0 /\ Rank(ls, k) = i /\ hs[i] = RequestEndingAt(ls, k)
  BY <1>4, Zenon DEF Answered
<1>6. \A k \in GoodEnds(ls) : k <= c0 => k <= c
  BY <1>1, <1>2
<1>7. \A i \in 1..z : \E k \in GoodEnds(ls) :
            k <= c /\ Rank(ls, k) = i /\ hs[i] = RequestEndingAt(ls, k)
  BY <1>5, <1>6, Zenon
<1>8. CASE p.state # "kGotAll"
  <2>1. \A k \in GoodEnds(ls) : k > c0 => k > c
    BY <1>3, <1>8, Zenon
  <2>2. Rank(ls, c) = Rank(ls, c0)
    BY <2>1, <1>1, RankStays
  <2> QED
    BY <2>2, <1>4, <1>5, <1>7, <1>8, Zenon DEF Answered
<1>9. CASE p.state = "kGotAll"
  <2>1. c > c0 /\ c \in EndLines(ls) /\ Clean(ls, c) /\ p.request = RequestEndingAt(ls, c)
    BY <1>1, <1>9 DEF Outcome, Progress
  <2>2. c \in GoodEnds(ls) /\ c <= c /\ c0 < c
    BY <2>1, <1>2
  <2>3. \A k \in GoodEnds(ls) : k > c0 => k > c \/ k = c
    BY <1>3, Zenon
  <2>4. Rank(ls, c) = z + 1
    BY <2>2, <2>3, <1>5, RankGrows
  <2> DEFINE r == p.request
  <2>5. r \in RequestSet
    BY <1>1 DEF Parses
  <2> HIDE DEF r
  <2>6. /\ Len(Append(hs, r)) = z + 1 /\ Append(hs, r)[z + 1] = r
        /\ \A i \in 1..z : Append(hs, r)[i] = hs[i]
    <3> HIDE DEF RequestSet
    <3> QED
      BY <2>5, <1>4
  <2>7. ASSUME NEW i \in 1..z + 1
        PROVE  \E k \in GoodEnds(ls) : k <= c /\ Rank(ls, k) = i /\ Append(hs, r)[i] = RequestEndingAt(ls, k)
    <3>1. CASE i \in 1..z
      BY <3>1, <2>6, <1>7, Zenon
    <3>2. CASE i = z + 1
      BY <3>2, <2>1, <2>2, <2>4, <2>6, Zenon DEF r
    <3>3. i \in 1..z \/ i = z + 1
      OBVIOUS
    <3> QED
      BY <3>1, <3>2, <3>3, Zenon
  <2> QED
    BY <2>1, <2>2, <2>4, <2>6, <2>7, <1>9, Zenon DEF Answered, r
<1> QED
  BY <1>8, <1>9

LEMMA Completes ==
  ASSUME NEW ls \in Seq(Texts), NEW n \in Nat, Len(ls) = n, NEW m \in Nat
  PROVE  \E z \in 0..n :
            /\ Begins(CompleteLines(ls, m), ls) /\ Len(CompleteLines(ls, m)) = z
            /\ \A k \in 0..n : k <= z <=> Ends(ls, k) <= m
<1> DEFINE S == {k \in 0..n : Ends(ls, k) <= m}
<1>1. \A j, k \in 0..n : j <= k =>
         Ends(ls, j) \in Nat /\ Ends(ls, k) \in Nat /\ Ends(ls, j) + 2 * (k - j) <= Ends(ls, k)
  BY PartGrows
<1>2. \A j, k \in 0..n : j <= k => Ends(ls, j) \in Nat /\ Ends(ls, k) \in Nat /\ Ends(ls, j) <= Ends(ls, k)
  <2> TAKE j, k \in 0..n
  <2> HAVE j <= k
  <2>1. Ends(ls, j) \in Nat /\ Ends(ls, k) \in Nat /\ Ends(ls, j) + 2 * (k - j) <= Ends(ls, k)
    BY <1>1
  <2> QED
    BY <2>1
<1>3. Ends(ls, 0) = 0
  <2>1. Part(ls, 0) = <<>>
    BY PartIs
  <2> QED
    BY <2>1 DEF Ends
<1>4. S # {} /\ S \in SUBSET (0..n)
  <2>1. 0 \in S
    BY <1>3
  <2> QED
    BY <2>1
<1> DEFINE z == Max(S)
<1>5. CompleteLines(ls, m) = SubSeq(ls, 1, z)
  BY Zenon DEF CompleteLines, TotalBytes, Ends, Part
<1> HIDE DEF S
<1>6. z \in S /\ \A i \in S : i <= z
  BY <1>4, GreatestOf
<1>7. z \in 0..n /\ Ends(ls, z) <= m
  BY <1>6 DEF S
<1> HIDE DEF z
<1>8. \A k \in 0..n : k <= z <=> Ends(ls, k) <= m
  <2> TAKE k \in 0..n
  <2>1. ASSUME Ends(ls, k) <= m PROVE k <= z
    BY <2>1, <1>6 DEF S
  <2>2. ASSUME k <= z PROVE Ends(ls, k) <= m
    <3>1. Ends(ls, k) \in Nat /\ Ends(ls, z) \in Nat /\ Ends(ls, k) <= Ends(ls, z)
      BY <2>2, <1>2, <1>7
    <3> QED
      BY <3>1, <1>7
  <2> QED
    BY <2>1, <2>2
<1>9. /\ SubSeq(ls, 1, z) \in Seq(Texts) /\ Len(SubSeq(ls, 1, z)) = z
      /\ \A i \in 1..z : SubSeq(ls, 1, z)[i] = ls[i]
  BY <1>7, FirstLinesOf
<1>10. z <= n
  BY <1>7
<1>11. Begins(CompleteLines(ls, m), ls) /\ Len(CompleteLines(ls, m)) = z
  BY <1>5, <1>9, <1>10, Zenon DEF Begins
<1> QED
  BY <1>7, <1>8, <1>11, Zenon

(* Every request that has arrived is parsed.                                 *)
NoneWaiting(ls, m, c) == \A k \in GoodEnds(ls) : Ends(ls, k) <= m => k <= c

LEMMA EarlierEnds ==
  ASSUME NEW ls, NEW js, Begins(ls, js), NEW m \in Nat, m <= TotalBytes(ls),
         NEW c0, NoneWaiting(ls, m, c0), NEW k \in GoodEnds(js), Ends(js, k) <= m
  PROVE  k <= c0
<1>1. PICK z \in Nat, x \in Nat : Len(ls) = z /\ Len(js) = x /\ z <= x
  BY BeginsTyped
<1>2. ls \in Seq(Texts) /\ js \in Seq(Texts)
  BY DEF Begins
<1>3. k \in 2..x
  BY <1>1, <1>2, GoodEndsTyped
<1>4. z \in 0..z /\ z \in 0..x /\ k \in 0..x /\ z \in 0..Len(ls)
  BY <1>1, <1>3
<1>5. TotalBytes(ls) = Ends(ls, z)
  BY <1>1, <1>2, <1>4, BytesTyped DEF TotalBytes
<1>6. Ends(js, z) = Ends(ls, z)
  BY <1>4, SameBytes
<1>7. k <= z
  <2> SUFFICES ASSUME z < k PROVE FALSE
    BY <1>3
  <2>1. z <= k
    BY <1>3
  <2>2. Ends(js, z) \in Nat /\ Ends(js, k) \in Nat /\ Ends(js, z) + 2 * (k - z) <= Ends(js, k)
    BY <2>1, <1>1, <1>2, <1>4, PartGrows
  <2> QED
    BY <2>2, <1>3, <1>5, <1>6
<1>8. k \in 0..Len(ls)
  BY <1>1, <1>3, <1>7
<1>9. k \in GoodEnds(ls) /\ Ends(js, k) = Ends(ls, k)
  BY <1>8, SameClean, SameBytes
<1> QED
  BY <1>9, Zenon DEF NoneWaiting

LEMMA StillNoneWaiting ==
  ASSUME NEW ls, NEW js, Begins(ls, js), NEW x \in Nat, Len(js) = x,
         NEW m \in Nat, m <= TotalBytes(ls), NEW n \in Nat, m < n, n <= Ends(js, x),
         NEW c0 \in 0..x, NoneWaiting(ls, m, c0),
         NEW c \in 0..x, NEW p, Parsing(js, n, c0, c, p), ~p.more,
         \A k \in GoodEnds(CompleteLines(js, n)) : Ends(js, k) \notin m + 1..n - 1
  PROVE  NoneWaiting(js, n, c)
<1> SUFFICES ASSUME NEW k \in GoodEnds(js), Ends(js, k) <= n, c < k PROVE FALSE
  <2>1. js \in Seq(Texts)
    BY DEF Begins
  <2>2. \A k \in GoodEnds(js) : k \in 2..x
    BY <2>1, GoodEndsTyped
  <2> QED
    BY <2>2 DEF NoneWaiting
<1>1. js \in Seq(Texts)
  BY DEF Begins
<1>2. /\ c0 <= c /\ Progress(js, n, c, p.state, p.request) /\ Outcome(js, n, c0, c, p)
  BY Zenon DEF Parsing
<1>3. /\ \A j \in GoodEnds(js) : j \in 2..x /\ j \in EndLines(js) /\ Clean(js, j)
      /\ \A j \in EndLines(js) : Clean(js, j) => j \in GoodEnds(js)
  BY <1>1, GoodEndsTyped
<1>4. k \in 2..x /\ k \in 0..x
  BY <1>3
<1>5. \A i, j \in 0..x : i <= j =>
         Ends(js, i) \in Nat /\ Ends(js, j) \in Nat /\ Ends(js, i) + 2 * (j - i) <= Ends(js, j)
  BY <1>1, PartGrows
<1>6. ASSUME NEW j \in GoodEnds(js), Ends(js, j) <= n PROVE Ends(js, j) \notin m + 1..n - 1
  <2>1. PICK z \in 0..x :
            /\ Begins(CompleteLines(js, n), js) /\ Len(CompleteLines(js, n)) = z
            /\ \A i \in 0..x : i <= z <=> Ends(js, i) <= n
    BY <1>1, Completes
  <2>2. j \in 2..x /\ j \in 0..x
    BY <1>3
  <2>3. j <= z
    BY <1>6, <2>1, <2>2, Zenon
  <2>4. j \in 0..Len(CompleteLines(js, n))
    BY <2>1, <2>2, <2>3
  <2>5. j \in GoodEnds(CompleteLines(js, n))
    BY <2>1, <2>4, SameClean
  <2> QED
    BY <2>5
<1>7. ~Rejected(js, n, c)
  <2> SUFFICES ASSUME Rejected(js, n, c) PROVE FALSE
    OBVIOUS
  <2>1. c + 1 \in BadLines(js)
    BY DEF Rejected
  <2>2. c + 1 > k
    BY <2>1, <1>3 DEF Clean
  <2> QED
    BY <2>2, <1>4
<1>8. ~NoneLeft(js, n, c)
  <2> SUFFICES ASSUME NoneLeft(js, n, c) PROVE FALSE
    OBVIOUS
  <2>1. n < Ends(js, c + 1)
    BY <1>4 DEF NoneLeft
  <2>2. c + 1 \in 0..x /\ c + 1 <= k
    BY <1>4
  <2>3. Ends(js, c + 1) \in Nat /\ Ends(js, k) \in Nat /\ Ends(js, c + 1) + 2 * (k - (c + 1)) <= Ends(js, k)
    BY <2>2, <1>4, <1>5
  <2> QED
    BY <2>1, <2>2, <2>3, <1>4
<1>9. p.state = "kGotAll"
  <2>1. ~p.ok \/ p.aborted \/ p.state = "kGotAll"
    BY <1>2, <1>8, Zenon DEF Outcome
  <2>2. p.ok
    BY <1>2, <1>7, Zenon DEF Outcome
  <2>3. ~p.aborted
    <3> SUFFICES ASSUME p.aborted PROVE FALSE
      OBVIOUS
    <3>1. p.state = "kExpectRequestLine" /\ p.request # NoRequest
      BY <1>2, Zenon DEF Outcome
    <3> QED
      BY <3>1, <1>2, <1>7 DEF Progress
  <2> QED
    BY <2>1, <2>2, <2>3
<1>10. c > c0 /\ c \in GoodEnds(js)
  BY <1>2, <1>3, <1>9 DEF Outcome, Progress
<1>11. Ends(js, c) \in Nat /\ Ends(js, c) < Ends(js, k) /\ Ends(js, k) \in Nat
  <2>1. c <= k
    BY <1>4
  <2>2. Ends(js, c) \in Nat /\ Ends(js, k) \in Nat /\ Ends(js, c) + 2 * (k - c) <= Ends(js, k)
    BY <2>1, <1>4, <1>5
  <2> QED
    BY <2>2, <1>4
<1>12. m < Ends(js, c)
  <2> SUFFICES ASSUME Ends(js, c) <= m PROVE FALSE
    BY <1>11
  <2>1. c <= c0
    BY <1>10, EarlierEnds
  <2> QED
    BY <2>1, <1>10
<1>13. Ends(js, c) \in m + 1..n - 1 /\ Ends(js, c) <= n
  BY <1>11, <1>12
<1> QED
  BY <1>6, <1>10, <1>13, Zenon

-----------------------------------------------------------------------------
(* The inductive invariant and what it implies.                              *)

Responses == {"keep", "close", "400"}

HttpTypes ==
    /\ lines \in Seq(Texts) /\ Len(lines) <= MaxLines
    /\ delivered \in Nat /\ delivered <= TotalBytes(lines)
    /\ parse \in {"kExpectRequestLine", "kExpectHeaders"} /\ request \in RequestSet
    /\ connected \in Flag /\ aborted \in Flag /\ pipelined \in Flag
    /\ handled \in Seq(RequestSet) /\ answers \in Seq(Responses)

(* As long as the connection is open, no line has been rejected.             *)
NothingRejected == connected => ~aborted /\ (parse = "kExpectRequestLine" => request = NoRequest)

(* The parser stands behind line c.                                          *)
Place(c) ==
    /\ At(lines, delivered, c, buf) /\ Progress(lines, delivered, c, parse, request)
    /\ Answered(lines, c, handled)
    /\ ~pipelined => NoneWaiting(lines, delivered, c)

HttpInv == HttpTypes /\ NothingRejected /\ OneAnswerEach /\ \E c \in 0..Len(lines) : Place(c)

LEMMA AnswerInit == HttpInit => OneAnswerEach
<1> SUFFICES ASSUME HttpInit PROVE OneAnswerEach
  OBVIOUS
<1>1. answers = <<>> /\ handled = <<>>
  BY DEF HttpInit
<1>2. DOMAIN <<>> = {}
  OBVIOUS
<1> QED
  BY <1>1, <1>2, Zenon DEF OneAnswerEach

LEMMA PlaceInit == HttpInit => 0 \in 0..Len(lines) /\ Place(0)
<1> SUFFICES ASSUME HttpInit PROVE 0 \in 0..Len(lines) /\ Place(0)
  OBVIOUS
<1>1. /\ lines = <<>> /\ delivered = 0 /\ buf = newBuffer /\ parse = "kExpectRequestLine"
      /\ request = NoRequest /\ handled = <<>>
  BY DEF HttpInit
<1> DEFINE e == <<>>
<1>2. e \in Seq(Texts) /\ Len(e) = 0 /\ 0 \in 0..0 /\ 0 \in Nat
  OBVIOUS
<1> HIDE DEF e
<1>3. /\ BytesOf(e) \in Seq(Octets) /\ Len(BytesOf(e)) = Ends(e, 0)
  BY <1>2, BytesTyped
<1>4. Ends(e, 0) = 0
  <2>1. Part(e, 0) = <<>>
    BY <1>2, PartIs
  <2> QED
    BY <2>1 DEF Ends
<1>5. BufferOK(newBuffer) /\ readableBytes(newBuffer) = 0
  <2>1. PICK n \in Nat : n = kCheapPrepend + kInitialSize /\ kCheapPrepend <= n /\ kCheapPrepend \in Nat
    BY BufferAssumption
  <2>2. Blanks(n) \in Seq(Octets) /\ Len(Blanks(n)) = n
    BY BlanksType
  <2>3. /\ newBuffer.mem = Blanks(n) /\ newBuffer.r = kCheapPrepend /\ newBuffer.w = kCheapPrepend
    BY <2>1 DEF newBuffer
  <2>4. /\ newBuffer.r <= newBuffer.w /\ newBuffer.w - newBuffer.r = 0 /\ kCheapPrepend <= newBuffer.r
        /\ newBuffer.w <= Len(newBuffer.mem)
    BY <2>1, <2>2, <2>3
  <2>5. newBuffer \in [mem : Seq(Octets), r : Nat, w : Nat]
    BY <2>1, <2>2 DEF newBuffer
  <2> QED
    BY <2>4, <2>5, Zenon DEF BufferOK, readableBytes
<1>6. Contents(newBuffer) = SubSeq(BytesOf(e), Ends(e, 0) + 1, 0)
  <2>1. Contents(newBuffer) \in Seq(Octets) /\ Len(Contents(newBuffer)) = 0
    BY <1>5, ContentsType DEF readableBytes
  <2>2. PICK s \in Seq(Octets) : s = BytesOf(e) /\ 0 <= Len(s)
    BY <1>3, <1>4
  <2>3. SubSeq(s, 0 + 1, 0) \in Seq(Octets) /\ Len(SubSeq(s, 0 + 1, 0)) = 0 - 0
    BY <2>2, CutSeq
  <2>4. PICK u \in Seq(Octets), v \in Seq(Octets) :
           u = Contents(newBuffer) /\ v = SubSeq(s, 0 + 1, 0) /\ Len(u) = 0 /\ Len(v) = 0
    <3>1. 0 - 0 = 0
      OBVIOUS
    <3> QED
      BY <2>1, <2>3, <3>1, Zenon
  <2>5. u = v
    BY <2>4, SameSeq
  <2> QED
    BY <2>2, <2>4, <2>5, <1>4, Zenon
<1>7. At(e, 0, 0, newBuffer)
  BY <1>2, <1>4, <1>5, <1>6 DEF At
<1>8. BadLines(e) = {} /\ EndLines(e) = {} /\ GoodEnds(e) = {}
  <2>1. BadLines(e) \subseteq 1..0 /\ EndLines(e) \subseteq 1..0 /\ GoodEnds(e) \subseteq EndLines(e)
    BY <1>2, FirstLinesRange
  <2> QED
    BY <2>1
<1>9. Progress(e, 0, 0, "kExpectRequestLine", NoRequest)
  BY <1>8, Zenon DEF Progress, Clean, Between
<1>10. Answered(e, 0, e)
  <2>1. GoodUpTo(e, 0) = {}
    BY <1>8 DEF GoodUpTo
  <2>2. Rank(e, 0) = 0
    BY <2>1, FS_EmptySet DEF Rank
  <2>3. 1..0 = {}
    OBVIOUS
  <2> QED
    BY <1>2, <2>2, <2>3, Zenon DEF Answered
<1>11. NoneWaiting(e, 0, 0)
  BY <1>8, Zenon DEF NoneWaiting
<1> QED
  BY <1>1, <1>2, <1>7, <1>9, <1>10, <1>11, Zenon DEF Place, e

LEMMA HttpInvInit == HttpInit => HttpInv
<1> SUFFICES ASSUME HttpInit PROVE HttpInv
  OBVIOUS
<1>1. HttpTypes
  <2>1. NoRequest \in RequestSet
    BY DEF NoRequest, RequestSet, Methods, VersionSet, ConnectionSet
  <2>2. lines = <<>> /\ delivered = 0 /\ 0 \in Nat /\ Len(<<>>) = 0
    BY DEF HttpInit
  <2>3. TotalBytes(<<>>) \in Nat
    <3>1. <<>> \in Seq(Texts)
      OBVIOUS
    <3> QED
      BY <2>2, <3>1, BytesTyped DEF TotalBytes
  <2>4. delivered <= TotalBytes(lines) /\ Len(lines) <= MaxLines
    BY <2>2, <2>3, HttpAssumption
  <2>5. TRUE \in Flag /\ FALSE \in Flag
    BY DEF Flag
  <2>6. <<>> \in Seq(Texts) /\ <<>> \in Seq(RequestSet) /\ <<>> \in Seq(Responses)
    OBVIOUS
  <2> QED
    BY <2>1, <2>2, <2>4, <2>5, <2>6, Zenon DEF HttpInit, HttpTypes
<1>2. NothingRejected
  BY DEF HttpInit, NothingRejected
<1> QED
  BY <1>1, <1>2, AnswerInit, PlaceInit, Zenon DEF HttpInv

(* The answer that onRequest() or a rejected line adds.                      *)
LEMMA Answers400 ==
  ASSUME handled \in Seq(RequestSet), answers \in Seq(Responses), connected \in Flag, OneAnswerEach,
         Send("400"), connected' = FALSE, UNCHANGED handled
  PROVE  answers' \in Seq(Responses) /\ OneAnswerEach'
<1>1. PICK z \in Nat : z = Len(answers) /\ DOMAIN answers = 1..z
  BY LenProperties
<1>2. CASE ~connected
  <2>1. answers' = answers
    BY <1>2 DEF Send
  <2> QED
    BY <1>2, <2>1, Zenon DEF OneAnswerEach
<1>3. CASE connected
  <2> DEFINE as == Append(answers, "400")
  <2>1. answers' = as
    BY <1>3 DEF Send
  <2>2. "400" \in Responses
    BY DEF Responses
  <2>3. /\ as \in Seq(Responses) /\ Len(as) = z + 1 /\ as[z + 1] = "400" /\ DOMAIN as = 1..z + 1
        /\ \A i \in 1..z : as[i] = answers[i]
    BY <1>1, <2>2
  <2> HIDE DEF as
  <2>4. \A i \in 1..z : /\ answers[i] = "keep" /\ i <= Len(handled)
                        /\ ~(\/ handled[i].connection = "close"
                             \/ handled[i].version = "HTTP/1.0" /\ handled[i].connection = "none")
    <3>1. "keep" # "400"
      OBVIOUS
    <3> QED
      BY <1>1, <1>3, <3>1, Zenon DEF OneAnswerEach
  <2>5. ASSUME NEW i \in 1..z + 1
        PROVE  /\ as[i] # "keep" => i = Len(as) /\ ~connected'
               /\ as[i] # "400" => i <= Len(handled)
               /\ as[i] = "keep" => ~(\/ handled[i].connection = "close"
                                      \/ handled[i].version = "HTTP/1.0" /\ handled[i].connection = "none")
    <3>1. i \in 1..z \/ i = z + 1
      OBVIOUS
    <3>2. CASE i \in 1..z
      BY <3>2, <2>3, <2>4, Zenon
    <3>3. CASE i = z + 1
      BY <3>3, <2>3
    <3> QED
      BY <3>1, <3>2, <3>3
  <2> QED
    BY <2>1, <2>3, <2>5, Zenon DEF OneAnswerEach
<1> QED
  BY <1>2, <1>3

LEMMA AnswersRequest ==
  ASSUME handled \in Seq(RequestSet), answers \in Seq(Responses), connected \in Flag, OneAnswerEach,
         NEW req \in RequestSet, NEW forced \in BOOLEAN, onRequest(req, forced)
  PROVE  /\ answers' \in Seq(Responses) /\ handled' \in Seq(RequestSet) /\ connected' \in Flag
         /\ OneAnswerEach'
<1> DEFINE close == WantsClose(req) \/ forced
           r == IF close THEN "close" ELSE "keep"
           as == Append(answers, r)
           hs == Append(handled, req)
<1>1. /\ handled' = hs /\ connected' = (connected /\ ~close)
      /\ answers' = IF connected THEN as ELSE answers
  BY Zenon DEF onRequest, Send
<1>2. PICK z \in Nat, y \in Nat :
         z = Len(answers) /\ DOMAIN answers = 1..z /\ y = Len(handled)
  BY LenProperties
<1>3. r \in Responses /\ r # "400" /\ (r = "keep" <=> ~close)
  BY DEF Responses
<1>4. ~close => ~(\/ req.connection = "close"
                  \/ req.version = "HTTP/1.0" /\ req.connection = "none")
  BY DEF WantsClose
<1>5. connected' \in Flag
  BY <1>1 DEF Flag
<1> HIDE DEF close, r
<1>6. /\ hs \in Seq(RequestSet) /\ Len(hs) = y + 1 /\ hs[y + 1] = req
      /\ \A i \in 1..y : hs[i] = handled[i]
  <2> HIDE DEF RequestSet
  <2> QED
    BY <1>2
<1>7. /\ as \in Seq(Responses) /\ Len(as) = z + 1 /\ as[z + 1] = r /\ DOMAIN as = 1..z + 1
      /\ \A i \in 1..z : as[i] = answers[i]
  <2> HIDE DEF Responses
  <2> QED
    BY <1>2, <1>3
<1> DEFINE Demands(q) == \/ q.connection = "close"
                         \/ q.version = "HTTP/1.0" /\ q.connection = "none"
<1>8. /\ \A i \in 1..z : /\ answers[i] # "keep" => i = z /\ ~connected
                         /\ answers[i] # "400" => i <= y
                         /\ answers[i] = "keep" => ~Demands(handled[i])
      /\ connected => z = y
  BY <1>2, Zenon DEF OneAnswerEach
<1> HIDE DEF Demands, as, hs
<1>9. \A i \in 1..z : i <= y => i \in 1..y /\ i <= y + 1
  BY <1>2
<1>10. "keep" # "400"
  OBVIOUS
<1>11. CASE ~connected
  <2>1. answers' = answers /\ connected' = FALSE
    BY <1>1, <1>11
  <2>2. \A i \in 1..z : /\ answers[i] # "keep" => i = z
                        /\ answers[i] # "400" => i <= y + 1
                        /\ answers[i] = "keep" => ~Demands(hs[i])
    BY <1>6, <1>8, <1>9, <1>10, Zenon
  <2> QED
    BY <1>1, <1>2, <1>5, <1>6, <2>1, <2>2, Zenon DEF OneAnswerEach, Demands
<1>12. CASE connected
  <2>1. answers' = as /\ connected' = ~close /\ z = y
    BY <1>1, <1>8, <1>12 DEF close
  <2>2. ASSUME NEW i \in 1..z + 1
        PROVE  /\ as[i] # "keep" => i = z + 1 /\ close
               /\ i <= y + 1
               /\ as[i] = "keep" => ~Demands(hs[i])
    <3>1. i \in 1..z \/ i = z + 1
      OBVIOUS
    <3>2. CASE i \in 1..z
      <4>1. answers[i] = "keep" /\ i <= y
        BY <3>2, <1>8, <1>10, <1>12, Zenon
      <4> QED
        BY <4>1, <3>2, <1>6, <1>7, <1>8, <1>9, Zenon
    <3>3. CASE i = z + 1
      <4>1. as[i] = r /\ hs[i] = req /\ i <= y + 1
        BY <3>3, <2>1, <1>6, <1>7
      <4> QED
        BY <4>1, <3>3, <1>3, <1>4, Zenon DEF Demands
    <3> QED
      BY <3>1, <3>2, <3>3, Zenon
  <2>3. OneAnswerEach'
    BY <2>1, <2>2, <1>1, <1>6, <1>7, Zenon DEF OneAnswerEach, Demands
  <2> QED
    BY <2>1, <2>3, <1>1, <1>5, <1>6, <1>7, Zenon
<1> QED
  BY <1>11, <1>12

(* What onMessage() leaves behind, once the parser has come to line c.       *)
LEMMA MessageHandled ==
  ASSUME HttpTypes, OneAnswerEach, NEW js \in Seq(Texts), NEW x \in Nat, Len(js) = x, NEW n \in Nat,
         NEW c0 \in 0..x, NEW c \in 0..x, NEW p, Parsing(js, n, c0, c, p), Answered(js, c0, handled),
         connected => Unspoilt(p), NEW forced \in BOOLEAN, onMessage(p, forced)
  PROVE  /\ parse' \in {"kExpectRequestLine", "kExpectHeaders"} /\ request' \in RequestSet
         /\ connected' \in Flag /\ aborted' \in Flag
         /\ handled' \in Seq(RequestSet) /\ answers' \in Seq(Responses)
         /\ NothingRejected' /\ OneAnswerEach'
         /\ Progress(js, n, c, parse', request') /\ Answered(js, c, handled')
<1>1. /\ p \in Parses /\ Progress(js, n, c, p.state, p.request) /\ Outcome(js, n, c0, c, p)
  BY Zenon DEF Parsing
<1>2. /\ handled \in Seq(RequestSet) /\ answers \in Seq(Responses) /\ connected \in Flag
  BY DEF HttpTypes
<1>3. /\ p.state # "kGotAll" => Answered(js, c, handled)
      /\ p.state = "kGotAll" => c \in GoodEnds(js) /\ c > c0 /\ Answered(js, c, Append(handled, p.request))
  BY <1>2, Handles
<1>4. p.state \in ParseStates /\ p.request \in RequestSet /\ p.aborted \in Flag
  BY <1>1 DEF Parses
<1>5. aborted' = p.aborted
  BY DEF onMessage
<1>6. CASE /\ ~p.ok /\ ~forced /\ Send("400") /\ connected' = FALSE
           /\ parse' = p.state /\ request' = p.request /\ UNCHANGED handled
  <2>1. p.state = "kExpectRequestLine"
    BY <1>1, <1>6, Zenon DEF Outcome
  <2>2. answers' \in Seq(Responses) /\ OneAnswerEach'
    BY <1>2, <1>6, Answers400
  <2>3. "kExpectRequestLine" # "kGotAll" /\ FALSE \in Flag
    BY DEF Flag
  <2>4. Answered(js, c, handled')
    BY <1>3, <1>6, <2>1, <2>3, Zenon
  <2>5. NothingRejected'
    BY <1>6, Zenon DEF NothingRejected
  <2> QED
    BY <1>1, <1>2, <1>4, <1>5, <1>6, <2>1, <2>2, <2>3, <2>4, <2>5, Zenon
<1>7. CASE /\ p.ok /\ p.state = "kGotAll" /\ onRequest(p.request, forced)
           /\ parse' = "kExpectRequestLine" /\ request' = resetRequest(p.request)
  <2>1. /\ answers' \in Seq(Responses) /\ handled' \in Seq(RequestSet) /\ connected' \in Flag
        /\ OneAnswerEach'
    BY <1>2, <1>4, <1>7, AnswersRequest
  <2>2. request' = NoRequest
    BY <1>7 DEF resetRequest
  <2>3. NoRequest \in RequestSet
    BY DEF NoRequest, RequestSet, Methods, VersionSet, ConnectionSet
  <2>4. handled' = Append(handled, p.request)
    BY <1>7, Zenon DEF onRequest
  <2>5. ~p.aborted
    BY <1>1, <1>7, Zenon DEF Outcome
  <2>6. NothingRejected'
    BY <1>5, <2>2, <2>5, Zenon DEF NothingRejected
  <2>7. c \in EndLines(js) /\ Clean(js, c)
    BY <1>1, <1>7 DEF Progress
  <2>8. Progress(js, n, c, parse', request')
    BY <1>7, <2>2, <2>7, Zenon DEF Progress, Between
  <2> QED
    BY <1>3, <1>4, <1>5, <1>7, <2>1, <2>2, <2>3, <2>4, <2>6, <2>8, Zenon
<1>8. CASE /\ p.ok /\ p.state # "kGotAll" /\ ~forced
           /\ parse' = p.state /\ request' = p.request /\ UNCHANGED <<answers, connected, handled>>
  <2>1. answers' = answers /\ connected' = connected /\ handled' = handled
    BY <1>8
  <2>2. OneAnswerEach'
    BY <2>1, Zenon DEF OneAnswerEach
  <2>3. NothingRejected'
    <3>1. connected => ~p.aborted /\ (p.state = "kExpectRequestLine" => p.request = NoRequest)
      BY <1>8, Zenon DEF Unspoilt
    <3> QED
      BY <3>1, <1>5, <1>8, <2>1 DEF NothingRejected
  <2>4. parse' \in {"kExpectRequestLine", "kExpectHeaders"}
    BY <1>4, <1>8 DEF ParseStates
  <2> QED
    BY <1>1, <1>2, <1>3, <1>4, <1>5, <1>8, <2>1, <2>2, <2>3, <2>4, Zenon
<1> QED
  BY <1>6, <1>7, <1>8, Zenon DEF onMessage

LEMMA BeginsParsing ==
  ASSUME NEW js \in Seq(Texts), NEW x \in Nat, Len(js) = x, NEW n \in Nat, NEW c0 \in 0..x,
         NEW b, At(js, n, c0, b), Progress(js, n, c0, parse, request),
         parse \in {"kExpectRequestLine", "kExpectHeaders"}, request \in RequestSet
  PROVE  /\ Parsing(js, n, c0, c0, Unparsed(b))
         /\ ~aborted /\ connected /\ NothingRejected => Unspoilt(Unparsed(b))
<1> DEFINE p == Unparsed(b)
<1>1. /\ p.state = parse /\ p.request = request /\ p.buf = b
      /\ p.ok /\ p.more /\ ~p.aborted
  BY DEF Unparsed
<1>2. b \in Buffers
  BY DEF At, BufferOK, Buffers
<1>3. p \in Parses
  <2>1. parse \in ParseStates
    BY DEF ParseStates
  <2> HIDE DEF RequestSet, Buffers
  <2> QED
    BY <1>2, <2>1 DEF Parses, Unparsed, Flag
<1>4. parse # "kGotAll"
  OBVIOUS
<1> HIDE DEF p
<1>5. c0 <= c0 /\ Passed(js, c0, c0, p)
  BY DEF Passed
<1>6. Outcome(js, n, c0, c0, p)
  BY <1>1, <1>4, Zenon DEF Outcome
<1>7. Parsing(js, n, c0, c0, p)
  BY <1>1, <1>3, <1>5, <1>6, Zenon DEF Parsing
<1>8. connected /\ NothingRejected => Unspoilt(p)
  BY <1>1, Zenon DEF Unspoilt, NothingRejected
<1> QED
  BY <1>7, <1>8 DEF p

LEMMA PieceKeeps ==
  ASSUME HttpInv, NEW k \in Nat, Len(lines) + k <= MaxLines, NEW more \in [1..k -> Texts],
         NEW n, NEW forced \in BOOLEAN, PieceArrives(more, n, forced)
  PROVE  HttpInv'
<1>1. HttpTypes /\ NothingRejected /\ OneAnswerEach
  BY DEF HttpInv
<1>2. PICK c0 \in 0..Len(lines) : Place(c0)
  BY DEF HttpInv
<1>3. lines \in Seq(Texts) /\ delivered \in Nat /\ delivered <= TotalBytes(lines)
  BY <1>1 DEF HttpTypes
<1>4. more \in Seq(Texts) /\ Len(more) = k
  OBVIOUS
<1>5. PICK js : js = lines \o more
  OBVIOUS
<1>6. Begins(lines, js) /\ Len(js) = Len(lines) + k
  BY <1>3, <1>4, <1>5, JoinBegins
<1>7. PICK x \in Nat, y \in Nat : Len(js) = x /\ Len(lines) = y /\ y <= x /\ x <= MaxLines /\ js \in Seq(Texts)
  BY <1>6, BeginsTyped DEF Begins
<1>8. /\ n \in delivered + 1..TotalBytes(js) /\ lines' = js /\ delivered' = n
      /\ \E p \in {parseRequest(readFd(buf, SubSeq(BytesOf(js), delivered + 1, n)))} : onMessage(p, forced)
      /\ pipelined' = (pipelined \/ \E j \in GoodEnds(CompleteLines(js, n)) :
                                       TotalBytes(SubSeq(js, 1, j)) \in delivered + 1..n - 1)
  BY <1>5, Zenon DEF PieceArrives
<1>9. TotalBytes(js) = Ends(js, x) /\ Ends(js, x) \in Nat
  <2>1. x \in 0..x
    OBVIOUS
  <2> QED
    BY <1>7, <2>1, BytesTyped DEF TotalBytes
<1>10. n \in Nat /\ delivered < n /\ n <= TotalBytes(js) /\ n <= Ends(js, x) /\ delivered <= n
  BY <1>3, <1>8, <1>9
<1>11. /\ At(lines, delivered, c0, buf) /\ Progress(lines, delivered, c0, parse, request)
       /\ Answered(lines, c0, handled) /\ (~pipelined => NoneWaiting(lines, delivered, c0))
  BY <1>2 DEF Place
<1>12. PICK b : b = readFd(buf, SubSeq(BytesOf(js), delivered + 1, n))
  OBVIOUS
<1>13. At(js, n, c0, b) /\ readableBytes(b) \in Nat \ {0}
  BY <1>3, <1>6, <1>10, <1>11, <1>12, PieceRead, Zenon
<1>14. c0 \in 0..x
  BY <1>7
<1>15. Progress(js, n, c0, parse, request) /\ Answered(js, c0, handled)
  BY <1>3, <1>6, <1>10, <1>11, ProgressStays, AnsweredStays
<1>16. /\ Parsing(js, n, c0, c0, Unparsed(b))
       /\ connected => Unspoilt(Unparsed(b))
  <2>1. parse \in {"kExpectRequestLine", "kExpectHeaders"} /\ request \in RequestSet
    BY <1>1 DEF HttpTypes
  <2>2. ~aborted
    BY DEF PieceArrives
  <2> QED
    BY <2>1, <2>2, <1>1, <1>7, <1>10, <1>13, <1>14, <1>15, BeginsParsing, Zenon
<1>17. PICK p : p = parseRequest(b) /\ onMessage(p, forced)
  BY <1>8, <1>12, Zenon
<1>18. PICK c \in 0..x : Parsing(js, n, c0, c, p)
  BY <1>7, <1>10, <1>13, <1>14, <1>16, <1>17, ParsesRequest
<1>19. ~p.more /\ (connected => Unspoilt(p))
  BY <1>7, <1>10, <1>13, <1>14, <1>16, <1>17, ParsesRequest
<1>20. /\ parse' \in {"kExpectRequestLine", "kExpectHeaders"} /\ request' \in RequestSet
       /\ connected' \in Flag /\ aborted' \in Flag
       /\ handled' \in Seq(RequestSet) /\ answers' \in Seq(Responses)
       /\ NothingRejected' /\ OneAnswerEach'
       /\ Progress(js, n, c, parse', request') /\ Answered(js, c, handled')
  BY <1>1, <1>7, <1>10, <1>14, <1>15, <1>17, <1>18, <1>19, MessageHandled, Zenon
<1>21. pipelined' \in Flag
  BY <1>8 DEF Flag
<1>22. HttpTypes'
  BY <1>7, <1>8, <1>10, <1>20, <1>21, Zenon DEF HttpTypes
<1>23. At(js, n, c, buf')
  BY <1>17, <1>18 DEF Parsing, onMessage
<1>24. ASSUME ~pipelined' PROVE NoneWaiting(js, n, c)
  <2>1. NoneWaiting(lines, delivered, c0)
    BY <1>8, <1>11, <1>24, Zenon
  <2>2. \A j \in GoodEnds(CompleteLines(js, n)) : Ends(js, j) \notin delivered + 1..n - 1
    BY <1>8, <1>24, Zenon DEF Ends, Part, TotalBytes
  <2> QED
    BY <2>1, <2>2, <1>3, <1>6, <1>7, <1>10, <1>14, <1>18, <1>19, StillNoneWaiting, Zenon
<1>25. c \in 0..Len(lines') /\ Place(c)'
  BY <1>7, <1>8, <1>18, <1>20, <1>23, <1>24, Zenon DEF Place
<1> QED
  BY <1>20, <1>22, <1>25, Zenon DEF HttpInv

LEMMA HttpInvNext == HttpInv /\ [HttpNext]_httpVars => HttpInv'
<1> SUFFICES ASSUME HttpInv, [HttpNext]_httpVars PROVE HttpInv'
  OBVIOUS
<1>1. CASE HttpNext
  <2>1. PICK k \in 0..MaxPiece, n \in delivered + 1..delivered + ReadMax(buf), forced \in BOOLEAN :
           Len(lines) + k <= MaxLines /\ \E more \in [1..k -> Texts] : PieceArrives(more, n, forced)
    BY <1>1, Zenon DEF HttpNext
  <2>2. PICK more \in [1..k -> Texts] : PieceArrives(more, n, forced)
    BY <2>1, Zenon
  <2>3. k \in Nat
    BY <2>1, HttpAssumption
  <2> QED
    BY <2>1, <2>2, <2>3, PieceKeeps, Zenon
<1>2. CASE UNCHANGED httpVars
  BY <1>2, Zenon DEF httpVars, HttpInv, HttpTypes, NothingRejected, OneAnswerEach, Place
<1> QED
  BY <1>1, <1>2

(* The inductive invariant of HttpServer: wherever the stream is cut, after  *)
(* each onMessage() the parser stands behind a line, with the buffer, the    *)
(* request and the requests handled that belong to that place.               *)
THEOREM HttpInvariant == HttpSpec => []HttpInv
  BY HttpInvInit, HttpInvNext, PTL DEF HttpSpec

LEMMA HttpInvInput == HttpInv => InputSound
<1> SUFFICES ASSUME HttpInv PROVE InputSound
  OBVIOUS
<1>1. HttpTypes
  BY DEF HttpInv
<1>2. PICK c \in 0..Len(lines) : Place(c)
  BY DEF HttpInv
<1>3. lines \in Seq(Texts) /\ Len(lines) <= MaxLines /\ delivered \in Nat /\ delivered <= TotalBytes(lines)
  BY <1>1 DEF HttpTypes
<1>4. PICK n \in Nat : Len(lines) = n
  BY <1>3, LenProperties, Zenon
<1>5. /\ BytesOf(lines) \in Seq(Octets) /\ Len(BytesOf(lines)) = Ends(lines, n) /\ Ends(lines, n) \in Nat
      /\ Ends(lines, c) \in Nat
  BY <1>3, <1>4, BytesTyped
<1>6. delivered \in 0..TotalBytes(lines)
  BY <1>3, <1>5 DEF TotalBytes
<1>7. /\ Ends(lines, c) <= delivered /\ BufferOK(buf)
      /\ Contents(buf) = SubSeq(BytesOf(lines), Ends(lines, c) + 1, delivered)
  BY <1>2 DEF Place, At
<1>8. IndicesOK(buf) /\ buf.r >= kCheapPrepend
  BY <1>7, BufferAssumption DEF BufferOK, IndicesOK
<1>9. HttpTypeOK
  <2>1. /\ request.method \in {"kInvalid", "kGet"} /\ request.version \in Versions \cup {"kUnknown"}
        /\ request.connection \in Headers \cup {"none"}
    BY <1>1 DEF HttpTypes, RequestSet, Methods, VersionSet, ConnectionSet
  <2> QED
    BY <2>1, <1>1, <1>3, <1>6, <1>8, Zenon DEF HttpTypes, HttpTypeOK, Flag
<1>10. BufferIntact
  <2>1. PICK s \in Seq(Octets), a \in Nat :
           s = BytesOf(lines) /\ a = Ends(lines, c) /\ a <= delivered /\ delivered <= Len(s)
    BY <1>3, <1>5, <1>7 DEF TotalBytes
  <2>2. Len(SubSeq(s, a + 1, delivered)) = delivered - a
    BY <2>1, <1>3, CutSeq
  <2>3. Len(Contents(buf)) = buf.w - buf.r
    BY <1>7, ContentsType
  <2>4. readableBytes(buf) = delivered - a
    BY <2>1, <2>2, <2>3, <1>7, Zenon DEF readableBytes
  <2>5. delivered - readableBytes(buf) = a
    BY <2>1, <2>4, <1>3
  <2> QED
    BY <2>1, <2>5, <1>7, Zenon DEF BufferIntact
<1> QED
  BY <1>9, <1>10 DEF InputSound

LEMMA RankLess ==
  ASSUME NEW ls \in Seq(Texts), NEW n \in Nat, Len(ls) = n, NEW j \in GoodEnds(ls), NEW k \in GoodEnds(ls), j < k
  PROVE  Rank(ls, j) < Rank(ls, k)
<1>1. \A i \in GoodEnds(ls) : i \in 2..n
  BY GoodEndsTyped
<1>2. j \in Nat /\ k \in Nat /\ ~(k <= j) /\ k <= k
  BY <1>1
<1>3. IsFiniteSet(GoodUpTo(ls, j)) /\ IsFiniteSet(GoodUpTo(ls, k)) /\ Rank(ls, j) \in Nat /\ Rank(ls, k) \in Nat
  BY <1>2, GoodEndsTyped
<1>4. \A i \in GoodEnds(ls) : i <= j => i <= k
  BY <1>1, <1>2
<1>5. GoodUpTo(ls, j) \cup {k} \in SUBSET GoodUpTo(ls, k) /\ k \notin GoodUpTo(ls, j)
  BY <1>2, <1>4, Zenon DEF GoodUpTo
<1>6. Cardinality(GoodUpTo(ls, j) \cup {k}) = Rank(ls, j) + 1
  BY <1>3, <1>5, FS_AddElement, Zenon DEF Rank
<1>7. Cardinality(GoodUpTo(ls, j) \cup {k}) <= Rank(ls, k)
  BY <1>3, <1>5, FS_Subset, Zenon DEF Rank
<1> QED
  BY <1>3, <1>6, <1>7

(* The requests in the lines that have arrived, by their last lines.         *)
LEMMA RequestsAre ==
  ASSUME NEW ls \in Seq(Texts), NEW n \in Nat, Len(ls) = n, NEW m \in Nat
  PROVE  LET rs == Requests(CompleteLines(ls, m))
             r  == Cardinality(GoodEnds(CompleteLines(ls, m)))
         IN  /\ r \in Nat /\ rs = [i \in 1..r |-> rs[i]]
             /\ \A k \in GoodEnds(ls) : Ends(ls, k) <= m =>
                   Rank(ls, k) \in 1..r /\ rs[Rank(ls, k)] = RequestEndingAt(ls, k)
<1> DEFINE js == CompleteLines(ls, m)
           E == GoodEnds(js)
           r == Cardinality(E)
<1>1. PICK z \in 0..n : /\ Begins(js, ls) /\ Len(js) = z
                        /\ \A k \in 0..n : k <= z <=> Ends(ls, k) <= m
  BY Completes
<1> HIDE DEF js
<1>2. js \in Seq(Texts) /\ z \in Nat
  BY <1>1 DEF Begins
<1>3. /\ \A k \in E : k \in 2..z
      /\ IsFiniteSet(E)
      /\ \A k \in Nat : IsFiniteSet(GoodUpTo(js, k)) /\ Rank(js, k) \in Nat
  BY <1>1, <1>2, GoodEndsTyped
<1>4. r \in Nat
  BY <1>3, FS_CardinalityType
<1>5. Requests(js) = [i \in 1..r |-> RequestEndingAt(js, Nth(E, i))]
  BY Zenon DEF Requests
<1>6. ASSUME NEW k \in GoodEnds(ls), Ends(ls, k) <= m
      PROVE  Rank(ls, k) \in 1..r /\ Requests(js)[Rank(ls, k)] = RequestEndingAt(ls, k)
  <2>1. k \in 2..n /\ k \in 0..n
    BY GoodEndsTyped
  <2>2. k <= z
    BY <1>1, <1>6, <2>1, Zenon
  <2>3. k \in 2..Len(js) /\ k \in 0..Len(js) /\ k \in Nat /\ k <= k
    BY <1>1, <2>1, <2>2
  <2>4. k \in E /\ Rank(ls, k) = Rank(js, k) /\ RequestEndingAt(ls, k) = RequestEndingAt(js, k)
    BY <1>1, <1>6, <2>3, SameClean, SameRank, SameRequest
  <2>5. Rank(js, k) \in 1..r
    <3>1. GoodUpTo(js, k) \in SUBSET E /\ k \in GoodUpTo(js, k)
      BY <2>3, <2>4, Zenon DEF GoodUpTo
    <3>2. Cardinality(GoodUpTo(js, k)) <= r
      BY <1>3, <3>1, FS_Subset, Zenon
    <3>3. Cardinality(GoodUpTo(js, k)) # 0
      BY <1>3, <2>3, <3>1, FS_EmptySet, Zenon
    <3>4. Rank(js, k) \in Nat /\ Rank(js, k) <= r /\ Rank(js, k) # 0
      BY <1>3, <2>3, <3>2, <3>3, Zenon DEF Rank
    <3> QED
      BY <3>4, <1>4
  <2>6. \A j \in E : Rank(js, j) = Rank(js, k) => j = k
    <3> TAKE j \in E
    <3>1. j \in Nat /\ k \in Nat
      <4>1. j \in 2..z
        BY <1>3, Zenon
      <4> QED
        BY <4>1, <2>3
    <3>2. Rank(js, j) \in Nat /\ Rank(js, k) \in Nat
      BY <1>3, <3>1
    <3>3. CASE j < k
      <4>1. Rank(js, j) < Rank(js, k)
        BY <3>3, <1>1, <1>2, <2>4, RankLess
      <4> QED
        BY <4>1, <3>2
    <3>4. CASE k < j
      <4>1. Rank(js, k) < Rank(js, j)
        BY <3>4, <1>1, <1>2, <2>4, RankLess
      <4> QED
        BY <4>1, <3>2
    <3> QED
      BY <3>1, <3>3, <3>4
  <2>7. Nth(E, Rank(js, k)) = k
    <3>1. Nth(E, Rank(js, k)) = CHOOSE j \in E : Rank(js, j) = Rank(js, k)
      BY Zenon DEF Nth, Rank, GoodUpTo
    <3> QED
      BY <3>1, <2>4, <2>6, Zenon
  <2> QED
    BY <1>5, <2>4, <2>5, <2>7, Zenon
<1> QED
  BY <1>4, <1>5, <1>6, Zenon DEF js

LEMMA HttpInvCuts == HttpInv => CutsDoNotMatter /\ NothingWaits
<1> SUFFICES ASSUME HttpInv PROVE CutsDoNotMatter /\ NothingWaits
  OBVIOUS
<1>1. HttpTypes
  BY DEF HttpInv
<1>2. PICK c \in 0..Len(lines) : Place(c)
  BY DEF HttpInv
<1>3. lines \in Seq(Texts) /\ delivered \in Nat /\ handled \in Seq(RequestSet)
  BY <1>1 DEF HttpTypes
<1>4. PICK n \in Nat : Len(lines) = n
  BY <1>3, LenProperties, Zenon
<1>5. /\ Answered(lines, c, handled) /\ Ends(lines, c) <= delivered
      /\ ~pipelined => NoneWaiting(lines, delivered, c)
  BY <1>2 DEF Place, At
<1> DEFINE cl == CompleteLines(lines, delivered)
           rs == Requests(cl)
           r == Cardinality(GoodEnds(cl))
<1>6. /\ r \in Nat /\ rs = [i \in 1..r |-> rs[i]]
      /\ \A k \in GoodEnds(lines) : Ends(lines, k) <= delivered =>
            Rank(lines, k) \in 1..r /\ rs[Rank(lines, k)] = RequestEndingAt(lines, k)
  BY <1>3, <1>4, RequestsAre
<1> HIDE DEF cl, rs
<1>7. PICK z \in Nat : z = Len(handled) /\ DOMAIN handled = 1..z
  BY <1>3, LenProperties
<1>8. \A k \in GoodEnds(lines) : k <= c => Ends(lines, k) <= delivered
  <2> TAKE k \in GoodEnds(lines)
  <2> HAVE k <= c
  <2>1. k \in 0..n /\ c \in 0..n
    <3>1. k \in 2..n
      BY <1>3, <1>4, GoodEndsTyped
    <3> QED
      BY <3>1, <1>4
  <2>2. Ends(lines, k) \in Nat /\ Ends(lines, c) \in Nat /\ Ends(lines, k) + 2 * (c - k) <= Ends(lines, c)
    BY <2>1, <1>3, <1>4, PartGrows
  <2> QED
    BY <2>1, <2>2, <1>3, <1>5
<1>9. \A i \in 1..z : i \in 1..r /\ handled[i] = rs[i]
  <2> TAKE i \in 1..z
  <2>1. PICK k \in GoodEnds(lines) : k <= c /\ Rank(lines, k) = i /\ handled[i] = RequestEndingAt(lines, k)
    BY <1>5, <1>7, Zenon DEF Answered
  <2> QED
    BY <2>1, <1>6, <1>8, Zenon
<1>10. z <= r
  <2>1. CASE z = 0
    BY <2>1, <1>6
  <2>2. CASE z # 0
    <3>1. z \in 1..z
      BY <2>2
    <3>2. z \in 1..r
      BY <3>1, <1>9
    <3> QED
      BY <3>2, <1>6
  <2> QED
    BY <2>1, <2>2
<1> DEFINE D == RequestSet \cup {rs[i] : i \in 1..r}
<1>11. rs \in Seq(D) /\ Len(rs) = r /\ handled \in Seq(D)
  <2>1. rs \in [1..r -> D]
    BY <1>6, Zenon
  <2>2. handled \in [1..z -> D]
    <3>1. handled \in [1..z -> RequestSet]
      BY <1>3, <1>7, LenProperties
    <3>2. RequestSet \subseteq D
      OBVIOUS
    <3> HIDE DEF D
    <3> QED
      BY <3>1, <3>2
  <2> HIDE DEF D
  <2>3. rs \in Seq(D) /\ Len(rs) = r
    BY <2>1, <1>6
  <2> QED
    BY <2>2, <2>3, <1>7
<1> HIDE DEF D, r
<1>12. CutsDoNotMatter
  <2>1. z \in 0..Len(handled) /\ z \in 0..Len(rs)
    BY <1>7, <1>10, <1>11
  <2>2. /\ SubSeq(handled, 1, z) \in Seq(D) /\ Len(SubSeq(handled, 1, z)) = z
        /\ \A i \in 1..z : SubSeq(handled, 1, z)[i] = handled[i]
    BY <2>1, <1>11, FirstLinesOf
  <2>3. /\ SubSeq(rs, 1, z) \in Seq(D) /\ Len(SubSeq(rs, 1, z)) = z
        /\ \A i \in 1..z : SubSeq(rs, 1, z)[i] = rs[i]
    BY <2>1, <1>11, FirstLinesOf
  <2>4. PICK u \in Seq(D), v \in Seq(D) : u = SubSeq(handled, 1, z) /\ v = SubSeq(rs, 1, z)
    BY <2>2, <2>3
  <2>5. Len(u) = z /\ Len(v) = z /\ \A i \in 1..z : u[i] = v[i]
    BY <2>2, <2>3, <2>4, <1>9, Zenon
  <2>6. u = v
    BY <2>5, SameSeq
  <2> QED
    BY <2>4, <2>6, <1>7, <1>10, <1>11, Zenon DEF CutsDoNotMatter, IsPrefix, rs, cl
<1>13. ASSUME ~pipelined PROVE handled = rs
  <2>1. NoneWaiting(lines, delivered, c)
    BY <1>5, <1>13
  <2>2. r = z
    <3>1. PICK x \in 0..n : /\ Begins(cl, lines) /\ Len(cl) = x
                           /\ \A k \in 0..n : k <= x <=> Ends(lines, k) <= delivered
      BY <1>3, <1>4, Completes DEF cl
    <3>2. GoodEnds(cl) = GoodUpTo(lines, c)
      <4>1. cl \in Seq(Texts)
        BY <3>1 DEF Begins
      <4>2. ASSUME NEW k \in GoodEnds(cl) PROVE k \in GoodUpTo(lines, c)
        <5>1. k \in 2..x
          BY <3>1, <4>1, <4>2, GoodEndsTyped
        <5>2. k \in 0..Len(cl) /\ k \in 0..n /\ k <= x
          BY <5>1, <3>1
        <5>3. k \in GoodEnds(lines)
          BY <5>2, <3>1, <4>2, SameClean
        <5>4. Ends(lines, k) <= delivered
          BY <5>2, <3>1
        <5> QED
          BY <5>3, <5>4, <2>1, Zenon DEF NoneWaiting, GoodUpTo
      <4>3. ASSUME NEW k \in GoodUpTo(lines, c) PROVE k \in GoodEnds(cl)
        <5>1. k \in GoodEnds(lines) /\ k <= c
          BY <4>3 DEF GoodUpTo
        <5>2. k \in 2..n /\ Ends(lines, k) <= delivered
          BY <5>1, <1>3, <1>4, <1>8, GoodEndsTyped
        <5>3. k \in 0..n
          BY <5>2
        <5>4. k \in 0..Len(cl)
          <6>1. k <= x
            BY <5>2, <5>3, <3>1
          <6> QED
            BY <6>1, <5>3, <3>1
        <5> QED
          BY <5>1, <5>4, <3>1, SameClean
      <4> QED
        BY <4>2, <4>3
    <3>3. Len(handled) = Rank(lines, c)
      BY <1>5 DEF Answered
    <3> QED
      BY <3>2, <3>3, <1>7, Zenon DEF Rank, r
  <2>3. \A i \in 1..z : handled[i] = rs[i]
    BY <1>9
  <2>4. Len(handled) = z /\ Len(rs) = z
    BY <2>2, <1>7, <1>11
  <2> QED
    BY <2>3, <2>4, <1>11, SameSeq
<1> QED
  BY <1>12, <1>13, Zenon DEF NothingWaits, rs, cl

LEMMA HttpInvAnswers == HttpInv => AnswersSound
  BY DEF HttpInv, NothingRejected, AnswersSound, AbortsOnlyWhenClosing

(* InputSound: whatever the pieces and however makeSpace() and readFd() move *)
(* the bytes, the input buffer's indices stay in order and it holds exactly  *)
(* what arrived and was not parsed.                                          *)
THEOREM InputIsSound == HttpSpec => []InputSound
  BY HttpInvariant, HttpInvInput, PTL

(* AnswersSound: one answer for each request in turn, a closing one last,    *)
(* and setMethod()'s assertion fails only on a connection being closed.      *)
THEOREM AnswersAreSound == HttpSpec => []AnswersSound
  BY HttpInvariant, HttpInvAnswers, PTL

(* CutsDoNotMatter: the callback is given the requests the lines spell out,  *)
(* in order, wherever the stream is cut.                                     *)
THEOREM CutsNeverMatter == HttpSpec => []CutsDoNotMatter
  BY HttpInvariant, HttpInvCuts, PTL

(* NothingWaits: without pipelining every request that has arrived has been  *)
(* handed over.                                                              *)
THEOREM NothingIsLeftWaiting == HttpSpec => []NothingWaits
  BY HttpInvariant, HttpInvCuts, PTL
=============================================================================
