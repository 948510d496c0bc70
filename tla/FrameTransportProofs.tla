------------------------ MODULE FrameTransportProofs ------------------------
(***************************************************************************)
(* Proofs about FrameTransport for every number of connections, ClientCtx  *)
(* objects, descriptors and frames, and all lengths of a frame.            *)
(***************************************************************************)
EXTENDS FrameTransport, SequenceTheorems, FiniteSetTheorems, WellFoundedInduction, TLAPS

(* The types of a ClientCtx, a connection and what a handler works on, with  *)
(* a name for the type of each field.                                        *)
Byte == {b \in Nat : b <= 255}
Bytes == Seq(Byte)
Frames == Seq(Bytes)
Bool == BOOLEAN
Sockets == Fds \cup {INVALID_SOCKET}
Flags == {"0", "R", "W"}
SockStates == {"RECV_FRAMING", "RECV"}
AppStates == {"INIT", "other", "READ_FRAME_SIZE", "READ_REQUEST"}
Wants == {n \in Nat : n <= 65535}
Headers == Byte \X Byte
ConnStates == {"new", "open", "closed"}
Spoils == SUBSET {"stale", "short", "overtaken", "fault"}

CtxType ==
    [m_sfd : Sockets, m_flags : Flags, rdEvent : Bool, wrEvent : Bool, wrAssigned : Bool,
     m_socket : Sockets, sockState : SockStates, appState : AppStates, m_readWant : Wants,
     reserve : Headers, in : Bytes, out : Bytes]
ConnType ==
    [fd : Sockets, state : ConnStates, sent : Bytes, read : Nat, gone : Bool, frames : Frames,
     delivered : Frames, got : Bytes, spoilt : Spoils]
HandlerType == [x : CtxType, c : ConnType, closes : Nat]

(* The values the handlers store are of these types.                         *)
LEMMA Values ==
    /\ FALSE \in Bool /\ TRUE \in Bool /\ INVALID_SOCKET \in Sockets
    /\ "0" \in Flags /\ "R" \in Flags /\ "W" \in Flags
    /\ "RECV_FRAMING" \in SockStates /\ "RECV" \in SockStates
    /\ "READ_FRAME_SIZE" \in AppStates /\ "READ_REQUEST" \in AppStates
    /\ "new" \in ConnStates /\ "open" \in ConnStates /\ "closed" \in ConnStates
    /\ 0 \in Wants /\ <<>> \in Bytes /\ <<>> \in Frames /\ {} \in Spoils /\ 0 \in Nat
  BY DEF Bool, Sockets, Flags, SockStates, AppStates, ConnStates, Wants, Bytes, Frames, Spoils

(* The length a header tells.                                                *)
LengthIn(reserve) == reserve[1] * 256 + reserve[2]

(* close_connection() has run.                                               *)
IsClosed(s, t) ==
    /\ t.closes = s.closes + 1 /\ t.x.m_sfd = INVALID_SOCKET /\ ~t.x.rdEvent /\ ~t.x.wrEvent
    /\ t.c.state = "closed" /\ t.c.fd = INVALID_SOCKET

(* It has not: the connection is still served.                               *)
IsServed(s, t) ==
    /\ t.closes = s.closes /\ t.x.m_sfd = s.x.m_sfd
    /\ s.x.rdEvent => t.x.rdEvent
    /\ t.c.fd = s.c.fd /\ t.c.state = s.c.state /\ t.c.sent = s.c.sent /\ t.c.read = s.c.read

(* Whichever: the reader's state is left alone.                              *)
SameReader(s, t) ==
    /\ t.x.sockState = s.x.sockState /\ t.x.appState = s.x.appState
    /\ t.x.m_readWant = s.x.m_readWant /\ t.x.reserve = s.x.reserve

(* Whichever: nothing is forgotten of what spoils a connection.              *)
SameFrames(s, t) ==
    t.c.frames = s.c.frames /\ t.c.delivered = s.c.delivered /\ s.c.spoilt \subseteq t.c.spoilt

(* What a handler works on, changed field by field.                          *)
Changed(s, x, c, n) == [s EXCEPT !.x = x, !.c = c, !.closes = n]

LEMMA ChangedType ==
  ASSUME NEW s \in HandlerType, NEW x \in CtxType, NEW c \in ConnType, NEW n \in Nat
  PROVE  /\ Changed(s, x, c, n) \in HandlerType
         /\ Changed(s, x, c, n).x = x /\ Changed(s, x, c, n).c = c /\ Changed(s, x, c, n).closes = n
  BY DEF HandlerType, Changed

(* close_connection() leaves the reader and the buffers alone.               *)
LEMMA CloseResult ==
  ASSUME NEW s \in HandlerType
  PROVE  LET t == close_connection(s)
         IN  /\ t \in HandlerType /\ IsClosed(s, t) /\ SameReader(s, t) /\ SameFrames(s, t)
             /\ t.x.in = s.x.in /\ t.x.out = s.x.out /\ t.c.spoilt = s.c.spoilt
<1> DEFINE t == close_connection(s)
           x == [s.x EXCEPT !.rdEvent = FALSE, !.wrEvent = FALSE, !.m_sfd = INVALID_SOCKET]
<1>1. s.x \in CtxType /\ s.c \in ConnType /\ s.closes \in Nat
  BY DEF HandlerType
<1>2. t = Changed(s, x, Closed(s.c), s.closes + 1)
  BY DEF HandlerType, close_connection, Changed
<1>3. x \in CtxType
  BY <1>1, Values DEF CtxType
<1>4. Closed(s.c) \in ConnType
  BY <1>1, Values DEF ConnType, Closed, NewConn
<1>5. t \in HandlerType /\ t.x = x /\ t.c = Closed(s.c) /\ t.closes = s.closes + 1
  BY <1>1, <1>2, <1>3, <1>4, ChangedType
<1>6. SameReader(s, t) /\ t.x.in = s.x.in /\ t.x.out = s.x.out
  BY <1>1, <1>5 DEF CtxType, SameReader
<1>7. IsClosed(s, t)
  BY <1>1, <1>5 DEF CtxType, IsClosed, Closed, NewConn
<1>8. SameFrames(s, t) /\ t.c.spoilt = s.c.spoilt
  BY <1>5 DEF SameFrames, Closed, NewConn
<1> QED
  BY <1>5, <1>6, <1>7, <1>8

(* Sequences of bytes.                                                       *)
LEMMA BytesConcat ==
    /\ \A a, b \in Bytes : a \o b \in Bytes /\ Len(a \o b) = Len(a) + Len(b)
    /\ \A a, b, c \in Bytes : (a \o b) \o c = a \o (b \o c)
    /\ \A a \in Bytes : a \o <<>> = a /\ <<>> \o a = a
  BY ConcatProperties, ConcatAssociative, ConcatEmptySeq, SMTT(30) DEF Bytes

LEMMA BytesSplit ==
  ASSUME NEW a \in Bytes, NEW n \in 0..Len(a)
  PROVE  /\ SubSeq(a, 1, n) \in Bytes /\ Len(SubSeq(a, 1, n)) = n
         /\ \A i \in 1..n : SubSeq(a, 1, n)[i] = a[i]
         /\ SubSeq(a, n + 1, Len(a)) \in Bytes /\ Len(SubSeq(a, n + 1, Len(a))) = Len(a) - n
         /\ SubSeq(a, 1, n) \o SubSeq(a, n + 1, Len(a)) = a
<1>1. SubSeq(a, 1, n) \in Bytes /\ Len(SubSeq(a, 1, n)) = n
  BY DEF Bytes
<1>2. SubSeq(a, n + 1, Len(a)) \in Bytes /\ Len(SubSeq(a, n + 1, Len(a))) = Len(a) - n
  BY DEF Bytes
<1>3. \A i \in 1..n : SubSeq(a, 1, n)[i] = a[i]
  BY DEF Bytes
<1>4. SubSeq(a, 1, n) \o SubSeq(a, n + 1, Len(a)) = a
  <2>1. Len(a) \in Nat /\ 1 \in 1..Len(a) + 1 /\ n \in 1 - 1..Len(a) /\ Len(a) \in n..Len(a)
    BY DEF Bytes
  <2>2. SubSeq(a, 1, n) \o SubSeq(a, n + 1, Len(a)) = SubSeq(a, 1, Len(a))
    BY <2>1, ConcatAdjacentSubSeq DEF Bytes
  <2> QED
    BY <2>2, SubSeqFull DEF Bytes
<1> QED
  BY <1>1, <1>2, <1>3, <1>4

(* New data goes behind the old, the first part of it at once.               *)
Regroups(got, out, head, rest) ==
    (got \o head) \o (out \o rest) = (got \o out) \o (head \o rest)

LEMMA BytesRegroup ==
  \A got, out, head, rest \in Bytes :
      out = <<>> \/ head = <<>> => Regroups(got, out, head, rest)
<1> SUFFICES ASSUME NEW got \in Bytes, NEW out \in Bytes, NEW head \in Bytes, NEW rest \in Bytes,
                    out = <<>> \/ head = <<>>
             PROVE  (got \o head) \o (out \o rest) = (got \o out) \o (head \o rest)
  BY DEF Regroups
<1>1. got \o head \in Bytes /\ out \o rest \in Bytes /\ got \o out \in Bytes /\ head \o rest \in Bytes
  BY BytesConcat
<1>2. CASE out = <<>>
  <2>1. (got \o head) \o (out \o rest) = (got \o head) \o rest
    BY <1>2, BytesConcat, Zenon
  <2>2. (got \o out) \o (head \o rest) = got \o (head \o rest)
    BY <1>2, BytesConcat, Zenon
  <2> QED
    BY <2>1, <2>2, BytesConcat, Zenon
<1>3. CASE head = <<>>
  <2>1. (got \o head) \o (out \o rest) = got \o (out \o rest)
    BY <1>3, BytesConcat, Zenon
  <2>2. (got \o out) \o (head \o rest) = (got \o out) \o rest
    BY <1>3, BytesConcat, Zenon
  <2> QED
    BY <2>1, <2>2, BytesConcat, Zenon
<1> QED
  BY <1>2, <1>3

(* set_read_ctxnew() touches m_flags and the read event only.                *)
LEMMA SetReadResult ==
  ASSUME NEW x \in CtxType
  PROVE  LET r == set_read_ctxnew(x)
         IN  /\ r \in CtxType /\ r.m_flags = "R" /\ (x.rdEvent \/ x.m_flags # "R" => r.rdEvent)
             /\ r.m_sfd = x.m_sfd /\ r.m_socket = x.m_socket /\ r.wrEvent = x.wrEvent
             /\ r.wrAssigned = x.wrAssigned /\ r.sockState = x.sockState
             /\ r.appState = x.appState /\ r.m_readWant = x.m_readWant /\ r.reserve = x.reserve
             /\ r.in = x.in /\ r.out = x.out
<1>1. CASE x.m_flags = "R"
  BY <1>1 DEF set_read_ctxnew
<1>2. CASE x.m_flags # "R"
  <2> DEFINE r == [x EXCEPT !.m_flags = "R", !.rdEvent = TRUE]
  <2>1. set_read_ctxnew(x) = r
    BY <1>2 DEF set_read_ctxnew
  <2>2. r \in CtxType
    BY Values DEF CtxType
  <2> QED
    BY <2>1, <2>2 DEF CtxType
<1> QED
  BY <1>1, <1>2

(* on_setwritestate() after set_read_ctxnew(): the write event is armed, or  *)
(* the connection is closed.                                                 *)
LEMMA SetWriteResult ==
  ASSUME NEW s \in HandlerType, NEW d, s.x.m_flags = "R"
  PROVE  LET t == on_setwritestate(s, d)
         IN  \/ t = close_connection(s)
             \/ /\ t \in HandlerType /\ IsServed(s, t) /\ SameReader(s, t) /\ t.c = s.c
                /\ t.x.wrEvent /\ t.x.in = s.x.in /\ t.x.out = s.x.out
<1> DEFINE t == on_setwritestate(s, d)
           x == [s.x EXCEPT !.m_flags = "W", !.wrEvent = TRUE, !.wrAssigned = TRUE]
<1>1. s.x \in CtxType /\ s.c \in ConnType /\ s.closes \in Nat
  BY DEF HandlerType
<1>2. CASE ~s.x.wrAssigned /\ ~d
  BY <1>2 DEF on_setwritestate
<1>3. CASE ~(~s.x.wrAssigned /\ ~d)
  <2>1. t = Changed(s, x, s.c, s.closes)
    BY <1>3 DEF HandlerType, on_setwritestate, Changed
  <2>2. x \in CtxType
    BY <1>1, Values DEF CtxType
  <2>3. t \in HandlerType /\ t.x = x /\ t.c = s.c /\ t.closes = s.closes
    BY <1>1, <2>1, <2>2, ChangedType
  <2>4. IsServed(s, t) /\ SameReader(s, t)
    BY <1>1, <2>3 DEF CtxType, IsServed, SameReader
  <2>5. t.x.wrEvent /\ t.x.in = s.x.in /\ t.x.out = s.x.out
    BY <1>1, <2>3 DEF CtxType
  <2> QED
    BY <2>3, <2>4, <2>5
<1> QED
  BY <1>2, <1>3

(* What write_buffer() and those that call it leave behind of the data in    *)
(* the echo: got by the peer, or waiting with the write event armed.         *)
Echoed(s, t, data) ==
    IsServed(s, t) =>
        /\ s.x.out = <<>> \/ s.x.wrEvent => t.x.out = <<>> \/ t.x.wrEvent
        /\ t.c.spoilt \cap {"overtaken", "fault"} = {} =>
              t.c.got \o t.x.out = (s.c.got \o s.x.out) \o data

Written(s, t, data) ==
    /\ t \in HandlerType
    /\ IsServed(s, t) \/ IsClosed(s, t)
    /\ SameReader(s, t) /\ SameFrames(s, t) /\ t.x.in = s.x.in
    /\ t.c.spoilt \subseteq s.c.spoilt \cup {"overtaken", "fault"}
    /\ Echoed(s, t, data)

(* write_buffer() loses, repeats and moves no byte that it does not own up   *)
(* to in spoilt.                                                             *)
LEMMA WriteBufferResult ==
  ASSUME NEW s \in HandlerType, NEW d, s.x.m_flags = "R",
         NEW data \in Bytes, data # <<>>, NEW w \in -1..Len(data)
  PROVE  Written(s, write_buffer(s, data, w, d), data)
<1> DEFINE t == write_buffer(s, data, w, d)
<1>1. s.x \in CtxType /\ s.c \in ConnType /\ s.closes \in Nat
  BY DEF HandlerType
<1>2. s.x.out \in Bytes /\ s.c.got \in Bytes /\ s.c.spoilt \in Spoils
  BY <1>1 DEF CtxType, ConnType
<1>3. Len(data) \in Nat /\ Len(data) > 0
  BY DEF Bytes
<1>4. CASE w < 0
  <2> DEFINE c == [s.c EXCEPT !.spoilt = @ \cup {"fault"}]
  <2>1. t = Changed(s, s.x, c, s.closes)
    BY <1>4 DEF write_buffer, HandlerType, Changed
  <2>2. s.c.spoilt \cup {"fault"} \in Spoils
    BY <1>2 DEF Spoils
  <2>3. c \in ConnType
    BY <1>1, <2>2 DEF ConnType
  <2>4. t \in HandlerType /\ t.x = s.x /\ t.c = c /\ t.closes = s.closes
    BY <1>1, <2>1, <2>3, ChangedType
  <2>5. IsServed(s, t) /\ SameReader(s, t) /\ SameFrames(s, t) /\ t.x.in = s.x.in
    BY <1>1, <2>4 DEF ConnType, IsServed, SameReader, SameFrames
  <2>6. t.c.spoilt = s.c.spoilt \cup {"fault"}
    BY <1>1, <2>4 DEF ConnType
  <2>7. Echoed(s, t, data)
    BY <2>4, <2>6 DEF Echoed
  <2> QED
    BY <2>4, <2>5, <2>6, <2>7 DEF Written
<1>5. CASE w >= 0
  <2> DEFINE order == IF s.x.out # <<>> /\ w > 0 THEN {"overtaken"} ELSE {}
             head == SubSeq(data, 1, w)
             rest == SubSeq(data, w + 1, Len(data))
             c == [s.c EXCEPT !.got = @ \o head, !.spoilt = @ \cup order]
             x == [s.x EXCEPT !.out = @ \o rest]
  <2>1. w \in 0..Len(data)
    BY <1>3, <1>5
  <2>2. head \in Bytes /\ rest \in Bytes /\ head \o rest = data /\ Len(rest) = Len(data) - w
    BY <2>1, BytesSplit
  <2>3. s.c.got \o head \in Bytes /\ s.x.out \o rest \in Bytes /\ s.c.spoilt \cup order \in Spoils
    BY <1>2, <2>2, BytesConcat DEF Spoils
  <2>4. c \in ConnType /\ x \in CtxType
    BY <1>1, <2>3 DEF ConnType, CtxType
  <2>5. /\ c.got = s.c.got \o head /\ c.spoilt = s.c.spoilt \cup order
        /\ c.fd = s.c.fd /\ c.state = s.c.state /\ c.sent = s.c.sent /\ c.read = s.c.read
        /\ c.frames = s.c.frames /\ c.delivered = s.c.delivered
    BY <1>1 DEF ConnType
  <2>6. (s.c.spoilt \cup order) \cap {"overtaken", "fault"} = {} => s.x.out = <<>> \/ w = 0
    BY <2>1
  <2>0. order \subseteq {"overtaken"}
    OBVIOUS
  <2> HIDE DEF order, rest
  <2>7. CASE w = Len(data)
    <3>1. t = [ToPeer(s, data, w) EXCEPT !.c.spoilt = @ \cup order]
      BY <1>5, <2>7 DEF write_buffer, order
    <3>2. t \in HandlerType /\ t.x = s.x /\ t.c = c /\ t.closes = s.closes
      <4>1. t = Changed(s, s.x, c, s.closes)
        BY <3>1 DEF HandlerType, ConnType, ToPeer, Changed
      <4> QED
        BY <1>1, <2>4, <4>1, ChangedType
    <3> HIDE DEF c
    <3>3. IsServed(s, t) /\ SameReader(s, t) /\ SameFrames(s, t) /\ t.x.in = s.x.in
      BY <3>2, <2>5 DEF IsServed, SameReader, SameFrames
    <3>4. head = data
      BY <2>7, SubSeqFull DEF Bytes
    <3>5. s.x.out = <<>> => (s.c.got \o head) \o s.x.out = (s.c.got \o s.x.out) \o data
      <4>1. PICK g \in Bytes : g = s.c.got
        BY <1>2
      <4>2. (g \o data) \o <<>> = g \o data /\ g \o <<>> = g
        BY BytesConcat, Zenon
      <4> QED
        BY <4>1, <4>2, <3>4, Zenon
    <3>6. Echoed(s, t, data)
      <4> HIDE DEF t, head
      <4>1. t.c.spoilt \cap {"overtaken", "fault"} = {} => s.x.out = <<>>
        BY <1>3, <2>5, <2>6, <2>7, <3>2
      <4> QED
        BY <2>5, <3>2, <3>5, <4>1 DEF Echoed
    <3> QED
      BY <2>0, <2>5, <3>2, <3>3, <3>6 DEF Written
  <2>8. CASE w # Len(data)
    <3> DEFINE u == Changed(s, x, c, s.closes)
    <3>1. t = on_setwritestate(u, d)
      <4>1. t = on_setwritestate([ToPeer(s, data, w) EXCEPT !.x.out = @ \o rest,
                                                         !.c.spoilt = @ \cup order], d)
        BY <1>5, <2>8 DEF write_buffer, order, rest
      <4> QED
        BY <4>1 DEF HandlerType, ConnType, CtxType, ToPeer, Changed
    <3>2. u \in HandlerType /\ u.x = x /\ u.c = c /\ u.closes = s.closes
      BY <1>1, <2>4, ChangedType
    <3>3. /\ x.m_flags = "R" /\ x.out = s.x.out \o rest /\ x.in = s.x.in /\ x.rdEvent = s.x.rdEvent
          /\ x.m_sfd = s.x.m_sfd /\ x.sockState = s.x.sockState /\ x.appState = s.x.appState
          /\ x.m_readWant = s.x.m_readWant /\ x.reserve = s.x.reserve
      BY <1>1 DEF CtxType
    <3> HIDE DEF u, x, c
    <3>4. CASE t = close_connection(u)
      <4>1. /\ t \in HandlerType /\ IsClosed(u, t) /\ SameReader(u, t) /\ SameFrames(u, t)
            /\ t.x.in = u.x.in /\ t.c.spoilt = u.c.spoilt
        BY <3>2, <3>4, CloseResult
      <4>2. IsClosed(s, t) /\ SameReader(s, t) /\ SameFrames(s, t) /\ t.x.in = s.x.in
        BY <2>5, <3>2, <3>3, <4>1 DEF IsClosed, SameReader, SameFrames
      <4>3. ~IsServed(s, t)
        BY <1>1, <4>2 DEF IsClosed, IsServed
      <4> QED
        BY <2>0, <2>5, <3>2, <4>1, <4>2, <4>3 DEF Written, Echoed
    <3>5. CASE t # close_connection(u)
      <4>0. u.x.m_flags = "R"
        BY <3>2, <3>3
      <4>1. /\ t \in HandlerType /\ IsServed(u, t) /\ SameReader(u, t) /\ t.c = c
            /\ t.x.wrEvent /\ t.x.in = x.in /\ t.x.out = x.out
        BY <3>1, <3>2, <3>5, <4>0, SetWriteResult
      <4>2. IsServed(s, t) /\ SameReader(s, t) /\ SameFrames(s, t) /\ t.x.in = s.x.in
        BY <2>5, <3>2, <3>3, <4>1 DEF IsServed, SameReader, SameFrames
      <4>3. s.x.out = <<>> \/ w = 0 =>
                (s.c.got \o head) \o (s.x.out \o rest) = (s.c.got \o s.x.out) \o data
        <5> SUFFICES ASSUME s.x.out = <<>> \/ w = 0
                     PROVE  (s.c.got \o head) \o (s.x.out \o rest) = (s.c.got \o s.x.out) \o data
          OBVIOUS
        <5>1. s.x.out = <<>> \/ head = <<>>
          BY SubSeqEmpty
        <5>2. head \in Bytes /\ rest \in Bytes /\ head \o rest = data
          BY <2>2
        <5> HIDE DEF head
        <5>3. (s.c.got \o head) \o (s.x.out \o rest) = (s.c.got \o s.x.out) \o (head \o rest)
          <6>1. Regroups(s.c.got, s.x.out, head, rest)
            BY <1>2, <5>1, <5>2, BytesRegroup
          <6> QED
            BY <6>1 DEF Regroups
        <5> QED
          BY <5>2, <5>3, Zenon
      <4>5. Echoed(s, t, data)
        BY <2>5, <2>6, <3>3, <4>1, <4>3 DEF Echoed
      <4> QED
        BY <2>0, <2>5, <4>1, <4>2, <4>5 DEF Written
    <3> QED
      BY <3>4, <3>5
  <2> QED
    BY <2>7, <2>8
<1> QED
  BY <1>4, <1>5

LEMMA MinOfTwo == \A a, b \in Int : Min({a, b}) = IF a <= b THEN a ELSE b
<1> SUFFICES ASSUME NEW a \in Int, NEW b \in Int PROVE Min({a, b}) = IF a <= b THEN a ELSE b
  OBVIOUS
<1> DEFINE m == IF a <= b THEN a ELSE b
<1>1. m \in {a, b} /\ \A y \in {a, b} : m <= y
  OBVIOUS
<1>2. \A y \in {a, b} : (\A z \in {a, b} : y <= z) => y = m
  OBVIOUS
<1> QED
  BY <1>1, <1>2 DEF Min

(* A header tells a length of 0..256 * 256 - 1.                              *)
LEMMA LengthInType == \A h \in Headers : LengthIn(h) \in Wants
<1> SUFFICES ASSUME NEW h \in Headers PROVE LengthIn(h) \in Wants
  OBVIOUS
<1>1. h[1] \in Nat /\ h[1] <= 255 /\ h[2] \in Nat /\ h[2] <= 255
  BY DEF Headers, Byte
<1> QED
  BY <1>1 DEF LengthIn, Wants

(* What on_readsocketdone() does with the message it takes.                  *)
TookMessage(s, t, msg) ==
    /\ t \in HandlerType
    /\ IsServed(s, t) \/ IsClosed(s, t)
    /\ SameReader(s, t)
    /\ t.x.in = SubSeq(s.x.in, Len(msg) + 1, Len(s.x.in))
    /\ t.c.frames = s.c.frames /\ t.c.delivered = Append(s.c.delivered, msg)
    /\ s.c.spoilt \subseteq t.c.spoilt
    /\ t.c.spoilt \subseteq s.c.spoilt \cup {"overtaken", "fault"}
    /\ Echoed(s, t, msg)

LEMMA ReadDoneResult ==
  ASSUME NEW s \in HandlerType, NEW d, NEW w \in Int, w >= -1,
         LengthIn(s.x.reserve) > 0, LengthIn(s.x.reserve) <= Len(s.x.in)
  PROVE  LET msg == SubSeq(s.x.in, 1, LengthIn(s.x.reserve))
         IN  /\ msg \in Bytes /\ Len(msg) = LengthIn(s.x.reserve)
             /\ \A i \in 1..Len(msg) : msg[i] = s.x.in[i]
             /\ TookMessage(s, on_readsocketdone(s, w, d), msg)
<1> DEFINE n == LengthIn(s.x.reserve)
           msg == SubSeq(s.x.in, 1, n)
           rest == SubSeq(s.x.in, n + 1, Len(s.x.in))
           x == [set_read_ctxnew(s.x) EXCEPT !.in = rest]
           c == [s.c EXCEPT !.delivered = Append(@, msg)]
           u == Changed(s, x, c, s.closes)
           t == on_readsocketdone(s, w, d)
<1>1. s.x \in CtxType /\ s.c \in ConnType /\ s.closes \in Nat
  BY DEF HandlerType
<1>2. s.x.in \in Bytes /\ s.c.delivered \in Frames /\ n \in Wants
  BY <1>1, LengthInType DEF CtxType, ConnType
<1>3. n \in 1..Len(s.x.in) /\ Len(s.x.in) \in Nat
  <2>1. Len(s.x.in) \in Nat
    BY <1>2 DEF Bytes
  <2>2. n \in Int
    BY <1>2 DEF Wants
  <2> QED
    BY <2>1, <2>2
<1>4. /\ msg \in Bytes /\ Len(msg) = n /\ rest \in Bytes
      /\ \A i \in 1..n : msg[i] = s.x.in[i]
  <2>1. n \in 0..Len(s.x.in)
    BY <1>3
  <2> QED
    BY <1>2, <2>1, BytesSplit
<1>5. Append(s.c.delivered, msg) \in Frames
  BY <1>2, <1>4 DEF Frames
<1>6. set_read_ctxnew(s.x) \in CtxType
  BY <1>1, SetReadResult
<1>7. x \in CtxType /\ c \in ConnType
  BY <1>1, <1>4, <1>5, <1>6 DEF CtxType, ConnType
<1>8. /\ x.m_flags = "R" /\ (s.x.rdEvent => x.rdEvent) /\ x.m_sfd = s.x.m_sfd
      /\ x.wrEvent = s.x.wrEvent /\ x.sockState = s.x.sockState /\ x.appState = s.x.appState
      /\ x.m_readWant = s.x.m_readWant /\ x.reserve = s.x.reserve /\ x.in = rest
      /\ x.out = s.x.out
  BY <1>1, <1>6, SetReadResult DEF CtxType
<1>9. /\ c.fd = s.c.fd /\ c.state = s.c.state /\ c.sent = s.c.sent /\ c.read = s.c.read
      /\ c.frames = s.c.frames /\ c.delivered = Append(s.c.delivered, msg)
      /\ c.got = s.c.got /\ c.spoilt = s.c.spoilt
  BY <1>1 DEF ConnType
<1>10. u \in HandlerType /\ u.x = x /\ u.c = c /\ u.closes = s.closes
  BY <1>1, <1>7, ChangedType
<1>11. PICK k \in -1..Len(msg) : k = Min({w, n})
  <2>1. Min({w, n}) = IF w <= n THEN w ELSE n
    BY <1>3, MinOfTwo
  <2> QED
    BY <1>3, <1>4, <2>1
<1>12. t = write_buffer(u, msg, k, d)
  <2>1. set_read_ctxnew(s.x).in = s.x.in
    BY <1>1, SetReadResult
  <2>2. x = [set_read_ctxnew(s.x) EXCEPT !.in = SubSeq(@, n + 1, Len(@))]
    BY <2>1
  <2>3. u = [s EXCEPT !.x = x, !.c.delivered = Append(@, msg)]
    <3> HIDE DEF x, msg
    <3> QED
      BY DEF HandlerType, ConnType, Changed
  <2> HIDE DEF u, x
  <2> QED
    BY <1>11, <2>2, <2>3 DEF on_readsocketdone, LengthIn
<1> HIDE DEF u, x, c, t
<1>13. Written(u, t, msg)
  <2>1. u.x.m_flags = "R" /\ msg # <<>>
    BY <1>3, <1>4, <1>8, <1>10
  <2> HIDE DEF msg
  <2> QED
    BY <1>4, <1>10, <1>12, <2>1, WriteBufferResult
<1>14. IsServed(s, t) \/ IsClosed(s, t)
  BY <1>8, <1>9, <1>10, <1>13 DEF Written, IsServed, IsClosed
<1>15. SameReader(s, t) /\ t.c.frames = s.c.frames /\ t.c.delivered = Append(s.c.delivered, msg)
  BY <1>8, <1>9, <1>10, <1>13 DEF Written, SameReader, SameFrames
<1>16. t.x.in = rest /\ s.c.spoilt \subseteq t.c.spoilt
  BY <1>8, <1>9, <1>10, <1>13 DEF Written, SameFrames
<1>17. Echoed(s, t, msg)
  <2>1. IsServed(s, t) => IsServed(u, t)
    BY <1>1, <1>10, <1>13 DEF Written, IsServed, IsClosed
  <2> QED
    BY <1>8, <1>9, <1>10, <1>13, <2>1 DEF Written, Echoed
<1>18. TookMessage(s, t, msg)
  BY <1>4, <1>9, <1>10, <1>13, <1>14, <1>15, <1>16, <1>17 DEF TookMessage, Written
<1> QED
  BY <1>4, <1>18 DEF t

(* While a body is read, m_readWant is the length its header told.           *)
ReaderOK(x) ==
    x.sockState = "RECV" => /\ x.appState = "READ_REQUEST"
                            /\ x.m_readWant = LengthIn(x.reserve) /\ x.m_readWant > 0

(* Only the state of the reader has changed.                                 *)
ReaderMoved(u, t) ==
    /\ t \in HandlerType /\ t.c = u.c /\ t.closes = u.closes
    /\ t.x.m_sfd = u.x.m_sfd /\ t.x.rdEvent = u.x.rdEvent /\ t.x.wrEvent = u.x.wrEvent
    /\ t.x.reserve = u.x.reserve /\ t.x.in = u.x.in /\ t.x.out = u.x.out

LEMMA MovesOn ==
  ASSUME NEW u \in HandlerType
  PROVE  /\ LET t == [u EXCEPT !.x.sockState = "RECV", !.x.appState = "READ_REQUEST"]
            IN  /\ ReaderMoved(u, t) /\ t.x.sockState = "RECV" /\ t.x.appState = "READ_REQUEST"
                /\ t.x.m_readWant = u.x.m_readWant
         /\ LET t == [u EXCEPT !.x.sockState = "RECV_FRAMING", !.x.appState = "READ_FRAME_SIZE",
                               !.x.m_readWant = 0]
            IN  ReaderMoved(u, t) /\ t.x.sockState = "RECV_FRAMING"
         /\ LET t == [u EXCEPT !.x.appState = "READ_FRAME_SIZE"]
            IN  /\ ReaderMoved(u, t) /\ t.x.appState = "READ_FRAME_SIZE"
                /\ t.x.m_readWant = u.x.m_readWant
<1>1. u.x \in CtxType /\ u.c \in ConnType /\ u.closes \in Nat
  BY DEF HandlerType
<1>2. ASSUME NEW x \in CtxType, x.m_sfd = u.x.m_sfd, x.rdEvent = u.x.rdEvent,
             x.wrEvent = u.x.wrEvent, x.reserve = u.x.reserve, x.in = u.x.in, x.out = u.x.out
      PROVE  ReaderMoved(u, Changed(u, x, u.c, u.closes))
  BY <1>1, <1>2, ChangedType DEF ReaderMoved
<1>3. LET t == [u EXCEPT !.x.sockState = "RECV", !.x.appState = "READ_REQUEST"]
      IN  /\ ReaderMoved(u, t) /\ t.x.sockState = "RECV" /\ t.x.appState = "READ_REQUEST"
          /\ t.x.m_readWant = u.x.m_readWant
  <2> DEFINE x == [u.x EXCEPT !.sockState = "RECV", !.appState = "READ_REQUEST"]
             t == [u EXCEPT !.x.sockState = "RECV", !.x.appState = "READ_REQUEST"]
  <2>1. t = Changed(u, x, u.c, u.closes)
    BY DEF HandlerType, Changed
  <2>2. x \in CtxType
    BY <1>1, Values DEF CtxType
  <2>3. ReaderMoved(u, Changed(u, x, u.c, u.closes))
    BY <1>1, <1>2, <2>2 DEF CtxType
  <2>4. t.x = x
    BY <1>1, <2>1, <2>2, ChangedType
  <2> QED
    BY <1>1, <2>1, <2>3, <2>4, ZenonT(30) DEF CtxType
<1>4. LET t == [u EXCEPT !.x.sockState = "RECV_FRAMING", !.x.appState = "READ_FRAME_SIZE",
                         !.x.m_readWant = 0]
      IN  ReaderMoved(u, t) /\ t.x.sockState = "RECV_FRAMING"
  <2> DEFINE x == [u.x EXCEPT !.sockState = "RECV_FRAMING", !.appState = "READ_FRAME_SIZE",
                              !.m_readWant = 0]
             t == [u EXCEPT !.x.sockState = "RECV_FRAMING", !.x.appState = "READ_FRAME_SIZE",
                            !.x.m_readWant = 0]
  <2>1. t = Changed(u, x, u.c, u.closes)
    BY DEF HandlerType, Changed
  <2>2. x \in CtxType
    BY <1>1, Values DEF CtxType
  <2>3. ReaderMoved(u, Changed(u, x, u.c, u.closes))
    BY <1>1, <1>2, <2>2 DEF CtxType
  <2>4. t.x = x
    BY <1>1, <2>1, <2>2, ChangedType
  <2> QED
    BY <1>1, <2>1, <2>3, <2>4, ZenonT(30) DEF CtxType
<1>5. LET t == [u EXCEPT !.x.appState = "READ_FRAME_SIZE"]
      IN  /\ ReaderMoved(u, t) /\ t.x.appState = "READ_FRAME_SIZE"
          /\ t.x.m_readWant = u.x.m_readWant
  <2> DEFINE x == [u.x EXCEPT !.appState = "READ_FRAME_SIZE"]
             t == [u EXCEPT !.x.appState = "READ_FRAME_SIZE"]
  <2>1. t = Changed(u, x, u.c, u.closes)
    BY DEF HandlerType, Changed
  <2>2. x \in CtxType
    BY <1>1, Values DEF CtxType
  <2>3. ReaderMoved(u, Changed(u, x, u.c, u.closes))
    BY <1>1, <1>2, <2>2 DEF CtxType
  <2>4. t.x = x
    BY <1>1, <2>1, <2>2, ChangedType
  <2> QED
    BY <1>1, <2>1, <2>3, <2>4 DEF CtxType
<1> QED
  BY <1>3, <1>4, <1>5

LEMMA MovedOutcome ==
  ASSUME NEW s \in HandlerType, NEW u \in HandlerType, NEW t, ReaderMoved(u, t)
  PROVE  /\ IsServed(s, u) => IsServed(s, t)
         /\ IsClosed(s, u) => IsClosed(s, t)
         /\ IsServed(s, t) /\ (IsServed(s, u) \/ IsClosed(s, u)) => IsServed(s, u)
  BY DEF ReaderMoved, IsServed, IsClosed, HandlerType

(* What read_data() does: it closes the connection, waits for more, or takes *)
(* the message that is now complete, unless the buffer already held so much  *)
(* of an older connection.                                                   *)
GivesUp(s, t) == IsClosed(s, t) /\ t.c.delivered = s.c.delivered
WaitsForMore(s, bytes, t) ==
    /\ IsServed(s, t) /\ bytes # <<>>
    /\ t.x.in = s.x.in \o bytes /\ Len(t.x.in) < t.x.m_readWant
    /\ t.x.sockState = "RECV" /\ t.x.m_readWant = s.x.m_readWant
    /\ t.x.out = s.x.out /\ t.x.wrEvent = s.x.wrEvent /\ t.c = s.c
TakesMessage(s, bytes, t) ==
    /\ Len(s.x.in \o bytes) = s.x.m_readWant
    /\ t.c.delivered = Append(s.c.delivered, s.x.in \o bytes)
    /\ t.x.sockState = "RECV_FRAMING" /\ t.x.in = <<>>
    /\ Echoed(s, t, s.x.in \o bytes)

ReadsBody(s, bytes, t) ==
    Len(s.x.in) < s.x.m_readWant => WaitsForMore(s, bytes, t) \/ TakesMessage(s, bytes, t)

(* And whatever it does:                                                     *)
Handled(s, t) ==
    /\ t \in HandlerType
    /\ IsServed(s, t) \/ IsClosed(s, t)
    /\ ReaderOK(t.x) /\ t.c.frames = s.c.frames /\ s.c.spoilt \subseteq t.c.spoilt

LEMMA ReadDataResult ==
  ASSUME NEW s \in HandlerType, s.x.sockState = "RECV", ReaderOK(s.x), NEW d,
         NEW w \in Int, w >= -1, NEW bytes \in Bytes,
         \/ bytes = <<>> \/ Len(s.x.in) >= s.x.m_readWant
         \/ Len(s.x.in) + Len(bytes) <= s.x.m_readWant
  PROVE  LET t == read_data(s, bytes, w, d)
         IN  Handled(s, t) /\ (GivesUp(s, t) \/ ReadsBody(s, bytes, t))
<1> DEFINE t == read_data(s, bytes, w, d)
           want == s.x.m_readWant
           x == [s.x EXCEPT !.in = @ \o bytes]
           more == Changed(s, x, s.c, s.closes)
<1>1. s.x \in CtxType /\ s.c \in ConnType /\ s.closes \in Nat
  BY DEF HandlerType
<1>2. s.x.in \in Bytes /\ want \in Nat /\ Len(s.x.in) \in Nat /\ Len(bytes) \in Nat
  <2>1. s.x.in \in Bytes /\ want \in Wants
    BY <1>1 DEF CtxType
  <2> QED
    BY <2>1 DEF Wants, Bytes
<1>3. want > 0 /\ want = LengthIn(s.x.reserve) /\ s.x.appState = "READ_REQUEST"
  BY DEF ReaderOK
<1>4. s.x.in \o bytes \in Bytes /\ Len(s.x.in \o bytes) = Len(s.x.in) + Len(bytes)
  BY <1>2, BytesConcat
<1>5. CASE bytes = <<>>
  <2>1. t = close_connection(s)
    BY <1>5 DEF read_data
  <2> HIDE DEF t
  <2>2. /\ t \in HandlerType /\ IsClosed(s, t) /\ SameReader(s, t) /\ SameFrames(s, t)
    BY <2>1, CloseResult
  <2>3. GivesUp(s, t) /\ t.c.frames = s.c.frames /\ s.c.spoilt \subseteq t.c.spoilt
    BY <2>2 DEF GivesUp, SameFrames
  <2>4. ReaderOK(t.x)
    BY <2>2 DEF SameReader, ReaderOK
  <2> QED
    BY <2>2, <2>3, <2>4 DEF Handled, t
<1>6. CASE bytes # <<>>
  <2>1. x \in CtxType
    BY <1>1, <1>4 DEF CtxType
  <2>2. more \in HandlerType /\ more.x = x /\ more.c = s.c /\ more.closes = s.closes
    BY <1>1, <2>1, ChangedType
  <2>3. more = [s EXCEPT !.x.in = @ \o bytes]
    BY DEF HandlerType, Changed
  <2>4. t = IF Len(more.x.in) < want THEN more ELSE rd_transition(more, w, d)
    <3> HIDE DEF more, x
    <3> QED
      BY <1>2, <1>3, <1>6, <2>3 DEF read_data
  <2>5. /\ x.in = s.x.in \o bytes /\ x.m_readWant = want /\ x.sockState = "RECV"
        /\ x.appState = "READ_REQUEST" /\ x.reserve = s.x.reserve /\ x.out = s.x.out
        /\ x.wrEvent = s.x.wrEvent /\ x.rdEvent = s.x.rdEvent /\ x.m_sfd = s.x.m_sfd
    BY <1>1, <1>3 DEF CtxType
  <2> HIDE DEF t, more, x
  <2>6. IsServed(s, more) /\ ReaderOK(more.x)
    BY <1>3, <2>2, <2>5 DEF IsServed, ReaderOK
  <2>7. CASE Len(s.x.in) + Len(bytes) < want
    <3>1. t = more
      BY <1>4, <2>2, <2>4, <2>5, <2>7
    <3>2. WaitsForMore(s, bytes, t)
      BY <1>4, <1>6, <2>2, <2>5, <2>6, <2>7, <3>1 DEF WaitsForMore
    <3>3. Handled(s, t)
      BY <2>2, <2>6, <3>1 DEF Handled
    <3> QED
      BY <3>2, <3>3 DEF t, ReadsBody
  <2>8. CASE ~(Len(s.x.in) + Len(bytes) < want)
    <3> DEFINE u == on_readsocketdone(more, w, d)
               all == s.x.in \o bytes
               msg == SubSeq(all, 1, want)
    <3>1. t = rd_transition(more, w, d)
      BY <1>2, <1>4, <2>2, <2>4, <2>5, <2>8
    <3>2. t = [u EXCEPT !.x.sockState = "RECV_FRAMING", !.x.appState = "READ_FRAME_SIZE",
                        !.x.m_readWant = 0]
      BY <2>2, <2>5, <3>1 DEF rd_transition
    <3>3. Len(s.x.in) < want => Len(all) = want
      BY <1>2, <1>4, <1>6, <2>8
    <3>4. Len(s.x.in) < want => msg = all
      BY <1>3, <1>4, <2>2, <2>5, <3>3, SubSeqFull DEF Bytes
    <3>5. TookMessage(more, u, msg)
      <4>1. LengthIn(more.x.reserve) = want
        BY <1>3, <2>2, <2>5
      <4>2. more.x.in = all
        BY <2>2, <2>5
      <4>3. want > 0 /\ want <= Len(more.x.in)
        BY <1>2, <1>3, <1>4, <2>8, <4>2
      <4> QED
        BY <2>2, <4>1, <4>2, <4>3, ReadDoneResult
    <3> HIDE DEF u, all, msg
    <3>6. u \in HandlerType
      BY <3>5 DEF TookMessage
    <3>7. ReaderMoved(u, t) /\ t.x.sockState = "RECV_FRAMING"
      BY <3>2, <3>6, MovesOn
    <3>8. IsServed(s, u) \/ IsClosed(s, u)
      BY <2>2, <2>5, <3>5 DEF TookMessage, IsServed, IsClosed
    <3>9. IsServed(s, t) \/ IsClosed(s, t)
      BY <3>6, <3>7, <3>8, MovedOutcome
    <3>10. Len(s.x.in) < want => t.x.in = <<>>
      <4>1. u.x.in = SubSeq(all, Len(msg) + 1, Len(all))
        BY <2>2, <2>5, <3>5 DEF TookMessage, all
      <4>2. Len(s.x.in) < want => SubSeq(all, Len(all) + 1, Len(all)) = <<>>
        BY <1>2, <3>3, SubSeqEmpty
      <4> QED
        BY <3>4, <3>7, <4>1, <4>2 DEF ReaderMoved
    <3>11. Echoed(s, t, msg)
      <4>1. IsServed(s, t) => IsServed(more, u)
        <5>1. IsServed(s, t) => IsServed(s, u)
          BY <3>6, <3>7, <3>8, MovedOutcome
        <5>2. IsServed(s, u) => IsServed(more, u)
          BY <2>2, <2>5 DEF IsServed
        <5> QED
          BY <5>1, <5>2
      <4> QED
        BY <2>2, <2>5, <3>5, <3>7, <4>1 DEF TookMessage, Echoed, ReaderMoved
    <3>12. t.c.frames = s.c.frames /\ s.c.spoilt \subseteq t.c.spoilt
           /\ t.c.delivered = Append(s.c.delivered, msg)
      BY <2>2, <3>5, <3>7 DEF TookMessage, ReaderMoved
    <3>13. ReaderOK(t.x) /\ t \in HandlerType
      BY <3>7 DEF ReaderOK, ReaderMoved
    <3>14. Len(s.x.in) < want => TakesMessage(s, bytes, t)
      BY <3>3, <3>4, <3>7, <3>10, <3>11, <3>12 DEF TakesMessage, all
    <3>15. Handled(s, t)
      BY <3>9, <3>12, <3>13 DEF Handled
    <3> QED
      BY <3>14, <3>15 DEF t, ReadsBody
  <2> QED
    BY <2>7, <2>8
<1> QED
  BY <1>5, <1>6

LEMMA HeaderIsBytes == \A h \in Headers : h \in Bytes /\ Len(h) = 2
<1> SUFFICES ASSUME NEW h \in Headers PROVE h \in Bytes /\ Len(h) = 2
  OBVIOUS
<1>1. PICK a \in Byte, b \in Byte : h = <<a, b>>
  BY DEF Headers
<1> QED
  BY <1>1 DEF Bytes

LEMMA TwoBytesAreHeader == \A h \in Bytes : Len(h) = 2 => h \in Headers
<1> SUFFICES ASSUME NEW h \in Bytes, Len(h) = 2 PROVE h \in Headers
  OBVIOUS
<1>1. h[1] \in Byte /\ h[2] \in Byte
  BY DEF Bytes
<1>2. h = <<h[1], h[2]>>
  BY DEF Bytes
<1>3. <<h[1], h[2]>> \in Byte \X Byte
  BY <1>1
<1> QED
  BY <1>2, <1>3 DEF Headers

(* read_framing() overwrites as much of the last header as it gets.          *)
LEMMA NewHeader ==
  ASSUME NEW old \in Headers, NEW bytes \in Bytes, Len(bytes) \in 1..2
  PROVE  LET head == bytes \o SubSeq(old, Len(bytes) + 1, 2)
         IN  /\ head \in Headers
             /\ Len(bytes) = 2 => LengthIn(head) = LengthIn(bytes)
<1> DEFINE rest == SubSeq(old, Len(bytes) + 1, 2)
<1>1. old \in Bytes /\ Len(old) = 2
  BY HeaderIsBytes
<1>2. rest \in Bytes /\ Len(rest) = 2 - Len(bytes)
  <2>1. PICK n \in 0..Len(old) : n = Len(bytes)
    BY <1>1
  <2>2. /\ SubSeq(old, n + 1, Len(old)) \in Bytes
        /\ Len(SubSeq(old, n + 1, Len(old))) = Len(old) - n
    BY <1>1, BytesSplit
  <2> QED
    BY <1>1, <2>1, <2>2
<1>3. bytes \o rest \in Bytes /\ Len(bytes \o rest) = 2
  BY <1>2, BytesConcat
<1>4. bytes \o rest \in Headers
  BY <1>3, TwoBytesAreHeader
<1>5. ASSUME Len(bytes) = 2 PROVE bytes \o rest = bytes
  <2>1. rest = <<>>
    BY <1>5, SubSeqEmpty
  <2> QED
    BY <2>1, BytesConcat
<1> QED
  BY <1>4, <1>5

(* What read_framing() does for a clean ctx, when it does not give up.       *)
ReadsHeader(s, bytes, t) ==
    /\ IsServed(s, t) /\ bytes # <<>> /\ Len(bytes) <= 2
    /\ t.x.sockState = "RECV" /\ t.x.in = <<>> /\ t.x.out = s.x.out
    /\ t.x.wrEvent = s.x.wrEvent
    /\ t.c.delivered = s.c.delivered /\ t.c.got = s.c.got
    /\ Len(bytes) < 2 => "short" \in t.c.spoilt
    /\ Len(bytes) = 2 => t.x.m_readWant = LengthIn(bytes)

LEMMA ReadFramingResult ==
  ASSUME NEW s \in HandlerType, s.x.sockState = "RECV_FRAMING", NEW d,
         NEW w \in Int, w >= -1, NEW bytes \in Bytes, Len(bytes) <= 2
  PROVE  LET t == read_framing(s, bytes, w, d)
         IN  Handled(s, t) /\ (s.x.in = <<>> => GivesUp(s, t) \/ ReadsHeader(s, bytes, t))
<1> DEFINE t == read_framing(s, bytes, w, d)
           head == bytes \o SubSeq(s.x.reserve, Len(bytes) + 1, 2)
           want == head[1] * 256 + head[2]
           cut == IF Len(bytes) < 2 THEN {"short"} ELSE {}
           x == [s.x EXCEPT !.reserve = head, !.m_readWant = want]
           c == [s.c EXCEPT !.spoilt = @ \cup cut]
           framed == Changed(s, x, c, s.closes)
           ready == [framed EXCEPT !.x.appState = "READ_FRAME_SIZE"]
<1>1. s.x \in CtxType /\ s.c \in ConnType /\ s.closes \in Nat
  BY DEF HandlerType
<1>2. s.x.reserve \in Headers /\ s.x.in \in Bytes /\ s.c.spoilt \in Spoils
  BY <1>1 DEF CtxType, ConnType
<1>3. CASE bytes = <<>>
  <2>1. t = close_connection(s)
    BY <1>3 DEF read_framing
  <2> HIDE DEF t
  <2>2. /\ t \in HandlerType /\ IsClosed(s, t) /\ SameReader(s, t) /\ SameFrames(s, t)
    BY <2>1, CloseResult
  <2>3. GivesUp(s, t) /\ t.c.frames = s.c.frames /\ s.c.spoilt \subseteq t.c.spoilt
    BY <2>2 DEF GivesUp, SameFrames
  <2>4. ReaderOK(t.x)
    BY <2>2 DEF SameReader, ReaderOK
  <2> QED
    BY <2>2, <2>3, <2>4 DEF Handled, t
<1>4. CASE bytes # <<>>
  <2>1. Len(bytes) \in 1..2
    <3>1. Len(bytes) \in Nat \ {0}
      <4>1. bytes \in Seq(Byte)
        BY DEF Bytes
      <4> QED
        BY <1>4, <4>1, EmptySeq
    <3>2. PICK k \in Nat \ {0} : k = Len(bytes)
      BY <3>1
    <3>3. k <= 2
      BY <3>2
    <3>4. k \in 1..2
      BY <3>3
    <3> QED
      BY <3>2, <3>4
  <2>2. head \in Headers /\ (Len(bytes) = 2 => LengthIn(head) = LengthIn(bytes))
    BY <1>2, <2>1, NewHeader
  <2>3. want = LengthIn(head) /\ LengthIn(head) \in Wants
    BY <2>2, LengthInType DEF LengthIn
  <2>4. cut \subseteq {"short"} /\ (Len(bytes) < 2 => "short" \in cut)
    OBVIOUS
  <2>5. s.c.spoilt \cup cut \in Spoils
    BY <1>2, <2>4 DEF Spoils
  <2> HIDE DEF head, want, cut
  <2>6. x \in CtxType /\ c \in ConnType
    BY <1>1, <2>2, <2>3, <2>5 DEF CtxType, ConnType
  <2>7. framed \in HandlerType /\ framed.x = x /\ framed.c = c /\ framed.closes = s.closes
    BY <1>1, <2>6, ChangedType
  <2>8. /\ x.reserve = head /\ x.m_readWant = want /\ x.sockState = "RECV_FRAMING"
        /\ x.in = s.x.in /\ x.out = s.x.out /\ x.wrEvent = s.x.wrEvent
        /\ x.rdEvent = s.x.rdEvent /\ x.m_sfd = s.x.m_sfd
    BY <1>1 DEF CtxType
  <2>9. /\ c.spoilt = s.c.spoilt \cup cut /\ c.fd = s.c.fd /\ c.state = s.c.state
        /\ c.sent = s.c.sent /\ c.read = s.c.read /\ c.frames = s.c.frames
        /\ c.delivered = s.c.delivered /\ c.got = s.c.got
    BY <1>1 DEF ConnType
  <2>10. framed = [s EXCEPT !.x.reserve = head, !.x.m_readWant = want, !.c.spoilt = @ \cup cut]
    BY DEF HandlerType, CtxType, ConnType, Changed
  <2> HIDE DEF framed, x, c
  <2>11. t = IF want <= 0 THEN close_connection(framed)
             ELSE rd_transition(IF Len(s.x.in) >= want THEN on_readsocketdone(ready, w, d)
                                ELSE ready, w, d)
    <3> DEFINE f == [s EXCEPT !.x.reserve = head, !.x.m_readWant = want, !.c.spoilt = @ \cup cut]
    <3>1. t = IF want <= 0 THEN close_connection(f)
              ELSE rd_transition(IF Len(s.x.in) >= want
                                 THEN on_readsocketdone([f EXCEPT !.x.appState = "READ_FRAME_SIZE"], w, d)
                                 ELSE [f EXCEPT !.x.appState = "READ_FRAME_SIZE"], w, d)
      BY <1>4 DEF read_framing, BadLength, head, want, cut
    <3>2. f = framed
      BY <2>10
    <3> HIDE DEF f, t
    <3> QED
      BY <3>1, <3>2
  <2>12. /\ ReaderMoved(framed, ready) /\ ready.x.appState = "READ_FRAME_SIZE"
         /\ ready.x.m_readWant = want
    <3>1. ready = [framed EXCEPT !.x.appState = "READ_FRAME_SIZE"]
      OBVIOUS
    <3> HIDE DEF ready
    <3>2. /\ ReaderMoved(framed, ready) /\ ready.x.appState = "READ_FRAME_SIZE"
          /\ ready.x.m_readWant = framed.x.m_readWant
      BY <2>7, <3>1, MovesOn
    <3> QED
      BY <2>7, <2>8, <3>2
  <2> HIDE DEF t, ready
  <2>13. IsServed(s, framed)
    BY <2>7, <2>8, <2>9 DEF IsServed
  <2>14. CASE want <= 0
    <3>1. t = close_connection(framed)
      BY <2>11, <2>14
    <3>2. t \in HandlerType /\ IsClosed(framed, t) /\ SameReader(framed, t) /\ SameFrames(framed, t)
      BY <2>7, <3>1, CloseResult
    <3>3. GivesUp(s, t) /\ t.c.frames = s.c.frames /\ s.c.spoilt \subseteq t.c.spoilt
      BY <2>7, <2>9, <3>2 DEF GivesUp, SameFrames, IsClosed
    <3>4. ReaderOK(t.x)
      BY <2>7, <2>8, <3>2 DEF SameReader, ReaderOK
    <3> QED
      BY <3>2, <3>3, <3>4 DEF Handled, GivesUp, t
  <2>15. CASE want > 0 /\ Len(s.x.in) < want
    <3>1. t = rd_transition(ready, w, d)
      BY <1>2, <2>3, <2>11, <2>15 DEF Bytes, Wants
    <3>2. t = [ready EXCEPT !.x.sockState = "RECV", !.x.appState = "READ_REQUEST"]
      BY <2>3, <2>12, <2>15, <3>1 DEF rd_transition, Wants
    <3>3. ready \in HandlerType
      BY <2>12 DEF ReaderMoved
    <3>4. /\ ReaderMoved(ready, t) /\ t.x.sockState = "RECV" /\ t.x.appState = "READ_REQUEST"
          /\ t.x.m_readWant = ready.x.m_readWant
      BY <3>2, <3>3, MovesOn
    <3>5. IsServed(s, t)
      BY <2>7, <2>12, <2>13, <3>3, <3>4, MovedOutcome
    <3>6. t.c = c /\ t.x.in = s.x.in /\ t.x.out = s.x.out /\ t.x.wrEvent = s.x.wrEvent
      BY <2>7, <2>8, <2>12, <3>4 DEF ReaderMoved
    <3>7. ReaderOK(t.x)
      BY <2>3, <2>7, <2>8, <2>12, <2>15, <3>4 DEF ReaderMoved, ReaderOK
    <3>8. Handled(s, t)
      BY <2>9, <3>4, <3>5, <3>6, <3>7 DEF Handled, ReaderMoved
    <3>9. s.x.in = <<>> => ReadsHeader(s, bytes, t)
      BY <1>4, <2>2, <2>3, <2>4, <2>9, <2>12, <3>4, <3>5, <3>6 DEF ReadsHeader
    <3> QED
      BY <3>8, <3>9 DEF t
  <2>16. CASE want > 0 /\ ~(Len(s.x.in) < want)
    <3> DEFINE u == on_readsocketdone(ready, w, d)
               msg == SubSeq(ready.x.in, 1, LengthIn(ready.x.reserve))
    <3>1. t = rd_transition(u, w, d)
      BY <1>2, <2>3, <2>11, <2>16 DEF Bytes, Wants
    <3>2. ready \in HandlerType /\ ready.x.in = s.x.in /\ ready.x.reserve = head
      BY <2>7, <2>8, <2>12 DEF ReaderMoved
    <3>3. TookMessage(ready, u, msg)
      <4>1. LengthIn(ready.x.reserve) > 0 /\ LengthIn(ready.x.reserve) <= Len(ready.x.in)
        BY <1>2, <2>3, <2>16, <3>2 DEF Bytes, Wants
      <4> QED
        BY <3>2, <4>1, ReadDoneResult
    <3> HIDE DEF u, msg
    <3>4. u \in HandlerType /\ u.x.appState = "READ_FRAME_SIZE" /\ u.x.m_readWant = want
      BY <2>12, <3>3 DEF TookMessage, SameReader
    <3>5. t = [u EXCEPT !.x.sockState = "RECV", !.x.appState = "READ_REQUEST"]
      BY <2>3, <2>16, <3>1, <3>4 DEF rd_transition, Wants
    <3>6. /\ ReaderMoved(u, t) /\ t.x.sockState = "RECV" /\ t.x.appState = "READ_REQUEST"
          /\ t.x.m_readWant = want
      BY <3>4, <3>5, MovesOn
    <3>7. IsServed(s, ready)
      BY <2>7, <2>12, <2>13, MovedOutcome
    <3>8. IsServed(s, u) \/ IsClosed(s, u)
      BY <3>3, <3>7 DEF TookMessage, IsServed, IsClosed
    <3>9. IsServed(s, t) \/ IsClosed(s, t)
      BY <3>4, <3>6, <3>8, MovedOutcome
    <3>10. ReaderOK(t.x)
      BY <2>3, <2>16, <3>2, <3>3, <3>6 DEF TookMessage, SameReader, ReaderMoved, ReaderOK
    <3>11. t.c.frames = s.c.frames /\ s.c.spoilt \subseteq t.c.spoilt
      BY <2>7, <2>9, <2>12, <3>3, <3>6 DEF TookMessage, ReaderMoved
    <3>12. Handled(s, t)
      BY <3>6, <3>9, <3>10, <3>11 DEF Handled, ReaderMoved
    <3>13. s.x.in # <<>>
      BY <2>3, <2>16 DEF Wants
    <3> QED
      BY <3>12, <3>13 DEF t
  <2> QED
    BY <2>3, <2>14, <2>15, <2>16 DEF Wants
<1> QED
  BY <1>3, <1>4

(* What wr_transition() does with data that waits.                           *)
Sends(s, t) ==
    /\ IsServed(s, t) /\ SameReader(s, t) /\ t.x.in = s.x.in /\ t.x.wrEvent = s.x.wrEvent
    /\ t.c.delivered = s.c.delivered /\ t.c.spoilt = s.c.spoilt
    /\ t.c.got \o t.x.out = s.c.got \o s.x.out

LEMMA WriteResult ==
  ASSUME NEW s \in HandlerType, ReaderOK(s.x), NEW n \in 0..Len(s.x.out)
  PROVE  LET t == wr_transition(s, n)
         IN  /\ Handled(s, t)
             /\ GivesUp(s, t) \/ Sends(s, t)
             /\ Sends(s, t) => s.x.out # <<>>
<1> DEFINE t == wr_transition(s, n)
           head == SubSeq(s.x.out, 1, n)
           rest == SubSeq(s.x.out, n + 1, Len(s.x.out))
           x == [s.x EXCEPT !.out = rest]
           c == [s.c EXCEPT !.got = @ \o head]
           u == Changed(s, x, c, s.closes)
<1>1. s.x \in CtxType /\ s.c \in ConnType /\ s.closes \in Nat
  BY DEF HandlerType
<1>2. s.x.out \in Bytes /\ s.c.got \in Bytes /\ Len(s.x.out) \in Nat
  <2>1. s.x.out \in Bytes /\ s.c.got \in Bytes
    BY <1>1 DEF CtxType, ConnType
  <2> QED
    BY <2>1 DEF Bytes
<1>3. CASE n <= 0
  <2>1. t = close_connection(s)
    BY <1>2, <1>3 DEF wr_transition
  <2> HIDE DEF t
  <2>2. /\ t \in HandlerType /\ IsClosed(s, t) /\ SameReader(s, t) /\ SameFrames(s, t)
    BY <2>1, CloseResult
  <2>3. GivesUp(s, t) /\ t.c.frames = s.c.frames /\ s.c.spoilt \subseteq t.c.spoilt
    BY <2>2 DEF GivesUp, SameFrames
  <2>4. ReaderOK(t.x)
    BY <2>2 DEF SameReader, ReaderOK
  <2>5. ~Sends(s, t)
    <3>1. ~IsServed(s, t)
      BY <1>1, <2>2 DEF IsServed, IsClosed
    <3> QED
      BY <3>1 DEF Sends
  <2> QED
    BY <2>2, <2>3, <2>4, <2>5 DEF Handled, t
<1>4. CASE n > 0
  <2>1. head \in Bytes /\ rest \in Bytes /\ head \o rest = s.x.out
    BY <1>2, BytesSplit
  <2>2. s.c.got \o head \in Bytes
    BY <1>2, <2>1, BytesConcat
  <2>3. x \in CtxType /\ c \in ConnType
    BY <1>1, <2>1, <2>2 DEF CtxType, ConnType
  <2>4. u \in HandlerType /\ u.x = x /\ u.c = c /\ u.closes = s.closes
    BY <1>1, <2>3, ChangedType
  <2>5. t = u
    <3>1. t = [ToPeer(s, s.x.out, n) EXCEPT !.x.out = SubSeq(@, n + 1, Len(@))]
      BY <1>2, <1>4 DEF wr_transition
    <3> QED
      BY <3>1 DEF ToPeer, HandlerType, ConnType, CtxType, Changed
  <2>6. /\ x.out = rest /\ x.m_sfd = s.x.m_sfd /\ x.rdEvent = s.x.rdEvent
        /\ x.wrEvent = s.x.wrEvent /\ x.in = s.x.in /\ x.sockState = s.x.sockState
        /\ x.appState = s.x.appState /\ x.m_readWant = s.x.m_readWant /\ x.reserve = s.x.reserve
    BY <1>1 DEF CtxType
  <2>7. /\ c.got = s.c.got \o head /\ c.fd = s.c.fd /\ c.state = s.c.state
        /\ c.sent = s.c.sent /\ c.read = s.c.read /\ c.frames = s.c.frames
        /\ c.delivered = s.c.delivered /\ c.spoilt = s.c.spoilt
    BY <1>1 DEF ConnType
  <2>8. (s.c.got \o head) \o rest = s.c.got \o s.x.out
    <3> HIDE DEF head, rest
    <3>1. (s.c.got \o head) \o rest = s.c.got \o (head \o rest)
      <4>1. head \in Bytes /\ rest \in Bytes
        BY <2>1
      <4> QED
        BY <1>2, <4>1, BytesConcat
    <3> QED
      BY <2>1, <3>1
  <2>9. s.x.out # <<>>
    BY <1>2, <1>4
  <2> HIDE DEF t, u, x, c, head, rest
  <2>10. IsServed(s, t) /\ SameReader(s, t)
    BY <2>4, <2>5, <2>6, <2>7 DEF IsServed, SameReader
  <2>11. Sends(s, t)
    BY <2>4, <2>5, <2>6, <2>7, <2>8, <2>10 DEF Sends
  <2>12. Handled(s, t)
    BY <2>4, <2>5, <2>6, <2>7, <2>10 DEF Handled, ReaderOK
  <2> QED
    BY <2>9, <2>11, <2>12 DEF t
<1> QED
  BY <1>2, <1>3, <1>4

(* A clean ctx always asks for a byte, and its data has a write event.       *)
Armed(x, c) ==
    "stale" \notin c.spoilt =>
        /\ x.sockState = "RECV_FRAMING" => x.in = <<>>
        /\ x.sockState = "RECV" => Len(x.in) < x.m_readWant
        /\ x.out = <<>> \/ x.wrEvent

LEMMA FramingKeepsArmed ==
  ASSUME NEW s \in HandlerType, s.x.sockState = "RECV_FRAMING", Armed(s.x, s.c), NEW t, NEW bytes,
         Handled(s, t), s.x.in = <<>> => GivesUp(s, t) \/ ReadsHeader(s, bytes, t), IsServed(s, t)
  PROVE  Armed(t.x, t.c)
<1> SUFFICES ASSUME "stale" \notin t.c.spoilt PROVE Armed(t.x, t.c)
  BY DEF Armed
<1>1. "stale" \notin s.c.spoilt
  BY DEF Handled
<1>2. ReadsHeader(s, bytes, t)
  BY <1>1 DEF Armed, GivesUp, IsClosed, IsServed, HandlerType
<1>3. t.x.m_readWant > 0
  BY <1>2 DEF ReadsHeader, Handled, ReaderOK
<1> QED
  BY <1>1, <1>2, <1>3 DEF Armed, ReadsHeader

LEMMA DataKeepsArmed ==
  ASSUME NEW s \in HandlerType, s.x.sockState = "RECV", Armed(s.x, s.c), NEW t, NEW bytes,
         Handled(s, t), GivesUp(s, t) \/ ReadsBody(s, bytes, t), IsServed(s, t)
  PROVE  Armed(t.x, t.c)
<1> SUFFICES ASSUME "stale" \notin t.c.spoilt PROVE Armed(t.x, t.c)
  BY DEF Armed
<1>1. "stale" \notin s.c.spoilt
  BY DEF Handled
<1>2. ~GivesUp(s, t)
  BY DEF GivesUp, IsClosed, IsServed, HandlerType
<1>3. CASE WaitsForMore(s, bytes, t)
  BY <1>1, <1>3 DEF Armed, WaitsForMore
<1>4. CASE TakesMessage(s, bytes, t)
  BY <1>1, <1>4 DEF Armed, TakesMessage, Echoed
<1>5. Len(s.x.in) < s.x.m_readWant
  BY <1>1 DEF Armed
<1> QED
  BY <1>2, <1>3, <1>4, <1>5 DEF ReadsBody

LEMMA WriteKeepsArmed ==
  ASSUME NEW s \in HandlerType, Armed(s.x, s.c), NEW t, Sends(s, t), s.x.out # <<>>
  PROVE  Armed(t.x, t.c)
  BY DEF Armed, Sends, SameReader

-----------------------------------------------------------------------------
(* The ctx that serves a connection.                                         *)
Serves(x, c) == InUse(x) /\ conn[c].state = "open" /\ conn[c].fd = ctx[x].m_sfd

TypeInv ==
    /\ ctx \in [Ctxs -> CtxType] /\ conn \in [Conns -> ConnType]
    /\ \A x \in Ctxs : ReaderOK(ctx[x])

(* m_idleCtxs holds every ctx that was made and is not in use, once.         *)
PoolInv ==
    /\ made \in Nat /\ made <= NumCtxs /\ m_idleCtxs \in Seq(Ctxs)
    /\ \A i, j \in 1..Len(m_idleCtxs) : m_idleCtxs[i] = m_idleCtxs[j] => i = j
    /\ \A i \in 1..Len(m_idleCtxs) : m_idleCtxs[i] <= made
    /\ \A x \in Ctxs : InUse(x) <=> x <= made /\ \A i \in 1..Len(m_idleCtxs) : m_idleCtxs[i] # x

EventInv ==
    \A x \in Ctxs : IF InUse(x) THEN ctx[x].rdEvent ELSE ~ctx[x].rdEvent /\ ~ctx[x].wrEvent

(* A ctx in use serves exactly one connection, and no other ctx serves it.   *)
ServeInv ==
    /\ \A x \in Ctxs : InUse(x) => \E c \in Conns : Serves(x, c)
    /\ \A x \in Ctxs : \A b, c \in Conns : Serves(x, b) /\ Serves(x, c) => b = c
    /\ \A x, y \in Ctxs : InUse(x) /\ InUse(y) /\ ctx[x].m_sfd = ctx[y].m_sfd => x = y
    /\ \A c \in Conns : conn[c].state = "new" => conn[c] = NewConn

LEMMA ServedOne ==
  ASSUME ServeInv, NEW x \in Ctxs, InUse(x)
  PROVE  /\ ServedBy(x) \in Conns /\ Serves(x, ServedBy(x))
         /\ ConnsOf(ctx[x].m_sfd) = {ServedBy(x)}
<1>1. PICK c \in Conns : Serves(x, c)
  BY DEF ServeInv
<1>2. ConnsOf(ctx[x].m_sfd) = {c}
  <2>1. c \in ConnsOf(ctx[x].m_sfd)
    BY <1>1 DEF Serves, ConnsOf
  <2>2. \A b \in ConnsOf(ctx[x].m_sfd) : b = c
    BY <1>1 DEF Serves, ConnsOf, ServeInv
  <2> QED
    BY <2>1, <2>2
<1>3. ServedBy(x) = c
  BY <1>2 DEF ServedBy
<1> QED
  BY <1>1, <1>2, <1>3

(* What the handler of an event of ctx x for connection c starts from, once  *)
(* recv() has returned bytes.                                                *)
StartsFrom(x, c, bytes, s) ==
    /\ s \in HandlerType /\ s.closes = 0
    /\ s.x.m_sfd = ctx[x].m_sfd /\ s.x.rdEvent = ctx[x].rdEvent /\ s.x.wrEvent = ctx[x].wrEvent
    /\ s.x.sockState = ctx[x].sockState /\ s.x.appState = ctx[x].appState
    /\ s.x.m_readWant = ctx[x].m_readWant /\ s.x.reserve = ctx[x].reserve
    /\ s.x.in = ctx[x].in /\ s.x.out = ctx[x].out
    /\ s.c.fd = conn[c].fd /\ s.c.state = conn[c].state /\ s.c.sent = conn[c].sent
    /\ s.c.frames = conn[c].frames /\ s.c.delivered = conn[c].delivered
    /\ s.c.got = conn[c].got /\ s.c.spoilt = conn[c].spoilt
    /\ s.c.read = conn[c].read + Len(bytes)

(* The next bytes of what the peer sent, or none.                            *)
NextBytes(c, bytes) ==
    /\ bytes \in Bytes
    /\ bytes # <<>> => /\ conn[c].read + Len(bytes) <= Len(conn[c].sent)
                       /\ \A j \in 1..Len(bytes) : bytes[j] = conn[c].sent[conn[c].read + j]

(* A handler closes its connection and gives its ctx back, or both stay as   *)
(* they are: the pool and its events remain sound.                           *)
LEMMA HandlerKeepsPool ==
  ASSUME TypeInv, PoolInv, EventInv, ServeInv, NEW x \in Ctxs, NEW c \in Conns, Serves(x, c),
         NEW bytes, NEW s, StartsFrom(x, c, bytes, s), NEW t, Handled(s, t), Apply(x, c, t)
  PROVE  TypeInv' /\ PoolInv' /\ EventInv' /\ ServeInv'
<1>1. /\ t.x \in CtxType /\ t.c \in ConnType /\ ReaderOK(t.x)
      /\ s.closes = 0
  BY DEF Handled, HandlerType, StartsFrom
<1>2. /\ ctx' = [ctx EXCEPT ![x] = t.x] /\ conn' = [conn EXCEPT ![c] = t.c] /\ made' = made
      /\ m_idleCtxs' = m_idleCtxs \o [i \in 1..t.closes |-> x]
  BY DEF Apply
<1>3. /\ ctx'[x] = t.x /\ conn'[c] = t.c
      /\ \A y \in Ctxs : y # x => ctx'[y] = ctx[y]
      /\ \A b \in Conns : b # c => conn'[b] = conn[b]
  BY <1>2 DEF TypeInv
<1>4. TypeInv'
  BY <1>1, <1>2, <1>3 DEF TypeInv
<1>5. InUse(x) /\ ctx[x].m_sfd = s.x.m_sfd /\ ctx[x].rdEvent /\ s.x.rdEvent
  BY DEF Serves, StartsFrom, EventInv
<1>6. CASE IsServed(s, t)
  <2>1. t.closes = 0 /\ t.x.m_sfd = ctx[x].m_sfd /\ t.x.rdEvent
    BY <1>1, <1>5, <1>6 DEF IsServed
  <2>2. t.c.fd = conn[c].fd /\ t.c.state = conn[c].state
    BY <1>6 DEF IsServed, StartsFrom
  <2>3. m_idleCtxs' = m_idleCtxs
    <3>1. [i \in 1..0 |-> x] = <<>>
      OBVIOUS
    <3>2. m_idleCtxs \in Seq(Ctxs)
      BY DEF PoolInv
    <3> QED
      BY <1>2, <2>1, <3>1, <3>2, ConcatEmptySeq
  <2>4. \A y \in Ctxs : (ctx[y].m_sfd)' = ctx[y].m_sfd /\ (InUse(y)' <=> InUse(y))
    BY <1>3, <2>1 DEF InUse
  <2>5. PoolInv'
    BY <1>2, <2>3, <2>4 DEF PoolInv
  <2>6. EventInv'
    BY <1>3, <1>5, <2>1, <2>4 DEF EventInv
  <2>7. \A y \in Ctxs, b \in Conns : Serves(y, b)' <=> Serves(y, b)
    BY <1>3, <2>2, <2>4 DEF Serves
  <2>8. \A b \in Conns : (conn[b].state = "new")' => (conn[b] = NewConn)'
    BY <1>3, <2>2 DEF ServeInv, Serves
  <2>9. ServeInv'
    BY <2>4, <2>7, <2>8 DEF ServeInv
  <2> QED
    BY <1>4, <2>5, <2>6, <2>9
<1>7. CASE IsClosed(s, t)
  <2>1. /\ t.closes = 1 /\ t.x.m_sfd = INVALID_SOCKET /\ ~t.x.rdEvent /\ ~t.x.wrEvent
        /\ t.c.state = "closed"
    BY <1>1, <1>7 DEF IsClosed
  <2>2. m_idleCtxs \in Seq(Ctxs) /\ Len(m_idleCtxs) \in Nat
    BY DEF PoolInv
  <2>3. m_idleCtxs' = Append(m_idleCtxs, x)
    <3>1. [i \in 1..1 |-> x] = <<x>>
      OBVIOUS
    <3> QED
      BY <1>2, <2>1, <2>2, <3>1
  <2>4. /\ m_idleCtxs' \in Seq(Ctxs) /\ Len(m_idleCtxs') = Len(m_idleCtxs) + 1
        /\ \A i \in 1..Len(m_idleCtxs) : m_idleCtxs'[i] = m_idleCtxs[i]
        /\ m_idleCtxs'[Len(m_idleCtxs) + 1] = x
    BY <2>2, <2>3
  <2>5. ~InUse(x)' /\ \A y \in Ctxs : y # x => (InUse(y)' <=> InUse(y))
    BY <1>3, <2>1 DEF InUse
  <2>6. \A i \in 1..Len(m_idleCtxs) : m_idleCtxs[i] # x
    BY <1>5 DEF PoolInv
  <2>7. PoolInv'
    <3>1. made' \in Nat /\ made' <= NumCtxs /\ m_idleCtxs' \in Seq(Ctxs)
      BY <1>2, <2>4 DEF PoolInv
    <3>2. \A i, j \in 1..Len(m_idleCtxs') : m_idleCtxs'[i] = m_idleCtxs'[j] => i = j
      BY <2>2, <2>4, <2>6 DEF PoolInv
    <3>3. \A i \in 1..Len(m_idleCtxs') : m_idleCtxs'[i] <= made'
      <4> TAKE i \in 1..Len(m_idleCtxs')
      <4>1. x <= made
        BY <1>5 DEF PoolInv
      <4>2. CASE i = Len(m_idleCtxs) + 1
        BY <1>2, <2>4, <4>1, <4>2
      <4>3. CASE i # Len(m_idleCtxs) + 1
        <5>1. i \in 1..Len(m_idleCtxs)
          BY <2>2, <2>4, <4>3
        <5>2. m_idleCtxs'[i] = m_idleCtxs[i]
          BY <2>4, <5>1
        <5> QED
          BY <1>2, <5>1, <5>2 DEF PoolInv
      <4> QED
        BY <4>2, <4>3
    <3>4. \A y \in Ctxs : InUse(y)' <=> /\ y <= made'
                                        /\ \A i \in 1..Len(m_idleCtxs') : m_idleCtxs'[i] # y
      <4> TAKE y \in Ctxs
      <4>1. CASE y = x
        BY <2>2, <2>4, <2>5, <4>1
      <4>2. CASE y # x
        <5>1. (\A i \in 1..Len(m_idleCtxs') : m_idleCtxs'[i] # y)
                 <=> \A i \in 1..Len(m_idleCtxs) : m_idleCtxs[i] # y
          BY <2>2, <2>4, <4>2
        <5>2. InUse(y) <=> /\ y <= made
                           /\ \A i \in 1..Len(m_idleCtxs) : m_idleCtxs[i] # y
          BY DEF PoolInv
        <5> QED
          BY <1>2, <2>5, <4>2, <5>1, <5>2
      <4> QED
        BY <4>1, <4>2
    <3> QED
      BY <3>1, <3>2, <3>3, <3>4 DEF PoolInv
  <2>8. EventInv'
    BY <1>3, <2>1, <2>5 DEF EventInv
  <2>9. ServeInv'
    <3>1. \A y \in Ctxs : InUse(y)' => y # x /\ InUse(y) /\ ctx'[y] = ctx[y]
      BY <1>3, <2>5
    <3>2. \A y \in Ctxs, b \in Conns : Serves(y, b)' => Serves(y, b)
      BY <1>3, <2>1, <3>1 DEF Serves
    <3>3. \A y \in Ctxs, b \in Conns : InUse(y)' /\ Serves(y, b) => Serves(y, b)'
      BY <1>3, <2>5, <3>1 DEF Serves, ServeInv
    <3>4. \A b \in Conns : (conn[b].state = "new")' => (conn[b] = NewConn)'
      BY <1>3, <2>1 DEF ServeInv
    <3>5. \A y \in Ctxs : InUse(y)' => \E b \in Conns : Serves(y, b)'
      BY <3>1, <3>3 DEF ServeInv
    <3>6. \A y, z \in Ctxs : InUse(y)' /\ InUse(z)' /\ (ctx[y].m_sfd)' = (ctx[z].m_sfd)' => y = z
      BY <3>1 DEF ServeInv
    <3>7. \A y \in Ctxs : \A a, b \in Conns : Serves(y, a)' /\ Serves(y, b)' => a = b
      BY <3>2 DEF ServeInv
    <3> QED
      BY <3>4, <3>5, <3>6, <3>7 DEF ServeInv
  <2> QED
    BY <1>4, <2>7, <2>8, <2>9
<1> QED
  BY <1>6, <1>7 DEF Handled

(* read_socket() once the descriptor is adopted, and write_socket().         *)
ReadOutcome(s, bytes, t) ==
    \/ GivesUp(s, t)
    \/ s.x.sockState = "RECV_FRAMING" /\ (s.x.in = <<>> => ReadsHeader(s, bytes, t))
    \/ s.x.sockState = "RECV" /\ ReadsBody(s, bytes, t)
WriteOutcome(s, t) ==
    GivesUp(s, t) \/ (Sends(s, t) /\ s.x.out # <<>>)

(* Closing the connection is an outcome of every handler.                    *)
LEMMA CloseOutcome ==
  ASSUME NEW s \in HandlerType, ReaderOK(s.x)
  PROVE  Handled(s, close_connection(s)) /\ GivesUp(s, close_connection(s))
<1> DEFINE t == close_connection(s)
<1>1. /\ t \in HandlerType /\ IsClosed(s, t) /\ SameReader(s, t) /\ SameFrames(s, t)
  BY CloseResult
<1> HIDE DEF t
<1>2. GivesUp(s, t) /\ t.c.frames = s.c.frames /\ s.c.spoilt \subseteq t.c.spoilt
  BY <1>1 DEF GivesUp, SameFrames
<1>3. ReaderOK(t.x)
  BY <1>1 DEF SameReader, ReaderOK
<1> QED
  BY <1>1, <1>2, <1>3 DEF Handled, t

LEMMA Starts ==
  ASSUME TypeInv, NEW x \in Ctxs, NEW c \in Conns, NEW bytes \in Bytes
  PROVE  /\ StartsFrom(x, c, <<>>, [x |-> ctx[x], c |-> conn[c], closes |-> 0])
         /\ StartsFrom(x, c, bytes, [x |-> Adopt(ctx[x]),
                                     c |-> [conn[c] EXCEPT !.read = @ + Len(bytes)], closes |-> 0])
<1>1. ctx[x] \in CtxType /\ conn[c] \in ConnType
  BY DEF TypeInv
<1>2. conn[c].read \in Nat
  BY <1>1 DEF ConnType
<1>3. StartsFrom(x, c, <<>>, [x |-> ctx[x], c |-> conn[c], closes |-> 0])
  <2> DEFINE s == [x |-> ctx[x], c |-> conn[c], closes |-> 0]
  <2>1. s \in HandlerType /\ s.x = ctx[x] /\ s.c = conn[c] /\ s.closes = 0
    BY <1>1 DEF HandlerType
  <2>2. s.c.read = conn[c].read + Len(<<>>)
    BY <1>2, <2>1
  <2> HIDE DEF s
  <2>3. StartsFrom(x, c, <<>>, s)
    BY <2>1, <2>2 DEF StartsFrom
  <2> QED
    BY <2>3 DEF s
<1>4. StartsFrom(x, c, bytes, [x |-> Adopt(ctx[x]),
                               c |-> [conn[c] EXCEPT !.read = @ + Len(bytes)], closes |-> 0])
  <2> DEFINE y == Adopt(ctx[x])
             b == [conn[c] EXCEPT !.read = @ + Len(bytes)]
             s == [x |-> y, c |-> b, closes |-> 0]
  <2>1. conn[c].read + Len(bytes) \in Nat
    BY <1>2 DEF Bytes
  <2>2. b \in ConnType
    BY <1>1, <2>1 DEF ConnType
  <2>3. y \in CtxType
    BY <1>1 DEF Adopt, CtxType
  <2>4. /\ y.m_sfd = ctx[x].m_sfd /\ y.rdEvent = ctx[x].rdEvent /\ y.wrEvent = ctx[x].wrEvent
        /\ y.sockState = ctx[x].sockState /\ y.appState = ctx[x].appState
        /\ y.m_readWant = ctx[x].m_readWant /\ y.reserve = ctx[x].reserve
        /\ y.in = ctx[x].in /\ y.out = ctx[x].out
    BY <1>1 DEF Adopt, CtxType
  <2>5. /\ b.fd = conn[c].fd /\ b.state = conn[c].state /\ b.sent = conn[c].sent
        /\ b.frames = conn[c].frames /\ b.delivered = conn[c].delivered
        /\ b.got = conn[c].got /\ b.spoilt = conn[c].spoilt
        /\ b.read = conn[c].read + Len(bytes)
    BY <1>1 DEF ConnType
  <2> HIDE DEF y, b
  <2>6. s \in HandlerType /\ s.x = y /\ s.c = b /\ s.closes = 0
    BY <2>2, <2>3 DEF HandlerType
  <2> HIDE DEF s
  <2>7. StartsFrom(x, c, bytes, s)
    BY <2>4, <2>5, <2>6 DEF StartsFrom
  <2> QED
    BY <2>7 DEF s, y, b
<1> QED
  BY <1>3, <1>4

(* recv() returns the next bytes of the connection the ctx serves, and no    *)
(* more than it was asked for, unless the length was negative.               *)
LEMMA RecvReads ==
  ASSUME TypeInv, NEW c \in Conns, NEW len \in Int, NEW bytes \in Received({c}, len)
  PROVE  NextBytes(c, bytes) /\ (bytes = <<>> \/ len < 0 \/ Len(bytes) <= len)
<1>1. conn[c] \in ConnType
  BY DEF TypeInv
<1>2. conn[c].sent \in Bytes /\ conn[c].read \in Nat
  BY <1>1 DEF ConnType
<1> DEFINE left == Len(conn[c].sent) - conn[c].read
           most == IF len < 0 THEN left ELSE Min({len, left})
<1>3. left \in Int /\ Len(conn[c].sent) \in Nat
  BY <1>2 DEF Bytes
<1>4. \/ bytes = <<>>
      \/ \E k \in 1..most :
            bytes = SubSeq(conn[c].sent, conn[c].read + 1, conn[c].read + k)
  <2>1. bytes \in Unread(c, len) \/ bytes = <<>>
    BY DEF Received
  <2> QED
    BY <2>1 DEF Unread
<1>5. CASE bytes = <<>>
  BY <1>5, Values DEF NextBytes
<1>6. CASE \E k \in 1..most :
              bytes = SubSeq(conn[c].sent, conn[c].read + 1, conn[c].read + k)
  <2>1. PICK k \in 1..most :
               bytes = SubSeq(conn[c].sent, conn[c].read + 1, conn[c].read + k)
    BY <1>6
  <2>2. Min({len, left}) = IF len <= left THEN len ELSE left
    BY <1>3, MinOfTwo
  <2>3. k \in Nat /\ k >= 1 /\ (len < 0 \/ k <= len) /\ k <= left
    BY <1>3, <2>2
  <2>4. /\ bytes \in Bytes /\ Len(bytes) = k
        /\ \A j \in 1..k : bytes[j] = conn[c].sent[conn[c].read + j]
    <3> DEFINE sent == conn[c].sent
               read == conn[c].read
    <3>1. sent \in Seq(Byte) /\ read \in Nat /\ read + k <= Len(sent)
      BY <1>2, <1>3, <2>3 DEF Bytes
    <3> HIDE DEF sent, read
    <3>2. /\ SubSeq(sent, read + 1, read + k) \in Seq(Byte)
          /\ Len(SubSeq(sent, read + 1, read + k)) = k
          /\ \A j \in 1..k : SubSeq(sent, read + 1, read + k)[j] = sent[read + j]
      BY <2>3, <3>1, SMTT(30)
    <3> QED
      BY <2>1, <3>2 DEF Bytes, sent, read
  <2> QED
    BY <1>2, <1>3, <2>3, <2>4 DEF NextBytes
<1> QED
  BY <1>4, <1>5, <1>6

(* What recv() is asked for, and what that leaves for read_data().           *)
LEMMA ReadSocketOutcome ==
  ASSUME TypeInv, NEW x \in Ctxs, NEW c \in Conns, NEW bytes, NextBytes(c, bytes),
         bytes = <<>> \/ Asked(ctx[x]) < 0 \/ Len(bytes) <= Asked(ctx[x]), NEW w \in Int, w >= -1, NEW d
  PROVE  \E s : /\ StartsFrom(x, c, bytes, s)
                /\ Handled(s, read_socket(x, c, bytes, w, d))
                /\ ReadOutcome(s, bytes, read_socket(x, c, bytes, w, d))
<1> DEFINE s == [x |-> Adopt(ctx[x]), c |-> [conn[c] EXCEPT !.read = @ + Len(bytes)], closes |-> 0]
           t == read_socket(x, c, bytes, w, d)
<1>1. bytes \in Bytes /\ Len(bytes) \in Nat
  <2>1. bytes \in Bytes
    BY DEF NextBytes
  <2> QED
    BY <2>1 DEF Bytes
<1>2. StartsFrom(x, c, bytes, s)
  BY <1>1, Starts
<1>3. t = IF ctx[x].sockState = "RECV_FRAMING" THEN read_framing(s, bytes, w, d)
          ELSE read_data(s, bytes, w, d)
  BY DEF read_socket
<1> HIDE DEF s, t
<1>4. s \in HandlerType /\ ReaderOK(s.x) /\ s.x.sockState = ctx[x].sockState
      /\ s.x.in = ctx[x].in /\ s.x.m_readWant = ctx[x].m_readWant
  BY <1>2 DEF StartsFrom, TypeInv, ReaderOK
<1>5. s.x.sockState \in SockStates /\ s.x.in \in Bytes /\ s.x.m_readWant \in Wants
  BY <1>4 DEF HandlerType, CtxType
<1>6. CASE s.x.sockState = "RECV_FRAMING"
  <2>1. t = read_framing(s, bytes, w, d)
    BY <1>3, <1>4, <1>6
  <2>2. Len(bytes) <= 2
    BY <1>1, <1>4, <1>6 DEF Asked
  <2>3. Handled(s, t) /\ (s.x.in = <<>> => GivesUp(s, t) \/ ReadsHeader(s, bytes, t))
    BY <1>1, <1>4, <1>6, <2>1, <2>2, ReadFramingResult
  <2>4. ReadOutcome(s, bytes, t)
    BY <1>6, <2>3 DEF ReadOutcome
  <2> QED
    BY <1>2, <2>3, <2>4 DEF t
<1>7. CASE s.x.sockState = "RECV"
  <2>1. t = read_data(s, bytes, w, d)
    BY <1>3, <1>4, <1>7
  <2>2. Asked(ctx[x]) = s.x.m_readWant - Len(s.x.in)
    BY <1>4, <1>7 DEF Asked
  <2>3. Len(s.x.in) \in Nat /\ s.x.m_readWant \in Nat
    BY <1>5 DEF Bytes, Wants
  <2>4. \/ bytes = <<>> \/ Len(s.x.in) >= s.x.m_readWant
        \/ Len(s.x.in) + Len(bytes) <= s.x.m_readWant
    BY <1>1, <2>2, <2>3
  <2>5. Handled(s, t) /\ (GivesUp(s, t) \/ ReadsBody(s, bytes, t))
    BY <1>1, <1>4, <1>7, <2>1, <2>4, ReadDataResult
  <2>6. ReadOutcome(s, bytes, t)
    BY <1>7, <2>5 DEF ReadOutcome
  <2> QED
    BY <1>2, <2>5, <2>6 DEF t
<1> QED
  BY <1>5, <1>6, <1>7 DEF SockStates

(* A read event: the connection of the ctx is closed, or read from.          *)
ReadStep(x, c) ==
    \E bytes, s, t : /\ NextBytes(c, bytes) /\ StartsFrom(x, c, bytes, s)
                     /\ Handled(s, t) /\ ReadOutcome(s, bytes, t) /\ Apply(x, c, t)
WriteStep(x, c) ==
    \E s, t : /\ StartsFrom(x, c, <<>>, s)
              /\ Handled(s, t) /\ WriteOutcome(s, t) /\ Apply(x, c, t)

LEMMA ReadEventStep ==
  ASSUME TypeInv, EventInv, ServeInv, NEW x \in Ctxs, ReadEvent(x)
  PROVE  Serves(x, ServedBy(x)) /\ ServedBy(x) \in Conns /\ ReadStep(x, ServedBy(x))
<1> DEFINE c == ServedBy(x)
<1>1. InUse(x)
  BY DEF ReadEvent, EventInv
<1>2. c \in Conns /\ Serves(x, c) /\ ConnsOf(ctx[x].m_sfd) = {c}
  BY <1>1, ServedOne
<1>3. CASE OtherSocket(ctx[x])
  <2> DEFINE s == [x |-> ctx[x], c |-> conn[c], closes |-> 0]
  <2>1. Apply(x, c, close_connection(s))
    BY <1>3 DEF ReadEvent
  <2>2. StartsFrom(x, c, <<>>, s)
    BY <1>2, Starts, Values
  <2> HIDE DEF s, c
  <2>3. s \in HandlerType /\ ReaderOK(s.x)
    BY <2>2 DEF StartsFrom, TypeInv, ReaderOK
  <2>4. Handled(s, close_connection(s)) /\ ReadOutcome(s, <<>>, close_connection(s))
    BY <2>3, CloseOutcome DEF ReadOutcome
  <2>5. NextBytes(c, <<>>)
    BY Values DEF NextBytes
  <2>6. ReadStep(x, c)
    BY <2>1, <2>2, <2>4, <2>5 DEF ReadStep
  <2> QED
    BY <1>2, <2>6 DEF c
<1>4. CASE ~OtherSocket(ctx[x])
  <2>1. Adopt(ctx[x]).m_socket = ctx[x].m_sfd
    <3>1. ctx[x] \in CtxType
      BY DEF TypeInv
    <3> QED
      BY <1>4, <3>1 DEF OtherSocket, Adopt, CtxType
  <2>2. PICK bytes \in Received({c}, Asked(ctx[x])), w \in (IF conn[c].gone THEN -1 ELSE 0)..Max(Lengths),
             d \in BOOLEAN : Apply(x, c, read_socket(x, c, bytes, w, d))
    BY <1>2, <1>4, <2>1 DEF ReadEvent
  <2>3. w \in Int /\ w >= -1
    OBVIOUS
  <2>4. Asked(ctx[x]) \in Int
    <3>1. ctx[x].m_readWant \in Wants /\ ctx[x].in \in Bytes
      BY DEF TypeInv, CtxType
    <3>2. ctx[x].m_readWant \in Nat /\ Len(ctx[x].in) \in Nat
      BY <3>1 DEF Wants, Bytes
    <3> QED
      BY <3>2 DEF Asked
  <2> HIDE DEF c
  <2>5. NextBytes(c, bytes) /\ (bytes = <<>> \/ Asked(ctx[x]) < 0 \/ Len(bytes) <= Asked(ctx[x]))
    BY <1>2, <2>4, RecvReads
  <2>6. PICK s : /\ StartsFrom(x, c, bytes, s)
                 /\ Handled(s, read_socket(x, c, bytes, w, d))
                 /\ ReadOutcome(s, bytes, read_socket(x, c, bytes, w, d))
    BY <1>2, <2>3, <2>5, ReadSocketOutcome
  <2>7. ReadStep(x, c)
    BY <2>2, <2>5, <2>6 DEF ReadStep
  <2> QED
    BY <1>2, <2>7 DEF c
<1> QED
  BY <1>3, <1>4

LEMMA WriteEventStep ==
  ASSUME TypeInv, EventInv, ServeInv, NEW x \in Ctxs, WriteEvent(x)
  PROVE  Serves(x, ServedBy(x)) /\ ServedBy(x) \in Conns /\ WriteStep(x, ServedBy(x))
<1> DEFINE c == ServedBy(x)
           s == [x |-> ctx[x], c |-> conn[c], closes |-> 0]
<1>1. InUse(x)
  BY DEF WriteEvent, EventInv
<1>2. c \in Conns /\ Serves(x, c)
  BY <1>1, ServedOne
<1>3. StartsFrom(x, c, <<>>, s)
  BY <1>2, Starts, Values
<1>4. \/ Apply(x, c, close_connection(s))
      \/ \E n \in 0..Len(ctx[x].out) : Apply(x, c, wr_transition(s, n))
  BY DEF WriteEvent
<1> HIDE DEF c, s
<1>5. s \in HandlerType /\ ReaderOK(s.x) /\ s.x.out = ctx[x].out
  BY <1>3 DEF StartsFrom, TypeInv, ReaderOK
<1>6. CASE Apply(x, c, close_connection(s))
  <2>1. Handled(s, close_connection(s)) /\ WriteOutcome(s, close_connection(s))
    BY <1>5, CloseOutcome DEF WriteOutcome
  <2>2. WriteStep(x, c)
    BY <1>3, <1>6, <2>1 DEF WriteStep
  <2> QED
    BY <1>2, <2>2 DEF c
<1>7. CASE \E n \in 0..Len(ctx[x].out) : Apply(x, c, wr_transition(s, n))
  <2>1. PICK n \in 0..Len(s.x.out) : Apply(x, c, wr_transition(s, n))
    BY <1>5, <1>7
  <2>2. Handled(s, wr_transition(s, n)) /\ WriteOutcome(s, wr_transition(s, n))
    BY <1>5, WriteResult DEF WriteOutcome
  <2>3. WriteStep(x, c)
    BY <1>3, <2>1, <2>2 DEF WriteStep
  <2> QED
    BY <1>2, <2>3 DEF c
<1> QED
  BY <1>4, <1>6, <1>7

(* The ctx that get_clientctx() hands out.                                   *)
Fresh(x, c, fd) ==
    /\ x \in Ctxs /\ ~InUse(x)
    /\ ctx' = [ctx EXCEPT ![x] = init(@, fd)]
    /\ conn' = [conn EXCEPT ![c] = [NewConn EXCEPT !.fd = fd, !.state = "open",
                   !.spoilt = IF ctx[x].in \o ctx[x].out = <<>> THEN {} ELSE {"stale"}]]
    /\ \/ /\ m_idleCtxs = <<>> /\ x = made + 1
          /\ made' = x /\ m_idleCtxs' = <<>>
       \/ /\ m_idleCtxs # <<>> /\ x = Head(m_idleCtxs)
          /\ made' = made /\ m_idleCtxs' = Tail(m_idleCtxs)

LEMMA GetsFresh ==
  ASSUME TypeInv, PoolInv, ServeInv, NEW c \in Conns, NEW fd \in Fds, CreateConnection(c, fd)
  PROVE  \E x : Fresh(x, c, fd)
<1> DEFINE x == IF m_idleCtxs = <<>> THEN made + 1 ELSE Head(m_idleCtxs)
           stale == IF ctx[x].in \o ctx[x].out = <<>> THEN {} ELSE {"stale"}
<1>1. x \in Ctxs /\ conn[c] = NewConn
  BY DEF CreateConnection, ServeInv
<1>2. ~InUse(x)
  <2>1. CASE m_idleCtxs = <<>>
    BY <1>1, <2>1 DEF PoolInv
  <2>2. CASE m_idleCtxs # <<>>
    <3>1. x = m_idleCtxs[1] /\ 1 \in 1..Len(m_idleCtxs)
      BY <2>2 DEF PoolInv
    <3> QED
      BY <1>1, <3>1 DEF PoolInv
  <2> QED
    BY <2>1, <2>2
<1>3. ctx' = [ctx EXCEPT ![x] = init(@, fd)]
  BY DEF CreateConnection
<1>4. conn' = [conn EXCEPT ![c].fd = fd, ![c].state = "open", ![c].spoilt = stale]
  BY DEF CreateConnection
<1>5. \/ m_idleCtxs = <<>> /\ x = made + 1 /\ made' = x /\ m_idleCtxs' = <<>>
      \/ m_idleCtxs # <<>> /\ x = Head(m_idleCtxs) /\ made' = made /\ m_idleCtxs' = Tail(m_idleCtxs)
  BY DEF CreateConnection
<1>6. conn' = [conn EXCEPT ![c] = [NewConn EXCEPT !.fd = fd, !.state = "open", !.spoilt = stale]]
  <2> HIDE DEF stale
  <2> QED
    BY <1>1, <1>4 DEF TypeInv, NewConn
<1>7. Fresh(x, c, fd)
  BY <1>1, <1>2, <1>3, <1>5, <1>6 DEF Fresh
<1> QED
  BY <1>7

(* ClientCtx::init() arms the read event and keeps the buffers.              *)
LEMMA InitResult ==
  ASSUME NEW x \in CtxType, NEW fd \in Fds
  PROVE  LET y == init(x, fd)
         IN  /\ y \in CtxType /\ y.m_sfd = fd /\ y.rdEvent /\ y.sockState = "RECV_FRAMING"
             /\ y.in = x.in /\ y.out = x.out
<1> DEFINE z == [x EXCEPT !.m_sfd = fd, !.m_flags = "0", !.sockState = "RECV_FRAMING",
                          !.m_readWant = 0]
<1>1. fd \in Sockets
  BY DEF Sockets
<1>2. z \in CtxType
  BY <1>1, Values DEF CtxType
<1>3. /\ z.m_sfd = fd /\ z.m_flags = "0" /\ z.sockState = "RECV_FRAMING"
      /\ z.in = x.in /\ z.out = x.out
  BY DEF CtxType
<1>4. init(x, fd) = set_read_ctxnew(z)
  BY DEF init
<1> HIDE DEF z
<1> QED
  BY <1>2, <1>3, <1>4, SetReadResult

LEMMA FreshKeepsPool ==
  ASSUME TypeInv, PoolInv, EventInv, ServeInv, NEW c \in Conns, NEW fd \in Fds,
         CreateConnection(c, fd)
  PROVE  TypeInv' /\ PoolInv' /\ EventInv' /\ ServeInv'
<1>1. PICK x : Fresh(x, c, fd)
  BY GetsFresh
<1> DEFINE y == init(ctx[x], fd)
           b == [NewConn EXCEPT !.fd = fd, !.state = "open",
                   !.spoilt = IF ctx[x].in \o ctx[x].out = <<>> THEN {} ELSE {"stale"}]
<1>2. /\ x \in Ctxs /\ ~InUse(x) /\ ctx' = [ctx EXCEPT ![x] = y] /\ conn' = [conn EXCEPT ![c] = b]
  BY <1>1 DEF Fresh
<1>3. y \in CtxType /\ y.m_sfd = fd /\ y.rdEvent /\ y.sockState = "RECV_FRAMING"
  BY <1>2, InitResult DEF TypeInv
<1>4. b \in ConnType /\ b.fd = fd /\ b.state = "open"
  <2>1. fd \in Sockets /\ {"stale"} \in Spoils
    BY DEF Sockets, Spoils
  <2> QED
    BY <2>1, Values DEF ConnType, NewConn
<1> HIDE DEF y, b
<1>5. /\ ctx'[x] = y /\ \A z \in Ctxs : z # x => ctx'[z] = ctx[z]
      /\ conn'[c] = b /\ \A a \in Conns : a # c => conn'[a] = conn[a]
  BY <1>2 DEF TypeInv
<1>6. fd # INVALID_SOCKET /\ conn[c].state = "new" /\ ConnsOf(fd) = {}
  BY FrameAssumption DEF FrameAssumption, INVALID_SOCKET, CreateConnection
<1>7. TypeInv'
  BY <1>2, <1>3, <1>4, <1>5 DEF TypeInv, ReaderOK
<1>8. InUse(x)' /\ \A z \in Ctxs : z # x => (InUse(z)' <=> InUse(z))
  BY <1>3, <1>5, <1>6 DEF InUse
<1>9. EventInv'
  BY <1>3, <1>5, <1>8 DEF EventInv
<1>10. PoolInv'
  <2>1. CASE m_idleCtxs = <<>> /\ x = made + 1 /\ made' = x /\ m_idleCtxs' = <<>>
    <3>1. x \in 1..NumCtxs /\ made \in Nat
      BY <1>2 DEF Ctxs, PoolInv
    <3>2. made' \in Nat /\ made' <= NumCtxs /\ m_idleCtxs' \in Seq(Ctxs) /\ Len(m_idleCtxs') = 0
      BY <2>1, <3>1, FrameAssumption DEF FrameAssumption
    <3>3. \A z \in Ctxs : InUse(z)' <=> z <= made'
      <4> TAKE z \in Ctxs
      <4>1. z \in Int
        BY DEF Ctxs
      <4>2. InUse(z) <=> z <= made
        BY <2>1 DEF PoolInv
      <4> QED
        BY <1>8, <2>1, <3>1, <4>1, <4>2
    <3> QED
      BY <3>2, <3>3 DEF PoolInv
  <2>2. CASE m_idleCtxs # <<>> /\ x = Head(m_idleCtxs) /\ made' = made /\ m_idleCtxs' = Tail(m_idleCtxs)
    <3> DEFINE n == Len(m_idleCtxs)
    <3>1. /\ m_idleCtxs' \in Seq(Ctxs) /\ n \in Nat \ {0} /\ Len(m_idleCtxs') = n - 1
          /\ \A i \in 1..n - 1 : m_idleCtxs'[i] = m_idleCtxs[i + 1]
          /\ x = m_idleCtxs[1]
      BY <2>2 DEF PoolInv
    <3>2. \A i, j \in 1..Len(m_idleCtxs') : m_idleCtxs'[i] = m_idleCtxs'[j] => i = j
      <4> TAKE i, j \in 1..Len(m_idleCtxs')
      <4>1. i + 1 \in 1..n /\ j + 1 \in 1..n /\ i \in 1..n - 1 /\ j \in 1..n - 1
        BY <3>1
      <4>2. m_idleCtxs[i + 1] = m_idleCtxs[j + 1] => i + 1 = j + 1
        BY <4>1 DEF PoolInv
      <4> QED
        BY <3>1, <4>1, <4>2
    <3>3. \A i \in 1..Len(m_idleCtxs') : m_idleCtxs'[i] <= made'
      <4> TAKE i \in 1..Len(m_idleCtxs')
      <4>1. i + 1 \in 1..n /\ i \in 1..n - 1
        BY <3>1
      <4> QED
        BY <2>2, <3>1, <4>1 DEF PoolInv
    <3>4. \A z \in Ctxs : (\A i \in 1..n : m_idleCtxs[i] # z)
                             <=> z # x /\ \A i \in 1..Len(m_idleCtxs') : m_idleCtxs'[i] # z
      <4> TAKE z \in Ctxs
      <4>1. ASSUME \A i \in 1..n : m_idleCtxs[i] # z
            PROVE  z # x /\ \A i \in 1..Len(m_idleCtxs') : m_idleCtxs'[i] # z
        <5>1. z # x
          BY <3>1, <4>1
        <5>2. ASSUME NEW i \in 1..Len(m_idleCtxs') PROVE m_idleCtxs'[i] # z
          <6>1. i + 1 \in 1..n /\ i \in 1..n - 1
            BY <3>1
          <6> QED
            BY <3>1, <4>1, <6>1
        <5> QED
          BY <5>1, <5>2
      <4>2. ASSUME z # x, \A i \in 1..Len(m_idleCtxs') : m_idleCtxs'[i] # z
            PROVE  \A i \in 1..n : m_idleCtxs[i] # z
        <5> TAKE i \in 1..n
        <5>1. CASE i = 1
          BY <3>1, <4>2, <5>1
        <5>2. CASE i # 1
          <6>1. PICK k \in 1..n - 1 : i = k + 1
            BY <3>1, <5>2
          <6> QED
            BY <3>1, <4>2, <6>1
        <5> QED
          BY <5>1, <5>2
      <4> QED
        BY <4>1, <4>2
    <3>5. \A i \in 1..Len(m_idleCtxs') : m_idleCtxs'[i] # x
      <4> TAKE i \in 1..Len(m_idleCtxs')
      <4>1. i + 1 \in 1..n /\ i \in 1..n - 1 /\ 1 \in 1..n /\ i + 1 # 1
        BY <3>1
      <4> QED
        BY <3>1, <4>1 DEF PoolInv
    <3>6. x <= made
      <4>1. 1 \in 1..n
        BY <3>1
      <4> QED
        BY <3>1, <4>1 DEF PoolInv
    <3>7. \A z \in Ctxs : InUse(z)' <=> /\ z <= made'
                                        /\ \A i \in 1..Len(m_idleCtxs') : m_idleCtxs'[i] # z
      <4> TAKE z \in Ctxs
      <4>1. CASE z = x
        BY <1>8, <2>2, <3>5, <3>6, <4>1
      <4>2. CASE z # x
        <5>1. InUse(z) <=> z <= made /\ \A i \in 1..n : m_idleCtxs[i] # z
          BY DEF PoolInv
        <5> QED
          BY <1>8, <2>2, <3>4, <4>2, <5>1
      <4> QED
        BY <4>1, <4>2
    <3>8. made' \in Nat /\ made' <= NumCtxs
      BY <2>2 DEF PoolInv
    <3> QED
      BY <3>1, <3>2, <3>3, <3>7, <3>8 DEF PoolInv
  <2> QED
    BY <1>1, <2>1, <2>2 DEF Fresh
<1>11. ServeInv'
  <2>1. \A z \in Ctxs : InUse(z) => ctx[z].m_sfd # fd
    <3> SUFFICES ASSUME NEW z \in Ctxs, InUse(z), ctx[z].m_sfd = fd PROVE FALSE
      OBVIOUS
    <3>1. PICK a \in Conns : Serves(z, a)
      BY DEF ServeInv
    <3> QED
      BY <1>6, <3>1 DEF Serves, ConnsOf
  <2>2. Serves(x, c)' /\ \A a \in Conns : Serves(x, a)' => a = c
    BY <1>3, <1>4, <1>5, <1>6, <1>8 DEF Serves, ConnsOf
  <2>3. \A z \in Ctxs : z # x => \A a \in Conns : Serves(z, a)' <=> Serves(z, a)
    <3> TAKE z \in Ctxs
    <3> HAVE z # x
    <3> TAKE a \in Conns
    <3>1. CASE a = c
      BY <1>4, <1>5, <1>6, <1>8, <2>1, <3>1 DEF Serves
    <3>2. CASE a # c
      BY <1>5, <1>8, <3>2 DEF Serves
    <3> QED
      BY <3>1, <3>2
  <2>4. \A z \in Ctxs : InUse(z)' => \E a \in Conns : Serves(z, a)'
    BY <1>8, <2>2, <2>3 DEF ServeInv
  <2>5. \A z \in Ctxs : \A a, e \in Conns : Serves(z, a)' /\ Serves(z, e)' => a = e
    BY <2>2, <2>3 DEF ServeInv
  <2>6. \A z, v \in Ctxs : InUse(z)' /\ InUse(v)' /\ (ctx[z].m_sfd)' = (ctx[v].m_sfd)' => z = v
    BY <1>3, <1>5, <1>8, <2>1 DEF ServeInv
  <2>7. \A a \in Conns : (conn[a].state = "new")' => (conn[a] = NewConn)'
    BY <1>4, <1>5 DEF ServeInv
  <2> QED
    BY <2>4, <2>5, <2>6, <2>7 DEF ServeInv
<1> QED
  BY <1>7, <1>9, <1>10, <1>11

LEMMA LengthIsByte == \A n \in Lengths : n \in Byte
  BY FrameAssumption DEF FrameAssumption, Byte

(* A body is a sequence of bytes.                                            *)
LEMMA BodyType ==
  ASSUME NEW n \in Lengths, NEW v \in Nat
  PROVE  /\ [i \in 1..n |-> v % 256] \in Bytes /\ Len([i \in 1..n |-> v % 256]) = n
         /\ \A i \in 1..n : [j \in 1..n |-> v % 256][i] = v % 256
<1>1. n \in Nat
  BY LengthIsByte DEF Byte
<1>2. v % 256 \in Byte
  BY DEF Byte
<1> QED
  BY <1>1, <1>2 DEF Bytes

(* What the peer does to its connection.                                     *)
PeerSent(c, n, body) ==
    /\ body \in Bytes /\ Len(body) = n /\ n \in Byte
    /\ conn' = [conn EXCEPT ![c] = [conn[c] EXCEPT !.sent = @ \o <<0, n>> \o body,
                                                   !.frames = Append(@, body)]]

LEMMA PeerSendsBody ==
  ASSUME TypeInv, NEW c \in Conns, NEW n \in Lengths, PeerSends(c, n)
  PROVE  \E body : PeerSent(c, n, body)
<1> DEFINE body == [i \in 1..n |-> (10 * c + Len(conn[c].frames)) % 256]
<1>1. 10 * c + Len(conn[c].frames) \in Nat
  <2>1. conn[c].frames \in Frames /\ c \in 1..MaxConns
    BY DEF TypeInv, ConnType, Conns
  <2>2. Len(conn[c].frames) \in Nat /\ c \in Nat
    BY <2>1 DEF Frames
  <2>3. \A i, j \in Nat : 10 * i + j \in Nat
    OBVIOUS
  <2> QED
    BY <2>2, <2>3
<1>2. body \in Bytes /\ Len(body) = n
  BY <1>1, BodyType
<1>3. conn' = [conn EXCEPT ![c].sent = @ \o <<0, n>> \o body, ![c].frames = Append(@, body)]
  BY DEF PeerSends
<1> HIDE DEF body
<1>4. conn' = [conn EXCEPT ![c] = [conn[c] EXCEPT !.sent = @ \o <<0, n>> \o body,
                                                 !.frames = Append(@, body)]]
  BY <1>3 DEF TypeInv, ConnType
<1> QED
  BY <1>2, <1>4, LengthIsByte DEF PeerSent

LEMMA SentType ==
  ASSUME NEW sent \in Bytes, NEW n \in Byte, NEW body \in Bytes
  PROVE  /\ sent \o <<0, n>> \o body \in Bytes
         /\ Len(sent \o <<0, n>> \o body) = Len(sent) + 2 + Len(body)
<1>1. <<0, n>> \in Bytes /\ Len(<<0, n>>) = 2
  BY DEF Bytes, Byte
<1>2. sent \o <<0, n>> \in Bytes /\ Len(sent \o <<0, n>>) = Len(sent) + 2
  BY <1>1, BytesConcat
<1> QED
  BY <1>2, BytesConcat

(* A step of the peer leaves the server alone.                               *)
PeerStep(c, b) ==
    /\ conn' = [conn EXCEPT ![c] = b] /\ UNCHANGED <<ctx, made, m_idleCtxs>>
    /\ b \in ConnType /\ conn[c].state = "open" /\ b.state = "open" /\ b.fd = conn[c].fd
    /\ b.read = conn[c].read /\ b.delivered = conn[c].delivered /\ b.got = conn[c].got
    /\ b.spoilt = conn[c].spoilt

LEMMA PeerSendsStep ==
  ASSUME TypeInv, NEW c \in Conns, NEW n \in Lengths, PeerSends(c, n)
  PROVE  \E b, body : /\ PeerStep(c, b) /\ body \in Bytes /\ Len(body) = n /\ n \in Byte
                      /\ b.sent = conn[c].sent \o <<0, n>> \o body
                      /\ b.frames = Append(conn[c].frames, body)
<1>1. PICK body : PeerSent(c, n, body)
  BY PeerSendsBody
<1> DEFINE sent == conn[c].sent \o <<0, n>> \o body
           frames == Append(conn[c].frames, body)
           b == [conn[c] EXCEPT !.sent = sent, !.frames = frames]
<1>2. body \in Bytes /\ Len(body) = n /\ n \in Byte /\ conn' = [conn EXCEPT ![c] = b]
  BY <1>1 DEF PeerSent
<1>3. conn[c] \in ConnType
  BY DEF TypeInv
<1>4. sent \in Bytes /\ frames \in Frames
  <2>1. conn[c].sent \in Bytes /\ conn[c].frames \in Frames
    BY <1>3 DEF ConnType
  <2>2. sent \in Bytes
    BY <1>2, <2>1, SentType
  <2>3. frames \in Frames
    BY <1>2, <2>1 DEF Frames
  <2> QED
    BY <2>2, <2>3
<1> HIDE DEF sent, frames
<1>5. /\ b \in ConnType /\ b.sent = sent /\ b.frames = frames /\ b.state = conn[c].state
      /\ b.fd = conn[c].fd /\ b.read = conn[c].read /\ b.delivered = conn[c].delivered
      /\ b.got = conn[c].got /\ b.spoilt = conn[c].spoilt
  BY <1>3, <1>4 DEF ConnType
<1>6. conn[c].state = "open" /\ UNCHANGED <<ctx, made, m_idleCtxs>>
  BY DEF PeerSends
<1> HIDE DEF b
<1>7. PeerStep(c, b)
  BY <1>2, <1>5, <1>6 DEF PeerStep
<1> QED
  BY <1>2, <1>5, <1>7 DEF sent, frames

LEMMA PeerGoesStep ==
  ASSUME TypeInv, NEW c \in Conns, PeerGoes(c)
  PROVE  \E b : PeerStep(c, b) /\ b.sent = conn[c].sent /\ b.frames = conn[c].frames
<1> DEFINE b == [conn[c] EXCEPT !.gone = TRUE]
<1>1. conn[c] \in ConnType
  BY DEF TypeInv
<1>2. conn' = [conn EXCEPT ![c] = b] /\ conn[c].state = "open" /\ UNCHANGED <<ctx, made, m_idleCtxs>>
  BY DEF PeerGoes
<1>3. /\ b \in ConnType /\ b.sent = conn[c].sent /\ b.frames = conn[c].frames
      /\ b.state = conn[c].state
      /\ b.fd = conn[c].fd /\ b.read = conn[c].read /\ b.delivered = conn[c].delivered
      /\ b.got = conn[c].got /\ b.spoilt = conn[c].spoilt
  BY <1>1, Values DEF ConnType
<1> HIDE DEF b
<1>4. PeerStep(c, b)
  BY <1>2, <1>3 DEF PeerStep
<1> QED
  BY <1>3, <1>4

LEMMA PeerKeepsPool ==
  ASSUME TypeInv, PoolInv, EventInv, ServeInv, NEW c \in Conns, NEW b, PeerStep(c, b)
  PROVE  /\ TypeInv' /\ PoolInv' /\ EventInv' /\ ServeInv'
         /\ conn'[c] = b /\ \A a \in Conns : a # c => conn'[a] = conn[a]
         /\ \A x \in Ctxs, a \in Conns : Serves(x, a)' <=> Serves(x, a)
<1>1. ctx' = ctx /\ made' = made /\ m_idleCtxs' = m_idleCtxs
  BY DEF PeerStep
<1>2. conn'[c] = b /\ \A a \in Conns : a # c => conn'[a] = conn[a]
  BY DEF PeerStep, TypeInv
<1>3. TypeInv'
  BY <1>1, <1>2 DEF TypeInv, PeerStep
<1>4. \A x \in Ctxs : InUse(x)' <=> InUse(x)
  BY <1>1 DEF InUse
<1>5. PoolInv' /\ EventInv'
  BY <1>1, <1>4 DEF PoolInv, EventInv
<1>6. \A x \in Ctxs, a \in Conns : Serves(x, a)' <=> Serves(x, a)
  BY <1>1, <1>2, <1>4 DEF Serves, PeerStep
<1>7. ServeInv'
  <2>1. \A a \in Conns : (conn[a].state = "new")' => (conn[a] = NewConn)'
    BY <1>2 DEF ServeInv, PeerStep
  <2> QED
    BY <1>1, <1>4, <1>6, <2>1 DEF ServeInv
<1> QED
  BY <1>2, <1>3, <1>5, <1>6, <1>7

-----------------------------------------------------------------------------
(* The pool of ctxs.                                                         *)
CtxInv == TypeInv /\ PoolInv /\ EventInv /\ ServeInv

LEMMA InitCtxInv == Init => CtxInv
<1> SUFFICES ASSUME Init PROVE CtxInv
  OBVIOUS
<1>1. PICK app \in {"INIT", "other"} : ctx = [x \in Ctxs |-> NewCtx(app)]
  BY DEF Init
<1>2. /\ made = 0 /\ m_idleCtxs = <<>> /\ conn = [c \in Conns |-> NewConn]
  BY DEF Init
<1>3. NewCtx(app) \in CtxType
  <2>1. app \in AppStates /\ <<0, 0>> \in Headers
    BY DEF AppStates, Headers, Byte
  <2> QED
    BY <2>1, Values DEF NewCtx, CtxType
<1>4. NewConn \in ConnType
  BY Values DEF NewConn, ConnType
<1>5. TypeInv
  BY <1>1, <1>2, <1>3, <1>4 DEF TypeInv, ReaderOK, NewCtx
<1>6. \A x \in Ctxs : ~InUse(x) /\ ~ctx[x].rdEvent /\ ~ctx[x].wrEvent
  BY <1>1 DEF InUse, NewCtx
<1>7. PoolInv
  <2>1. \A x \in Ctxs : x \in Int /\ x > 0
    BY DEF Ctxs
  <2>2. made \in Nat /\ made <= NumCtxs /\ m_idleCtxs \in Seq(Ctxs) /\ Len(m_idleCtxs) = 0
    BY <1>2, FrameAssumption DEF FrameAssumption
  <2> QED
    BY <1>2, <1>6, <2>1, <2>2 DEF PoolInv
<1>8. EventInv
  BY <1>6 DEF EventInv
<1>9. ServeInv
  BY <1>2, <1>6 DEF ServeInv, Serves
<1> QED
  BY <1>5, <1>7, <1>8, <1>9 DEF CtxInv

LEMMA NextCtxInv == CtxInv /\ [Next]_vars => CtxInv'
<1> SUFFICES ASSUME CtxInv, [Next]_vars PROVE CtxInv'
  OBVIOUS
<1> USE DEF CtxInv
<1>1. ASSUME NEW c \in Conns, NEW fd \in Fds, CreateConnection(c, fd) PROVE CtxInv'
  BY <1>1, FreshKeepsPool
<1>2. ASSUME NEW c \in Conns, NEW n \in Lengths, PeerSends(c, n) PROVE CtxInv'
  BY <1>2, PeerSendsStep, PeerKeepsPool
<1>3. ASSUME NEW c \in Conns, PeerGoes(c) PROVE CtxInv'
  BY <1>3, PeerGoesStep, PeerKeepsPool
<1>4. ASSUME NEW x \in Ctxs, ReadEvent(x) PROVE CtxInv'
  BY <1>4, ReadEventStep, HandlerKeepsPool DEF ReadStep
<1>5. ASSUME NEW x \in Ctxs, WriteEvent(x) PROVE CtxInv'
  BY <1>5, WriteEventStep, HandlerKeepsPool DEF WriteStep
<1>6. CASE UNCHANGED vars
  BY <1>6 DEF vars, TypeInv, PoolInv, EventInv, ServeInv, Serves, InUse
<1> QED
  BY <1>1, <1>2, <1>3, <1>4, <1>5, <1>6 DEF Next

LEMMA CtxInvSound == CtxInv => CtxSound
<1> SUFFICES ASSUME CtxInv PROVE CtxSound
  OBVIOUS
<1> USE DEF CtxInv
<1>1. TypeOK
  <2>1. made \in 0..NumCtxs /\ m_idleCtxs \in Seq(Ctxs)
    BY FrameAssumption DEF FrameAssumption, PoolInv
  <2>2. ASSUME NEW x \in Ctxs
        PROVE  /\ ctx[x].m_sfd \in Fds \cup {INVALID_SOCKET}
               /\ ctx[x].m_socket \in Fds \cup {INVALID_SOCKET}
               /\ ctx[x].m_flags \in {"0", "R", "W"}
               /\ ctx[x].sockState \in {"RECV_FRAMING", "RECV"}
               /\ ctx[x].appState \in {"INIT", "other", "READ_FRAME_SIZE", "READ_REQUEST"}
               /\ ctx[x].m_readWant \in 0..256 * 256 - 1
               /\ ctx[x].sockState = "RECV" => ctx[x].m_readWant > 0
    <3>1. ctx[x] \in CtxType /\ ReaderOK(ctx[x])
      BY DEF TypeInv
    <3>2. /\ ctx[x].m_sfd \in Sockets /\ ctx[x].m_socket \in Sockets /\ ctx[x].m_flags \in Flags
          /\ ctx[x].sockState \in SockStates /\ ctx[x].appState \in AppStates
          /\ ctx[x].m_readWant \in Wants
      BY <3>1 DEF CtxType
    <3>3. ctx[x].m_readWant \in 0..256 * 256 - 1
      <4>1. PICK m \in Int : m = 256 * 256 - 1
        OBVIOUS
      <4>2. m >= 65535
        BY <4>1
      <4>3. ctx[x].m_readWant \in 0..m
        BY <3>2, <4>2 DEF Wants
      <4> QED
        BY <4>1, <4>3, Zenon
    <3> QED
      BY <3>1, <3>2, <3>3, Zenon DEF ReaderOK, Sockets, Flags, SockStates, AppStates
  <2>3. \A c \in Conns : conn[c].state \in {"new", "open", "closed"}
    BY DEF TypeInv, ConnType, ConnStates
  <2> QED
    BY <2>1, <2>2, <2>3, Zenon DEF TypeOK
<1>2. DOMAIN m_idleCtxs = 1..Len(m_idleCtxs)
  BY DEF PoolInv
<1>3. \A x \in Ctxs : x \in Range(m_idleCtxs) <=> \E i \in 1..Len(m_idleCtxs) : m_idleCtxs[i] = x
  BY <1>2 DEF Range
<1>4. Range(m_idleCtxs) \subseteq Ctxs
  BY <1>2 DEF Range, PoolInv
<1>5. \A x \in Ctxs : x <= made => (InUse(x) <=> x \notin Range(m_idleCtxs))
  BY <1>3 DEF PoolInv
<1>6. \A x \in Ctxs : InUse(x) => Cardinality(ConnsOf(ctx[x].m_sfd)) = 1
  BY ServedOne, FS_Singleton
<1>7. \A x \in Range(m_idleCtxs) : ~ctx[x].rdEvent /\ ~ctx[x].wrEvent
  BY <1>3, <1>4 DEF PoolInv, EventInv
<1>8. \A i, j \in DOMAIN m_idleCtxs : m_idleCtxs[i] = m_idleCtxs[j] => i = j
  BY <1>2 DEF PoolInv
<1> QED
  BY <1>1, <1>5, <1>6, <1>7, <1>8 DEF CtxSound, CtxReturnedOnce

(* close_connection() runs once for a connection, in every order of events:  *)
(* a ctx is in m_idleCtxs once or serves one connection and never both, an   *)
(* idle one has no event left, and a reader that waits for a body knows its  *)
(* length.                                                                   *)
THEOREM CtxsReturnedOnce == Spec => []CtxSound
  BY InitCtxInv, NextCtxInv, CtxInvSound, PTL DEF Spec

-----------------------------------------------------------------------------
(* Of the ctxs and connections that go together after an event, one pair is  *)
(* that of the event, if it was not closed, and the others were left alone.  *)
LEMMA HandlerKeepsOthers ==
  ASSUME CtxInv, NEW x \in Ctxs, NEW c \in Conns, Serves(x, c),
         NEW bytes, NEW s, StartsFrom(x, c, bytes, s), NEW t, Handled(s, t), Apply(x, c, t)
  PROVE  /\ ctx'[x] = t.x /\ conn'[c] = t.c
         /\ \A b \in Conns : b # c => conn'[b] = conn[b]
         /\ \A y \in Ctxs, b \in Conns : Serves(y, b)' =>
               \/ y = x /\ b = c /\ IsServed(s, t)
               \/ y # x /\ b # c /\ Serves(y, b) /\ ctx'[y] = ctx[y] /\ conn'[b] = conn[b]
<1> USE DEF CtxInv
<1>1. /\ ctx'[x] = t.x /\ conn'[c] = t.c
      /\ \A y \in Ctxs : y # x => ctx'[y] = ctx[y]
      /\ \A b \in Conns : b # c => conn'[b] = conn[b]
  BY DEF Apply, TypeInv
<1>2. ASSUME NEW y \in Ctxs, NEW b \in Conns, Serves(y, b)'
      PROVE  \/ y = x /\ b = c /\ IsServed(s, t)
             \/ y # x /\ b # c /\ Serves(y, b) /\ ctx'[y] = ctx[y] /\ conn'[b] = conn[b]
  <2>1. CASE IsServed(s, t)
    <3>1. t.x.m_sfd = ctx[x].m_sfd /\ t.c.fd = conn[c].fd /\ t.c.state = conn[c].state
      BY <2>1 DEF IsServed, StartsFrom
    <3>2. Serves(y, b)
      BY <1>1, <1>2, <3>1 DEF Serves, InUse
    <3>3. y = x <=> b = c
      BY <3>2 DEF ServeInv, Serves
    <3> QED
      BY <1>1, <2>1, <3>2, <3>3
  <2>2. CASE IsClosed(s, t)
    <3>1. t.x.m_sfd = INVALID_SOCKET /\ t.c.state = "closed"
      BY <2>2 DEF IsClosed
    <3>2. y # x /\ b # c
      BY <1>1, <1>2, <3>1 DEF Serves, InUse
    <3> QED
      BY <1>1, <1>2, <3>2 DEF Serves, InUse
  <2> QED
    BY <2>1, <2>2 DEF Handled
<1> QED
  BY <1>1, <1>2

(* A connection gets a ctx that serves no other, and is marked if the ctx is *)
(* not clean.                                                                *)
FreshPair(x, c, fd) ==
    /\ x \in Ctxs /\ conn[c] = NewConn
    /\ ctx'[x].sockState = "RECV_FRAMING" /\ ctx'[x].in = ctx[x].in /\ ctx'[x].out = ctx[x].out
    /\ conn'[c] = [NewConn EXCEPT !.fd = fd, !.state = "open", !.spoilt = conn'[c].spoilt]
    /\ "stale" \notin conn'[c].spoilt => ctx[x].in = <<>> /\ ctx[x].out = <<>>
    /\ \A b \in Conns : b # c => conn'[b] = conn[b]
    /\ \A y \in Ctxs, b \in Conns : Serves(y, b)' =>
          \/ y = x /\ b = c
          \/ y # x /\ b # c /\ Serves(y, b) /\ ctx'[y] = ctx[y] /\ conn'[b] = conn[b]

LEMMA FreshKeepsOthers ==
  ASSUME CtxInv, NEW c \in Conns, NEW fd \in Fds, CreateConnection(c, fd)
  PROVE  \E x : FreshPair(x, c, fd)
<1> USE DEF CtxInv
<1>1. PICK x : Fresh(x, c, fd)
  BY GetsFresh
<1> DEFINE y == init(ctx[x], fd)
           stale == IF ctx[x].in \o ctx[x].out = <<>> THEN {} ELSE {"stale"}
           b == [NewConn EXCEPT !.fd = fd, !.state = "open", !.spoilt = stale]
<1>2. x \in Ctxs /\ ~InUse(x) /\ ctx' = [ctx EXCEPT ![x] = y] /\ conn' = [conn EXCEPT ![c] = b]
  BY <1>1 DEF Fresh
<1>3. /\ y.m_sfd = fd /\ y.sockState = "RECV_FRAMING" /\ y.in = ctx[x].in /\ y.out = ctx[x].out
  BY <1>2, InitResult DEF TypeInv
<1>4. ctx[x].in \in Seq(Byte) /\ ctx[x].out \in Seq(Byte)
  BY <1>2 DEF TypeInv, CtxType, Bytes
<1>5. "stale" \notin stale => ctx[x].in = <<>> /\ ctx[x].out = <<>>
  <2>1. "stale" \notin stale => ctx[x].in \o ctx[x].out = <<>>
    OBVIOUS
  <2>2. ctx[x].in \o ctx[x].out = <<>> => ctx[x].in = <<>> /\ ctx[x].out = <<>>
    BY <1>4
  <2> QED
    BY <2>1, <2>2
<1> HIDE DEF y, stale
<1>6. /\ b.spoilt = stale /\ b.fd = fd /\ b.state = "open"
      /\ b = [NewConn EXCEPT !.fd = fd, !.state = "open", !.spoilt = b.spoilt]
  BY DEF NewConn
<1>7. conn[c] = NewConn /\ ConnsOf(fd) = {}
  BY DEF CreateConnection, ServeInv
<1> HIDE DEF b
<1>8. /\ ctx'[x] = y /\ \A z \in Ctxs : z # x => ctx'[z] = ctx[z]
      /\ conn'[c] = b /\ \A a \in Conns : a # c => conn'[a] = conn[a]
  BY <1>2 DEF TypeInv
<1>9. ASSUME NEW z \in Ctxs, NEW a \in Conns, Serves(z, a)'
      PROVE  \/ z = x /\ a = c
             \/ z # x /\ a # c /\ Serves(z, a) /\ ctx'[z] = ctx[z] /\ conn'[a] = conn[a]
  <2>1. CASE z = x /\ a = c
    BY <2>1
  <2>2. CASE z = x /\ a # c
    <3>1. conn[a].state = "open" /\ conn[a].fd = fd
      BY <1>3, <1>8, <1>9, <2>2 DEF Serves
    <3> QED
      BY <1>7, <3>1 DEF ConnsOf
  <2>3. CASE z # x /\ a = c
    <3>1. InUse(z) /\ ctx[z].m_sfd = fd
      BY <1>6, <1>8, <1>9, <2>3 DEF Serves, InUse
    <3>2. PICK e \in Conns : Serves(z, e)
      BY <3>1 DEF ServeInv
    <3> QED
      BY <1>7, <3>1, <3>2 DEF Serves, ConnsOf
  <2>4. CASE z # x /\ a # c
    BY <1>8, <1>9, <2>4 DEF Serves, InUse
  <2> QED
    BY <2>1, <2>2, <2>3, <2>4
<1>10. FreshPair(x, c, fd)
  BY <1>2, <1>3, <1>5, <1>6, <1>7, <1>8, <1>9 DEF FreshPair
<1> QED
  BY <1>10

(* Every ctx that is clean is armed.                                         *)
ArmedInv == \A x \in Ctxs, c \in Conns : Serves(x, c) => Armed(ctx[x], conn[c])

(* A handler starts from the ctx as the last one left it.                    *)
LEMMA StartsArmed ==
  ASSUME NEW x, NEW c, NEW bytes, NEW s, StartsFrom(x, c, bytes, s), Armed(ctx[x], conn[c])
  PROVE  Armed(s.x, s.c)
  BY DEF StartsFrom, Armed

LEMMA ReadKeepsArmed ==
  ASSUME NEW s \in HandlerType, NEW bytes, NEW t, Armed(s.x, s.c), Handled(s, t),
         ReadOutcome(s, bytes, t), IsServed(s, t)
  PROVE  Armed(t.x, t.c)
<1>1. ~GivesUp(s, t)
  BY DEF GivesUp, IsClosed, IsServed, HandlerType
<1>2. CASE s.x.sockState = "RECV_FRAMING" /\ (s.x.in = <<>> => ReadsHeader(s, bytes, t))
  BY <1>2, FramingKeepsArmed
<1>3. CASE s.x.sockState = "RECV" /\ ReadsBody(s, bytes, t)
  BY <1>3, DataKeepsArmed
<1> QED
  BY <1>1, <1>2, <1>3 DEF ReadOutcome

LEMMA HandlerKeepsArmed ==
  ASSUME CtxInv, ArmedInv, NEW x \in Ctxs, NEW c \in Conns, Serves(x, c),
         ReadStep(x, c) \/ WriteStep(x, c)
  PROVE  ArmedInv'
<1>1. CASE ReadStep(x, c)
  <2>1. PICK bytes, s, t : /\ NextBytes(c, bytes) /\ StartsFrom(x, c, bytes, s)
                           /\ Handled(s, t) /\ ReadOutcome(s, bytes, t) /\ Apply(x, c, t)
    BY <1>1 DEF ReadStep
  <2>2. s \in HandlerType /\ Armed(s.x, s.c)
    <3>1. Armed(ctx[x], conn[c])
      BY DEF ArmedInv
    <3>2. s \in HandlerType
      BY <2>1 DEF StartsFrom
    <3> QED
      BY <2>1, <3>1, <3>2, StartsArmed
  <2>3. IsServed(s, t) => Armed(t.x, t.c)
    BY <2>1, <2>2, ReadKeepsArmed
  <2> QED
    BY <2>1, <2>3, HandlerKeepsOthers DEF ArmedInv
<1>2. CASE WriteStep(x, c)
  <2>1. PICK s, t : /\ StartsFrom(x, c, <<>>, s)
                    /\ Handled(s, t) /\ WriteOutcome(s, t) /\ Apply(x, c, t)
    BY <1>2 DEF WriteStep
  <2>2. s \in HandlerType /\ Armed(s.x, s.c)
    <3>1. Armed(ctx[x], conn[c])
      BY DEF ArmedInv
    <3>2. s \in HandlerType
      BY <2>1 DEF StartsFrom
    <3> QED
      BY <2>1, <3>1, <3>2, StartsArmed
  <2>3. IsServed(s, t) => Armed(t.x, t.c)
    <3>1. IsServed(s, t) => ~GivesUp(s, t)
      BY <2>2 DEF GivesUp, IsClosed, IsServed, HandlerType
    <3> QED
      BY <2>1, <2>2, <3>1, WriteKeepsArmed DEF WriteOutcome
  <2> QED
    BY <2>1, <2>3, HandlerKeepsOthers DEF ArmedInv
<1> QED
  BY <1>1, <1>2

LEMMA FreshIsArmed ==
  ASSUME CtxInv, ArmedInv, NEW c \in Conns, NEW fd \in Fds, CreateConnection(c, fd)
  PROVE  ArmedInv'
<1>1. PICK x : FreshPair(x, c, fd)
  BY FreshKeepsOthers
<1>2. Armed(ctx'[x], conn'[c])
  BY <1>1 DEF FreshPair, Armed
<1> QED
  BY <1>1, <1>2 DEF FreshPair, ArmedInv

LEMMA PeerKeepsArmed ==
  ASSUME CtxInv, ArmedInv, NEW c \in Conns, NEW b, PeerStep(c, b)
  PROVE  ArmedInv'
<1>1. /\ conn'[c] = b /\ \A a \in Conns : a # c => conn'[a] = conn[a]
      /\ \A x \in Ctxs, a \in Conns : Serves(x, a)' <=> Serves(x, a)
  BY PeerKeepsPool DEF CtxInv
<1>2. ctx' = ctx /\ b.spoilt = conn[c].spoilt
  BY DEF PeerStep
<1> QED
  BY <1>1, <1>2 DEF ArmedInv, Armed

LEMMA NextArmedInv == CtxInv /\ ArmedInv /\ [Next]_vars => ArmedInv'
<1> SUFFICES ASSUME CtxInv, ArmedInv, [Next]_vars PROVE ArmedInv'
  OBVIOUS
<1>1. ASSUME NEW c \in Conns, NEW fd \in Fds, CreateConnection(c, fd) PROVE ArmedInv'
  BY <1>1, FreshIsArmed
<1>2. ASSUME NEW c \in Conns, NEW n \in Lengths, PeerSends(c, n) PROVE ArmedInv'
  BY <1>2, PeerSendsStep, PeerKeepsArmed DEF CtxInv
<1>3. ASSUME NEW c \in Conns, PeerGoes(c) PROVE ArmedInv'
  BY <1>3, PeerGoesStep, PeerKeepsArmed DEF CtxInv
<1>4. ASSUME NEW x \in Ctxs, ReadEvent(x) PROVE ArmedInv'
  BY <1>4, ReadEventStep, HandlerKeepsArmed DEF CtxInv
<1>5. ASSUME NEW x \in Ctxs, WriteEvent(x) PROVE ArmedInv'
  BY <1>5, WriteEventStep, HandlerKeepsArmed DEF CtxInv
<1>6. CASE UNCHANGED vars
  BY <1>6 DEF vars, ArmedInv, Serves, InUse
<1> QED
  BY <1>1, <1>2, <1>3, <1>4, <1>5, <1>6 DEF Next

LEMMA InitArmedInv == Init => ArmedInv
<1> SUFFICES ASSUME Init PROVE ArmedInv
  OBVIOUS
<1>1. conn = [c \in Conns |-> NewConn]
  BY DEF Init
<1> QED
  BY <1>1 DEF ArmedInv, Serves, NewConn

LEMMA ArmedInvSound == CtxInv /\ ArmedInv => EventsArmed
<1> SUFFICES ASSUME CtxInv, ArmedInv, NEW x \in Ctxs, InUse(x)
             PROVE  /\ ctx[x].rdEvent
                    /\ "stale" \notin conn[ServedBy(x)].spoilt =>
                          /\ Asked(ctx[x]) > 0
                          /\ ctx[x].out # <<>> => ctx[x].wrEvent
  BY DEF EventsArmed
<1>1. ctx[x].rdEvent
  BY DEF CtxInv, EventInv
<1>2. Armed(ctx[x], conn[ServedBy(x)])
  BY ServedOne DEF CtxInv, ArmedInv
<1>3. ASSUME "stale" \notin conn[ServedBy(x)].spoilt PROVE Asked(ctx[x]) > 0
  <2>1. /\ ctx[x].sockState \in SockStates /\ ctx[x].m_readWant \in Wants /\ ctx[x].in \in Bytes
    BY DEF CtxInv, TypeInv, CtxType
  <2>2. ctx[x].sockState = "RECV" => Len(ctx[x].in) < ctx[x].m_readWant
    BY <1>2, <1>3 DEF Armed
  <2>3. Len(ctx[x].in) \in Nat /\ ctx[x].m_readWant \in Nat
    BY <2>1 DEF Bytes, Wants
  <2> QED
    BY <2>1, <2>2, <2>3 DEF Asked, SockStates
<1> QED
  BY <1>1, <1>2, <1>3 DEF Armed

(* One m_flags for two events is enough: a connection that is served always  *)
(* has its read event and, when its ctx was clean, asks recv() for at least  *)
(* a byte and has a write event for the data in m_outputBuffer_.             *)
THEOREM EventsAlwaysArmed == Spec => []EventsArmed
<1>1. Init => CtxInv /\ ArmedInv
  BY InitCtxInv, InitArmedInv
<1>2. CtxInv /\ ArmedInv /\ [Next]_vars => (CtxInv /\ ArmedInv)'
  BY NextCtxInv, NextArmedInv
<1> QED
  BY <1>1, <1>2, ArmedInvSound, PTL DEF Spec

-----------------------------------------------------------------------------
(* Where the frames are in what the peer has sent: frame i is the length and *)
(* the body that start behind byte start[i].                                 *)
FrameAt(sent, at, body) ==
    /\ at + 2 + Len(body) <= Len(sent)
    /\ sent[at + 1] = 0 /\ sent[at + 2] = Len(body)
    /\ \A j \in 1..Len(body) : sent[at + 2 + j] = body[j]
Layout(sent, frames, start) ==
    /\ start \in [Nat -> Nat] /\ start[1] = 0 /\ start[Len(frames) + 1] = Len(sent)
    /\ \A i \in 1..Len(frames) :
          start[i + 1] = start[i] + 2 + Len(frames[i]) /\ FrameAt(sent, start[i], frames[i])

(* The reader is where the next frame starts, or has read its length and the *)
(* first bytes of its body.                                                  *)
At(x, c, start) ==
    LET k == Len(c.delivered) + 1
    IN  /\ x.sockState = "RECV_FRAMING" => c.read = start[k]
        /\ x.sockState = "RECV" =>
              /\ k <= Len(c.frames) /\ c.read = start[k] + 2 + Len(x.in)
              /\ x.m_readWant = Len(c.frames[k])
              /\ \A j \in 1..Len(x.in) : x.in[j] = c.frames[k][j]

PrefixOf(d, f) == Len(d) <= Len(f) /\ \A i \in 1..Len(d) : d[i] = f[i]
Unspoilt(c) == "stale" \notin c.spoilt /\ "short" \notin c.spoilt

(* The peer appends a frame.                                                 *)
LEMMA SentAt ==
  ASSUME NEW sent \in Bytes, NEW n \in Byte, NEW body \in Bytes
  PROVE  LET new == sent \o <<0, n>> \o body
         IN  /\ \A i \in 1..Len(sent) : new[i] = sent[i]
             /\ new[Len(sent) + 1] = 0 /\ new[Len(sent) + 2] = n
             /\ \A j \in 1..Len(body) : new[Len(sent) + 2 + j] = body[j]
<1> DEFINE front == sent \o <<0, n>>
           new == front \o body
<1>1. <<0, n>> \in Bytes /\ Len(<<0, n>>) = 2 /\ <<0, n>>[1] = 0 /\ <<0, n>>[2] = n
  BY DEF Bytes, Byte
<1>2. front \in Bytes /\ Len(front) = Len(sent) + 2
  BY <1>1, BytesConcat
<1>3. Len(sent) \in Nat /\ Len(body) \in Nat
  BY DEF Bytes
<1>4. \A i \in 1..Len(sent) : front[i] = sent[i]
  BY <1>1, ConcatProperties DEF Bytes
<1>5. front[Len(sent) + 1] = 0 /\ front[Len(sent) + 2] = n
  BY <1>1, <1>3, ConcatProperties DEF Bytes
<1> HIDE DEF front
<1>6. \A i \in 1..Len(front) : new[i] = front[i]
  BY <1>2, ConcatProperties DEF Bytes
<1>7. \A j \in 1..Len(body) : new[Len(front) + j] = body[j]
  <2> TAKE j \in 1..Len(body)
  <2>1. Len(front) + j \in 1..Len(front) + Len(body) /\ Len(front) + j > Len(front)
        /\ (Len(front) + j) - Len(front) = j
    BY <1>2, <1>3
  <2> QED
    BY <1>2, <2>1, ConcatProperties DEF Bytes
<1>8. Len(sent) + 1 \in 1..Len(front) /\ Len(sent) + 2 \in 1..Len(front)
      /\ \A i \in 1..Len(sent) : i \in 1..Len(front)
  BY <1>2, <1>3
<1> QED
  BY <1>2, <1>4, <1>5, <1>6, <1>7, <1>8 DEF front

LEMMA FrameStays ==
  ASSUME NEW sent \in Bytes, NEW new \in Bytes, Len(sent) <= Len(new),
         \A i \in 1..Len(sent) : new[i] = sent[i],
         NEW at \in Nat, NEW body \in Bytes, FrameAt(sent, at, body)
  PROVE  FrameAt(new, at, body)
<1>1. Len(sent) \in Nat /\ Len(new) \in Nat /\ Len(body) \in Nat
  BY DEF Bytes
<1>2. at + 2 + Len(body) <= Len(sent)
  BY DEF FrameAt
<1>3. at + 1 \in 1..Len(sent) /\ at + 2 \in 1..Len(sent)
  BY <1>1, <1>2
<1>4. \A j \in 1..Len(body) : at + 2 + j \in 1..Len(sent)
  BY <1>1, <1>2
<1> QED
  BY <1>1, <1>2, <1>3, <1>4 DEF FrameAt

LEMMA LayoutGrows ==
  ASSUME NEW sent \in Bytes, NEW frames \in Frames, NEW start, Layout(sent, frames, start),
         NEW n \in Byte, NEW body \in Bytes, Len(body) = n
  PROVE  \E new : /\ Layout(sent \o <<0, n>> \o body, Append(frames, body), new)
                  /\ \A i \in 1..Len(frames) + 1 : new[i] = start[i]
<1> DEFINE all == sent \o <<0, n>> \o body
           more == Append(frames, body)
           m == Len(frames)
           new == [start EXCEPT ![m + 2] = Len(sent) + 2 + n]
<1>1. all \in Bytes /\ Len(all) = Len(sent) + 2 + n
  BY SentType
<1>2. /\ \A i \in 1..Len(sent) : all[i] = sent[i]
      /\ all[Len(sent) + 1] = 0 /\ all[Len(sent) + 2] = n
      /\ \A j \in 1..Len(body) : all[Len(sent) + 2 + j] = body[j]
  BY SentAt
<1> HIDE DEF all
<1>3. Len(sent) \in Nat /\ m \in Nat /\ n \in Nat
  BY DEF Bytes, Frames, Byte
<1>4. Len(more) = m + 1 /\ more[m + 1] = body /\ \A i \in 1..m : more[i] = frames[i]
  BY DEF Frames
<1>5. /\ start \in [Nat -> Nat] /\ start[1] = 0 /\ start[m + 1] = Len(sent)
      /\ \A i \in 1..m : start[i + 1] = start[i] + 2 + Len(frames[i])
      /\ \A i \in 1..m : FrameAt(sent, start[i], frames[i])
  BY DEF Layout
<1>6. /\ new \in [Nat -> Nat] /\ new[m + 2] = Len(sent) + 2 + n
      /\ \A i \in 1..m + 1 : new[i] = start[i]
  <2> HIDE DEF m
  <2>1. m + 2 \in Nat /\ Len(sent) + 2 + n \in Nat
    BY <1>3
  <2>2. \A i \in 1..m + 1 : i \in Nat /\ i # m + 2
    BY <1>3
  <2> QED
    BY <1>5, <2>1, <2>2
<1> HIDE DEF new, more
<1>7. ASSUME NEW i \in 1..Len(more)
      PROVE  new[i + 1] = new[i] + 2 + Len(more[i]) /\ FrameAt(all, new[i], more[i])
  <2>1. CASE i = m + 1
    <3>1. new[i] = Len(sent) /\ new[i + 1] = Len(sent) + 2 + n /\ more[i] = body
      <4>1. i + 1 = m + 2 /\ i \in 1..m + 1
        BY <1>3, <2>1
      <4>2. new[i + 1] = Len(sent) + 2 + n
        BY <1>6, <4>1
      <4> QED
        BY <1>4, <1>5, <1>6, <2>1, <4>1, <4>2
    <3>2. FrameAt(all, Len(sent), body)
      BY <1>1, <1>2, <1>3 DEF FrameAt
    <3> QED
      BY <3>1, <3>2
  <2>2. CASE i # m + 1
    <3>1. i \in 1..m /\ i \in 1..m + 1 /\ i + 1 \in 1..m + 1 /\ i \in Nat
      BY <1>3, <1>4, <2>2
    <3>2. new[i] = start[i] /\ new[i + 1] = start[i + 1] /\ more[i] = frames[i]
      BY <1>4, <1>6, <3>1
    <3>3. frames[i] \in Bytes /\ start[i] \in Nat
      BY <1>5, <3>1 DEF Frames
    <3>4. FrameAt(all, start[i], frames[i])
      <4>1. FrameAt(sent, start[i], frames[i])
        BY <1>5, <3>1
      <4>2. Len(sent) <= Len(all)
        BY <1>1, <1>3
      <4> QED
        BY <1>1, <1>2, <3>3, <4>1, <4>2, FrameStays
    <3> QED
      BY <1>5, <3>1, <3>2, <3>4
  <2> QED
    BY <2>1, <2>2
<1>8. new[1] = 0 /\ new[Len(more) + 1] = Len(all)
  <2>1. 1 \in 1..m + 1 /\ Len(more) + 1 = m + 2
    BY <1>3, <1>4
  <2> QED
    BY <1>1, <1>5, <1>6, <2>1
<1>9. Layout(all, more, new)
  BY <1>6, <1>7, <1>8 DEF Layout
<1> QED
  BY <1>6, <1>9 DEF all, more

(* What is read of a body goes on where the buffer ends.                     *)
LEMMA BodyContinues ==
  ASSUME NEW in \in Bytes, NEW bytes \in Bytes, NEW body \in Bytes, NEW sent, NEW at \in Nat,
         FrameAt(sent, at, body), \A j \in 1..Len(in) : in[j] = body[j],
         \A j \in 1..Len(bytes) : bytes[j] = sent[(at + 2 + Len(in)) + j],
         Len(in \o bytes) <= Len(body)
  PROVE  /\ \A j \in 1..Len(in \o bytes) : (in \o bytes)[j] = body[j]
         /\ Len(in \o bytes) = Len(body) => in \o bytes = body
<1> DEFINE all == in \o bytes
<1>1. all \in Bytes /\ Len(all) = Len(in) + Len(bytes)
  BY BytesConcat
<1>2. Len(in) \in Nat /\ Len(bytes) \in Nat /\ Len(body) \in Nat
  BY DEF Bytes
<1>3. ASSUME NEW j \in 1..Len(all) PROVE all[j] = body[j]
  <2>1. j \in 1..Len(in) + Len(bytes)
    BY <1>1
  <2>2. CASE j <= Len(in)
    <3>1. all[j] = in[j]
      BY <2>1, <2>2, ConcatProperties DEF Bytes
    <3> QED
      BY <1>2, <2>1, <2>2, <3>1
  <2>3. CASE ~(j <= Len(in))
    <3>0. j \in Int /\ j - Len(in) \in Int
      BY <1>2, <2>1
    <3>1. PICK k \in Int : k = j - Len(in)
      BY <3>0, Zenon
    <3>2. k \in 1..Len(bytes) /\ j \in 1..Len(body)
      BY <1>1, <1>2, <2>1, <2>3, <3>1
    <3>3. all[j] = bytes[k]
      BY <2>1, <2>3, <3>1, ConcatProperties DEF Bytes
    <3>4. bytes[k] = sent[(at + 2 + Len(in)) + k] /\ (at + 2 + Len(in)) + k = at + 2 + j
      BY <1>2, <3>1, <3>2
    <3>5. sent[at + 2 + j] = body[j]
      BY <3>2 DEF FrameAt
    <3> QED
      BY <3>3, <3>4, <3>5
  <2> QED
    BY <2>2, <2>3
<1>4. ASSUME Len(all) = Len(body) PROVE all = body
  <2> HIDE DEF all
  <2>1. all \in Seq(Byte) /\ body \in Seq(Byte)
    BY <1>1 DEF Bytes
  <2> QED
    BY <1>3, <1>4, <2>1, SeqEqual
<1> QED
  BY <1>3, <1>4

(* The length of the next frame is read as it was sent.                      *)
LEMMA HeaderRead ==
  ASSUME NEW sent \in Bytes, NEW frames \in Frames, NEW start, Layout(sent, frames, start),
         NEW k \in 1..Len(frames) + 1, NEW bytes \in Bytes, Len(bytes) = 2,
         start[k] + 2 <= Len(sent),
         bytes[1] = sent[start[k] + 1], bytes[2] = sent[start[k] + 2]
  PROVE  k <= Len(frames) /\ LengthIn(bytes) = Len(frames[k])
<1>0. start \in [Nat -> Nat] /\ start[Len(frames) + 1] = Len(sent)
  BY DEF Layout
<1>1. Len(frames) \in Nat /\ Len(sent) \in Nat /\ start[k] \in Nat
  <2>1. Len(frames) \in Nat /\ Len(sent) \in Nat
    BY DEF Frames, Bytes
  <2>2. k \in Nat
    BY <2>1
  <2> QED
    BY <1>0, <2>1, <2>2
<1>2. k # Len(frames) + 1
  <2> SUFFICES ASSUME k = Len(frames) + 1 PROVE FALSE
    OBVIOUS
  <2>1. start[k] = Len(sent)
    BY <1>0
  <2>2. PICK a \in Nat : a = start[k]
    BY <1>1, Zenon
  <2>3. a + 2 <= a
    BY <2>1, <2>2
  <2> QED
    BY <2>3
<1>3. k \in 1..Len(frames)
  BY <1>1, <1>2
<1>4. sent[start[k] + 1] = 0 /\ sent[start[k] + 2] = Len(frames[k])
  BY <1>3 DEF Layout, FrameAt
<1>5. bytes[1] = 0 /\ bytes[2] = Len(frames[k])
  BY <1>4
<1>6. frames[k] \in Bytes
  BY <1>3 DEF Frames
<1>7. Len(frames[k]) \in Nat
  BY <1>6 DEF Bytes
<1>8. LengthIn(bytes) = 0 * 256 + Len(frames[k])
  BY <1>5 DEF LengthIn
<1> QED
  BY <1>1, <1>3, <1>7, <1>8

(* One more frame is delivered.                                              *)
LEMMA PrefixGrows ==
  ASSUME NEW d \in Frames, NEW f \in Frames, PrefixOf(d, f), Len(d) + 1 <= Len(f)
  PROVE  LET e == Append(d, f[Len(d) + 1])
         IN  PrefixOf(e, f) /\ Len(e) = Len(d) + 1
<1> DEFINE n == Len(d)
           e == Append(d, f[n + 1])
<1>1. n \in Nat /\ Len(f) \in Nat /\ n + 1 \in 1..Len(f)
  BY DEF Frames
<1>2. f[n + 1] \in Bytes
  BY <1>1 DEF Frames
<1>3. Len(e) = n + 1 /\ e[n + 1] = f[n + 1] /\ \A i \in 1..n : e[i] = d[i]
  BY <1>2 DEF Frames
<1> HIDE DEF e
<1>4. \A i \in 1..Len(e) : e[i] = f[i]
  <2> TAKE i \in 1..Len(e)
  <2>1. i = n + 1 \/ i \in 1..n
    BY <1>1, <1>3
  <2> QED
    BY <1>3, <2>1 DEF PrefixOf
<1> QED
  BY <1>1, <1>3, <1>4 DEF PrefixOf, e

(* read_socket() hands out the frames its peer sent.                         *)
LEMMA ReadKeepsFrames ==
  ASSUME NEW x \in Ctxs, NEW c \in Conns, conn[c] \in ConnType, ctx[x] \in CtxType,
         Armed(ctx[x], conn[c]),
         NEW start, Layout(conn[c].sent, conn[c].frames, start),
         At(ctx[x], conn[c], start), PrefixOf(conn[c].delivered, conn[c].frames),
         NEW bytes, NextBytes(c, bytes), NEW s, StartsFrom(x, c, bytes, s),
         NEW t, Handled(s, t), ReadOutcome(s, bytes, t), Unspoilt(t.c)
  PROVE  /\ PrefixOf(t.c.delivered, t.c.frames)
         /\ IsServed(s, t) => At(t.x, t.c, start)
<1> DEFINE sent == conn[c].sent
           frames == conn[c].frames
           d == conn[c].delivered
           read == conn[c].read
           in == ctx[x].in
           k == Len(d) + 1
<1>1. sent \in Bytes /\ frames \in Frames /\ d \in Frames /\ read \in Nat /\ in \in Bytes
      /\ bytes \in Bytes
  BY DEF ConnType, CtxType, NextBytes
<1>2. Len(d) \in Nat /\ Len(frames) \in Nat /\ Len(sent) \in Nat /\ Len(bytes) \in Nat
      /\ Len(in) \in Nat
  BY <1>1 DEF Frames, Bytes
<1>3. /\ s \in HandlerType /\ s.x.in = in /\ s.x.sockState = ctx[x].sockState
      /\ s.c.sent = sent /\ s.c.frames = frames /\ s.c.delivered = d
      /\ s.c.read = read + Len(bytes) /\ s.x.m_readWant = ctx[x].m_readWant
      /\ s.c.spoilt = conn[c].spoilt
  BY DEF StartsFrom
<1>4. t.c.frames = frames /\ s.c.spoilt \subseteq t.c.spoilt
  BY <1>3 DEF Handled
<1>5. "stale" \notin conn[c].spoilt
  BY <1>3, <1>4 DEF Unspoilt
<1>6. bytes # <<>> => /\ read + Len(bytes) <= Len(sent)
                      /\ \A j \in 1..Len(bytes) : bytes[j] = sent[read + j]
  BY DEF NextBytes
<1>7. IsServed(s, t) => t.c.read = read + Len(bytes)
  BY <1>3 DEF IsServed
<1>8. k \in Nat /\ k \in 1..Len(frames) + 1 /\ start[k] \in Nat
  <2>1. Len(d) <= Len(frames) /\ start \in [Nat -> Nat]
    BY DEF PrefixOf, Layout
  <2> HIDE DEF d, frames
  <2>2. PICK i, m \in Nat : i = Len(d) /\ m = Len(frames)
    BY <1>2, Zenon
  <2>3. i + 1 \in Nat /\ i + 1 \in 1..m + 1
    BY <2>1, <2>2, SMTT(30)
  <2>4. k \in Nat /\ k \in 1..Len(frames) + 1
    BY <2>2, <2>3, Zenon
  <2> QED
    BY <2>1, <2>4
<1>9. CASE GivesUp(s, t)
  <2>1. t.c.delivered = d /\ ~IsServed(s, t)
    BY <1>3, <1>9 DEF GivesUp, IsClosed, IsServed, HandlerType
  <2> QED
    BY <1>4, <2>1
<1>10. CASE s.x.sockState = "RECV_FRAMING" /\ (s.x.in = <<>> => ReadsHeader(s, bytes, t))
  <2>1. s.x.in = <<>> /\ read = start[k]
    BY <1>3, <1>5, <1>10 DEF Armed, At
  <2>2. /\ bytes # <<>> /\ Len(bytes) <= 2 /\ t.x.sockState = "RECV" /\ t.x.in = <<>>
        /\ t.c.delivered = d /\ (Len(bytes) < 2 => "short" \in t.c.spoilt)
        /\ (Len(bytes) = 2 => t.x.m_readWant = LengthIn(bytes)) /\ IsServed(s, t)
    BY <1>3, <1>10, <2>1 DEF ReadsHeader
  <2>3. Len(bytes) = 2
    <3>1. "short" \notin t.c.spoilt
      BY DEF Unspoilt
    <3>2. ~(Len(bytes) < 2) /\ Len(bytes) <= 2
      BY <2>2, <3>1
    <3>3. PICK n \in Nat : n = Len(bytes)
      BY <1>2, Zenon
    <3>4. n = 2
      BY <3>2, <3>3
    <3> QED
      BY <3>3, <3>4, Zenon
  <2> HIDE DEF sent, frames, d, read, in, k
  <2>4. k <= Len(frames) /\ LengthIn(bytes) = Len(frames[k])
    <3>1. /\ start[k] + 2 <= Len(sent)
          /\ bytes[1] = sent[start[k] + 1] /\ bytes[2] = sent[start[k] + 2]
      BY <1>6, <2>1, <2>2, <2>3
    <3>2. Layout(sent, frames, start)
      BY DEF sent, frames
    <3> QED
      BY <1>1, <1>8, <2>3, <3>1, <3>2, HeaderRead
  <2>5. /\ t.c.read = start[k] + 2 + Len(t.x.in) /\ t.x.m_readWant = Len(frames[k])
        /\ \A j \in 1..Len(t.x.in) : t.x.in[j] = frames[k][j]
    <3>1. Len(t.x.in) = 0
      BY <2>2
    <3> QED
      BY <1>7, <1>8, <2>1, <2>2, <2>3, <2>4, <3>1
  <2>6. At(t.x, t.c, start)
    BY <1>4, <2>2, <2>4, <2>5 DEF At, k
  <2> QED
    BY <1>4, <2>2, <2>6 DEF d, frames
<1>11. CASE s.x.sockState = "RECV" /\ ReadsBody(s, bytes, t)
  <2>1. /\ k <= Len(frames) /\ read = start[k] + 2 + Len(in)
        /\ ctx[x].m_readWant = Len(frames[k])
        /\ \A j \in 1..Len(in) : in[j] = frames[k][j]
    BY <1>3, <1>11 DEF At
  <2>2. frames[k] \in Bytes /\ Len(frames[k]) \in Nat
    <3>1. k \in 1..Len(frames)
      BY <1>2, <1>8, <2>1
    <3>2. frames[k] \in Bytes
      BY <1>1, <3>1 DEF Frames
    <3> QED
      BY <3>2, LenProperties, Zenon DEF Bytes
  <2>3. FrameAt(sent, start[k], frames[k]) /\ start[k + 1] = start[k] + 2 + Len(frames[k])
    <3>1. k \in 1..Len(frames)
      BY <1>2, <1>8, <2>1
    <3> QED
      BY <3>1 DEF Layout
  <2>4. in \o bytes \in Bytes /\ Len(in \o bytes) = Len(in) + Len(bytes)
    BY <1>1, BytesConcat
  <2> HIDE DEF sent, frames, d, read, in, k
  <2>5. \A j \in 1..Len(bytes) : bytes[j] = sent[(start[k] + 2 + Len(in)) + j]
    <3>1. CASE bytes = <<>>
      BY <3>1
    <3>2. CASE bytes # <<>>
      BY <1>6, <2>1, <3>2
    <3> QED
      BY <3>1, <3>2
  <2>6. Len(in \o bytes) <= Len(frames[k]) =>
           /\ \A j \in 1..Len(in \o bytes) : (in \o bytes)[j] = frames[k][j]
           /\ Len(in \o bytes) = Len(frames[k]) => in \o bytes = frames[k]
    BY <1>1, <1>8, <2>1, <2>2, <2>3, <2>5, BodyContinues, ZenonT(30)
  <2>7. CASE WaitsForMore(s, bytes, t)
    <3>1. /\ t.x.in = in \o bytes /\ Len(t.x.in) < t.x.m_readWant /\ t.x.sockState = "RECV"
          /\ t.x.m_readWant = Len(frames[k]) /\ t.c.delivered = d /\ IsServed(s, t)
      BY <1>3, <2>1, <2>7 DEF WaitsForMore
    <3>2. \A j \in 1..Len(t.x.in) : t.x.in[j] = frames[k][j]
      BY <2>2, <2>4, <2>6, <3>1
    <3>3. t.c.read = start[k] + 2 + Len(t.x.in)
      BY <1>2, <1>7, <1>8, <2>1, <2>4, <3>1, SMTT(30)
    <3>4. At(t.x, t.c, start)
      BY <1>4, <2>1, <3>1, <3>2, <3>3 DEF At, k
    <3> QED
      BY <1>4, <3>1, <3>4 DEF d, frames
  <2>8. CASE TakesMessage(s, bytes, t)
    <3>1. /\ Len(in \o bytes) = Len(frames[k]) /\ t.c.delivered = Append(d, in \o bytes)
          /\ t.x.sockState = "RECV_FRAMING"
      BY <1>3, <2>1, <2>8 DEF TakesMessage
    <3>2. in \o bytes = frames[k]
      BY <2>2, <2>6, <3>1
    <3>3. PrefixOf(t.c.delivered, frames) /\ Len(t.c.delivered) = Len(d) + 1
      <4>1. PrefixOf(d, frames) /\ Len(d) + 1 <= Len(frames)
        BY <2>1 DEF d, frames, k
      <4> QED
        BY <1>1, <3>1, <3>2, <4>1, PrefixGrows DEF k
    <3>4. IsServed(s, t) => t.c.read = start[k + 1]
      BY <1>2, <1>7, <1>8, <2>1, <2>2, <2>3, <2>4, <3>1, SMTT(30)
    <3>5. IsServed(s, t) => At(t.x, t.c, start)
      BY <3>1, <3>3, <3>4 DEF At, k
    <3> QED
      BY <1>4, <3>3, <3>5
  <2>9. Len(s.x.in) < s.x.m_readWant
    BY <1>3, <1>5, <1>11 DEF Armed, in
  <2> QED
    BY <1>11, <2>7, <2>8, <2>9 DEF ReadsBody
<1> QED
  BY <1>9, <1>10, <1>11 DEF ReadOutcome

(* The reader of a connection is somewhere in the frames of its peer.        *)
Placed(x, c) ==
    \E start : Layout(c.sent, c.frames, start) /\ (Unspoilt(c) => At(x, c, start))

FrameInv ==
    /\ \A c \in Conns : Unspoilt(conn[c]) => PrefixOf(conn[c].delivered, conn[c].frames)
    /\ \A x \in Ctxs, c \in Conns : Serves(x, c) => Placed(ctx[x], conn[c])

LEMMA HandlerUnspoilt ==
  ASSUME NEW x, NEW c, NEW bytes, NEW s, StartsFrom(x, c, bytes, s), NEW t, Handled(s, t),
         Unspoilt(t.c)
  PROVE  Unspoilt(conn[c])
  BY DEF StartsFrom, Handled, Unspoilt

LEMMA ServedLayout ==
  ASSUME NEW x, NEW c, NEW bytes, NEW s, StartsFrom(x, c, bytes, s), NEW t, Handled(s, t),
         IsServed(s, t)
  PROVE  t.c.sent = conn[c].sent /\ t.c.frames = conn[c].frames
  BY DEF StartsFrom, Handled, IsServed

LEMMA ReadKeepsPlace ==
  ASSUME CtxInv, ArmedInv, FrameInv, NEW x \in Ctxs, NEW c \in Conns, Serves(x, c),
         NEW bytes, NextBytes(c, bytes), NEW s, StartsFrom(x, c, bytes, s),
         NEW t, Handled(s, t), ReadOutcome(s, bytes, t)
  PROVE  /\ Unspoilt(t.c) => PrefixOf(t.c.delivered, t.c.frames)
         /\ IsServed(s, t) => Placed(t.x, t.c)
<1>1. conn[c] \in ConnType /\ ctx[x] \in CtxType
  BY DEF CtxInv, TypeInv
<1>2. Armed(ctx[x], conn[c]) /\ Placed(ctx[x], conn[c])
  BY DEF ArmedInv, FrameInv
<1>3. PICK start : /\ Layout(conn[c].sent, conn[c].frames, start)
                   /\ Unspoilt(conn[c]) => At(ctx[x], conn[c], start)
  BY <1>2 DEF Placed
<1>4. ASSUME Unspoilt(t.c)
      PROVE  /\ PrefixOf(t.c.delivered, t.c.frames)
             /\ IsServed(s, t) => At(t.x, t.c, start)
  <2>1. Unspoilt(conn[c])
    BY <1>4, HandlerUnspoilt
  <2>2. At(ctx[x], conn[c], start) /\ PrefixOf(conn[c].delivered, conn[c].frames)
    BY <1>3, <2>1 DEF FrameInv
  <2> QED
    BY <1>1, <1>2, <1>3, <1>4, <2>2, ReadKeepsFrames
<1>5. ASSUME IsServed(s, t) PROVE Placed(t.x, t.c)
  <2>1. t.c.sent = conn[c].sent /\ t.c.frames = conn[c].frames
    BY <1>5, ServedLayout
  <2>2. Layout(t.c.sent, t.c.frames, start)
    BY <1>3, <2>1
  <2> QED
    BY <1>4, <1>5, <2>2 DEF Placed
<1> QED
  BY <1>4, <1>5

LEMMA WriteKeepsPlace ==
  ASSUME CtxInv, FrameInv, NEW x \in Ctxs, NEW c \in Conns, Serves(x, c),
         NEW s, StartsFrom(x, c, <<>>, s), NEW t, Handled(s, t), WriteOutcome(s, t)
  PROVE  /\ Unspoilt(t.c) => PrefixOf(t.c.delivered, t.c.frames)
         /\ IsServed(s, t) => Placed(t.x, t.c)
<1>1. s \in HandlerType /\ s.c.read = conn[c].read
  <2>1. conn[c].read \in Nat /\ s.c.read = conn[c].read + Len(<<>>)
    BY DEF CtxInv, TypeInv, ConnType, StartsFrom
  <2>2. conn[c].read + 0 = conn[c].read
    BY <2>1
  <2>3. s \in HandlerType
    BY DEF StartsFrom
  <2> QED
    BY <2>1, <2>2, <2>3
<1>2. t.c.frames = conn[c].frames /\ t.c.delivered = conn[c].delivered
  BY DEF StartsFrom, Handled, WriteOutcome, GivesUp, Sends
<1>3. Unspoilt(t.c) => PrefixOf(t.c.delivered, t.c.frames)
  BY <1>2, HandlerUnspoilt DEF FrameInv
<1>4. ASSUME IsServed(s, t) PROVE Placed(t.x, t.c)
  <2>1. Sends(s, t)
    <3>1. ~GivesUp(s, t)
      BY <1>1, <1>4 DEF GivesUp, IsClosed, IsServed, HandlerType
    <3> QED
      BY <3>1 DEF WriteOutcome
  <2>2. /\ t.x.sockState = ctx[x].sockState /\ t.x.in = ctx[x].in
        /\ t.x.m_readWant = ctx[x].m_readWant /\ t.c.read = conn[c].read
    BY <1>1, <1>4, <2>1 DEF Sends, SameReader, IsServed, StartsFrom
  <2>3. t.c.sent = conn[c].sent
    BY <1>4, ServedLayout
  <2>4. PICK start : /\ Layout(conn[c].sent, conn[c].frames, start)
                     /\ Unspoilt(conn[c]) => At(ctx[x], conn[c], start)
    BY DEF FrameInv, Placed
  <2>5. Unspoilt(t.c) => At(t.x, t.c, start)
    <3>1. At(ctx[x], conn[c], start) => At(t.x, t.c, start)
      BY <1>2, <2>2 DEF At
    <3> QED
      BY <2>4, <3>1, HandlerUnspoilt
  <2> QED
    BY <1>2, <2>3, <2>4, <2>5 DEF Placed
<1> QED
  BY <1>3, <1>4

LEMMA HandlerKeepsPlace ==
  ASSUME CtxInv, ArmedInv, FrameInv, NEW x \in Ctxs, NEW c \in Conns, Serves(x, c),
         ReadStep(x, c) \/ WriteStep(x, c)
  PROVE  FrameInv'
<1>1. ASSUME NEW bytes, NEW s, NEW t, StartsFrom(x, c, bytes, s), Handled(s, t), Apply(x, c, t),
             Unspoilt(t.c) => PrefixOf(t.c.delivered, t.c.frames),
             IsServed(s, t) => Placed(t.x, t.c)
      PROVE  FrameInv'
  <2>1. /\ ctx'[x] = t.x /\ conn'[c] = t.c
        /\ \A b \in Conns : b # c => conn'[b] = conn[b]
        /\ \A y \in Ctxs, b \in Conns : Serves(y, b)' =>
              \/ y = x /\ b = c /\ IsServed(s, t)
              \/ y # x /\ b # c /\ Serves(y, b) /\ ctx'[y] = ctx[y] /\ conn'[b] = conn[b]
    BY <1>1, HandlerKeepsOthers
  <2>2. \A b \in Conns : Unspoilt(conn'[b]) => PrefixOf(conn'[b].delivered, conn'[b].frames)
    BY <1>1, <2>1 DEF FrameInv
  <2>3. \A y \in Ctxs, b \in Conns : Serves(y, b)' => Placed(ctx'[y], conn'[b])
    BY <1>1, <2>1 DEF FrameInv
  <2> QED
    BY <2>2, <2>3 DEF FrameInv
<1>2. CASE ReadStep(x, c)
  BY <1>1, <1>2, ReadKeepsPlace DEF ReadStep
<1>3. CASE WriteStep(x, c)
  BY <1>1, <1>3, WriteKeepsPlace DEF WriteStep
<1> QED
  BY <1>2, <1>3

LEMMA FreshIsPlaced ==
  ASSUME CtxInv, FrameInv, NEW c \in Conns, NEW fd \in Fds, CreateConnection(c, fd)
  PROVE  FrameInv'
<1>1. PICK x : FreshPair(x, c, fd)
  BY FreshKeepsOthers
<1>2. /\ ctx'[x].sockState = "RECV_FRAMING" /\ conn'[c].read = 0 /\ conn'[c].sent = <<>>
      /\ conn'[c].frames = <<>> /\ conn'[c].delivered = <<>>
  BY <1>1 DEF FreshPair, NewConn
<1>3. PrefixOf(conn'[c].delivered, conn'[c].frames)
  BY <1>2 DEF PrefixOf
<1>4. Placed(ctx'[x], conn'[c])
  <2> DEFINE start == [i \in Nat |-> 0]
  <2>1. start \in [Nat -> Nat] /\ start[1] = 0
    OBVIOUS
  <2> HIDE DEF start
  <2>2. Layout(conn'[c].sent, conn'[c].frames, start)
    BY <1>2, <2>1 DEF Layout
  <2>3. At(ctx'[x], conn'[c], start)
    BY <1>2, <2>1 DEF At
  <2> QED
    BY <2>2, <2>3 DEF Placed
<1>5. \A b \in Conns : Unspoilt(conn'[b]) => PrefixOf(conn'[b].delivered, conn'[b].frames)
  BY <1>1, <1>3 DEF FrameInv, FreshPair
<1>6. \A y \in Ctxs, b \in Conns : Serves(y, b)' => Placed(ctx'[y], conn'[b])
  BY <1>1, <1>4 DEF FrameInv, FreshPair
<1> QED
  BY <1>5, <1>6 DEF FrameInv

(* A new frame changes neither the old ones nor where the reader is.         *)
LEMMA PlacedGrows ==
  ASSUME NEW x \in CtxType, NEW a \in ConnType, NEW b, NEW n \in Byte, NEW body \in Bytes, Len(body) = n,
         b.sent = a.sent \o <<0, n>> \o body, b.frames = Append(a.frames, body),
         b.read = a.read, b.delivered = a.delivered, b.spoilt = a.spoilt,
         Unspoilt(a) => PrefixOf(a.delivered, a.frames)
  PROVE  /\ Unspoilt(b) => PrefixOf(b.delivered, b.frames)
         /\ Placed(x, a) => Placed(x, b)
<1>1. a.sent \in Bytes /\ a.frames \in Frames /\ a.delivered \in Frames
  BY DEF ConnType
<1>2. PICK m, k \in Nat : m = Len(a.frames) /\ k = Len(a.delivered)
  <2>1. Len(a.frames) \in Nat /\ Len(a.delivered) \in Nat
    BY <1>1 DEF Frames
  <2> QED
    BY <2>1, Zenon
<1>3. Len(b.frames) = m + 1 /\ \A i \in 1..m : b.frames[i] = a.frames[i]
  BY <1>1, <1>2 DEF Frames
<1>4. Unspoilt(b) <=> Unspoilt(a)
  BY DEF Unspoilt
<1>5. Unspoilt(a) => k <= m /\ \A i \in 1..k : a.delivered[i] = a.frames[i]
  BY <1>2 DEF PrefixOf
<1>6. Unspoilt(b) => PrefixOf(b.delivered, b.frames)
  BY <1>2, <1>3, <1>4, <1>5 DEF PrefixOf
<1>7. ASSUME Placed(x, a) PROVE Placed(x, b)
  <2>1. PICK start : Layout(a.sent, a.frames, start) /\ (Unspoilt(a) => At(x, a, start))
    BY <1>7 DEF Placed
  <2>2. PICK new : /\ Layout(b.sent, b.frames, new)
                   /\ \A i \in 1..m + 1 : new[i] = start[i]
    BY <1>1, <1>2, <2>1, LayoutGrows
  <2>3. ASSUME Unspoilt(a) PROVE At(x, b, new)
    <3>1. At(x, a, start) /\ new[k + 1] = start[k + 1]
      <4>1. k + 1 \in 1..m + 1
        BY <1>5, <2>3
      <4> QED
        BY <2>1, <2>2, <2>3, <4>1
    <3>2. k + 1 <= m => k + 1 <= m + 1 /\ b.frames[k + 1] = a.frames[k + 1]
      BY <1>3
    <3> QED
      BY <1>2, <1>3, <3>1, <3>2 DEF At
  <2> QED
    BY <1>4, <2>2, <2>3 DEF Placed
<1> QED
  BY <1>6, <1>7

LEMMA PeerKeepsPlace ==
  ASSUME CtxInv, FrameInv, NEW c \in Conns, NEW b, PeerStep(c, b),
         \/ b.sent = conn[c].sent /\ b.frames = conn[c].frames
         \/ \E n, body : /\ body \in Bytes /\ Len(body) = n /\ n \in Byte
                         /\ b.sent = conn[c].sent \o <<0, n>> \o body
                         /\ b.frames = Append(conn[c].frames, body)
  PROVE  FrameInv'
<1>1. /\ conn'[c] = b /\ \A a \in Conns : a # c => conn'[a] = conn[a]
      /\ \A x \in Ctxs, a \in Conns : Serves(x, a)' <=> Serves(x, a)
  BY PeerKeepsPool DEF CtxInv
<1>2. /\ ctx' = ctx /\ b.spoilt = conn[c].spoilt /\ b.read = conn[c].read
      /\ b.delivered = conn[c].delivered
  BY DEF PeerStep
<1>3. conn[c] \in ConnType /\ \A x \in Ctxs : ctx[x] \in CtxType
  BY DEF CtxInv, TypeInv
<1>4. /\ Unspoilt(b) => PrefixOf(b.delivered, b.frames)
      /\ \A x \in Ctxs : Placed(ctx[x], conn[c]) => Placed(ctx[x], b)
  <2>1. CASE b.sent = conn[c].sent /\ b.frames = conn[c].frames
    BY <1>2, <2>1 DEF FrameInv, Placed, Unspoilt, At
  <2>2. CASE \E n, body : /\ body \in Bytes /\ Len(body) = n /\ n \in Byte
                          /\ b.sent = conn[c].sent \o <<0, n>> \o body
                          /\ b.frames = Append(conn[c].frames, body)
    <3>1. PICK n, body : /\ body \in Bytes /\ Len(body) = n /\ n \in Byte
                         /\ b.sent = conn[c].sent \o <<0, n>> \o body
                         /\ b.frames = Append(conn[c].frames, body)
      BY <2>2
    <3>2. Unspoilt(conn[c]) => PrefixOf(conn[c].delivered, conn[c].frames)
      BY DEF FrameInv
    <3>3. ASSUME NEW x \in CtxType
          PROVE  /\ Unspoilt(b) => PrefixOf(b.delivered, b.frames)
                 /\ Placed(x, conn[c]) => Placed(x, b)
      BY <1>2, <1>3, <3>1, <3>2, PlacedGrows
    <3>4. CtxType # {}
      <4>1. NewCtx("INIT") \in CtxType
        <5>1. "INIT" \in AppStates /\ <<0, 0>> \in Headers
          BY DEF AppStates, Headers, Byte
        <5> QED
          BY <5>1, Values DEF NewCtx, CtxType
      <4> QED
        BY <4>1
    <3> QED
      BY <1>3, <3>3, <3>4
  <2> QED
    BY <2>1, <2>2
<1>5. \A a \in Conns : Unspoilt(conn'[a]) => PrefixOf(conn'[a].delivered, conn'[a].frames)
  BY <1>1, <1>4 DEF FrameInv
<1>6. \A x \in Ctxs, a \in Conns : Serves(x, a)' => Placed(ctx'[x], conn'[a])
  BY <1>1, <1>2, <1>4 DEF FrameInv
<1> QED
  BY <1>5, <1>6 DEF FrameInv

LEMMA NextFrameInv == CtxInv /\ ArmedInv /\ FrameInv /\ [Next]_vars => FrameInv'
<1> SUFFICES ASSUME CtxInv, ArmedInv, FrameInv, [Next]_vars PROVE FrameInv'
  OBVIOUS
<1>1. ASSUME NEW c \in Conns, NEW fd \in Fds, CreateConnection(c, fd) PROVE FrameInv'
  BY <1>1, FreshIsPlaced
<1>2. ASSUME NEW c \in Conns, NEW n \in Lengths, PeerSends(c, n) PROVE FrameInv'
  BY <1>2, PeerSendsStep, PeerKeepsPlace DEF CtxInv
<1>3. ASSUME NEW c \in Conns, PeerGoes(c) PROVE FrameInv'
  BY <1>3, PeerGoesStep, PeerKeepsPlace DEF CtxInv
<1>4. ASSUME NEW x \in Ctxs, ReadEvent(x) PROVE FrameInv'
  BY <1>4, ReadEventStep, HandlerKeepsPlace DEF CtxInv
<1>5. ASSUME NEW x \in Ctxs, WriteEvent(x) PROVE FrameInv'
  BY <1>5, WriteEventStep, HandlerKeepsPlace DEF CtxInv
<1>6. CASE UNCHANGED vars
  <2>1. \A x \in Ctxs, c \in Conns : Serves(x, c)' <=> Serves(x, c)
    BY <1>6 DEF vars, Serves, InUse
  <2> QED
    BY <1>6, <2>1 DEF vars, FrameInv
<1> QED
  BY <1>1, <1>2, <1>3, <1>4, <1>5, <1>6 DEF Next

LEMMA InitFrameInv == Init => FrameInv
<1> SUFFICES ASSUME Init PROVE FrameInv
  OBVIOUS
<1>1. conn = [c \in Conns |-> NewConn]
  BY DEF Init
<1>2. \A c \in Conns : /\ conn[c].state = "new" /\ conn[c].delivered = <<>>
                       /\ conn[c].frames = <<>>
  BY <1>1 DEF NewConn
<1> QED
  BY <1>2 DEF FrameInv, Serves, PrefixOf

LEMMA PrefixIsPrefix ==
  ASSUME NEW d \in Frames, NEW f \in Frames, PrefixOf(d, f)
  PROVE  IsPrefix(d, f)
<1>1. PICK n, m \in Nat : n = Len(d) /\ m = Len(f)
  <2>1. Len(d) \in Nat /\ Len(f) \in Nat
    BY DEF Frames
  <2> QED
    BY <2>1, Zenon
<1>2. n <= m /\ \A i \in 1..n : d[i] = f[i]
  BY <1>1 DEF PrefixOf
<1>3. SubSeq(f, 1, n) \in Seq(Bytes) /\ Len(SubSeq(f, 1, n)) = n
      /\ \A i \in 1..n : SubSeq(f, 1, n)[i] = f[i]
  BY <1>1, <1>2 DEF Frames
<1>4. d = SubSeq(f, 1, n)
  BY <1>1, <1>2, <1>3, SeqEqual DEF Frames
<1> QED
  BY <1>1, <1>2, <1>4 DEF IsPrefix

LEMMA FrameInvSound == CtxInv /\ FrameInv => FramesIntact
<1> SUFFICES ASSUME CtxInv, FrameInv, NEW c \in Conns, conn[c].spoilt \cap {"stale", "short"} = {}
             PROVE  IsPrefix(conn[c].delivered, conn[c].frames)
  BY DEF FramesIntact
<1>1. conn[c].delivered \in Frames /\ conn[c].frames \in Frames
  BY DEF CtxInv, TypeInv, ConnType
<1>2. PrefixOf(conn[c].delivered, conn[c].frames)
  BY DEF FrameInv, Unspoilt
<1> QED
  BY <1>1, <1>2, PrefixIsPrefix

(* However recv() cuts the stream, what is delivered to a connection are the *)
(* frames of its own peer, whole and in order, unless its ctx was not clean  *)
(* or a length came in two parts.                                            *)
THEOREM FramesAlwaysIntact == Spec => []FramesIntact
<1>1. Init => CtxInv /\ ArmedInv /\ FrameInv
  BY InitCtxInv, InitArmedInv, InitFrameInv
<1>2. CtxInv /\ ArmedInv /\ FrameInv /\ [Next]_vars => (CtxInv /\ ArmedInv /\ FrameInv)'
  BY NextCtxInv, NextArmedInv, NextFrameInv
<1> QED
  BY <1>1, <1>2, FrameInvSound, PTL DEF Spec

-----------------------------------------------------------------------------
(* The function in FlattenSeq(), of which there is at most one.              *)
FlattenOf(d, f) == f = [i \in 1..Len(d) |-> IF i = 1 THEN d[i] ELSE f[i - 1] \o d[i]]

LEMMA FlattenChosen ==
  ASSUME NEW d, Len(d) # 0
  PROVE  FlattenSeq(d) = (CHOOSE f : FlattenOf(d, f))[Len(d)]
  BY DEF FlattenSeq, FlattenOf

LEMMA SmallestOf ==
  ASSUME NEW S \in SUBSET Nat, S # {}
  PROVE  \E m \in S : \A n \in S : m <= n
<1>1. PICK m \in S : \A n \in S : ~(<<n, m>> \in OpToRel(<, Nat))
  BY NatLessThanWellFounded, WFMin, Zenon
<1>2. \A n \in S : ~(n < m)
  BY <1>1 DEF OpToRel
<1> QED
  BY <1>2

LEMMA FlattenUnique ==
  ASSUME NEW d, NEW n \in Nat, Len(d) = n, NEW f, FlattenOf(d, f), NEW g, FlattenOf(d, g)
  PROVE  f = g
<1>1. /\ f = [i \in 1..n |-> IF i = 1 THEN d[i] ELSE f[i - 1] \o d[i]]
      /\ g = [i \in 1..n |-> IF i = 1 THEN d[i] ELSE g[i - 1] \o d[i]]
  BY DEF FlattenOf
<1>2. \A i \in 1..n : /\ f[i] = IF i = 1 THEN d[i] ELSE f[i - 1] \o d[i]
                      /\ g[i] = IF i = 1 THEN d[i] ELSE g[i - 1] \o d[i]
  <2> TAKE i \in 1..n
  <2>1. f[i] = IF i = 1 THEN d[i] ELSE f[i - 1] \o d[i]
    BY <1>1, Zenon
  <2>2. g[i] = IF i = 1 THEN d[i] ELSE g[i - 1] \o d[i]
    BY <1>1, Zenon
  <2> QED
    BY <2>1, <2>2
<1> DEFINE S == {i \in 1..n : f[i] # g[i]}
<1>3. S = {}
  <2> SUFFICES ASSUME S # {} PROVE FALSE
    OBVIOUS
  <2>1. PICK m \in S : \A i \in S : m <= i
    <3>1. S \in SUBSET Nat
      OBVIOUS
    <3> QED
      BY <3>1, SmallestOf
  <2>2. m \in 1..n /\ f[m] # g[m] /\ m # 1
    BY <1>2, <2>1
  <2>3. m - 1 \in 1..n /\ ~(m <= m - 1)
    BY <2>2
  <2>4. f[m - 1] = g[m - 1]
    BY <2>1, <2>3
  <2> QED
    BY <1>2, <2>2, <2>4
<1>4. DOMAIN f = 1..n /\ DOMAIN g = 1..n /\ f = [i \in 1..n |-> f[i]] /\ g = [i \in 1..n |-> g[i]]
  <2>1. f = [i \in 1..n |-> f[i]]
    BY <1>1, <1>2
  <2>2. g = [i \in 1..n |-> g[i]]
    BY <1>1, <1>2
  <2> QED
    BY <2>1, <2>2
<1> QED
  BY <1>3, <1>4

(* r are the messages of d, one behind the other.                            *)
Flat(d, r) ==
    /\ r \in Bytes
    /\ \/ d = <<>> /\ r = <<>>
       \/ Len(d) # 0 /\ \E f : FlattenOf(d, f) /\ r = f[Len(d)]

LEMMA FlatIsFlatten ==
  ASSUME NEW d \in Frames, NEW r, Flat(d, r)
  PROVE  r = FlattenSeq(d)
<1>1. CASE d = <<>> /\ r = <<>>
  BY <1>1 DEF FlattenSeq
<1>2. CASE Len(d) # 0 /\ \E f : FlattenOf(d, f) /\ r = f[Len(d)]
  <2>1. PICK f : FlattenOf(d, f) /\ r = f[Len(d)]
    BY <1>2
  <2>2. FlattenOf(d, CHOOSE g : FlattenOf(d, g))
    BY <2>1
  <2>3. Len(d) \in Nat
    BY DEF Frames
  <2>4. f = CHOOSE g : FlattenOf(d, g)
    BY <2>1, <2>2, <2>3, FlattenUnique
  <2> QED
    BY <1>2, <2>1, <2>4, FlattenChosen
<1> QED
  BY <1>1, <1>2 DEF Flat

LEMMA FlatGrows ==
  ASSUME NEW d \in Frames, NEW r, Flat(d, r), NEW msg \in Bytes
  PROVE  Flat(Append(d, msg), r \o msg)
<1> DEFINE e == Append(d, msg)
<1>1. PICK n \in Nat : n = Len(d)
  <2>1. Len(d) \in Nat
    BY DEF Frames
  <2> QED
    BY <2>1, Zenon
<1>2. Len(e) = n + 1 /\ e[n + 1] = msg /\ \A i \in 1..n : e[i] = d[i]
  BY <1>1 DEF Frames
<1>3. r \in Bytes /\ r \o msg \in Bytes
  BY BytesConcat DEF Flat
<1> HIDE DEF e
<1>4. CASE d = <<>> /\ r = <<>>
  <2> DEFINE g == [i \in 1..1 |-> msg]
  <2>1. n = 0
    BY <1>1, <1>4
  <2>2. Len(e) = 1 /\ e[1] = msg
    BY <1>2, <2>1
  <2>3. FlattenOf(e, g)
    BY <2>2 DEF FlattenOf
  <2>4. r \o msg = g[Len(e)]
    BY <1>4, <2>2, BytesConcat
  <2> HIDE DEF g
  <2> QED
    BY <1>3, <2>2, <2>3, <2>4 DEF Flat, e
<1>5. CASE Len(d) # 0 /\ \E f : FlattenOf(d, f) /\ r = f[Len(d)]
  <2>1. PICK f : FlattenOf(d, f) /\ r = f[n]
    BY <1>1, <1>5
  <2>2. n # 0 /\ f = [i \in 1..n |-> IF i = 1 THEN d[i] ELSE f[i - 1] \o d[i]]
    BY <1>1, <1>5, <2>1 DEF FlattenOf
  <2>3. \A i \in 1..n : f[i] = IF i = 1 THEN d[i] ELSE f[i - 1] \o d[i]
    <3> TAKE i \in 1..n
    <3> QED
      BY <2>2, Zenon
  <2> DEFINE g == [i \in 1..n + 1 |-> IF i = n + 1 THEN r \o msg ELSE f[i]]
  <2>4. /\ DOMAIN g = 1..n + 1 /\ g = [i \in 1..n + 1 |-> g[i]] /\ g[n + 1] = r \o msg
        /\ \A i \in 1..n : g[i] = f[i]
    OBVIOUS
  <2> HIDE DEF g
  <2>5. ASSUME NEW i \in 1..n + 1
        PROVE  g[i] = IF i = 1 THEN e[i] ELSE g[i - 1] \o e[i]
    <3>1. CASE i = n + 1
      <4>1. i # 1 /\ i - 1 = n /\ n \in 1..n
        BY <2>2, <3>1
      <4> QED
        BY <1>2, <2>1, <2>4, <3>1, <4>1
    <3>2. CASE i # n + 1
      <4>1. i \in 1..n /\ (i # 1 => i - 1 \in 1..n)
        BY <3>2
      <4> QED
        BY <1>2, <2>3, <2>4, <4>1
    <3> QED
      BY <3>1, <3>2
  <2>6. FlattenOf(e, g)
    <3>1. g = [i \in 1..n + 1 |-> IF i = 1 THEN e[i] ELSE g[i - 1] \o e[i]]
      BY <2>4, <2>5
    <3> QED
      BY <1>2, <3>1 DEF FlattenOf
  <2>7. r \o msg = g[Len(e)] /\ Len(e) # 0
    BY <1>2, <2>4
  <2> QED
    BY <1>3, <2>6, <2>7 DEF Flat, e
<1> QED
  BY <1>4, <1>5 DEF Flat

(* The peer has got the echo up to what waits in m_outputBuffer_.            *)
InOrder(c) == "stale" \notin c.spoilt /\ "overtaken" \notin c.spoilt /\ "fault" \notin c.spoilt
EchoUpTo(x, c) == InOrder(c) => Flat(c.delivered, c.got \o x.out)

EchoInv == \A x \in Ctxs, c \in Conns : Serves(x, c) => EchoUpTo(ctx[x], conn[c])

LEMMA StartsEcho ==
  ASSUME NEW x, NEW c, NEW bytes, NEW s, StartsFrom(x, c, bytes, s), EchoUpTo(ctx[x], conn[c])
  PROVE  EchoUpTo(s.x, s.c)
  BY DEF StartsFrom, EchoUpTo, InOrder

LEMMA ReadKeepsEcho ==
  ASSUME NEW s \in HandlerType, NEW bytes \in Bytes, NEW t, Armed(s.x, s.c), EchoUpTo(s.x, s.c),
         Handled(s, t), ReadOutcome(s, bytes, t), IsServed(s, t)
  PROVE  EchoUpTo(t.x, t.c)
<1> SUFFICES ASSUME InOrder(t.c) PROVE Flat(t.c.delivered, t.c.got \o t.x.out)
  BY DEF EchoUpTo
<1>1. InOrder(s.c)
  BY DEF Handled, InOrder
<1>2. Flat(s.c.delivered, s.c.got \o s.x.out)
  BY <1>1 DEF EchoUpTo
<1>3. ~GivesUp(s, t)
  BY DEF GivesUp, IsClosed, IsServed, HandlerType
<1>4. CASE s.x.sockState = "RECV_FRAMING" /\ (s.x.in = <<>> => ReadsHeader(s, bytes, t))
  <2>1. ReadsHeader(s, bytes, t)
    BY <1>1, <1>4 DEF InOrder, Armed
  <2> QED
    BY <1>2, <2>1 DEF ReadsHeader
<1>5. CASE WaitsForMore(s, bytes, t)
  BY <1>2, <1>5 DEF WaitsForMore
<1>6. CASE TakesMessage(s, bytes, t)
  <2> DEFINE msg == s.x.in \o bytes
  <2>1. s.c.delivered \in Frames /\ msg \in Bytes
    <3>1. s.x.in \in Bytes /\ s.c.delivered \in Frames
      BY DEF HandlerType, CtxType, ConnType
    <3> QED
      BY <3>1, BytesConcat
  <2>2. t.c.delivered = Append(s.c.delivered, msg) /\ Echoed(s, t, msg)
    BY <1>6 DEF TakesMessage
  <2> HIDE DEF msg
  <2>3. t.c.got \o t.x.out = (s.c.got \o s.x.out) \o msg
    <3>1. t.c.spoilt \cap {"overtaken", "fault"} = {}
      BY DEF InOrder
    <3> QED
      BY <2>2, <3>1 DEF Echoed
  <2> QED
    BY <1>2, <2>1, <2>2, <2>3, FlatGrows
<1>7. s.x.sockState = "RECV" => Len(s.x.in) < s.x.m_readWant
  BY <1>1 DEF InOrder, Armed
<1> QED
  BY <1>3, <1>4, <1>5, <1>6, <1>7 DEF ReadOutcome, ReadsBody

LEMMA HandlerKeepsEcho ==
  ASSUME CtxInv, ArmedInv, EchoInv, NEW x \in Ctxs, NEW c \in Conns, Serves(x, c),
         ReadStep(x, c) \/ WriteStep(x, c)
  PROVE  EchoInv'
<1>1. Armed(ctx[x], conn[c]) /\ EchoUpTo(ctx[x], conn[c])
  BY DEF ArmedInv, EchoInv
<1>2. CASE ReadStep(x, c)
  <2>1. PICK bytes, s, t : /\ NextBytes(c, bytes) /\ StartsFrom(x, c, bytes, s)
                           /\ Handled(s, t) /\ ReadOutcome(s, bytes, t) /\ Apply(x, c, t)
    BY <1>2 DEF ReadStep
  <2>2. s \in HandlerType /\ bytes \in Bytes
    BY <2>1 DEF StartsFrom, NextBytes
  <2>3. Armed(s.x, s.c) /\ EchoUpTo(s.x, s.c)
    BY <1>1, <2>1, StartsArmed, StartsEcho
  <2>4. IsServed(s, t) => EchoUpTo(t.x, t.c)
    BY <2>1, <2>2, <2>3, ReadKeepsEcho
  <2> QED
    BY <2>1, <2>4, HandlerKeepsOthers DEF EchoInv
<1>3. CASE WriteStep(x, c)
  <2>1. PICK s, t : /\ StartsFrom(x, c, <<>>, s)
                    /\ Handled(s, t) /\ WriteOutcome(s, t) /\ Apply(x, c, t)
    BY <1>3 DEF WriteStep
  <2>2. s \in HandlerType /\ EchoUpTo(s.x, s.c)
    <3>1. s \in HandlerType
      BY <2>1 DEF StartsFrom
    <3> QED
      BY <1>1, <2>1, <3>1, StartsEcho
  <2>3. IsServed(s, t) => EchoUpTo(t.x, t.c)
    <3>1. IsServed(s, t) => ~GivesUp(s, t)
      BY <2>2 DEF GivesUp, IsClosed, IsServed, HandlerType
    <3>2. Sends(s, t) => EchoUpTo(t.x, t.c)
      BY <2>2 DEF Sends, EchoUpTo, InOrder
    <3> QED
      BY <2>1, <3>1, <3>2 DEF WriteOutcome
  <2> QED
    BY <2>1, <2>3, HandlerKeepsOthers DEF EchoInv
<1> QED
  BY <1>2, <1>3

LEMMA FreshEcho ==
  ASSUME CtxInv, EchoInv, NEW c \in Conns, NEW fd \in Fds, CreateConnection(c, fd)
  PROVE  EchoInv'
<1>1. PICK x : FreshPair(x, c, fd)
  BY FreshKeepsOthers
<1>2. conn'[c].delivered = <<>> /\ conn'[c].got = <<>>
  BY <1>1 DEF FreshPair, NewConn
<1>3. EchoUpTo(ctx'[x], conn'[c])
  <2> SUFFICES ASSUME InOrder(conn'[c]) PROVE Flat(conn'[c].delivered, conn'[c].got \o ctx'[x].out)
    BY DEF EchoUpTo
  <2>1. ctx'[x].out = <<>>
    BY <1>1 DEF FreshPair, InOrder
  <2>2. Flat(<<>>, <<>> \o <<>>)
    <3>1. <<>> \o <<>> = <<>>
      BY Values, BytesConcat
    <3> QED
      BY <3>1, Values DEF Flat
  <2> QED
    BY <1>2, <2>1, <2>2
<1> QED
  BY <1>1, <1>3 DEF FreshPair, EchoInv

LEMMA PeerKeepsEcho ==
  ASSUME CtxInv, EchoInv, NEW c \in Conns, NEW b, PeerStep(c, b)
  PROVE  EchoInv'
<1>1. /\ conn'[c] = b /\ \A a \in Conns : a # c => conn'[a] = conn[a]
      /\ \A x \in Ctxs, a \in Conns : Serves(x, a)' <=> Serves(x, a)
  BY PeerKeepsPool DEF CtxInv
<1>2. /\ ctx' = ctx /\ b.spoilt = conn[c].spoilt /\ b.got = conn[c].got
      /\ b.delivered = conn[c].delivered
  BY DEF PeerStep
<1>3. \A x \in Ctxs : EchoUpTo(ctx[x], conn[c]) => EchoUpTo(ctx[x], b)
  BY <1>2 DEF EchoUpTo, InOrder
<1> QED
  BY <1>1, <1>2, <1>3 DEF EchoInv

LEMMA NextEchoInv == CtxInv /\ ArmedInv /\ EchoInv /\ [Next]_vars => EchoInv'
<1> SUFFICES ASSUME CtxInv, ArmedInv, EchoInv, [Next]_vars PROVE EchoInv'
  OBVIOUS
<1>1. ASSUME NEW c \in Conns, NEW fd \in Fds, CreateConnection(c, fd) PROVE EchoInv'
  BY <1>1, FreshEcho
<1>2. ASSUME NEW c \in Conns, NEW n \in Lengths, PeerSends(c, n) PROVE EchoInv'
  BY <1>2, PeerSendsStep, PeerKeepsEcho DEF CtxInv
<1>3. ASSUME NEW c \in Conns, PeerGoes(c) PROVE EchoInv'
  BY <1>3, PeerGoesStep, PeerKeepsEcho DEF CtxInv
<1>4. ASSUME NEW x \in Ctxs, ReadEvent(x) PROVE EchoInv'
  BY <1>4, ReadEventStep, HandlerKeepsEcho DEF CtxInv
<1>5. ASSUME NEW x \in Ctxs, WriteEvent(x) PROVE EchoInv'
  BY <1>5, WriteEventStep, HandlerKeepsEcho DEF CtxInv
<1>6. CASE UNCHANGED vars
  <2>1. \A x \in Ctxs, c \in Conns : Serves(x, c)' <=> Serves(x, c)
    BY <1>6 DEF vars, Serves, InUse
  <2> QED
    BY <1>6, <2>1 DEF vars, EchoInv
<1> QED
  BY <1>1, <1>2, <1>3, <1>4, <1>5, <1>6 DEF Next

LEMMA InitEchoInv == Init => EchoInv
<1> SUFFICES ASSUME Init PROVE EchoInv
  OBVIOUS
<1>1. conn = [c \in Conns |-> NewConn]
  BY DEF Init
<1> QED
  BY <1>1 DEF EchoInv, Serves, NewConn

LEMMA EchoInvSound == CtxInv /\ EchoInv => EchoIntact
<1> SUFFICES ASSUME CtxInv, EchoInv, NEW x \in Ctxs, InUse(x),
                    conn[ServedBy(x)].spoilt \cap {"stale", "overtaken", "fault"} = {}
             PROVE  conn[ServedBy(x)].got \o ctx[x].out = FlattenSeq(conn[ServedBy(x)].delivered)
  BY DEF EchoIntact
<1>1. ServedBy(x) \in Conns /\ Serves(x, ServedBy(x))
  BY ServedOne DEF CtxInv
<1>2. Flat(conn[ServedBy(x)].delivered, conn[ServedBy(x)].got \o ctx[x].out)
  <2>1. InOrder(conn[ServedBy(x)])
    BY DEF InOrder
  <2> QED
    BY <1>1, <2>1 DEF EchoInv, EchoUpTo
<1>3. conn[ServedBy(x)].delivered \in Frames
  BY <1>1 DEF CtxInv, TypeInv, ConnType
<1> QED
  BY <1>2, <1>3, FlatIsFlatten

(* However write() cuts the echo, its bytes reach the peer in the order of   *)
(* the messages, none lost and none twice, up to those in m_outputBuffer_,   *)
(* unless new data overtook the old, the ctx was not clean or the peer is    *)
(* gone.                                                                     *)
THEOREM EchoAlwaysIntact == Spec => []EchoIntact
<1>1. Init => CtxInv /\ ArmedInv /\ EchoInv
  BY InitCtxInv, InitArmedInv, InitEchoInv
<1>2. CtxInv /\ ArmedInv /\ EchoInv /\ [Next]_vars => (CtxInv /\ ArmedInv /\ EchoInv)'
  BY NextCtxInv, NextArmedInv, NextEchoInv
<1> QED
  BY <1>1, <1>2, EchoInvSound, PTL DEF Spec

=============================================================================
