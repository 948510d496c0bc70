--------------------------- MODULE FrameTransport ---------------------------
(***************************************************************************)
(* examples/tstlesrv: the ClientCtx and CFrameTransport objects of one IO  *)
(* thread.  A frame is a length and so many bytes of body, which come back *)
(* as the echo.  Closed connections leave their ClientCtx to later ones,   *)
(* and their descriptor to whoever opens the next.                         *)
(*                                                                         *)
(* The four bytes of the length are two here, the high one and the low     *)
(* one.  The peer sends whole frames; what recv() returns may end anywhere *)
(* in them.                                                                *)
(***************************************************************************)
EXTENDS Integers, Sequences, SequencesExt, FiniteSets, FiniteSetsExt

CONSTANTS MaxConns,   \* connections
          NumCtxs,    \* ClientCtx objects
          Fds,        \* descriptors that accept() may return
          Lengths,    \* of a body; 0 is an error
          MaxFrames   \* frames the peers send between them

ASSUME FrameAssumption ==
    /\ MaxConns \in Nat /\ NumCtxs \in Nat /\ Fds \subseteq Nat \ {0}
    /\ Lengths \subseteq 0..255 /\ MaxFrames \in Nat

Conns == 1..MaxConns
Ctxs == 1..NumCtxs
INVALID_SOCKET == 0

VARIABLES
    ctx,       \* ctx[x]: the fields of a ClientCtx and its transport
    made,      \* how many there are
    m_idleCtxs,
    conn       \* conn[c]: a connection, and what its peer has sent and received

vars == <<ctx, made, m_idleCtxs, conn>>

(* m_rd_app_state is not initialised: it is APP_INIT or it is not.           *)
NewCtx(app) ==
    [m_sfd |-> INVALID_SOCKET, m_flags |-> "0", rdEvent |-> FALSE, wrEvent |-> FALSE,
     wrAssigned |-> FALSE, m_socket |-> INVALID_SOCKET, sockState |-> "RECV_FRAMING",
     appState |-> app, m_readWant |-> 0, reserve |-> <<0, 0>>, in |-> <<>>, out |-> <<>>]

NewConn == [fd |-> INVALID_SOCKET, state |-> "new", sent |-> <<>>, read |-> 0, gone |-> FALSE,
            frames |-> <<>>, delivered |-> <<>>, got |-> <<>>, spoilt |-> {}]

Init ==
    /\ \E app \in {"INIT", "other"} : ctx = [x \in Ctxs |-> NewCtx(app)]
    /\ made = 0 /\ m_idleCtxs = <<>>
    /\ conn = [c \in Conns |-> NewConn]

ConnsOf(fd) == {c \in Conns : conn[c].state = "open" /\ conn[c].fd = fd}
ServedBy(x) == CHOOSE c \in ConnsOf(ctx[x].m_sfd) : TRUE

-----------------------------------------------------------------------------
(* A handler works on s: x is its ctx, c the connection it serves, and       *)
(* closes counts the calls of close_connection().  The results of the system *)
(* calls it makes are chosen first: w is what write() returns (-1: EPIPE),   *)
(* d what event_del() of an event that was never assigned returns.           *)

(* Of a closed connection only the frames are remembered.                    *)
Closed(c) == [NewConn EXCEPT !.state = "closed", !.frames = c.frames, !.delivered = c.delivered,
                             !.spoilt = c.spoilt]

(* event_del() of both events, close(), return_clientctx().                  *)
close_connection(s) ==
    [s EXCEPT !.x.rdEvent = FALSE, !.x.wrEvent = FALSE, !.x.m_sfd = INVALID_SOCKET,
              !.c = Closed(@), !.closes = @ + 1]

set_read_ctxnew(x) == IF x.m_flags = "R" THEN x ELSE [x EXCEPT !.m_flags = "R", !.rdEvent = TRUE]

(* Mutation: the read event makes way for the write event.                   *)
on_setwritestateOneEvent(s, d) ==
    IF s.x.m_flags = "W" THEN s
    ELSE IF ~s.x.wrAssigned /\ ~d THEN close_connection(s)
    ELSE [s EXCEPT !.x.m_flags = "W", !.x.wrEvent = TRUE, !.x.wrAssigned = TRUE, !.x.rdEvent = FALSE]
(* set_write_ctxnew() closes the connection when event_del() fails.          *)
on_setwritestate(s, d) ==
    IF s.x.m_flags = "W" THEN s
    ELSE IF ~s.x.wrAssigned /\ ~d THEN close_connection(s)
    ELSE [s EXCEPT !.x.m_flags = "W", !.x.wrEvent = TRUE, !.x.wrAssigned = TRUE]

(* The first n bytes reach the peer.                                         *)
ToPeer(s, data, n) == [s EXCEPT !.c.got = @ \o SubSeq(data, 1, n)]

(* write_buffer() writes first, whether or not older data waits in           *)
(* m_outputBuffer_ (then the echo is out of order), and keeps the remainder; *)
(* after EPIPE there is no remainder.                                        *)
write_buffer(s, data, w, d) ==
    LET after == ToPeer(s, data, w)
        order == IF s.x.out # <<>> /\ w > 0 THEN {"overtaken"} ELSE {}
    IN  IF w < 0 THEN [s EXCEPT !.c.spoilt = @ \cup {"fault"}]
        ELSE IF w = Len(data) THEN [after EXCEPT !.c.spoilt = @ \cup order]
        ELSE on_setwritestate([after EXCEPT !.x.out = @ \o SubSeq(data, w + 1, Len(data)),
                                            !.c.spoilt = @ \cup order], d)

(* on_readsocketdone(): GetMsg() and EchoIt().                               *)
on_readsocketdone(s, w, d) ==
    LET n == s.x.reserve[1] * 256 + s.x.reserve[2]
        msg == SubSeq(s.x.in, 1, n)
        reader == [set_read_ctxnew(s.x) EXCEPT !.in = SubSeq(@, n + 1, Len(@))]
        taken == [s EXCEPT !.x = reader, !.c.delivered = Append(@, msg)]
    IN  write_buffer(taken, msg, Min({w, n}), d)

rd_transition(s, w, d) ==
    CASE s.x.appState = "READ_FRAME_SIZE" /\ s.x.m_readWant <= 0 -> close_connection(s)
      [] s.x.appState = "READ_FRAME_SIZE" /\ s.x.m_readWant > 0 ->
            [s EXCEPT !.x.sockState = "RECV", !.x.appState = "READ_REQUEST"]
      [] s.x.appState = "READ_REQUEST" ->
            [on_readsocketdone(s, w, d) EXCEPT !.x.sockState = "RECV_FRAMING",
                !.x.appState = "READ_FRAME_SIZE", !.x.m_readWant = 0]
      [] OTHER -> s

(* Mutation: read_framing() goes on after a bad length.                      *)
BadLengthGoesOn(s, w, d) == rd_transition(close_connection(s), w, d)
BadLength(s, w, d) == close_connection(s)

(* read_framing() and what follows in read_socket().  A header that comes in *)
(* two parts is not noticed: the missing byte is the one of the last header. *)
read_framing(s, bytes, w, d) ==
    LET head == bytes \o SubSeq(s.x.reserve, Len(bytes) + 1, 2)
        want == head[1] * 256 + head[2]
        framed == [s EXCEPT !.x.reserve = head, !.x.m_readWant = want,
                            !.c.spoilt = @ \cup (IF Len(bytes) < 2 THEN {"short"} ELSE {})]
        ready == [framed EXCEPT !.x.appState = "READ_FRAME_SIZE"]
    IN  IF bytes = <<>> THEN close_connection(s)
        ELSE IF want <= 0 THEN BadLength(framed, w, d)
        ELSE rd_transition(IF Len(s.x.in) >= want THEN on_readsocketdone(ready, w, d) ELSE ready, w, d)

read_data(s, bytes, w, d) ==
    LET more == [s EXCEPT !.x.in = @ \o bytes]
    IN  IF s.x.m_readWant <= 0 \/ bytes = <<>> THEN close_connection(s)
        ELSE IF Len(more.x.in) < s.x.m_readWant THEN more
        ELSE rd_transition(more, w, d)

(* How much the recv() of this event asks for, before it becomes a uint32_t. *)
Asked(x) == IF x.sockState = "RECV_FRAMING" THEN 2 ELSE x.m_readWant - Len(x.in)

-----------------------------------------------------------------------------
(* The end of a handler of ctx x for connection c.                           *)
Apply(x, c, s) ==
    /\ ctx' = [ctx EXCEPT ![x] = s.x]
    /\ conn' = [conn EXCEPT ![c] = s.c]
    /\ m_idleCtxs' = m_idleCtxs \o [i \in 1..s.closes |-> x]
    /\ UNCHANGED made

(* Mutation: the descriptor of the last connection is not noticed.           *)
OtherSocketIgnored(x) == FALSE
(* read_socket(): the transport still holds another descriptor.              *)
OtherSocket(x) == x.m_socket # INVALID_SOCKET /\ x.appState # "INIT" /\ x.m_socket # x.m_sfd

Adopt(x) == IF x.m_socket = INVALID_SOCKET \/ x.appState = "INIT"
            THEN [x EXCEPT !.m_socket = x.m_sfd] ELSE x

(* The next bytes of connection c, at most len of them.  A negative length   *)
(* asks for some 4 GB: for whatever there is.                                *)
Unread(c, len) ==
    LET rest == Len(conn[c].sent) - conn[c].read
    IN  {SubSeq(conn[c].sent, conn[c].read + 1, conn[c].read + k)
            : k \in 1..(IF len < 0 THEN rest ELSE Min({len, rest}))}

(* The bytes recv() may return on the connection in S: some of what was      *)
(* sent, none at the end of the stream, after a reset, or if there is no     *)
(* connection.  A length of 0 fails before recv().                           *)
Received(S, len) ==
    (UNION {Unread(c, len) : c \in S})
    \cup (IF S = {} \/ len = 0 \/ \E c \in S : conn[c].gone THEN {<<>>} ELSE {})

(* read_handler() and read_socket(); recv() reads from m_socket.             *)
read_socket(x, c, bytes, w, d) ==
    LET s == [x |-> Adopt(ctx[x]), c |-> [conn[c] EXCEPT !.read = @ + Len(bytes)], closes |-> 0]
    IN  IF ctx[x].sockState = "RECV_FRAMING"
        THEN read_framing(s, bytes, w, d) ELSE read_data(s, bytes, w, d)

ReadEvent(x) ==
    LET c == ServedBy(x)
        len == Asked(ctx[x])
    IN  /\ ctx[x].rdEvent
        /\ conn[c].gone \/ conn[c].read < Len(conn[c].sent)
        /\ IF OtherSocket(ctx[x])
           THEN Apply(x, c, close_connection([x |-> ctx[x], c |-> conn[c], closes |-> 0]))
           ELSE \E bytes \in Received(ConnsOf(Adopt(ctx[x]).m_socket), len) :
                \E w \in (IF conn[c].gone THEN -1 ELSE 0)..Max(Lengths), d \in BOOLEAN :
                    Apply(x, c, read_socket(x, c, bytes, w, d))

(* Mutation: retrieve() is forgotten.                                        *)
wr_transitionKeeps(s, n) == IF n > 0 THEN ToPeer(s, s.x.out, n) ELSE close_connection(s)
(* write_handler(), write_socket() and wr_transition(); n is what write()    *)
(* returns, 0 for an empty buffer.  set_write_idle_ctxnew() does nothing, so *)
(* that the event stays when the buffer has drained.                         *)
wr_transition(s, n) ==
    IF n > 0
    THEN [ToPeer(s, s.x.out, n) EXCEPT !.x.out = SubSeq(@, n + 1, Len(@))]
    ELSE close_connection(s)

WriteEvent(x) ==
    LET c == ServedBy(x)
        s == [x |-> ctx[x], c |-> conn[c], closes |-> 0]
    IN  /\ ctx[x].wrEvent
        /\ IF ctx[x].m_socket # ctx[x].m_sfd THEN Apply(x, c, close_connection(s))
           ELSE \E n \in 0..Len(ctx[x].out) : Apply(x, c, wr_transition(s, n))

-----------------------------------------------------------------------------
(* create_connection() with get_clientctx() and ClientCtx::init(), which     *)
(* resets the state of the reader and the length it wants, and no more.      *)
init(x, fd) ==
    set_read_ctxnew([x EXCEPT !.m_sfd = fd, !.m_flags = "0", !.sockState = "RECV_FRAMING",
                              !.m_readWant = 0])

CreateConnection(c, fd) ==
    LET x == IF m_idleCtxs = <<>> THEN made + 1 ELSE Head(m_idleCtxs)
    IN  /\ conn[c].state = "new" /\ \A b \in Conns : b < c => conn[b].state # "new"
        /\ ConnsOf(fd) = {} /\ x \in Ctxs
        /\ made' = IF m_idleCtxs = <<>> THEN x ELSE made
        /\ m_idleCtxs' = IF m_idleCtxs = <<>> THEN <<>> ELSE Tail(m_idleCtxs)
        /\ ctx' = [ctx EXCEPT ![x] = init(@, fd)]
        /\ conn' = [conn EXCEPT ![c].fd = fd, ![c].state = "open",
                       ![c].spoilt = IF ctx[x].in \o ctx[x].out = <<>> THEN {} ELSE {"stale"}]

(* The peer; the bytes of a body tell its connection and its number.         *)
PeerSends(c, n) ==
    /\ conn[c].state = "open" /\ ~conn[c].gone
    /\ FoldFunction(LAMBDA b, sum : sum + Len(b.frames), 0, conn) < MaxFrames
    /\ LET body == [i \in 1..n |-> (10 * c + Len(conn[c].frames)) % 256]
       IN  conn' = [conn EXCEPT ![c].sent = @ \o <<0, n>> \o body, ![c].frames = Append(@, body)]
    /\ UNCHANGED <<ctx, made, m_idleCtxs>>
PeerGoes(c) ==
    /\ conn[c].state = "open" /\ ~conn[c].gone
    /\ conn' = [conn EXCEPT ![c].gone = TRUE]
    /\ UNCHANGED <<ctx, made, m_idleCtxs>>

Next ==
    \/ \E c \in Conns :
          \/ \E fd \in Fds : CreateConnection(c, fd)
          \/ \E n \in Lengths : PeerSends(c, n)
          \/ PeerGoes(c)
    \/ \E x \in Ctxs : ReadEvent(x) \/ WriteEvent(x)

Spec == Init /\ [][Next]_vars

-----------------------------------------------------------------------------
InUse(x) == ctx[x].m_sfd # INVALID_SOCKET

TypeOK ==
    /\ made \in 0..NumCtxs /\ m_idleCtxs \in Seq(Ctxs)
    /\ \A x \in Ctxs :
          /\ ctx[x].m_sfd \in Fds \cup {INVALID_SOCKET} /\ ctx[x].m_socket \in Fds \cup {INVALID_SOCKET}
          /\ ctx[x].m_flags \in {"0", "R", "W"}
          /\ ctx[x].sockState \in {"RECV_FRAMING", "RECV"}
          /\ ctx[x].appState \in {"INIT", "other", "READ_FRAME_SIZE", "READ_REQUEST"}
          /\ ctx[x].m_readWant \in 0..256 * 256 - 1
          /\ ctx[x].sockState = "RECV" => ctx[x].m_readWant > 0
    /\ \A c \in Conns : conn[c].state \in {"new", "open", "closed"}

(* close_connection() (399-432) runs once for a connection, also when a      *)
(* signal runs it in the middle of a transition that goes on with the ctx:   *)
(* a ctx is in the pool once or serves one connection, never both, and an    *)
(* idle one has no event left.                                               *)
CtxReturnedOnce ==
    /\ \A i, j \in DOMAIN m_idleCtxs : m_idleCtxs[i] = m_idleCtxs[j] => i = j
    /\ \A x \in Ctxs : x <= made => (InUse(x) <=> x \notin Range(m_idleCtxs))
    /\ \A x \in Ctxs : InUse(x) => Cardinality(ConnsOf(ctx[x].m_sfd)) = 1
    /\ \A x \in Range(m_idleCtxs) : ~ctx[x].rdEvent /\ ~ctx[x].wrEvent

(* read_socket() (116-161): what is delivered to a connection are the frames *)
(* its own peer sent, whole and in order, unless it got a ctx with data left *)
(* in its buffers or a header came in two parts.                             *)
FramesIntact ==
    \A c \in Conns :
        conn[c].spoilt \cap {"stale", "short"} = {} => IsPrefix(conn[c].delivered, conn[c].frames)

(* write_buffer() (295-338) and wr_transition() (55-73): the peer has got    *)
(* the echo up to what waits in m_outputBuffer_, no byte lost or repeated,   *)
(* unless new data overtook the old, the ctx was not clean or the peer is    *)
(* gone.                                                                     *)
EchoIntact ==
    \A x \in Ctxs :
        InUse(x) => LET c == conn[ServedBy(x)]
                    IN  c.spoilt \cap {"stale", "overtaken", "fault"} = {} =>
                            c.got \o ctx[x].out = FlattenSeq(c.delivered)

(* set_ctx_flags_ctxnew() (327-369) keeps one m_flags for two events, and    *)
(* still no connection is left waiting: it always has its read event and     *)
(* asks for at least a byte, and data in m_outputBuffer_ has a write event.  *)
(* A ctx that was not clean may ask for nothing, or hold data of its last    *)
(* connection that no event sends.                                           *)
EventsArmed ==
    \A x \in Ctxs :
        InUse(x) => /\ ctx[x].rdEvent
                    /\ "stale" \notin conn[ServedBy(x)].spoilt =>
                          /\ Asked(ctx[x]) > 0
                          /\ ctx[x].out # <<>> => ctx[x].wrEvent

(* The pool of ctxs and the state machine inside each of them.               *)
CtxSound == TypeOK /\ CtxReturnedOnce
=============================================================================
