----------------------------- MODULE HttpServer -----------------------------
(***************************************************************************)
(* muduo/net/http: the server's side of one connection.  The peer's lines  *)
(* arrive in pieces cut anywhere; each piece is read into the input buffer *)
(* (module Buffer) and handed to onMessage(), which parses what it can.    *)
(*                                                                         *)
(* A line is one byte of text, or none, and CR LF.  The texts are the      *)
(* classes the parser tells apart: a valid request line of HTTP/1.1 or     *)
(* 1.0, one with a method and a wrong version, a Connection header, or the *)
(* empty line; a line of any other kind is treated like the empty one.     *)
(* Path, query and the other headers are left out.                         *)
(***************************************************************************)
EXTENDS Buffer, FiniteSets, FiniteSetsExt

CONSTANTS MaxLines,  \* lines the peer sends
          MaxPiece   \* lines begun in one piece

ASSUME HttpAssumption == MaxLines \in Nat /\ MaxPiece \in Nat

Versions == {"HTTP/1.1", "HTTP/1.0"}
Headers == {"close", "Keep-Alive"}   \* values of a Connection header
Texts == Versions \cup Headers \cup {"empty", "badversion"}

VARIABLES
    lines,      \* lines the peer has begun to send
    delivered,  \* bytes of them that have arrived
    buf,        \* inputBuffer_ of the connection
    parse,      \* state_ of the HttpContext
    request,    \* request_ of the HttpContext
    connected,  \* the connection is kConnected: shutdown() was not called
    aborted,    \* the assertion in setMethod() failed
    \* history
    handled,    \* requests given to httpCallback_
    answers,    \* responses sent
    pipelined   \* a piece went beyond the end of a request

httpVars == <<lines, delivered, buf, parse, request, connected, aborted, handled, answers, pipelined>>

NoRequest == [method |-> "kInvalid", version |-> "kUnknown", connection |-> "none"]

HttpInit ==
    /\ lines = <<>> /\ delivered = 0 /\ buf = newBuffer
    /\ parse = "kExpectRequestLine" /\ request = NoRequest
    /\ connected = TRUE /\ aborted = FALSE
    /\ handled = <<>> /\ answers = <<>> /\ pipelined = FALSE

-----------------------------------------------------------------------------
(* The peer's bytes.                                                         *)

LineBytes(t) == IF t = "empty" THEN <<"CR", "LF">> ELSE <<t, "CR", "LF">>
BytesOf(ls) ==
    LET upTo[k \in 0..Len(ls)] == IF k = 0 THEN <<>> ELSE upTo[k - 1] \o LineBytes(ls[k])
    IN  upTo[Len(ls)]
TotalBytes(ls) == Len(BytesOf(ls))

-----------------------------------------------------------------------------
(* HttpContext.                                                              *)

(* findCRLF(): where CR LF occurs in s, and the bytes before the first one.  *)
CRLFs(s) == {i \in 1..Len(s) - 1 : s[i] = "CR" /\ s[i + 1] = "LF"}
BeforeCRLF(s) == SubSeq(s, 1, Min(CRLFs(s)) - 1)

HasSpace(text) == text # <<>>
HasMethod(text) == text # <<>> /\ text[1] \in Versions \cup {"badversion"}
processRequestLine(text) == text # <<>> /\ text[1] \in Versions
HasColon(text) == text # <<>> /\ text[1] \in Headers

(* A request line: setMethod() asserts that no method is set yet, and the    *)
(* method stays set when the rest of the line is rejected.                   *)
RequestLine(p, text, rest) ==
    IF HasSpace(text) /\ p.request.method # "kInvalid"
    THEN [p EXCEPT !.aborted = TRUE, !.more = FALSE]
    ELSE IF processRequestLine(text)
    THEN [p EXCEPT !.state = "kExpectHeaders", !.buf = rest,
                   !.request.method = "kGet", !.request.version = text[1]]
    ELSE [p EXCEPT !.ok = FALSE, !.more = FALSE,
                   !.request.method = IF HasMethod(text) THEN "kGet" ELSE p.request.method]

HeaderLine(p, text, rest) ==
    IF HasColon(text)
    THEN [p EXCEPT !.request.connection = text[1], !.buf = rest]
    ELSE [p EXCEPT !.state = "kGotAll", !.more = FALSE, !.buf = rest]

(* One turn of the loop in parseRequest().                                   *)
ParseLine(p) ==
    LET data == Contents(p.buf)
        text == BeforeCRLF(data)
        rest == retrieve(p.buf, Len(text) + 2)
    IN  IF ~p.more \/ CRLFs(data) = {} THEN [p EXCEPT !.more = FALSE]
        ELSE IF p.state = "kExpectRequestLine" THEN RequestLine(p, text, rest)
        ELSE HeaderLine(p, text, rest)

Unparsed(b) ==
    [state |-> parse, request |-> request, buf |-> b, ok |-> TRUE, more |-> TRUE, aborted |-> FALSE]

(* Mutation: one line for each call.                                         *)
parseRequestOneLine(b) == ParseLine(Unparsed(b))
(* parseRequest(): the loop ends before it has had a turn for each byte.     *)
parseRequest(b) ==
    LET turn[i \in 0..readableBytes(b)] == IF i = 0 THEN Unparsed(b) ELSE ParseLine(turn[i - 1])
    IN  turn[readableBytes(b)]

-----------------------------------------------------------------------------
(* HttpServer.                                                               *)

(* Mutation: HTTP/1.0 connections are kept unless they ask for the close.    *)
WantsCloseAsked(req) == req.connection = "close"
(* close in onRequest().                                                     *)
WantsClose(req) == \/ req.connection = "close"
                   \/ req.version = "HTTP/1.0" /\ req.connection # "Keep-Alive"

(* Mutation: only the state is reset.                                        *)
resetKeepsRequest(req) == [req EXCEPT !.method = "kInvalid"]
(* HttpContext::reset() swaps the request with a new one.                    *)
resetRequest(req) == NoRequest

(* send() does nothing unless the connection is kConnected.                  *)
Send(response) == answers' = IF connected THEN Append(answers, response) ELSE answers

(* The answer to a request says whether the connection stays open.           *)
onRequest(req, forced) ==
    LET close == WantsClose(req) \/ forced
    IN  /\ handled' = Append(handled, req)
        /\ Send(IF close THEN "close" ELSE "keep")
        /\ connected' = (connected /\ ~close)

(* onMessage(), the rest of it once parseRequest() has returned p; forced:   *)
(* httpCallback_ calls setCloseConnection(true), as the default one does.    *)
onMessage(p, forced) ==
    /\ buf' = p.buf /\ aborted' = p.aborted
    /\ \/ ~p.ok /\ ~forced /\ Send("400") /\ connected' = FALSE
          /\ parse' = p.state /\ request' = p.request /\ UNCHANGED handled
       \/ p.ok /\ p.state = "kGotAll" /\ onRequest(p.request, forced)
          /\ parse' = "kExpectRequestLine" /\ request' = resetRequest(p.request)
       \/ p.ok /\ p.state # "kGotAll" /\ ~forced
          /\ parse' = p.state /\ request' = p.request /\ UNCHANGED <<answers, connected, handled>>

-----------------------------------------------------------------------------
(* The reference: the requests in the complete lines ls, whatever the pieces *)
(* they came in.  Lines that are not headers begin and end requests in turn, *)
(* until one that should begin a request does not.                           *)

Plain(ls) == {k \in DOMAIN ls : ls[k] \notin Headers}
EndLines(ls) == {k \in Plain(ls) : Cardinality({j \in Plain(ls) : j <= k}) % 2 = 0}
FirstLines(ls) == {k \in DOMAIN ls : k = 1 \/ k - 1 \in EndLines(ls)}
BadLines(ls) == {k \in FirstLines(ls) : ls[k] \notin Versions}
GoodEnds(ls) == {k \in EndLines(ls) : \A j \in BadLines(ls) : j > k}

RequestEndingAt(ls, k) ==
    LET s == Max({j \in FirstLines(ls) : j <= k})
    IN  [method |-> "kGet", version |-> ls[s],
         connection |-> IF k = s + 1 THEN "none" ELSE ls[k - 1]]
(* The element of S that i elements of it do not exceed.                     *)
Nth(S, i) == CHOOSE k \in S : Cardinality({j \in S : j <= k}) = i
Requests(ls) ==
    LET ends == GoodEnds(ls)
    IN  [i \in 1..Cardinality(ends) |-> RequestEndingAt(ls, Nth(ends, i))]

(* The lines whose bytes are among the first n.                              *)
CompleteLines(ls, n) == SubSeq(ls, 1, Max({k \in 0..Len(ls) : TotalBytes(SubSeq(ls, 1, k)) <= n}))

-----------------------------------------------------------------------------
(* The peer begins further lines; a piece ends inside the last one begun.    *)
PieceArrives(more, n, forced) ==
    LET ls == lines \o more
        data == SubSeq(BytesOf(ls), delivered + 1, n)
        EndsInside(k) == TotalBytes(SubSeq(ls, 1, k)) \in delivered + 1..n - 1
    IN  /\ ~aborted
        /\ n \in delivered + 1..TotalBytes(ls)
        /\ more # <<>> => n > TotalBytes(Front(ls))
        /\ lines' = ls /\ delivered' = n
        /\ \E p \in {parseRequest(readFd(buf, data))} : onMessage(p, forced)
        /\ pipelined' = (pipelined \/ \E k \in GoodEnds(CompleteLines(ls, n)) : EndsInside(k))

HttpNext ==
    \E k \in 0..MaxPiece, n \in delivered + 1..delivered + ReadMax(buf), forced \in BOOLEAN :
        /\ Len(lines) + k <= MaxLines
        /\ n <= TotalBytes(lines) + 3 * k
        /\ \E more \in [1..k -> Texts] : PieceArrives(more, n, forced)

HttpSpec == HttpInit /\ [][HttpNext]_httpVars

-----------------------------------------------------------------------------
HttpTypeOK ==
    /\ lines \in Seq(Texts) /\ Len(lines) <= MaxLines /\ delivered \in 0..TotalBytes(lines)
    /\ IndicesOK(buf) /\ buf.r >= kCheapPrepend
    /\ parse \in {"kExpectRequestLine", "kExpectHeaders"}
    /\ request.method \in {"kInvalid", "kGet"} /\ request.version \in Versions \cup {"kUnknown"}
    /\ request.connection \in Headers \cup {"none"}
    /\ connected \in BOOLEAN /\ aborted \in BOOLEAN /\ pipelined \in BOOLEAN

(* However the stream was cut and whatever makeSpace() and readFd() moved,   *)
(* the input buffer holds exactly the bytes that arrived and were not parsed *)
(* (Buffer.h:444-474, Buffer.cc:52-99).                                      *)
BufferIntact ==
    Contents(buf) = SubSeq(BytesOf(lines), delivered - readableBytes(buf) + 1, delivered)

(* The requests handed to the callback are those the lines spell out, in     *)
(* order, with their own version and header and nothing left from an earlier *)
(* request (HttpContext.cc:60-118, reset() at HttpContext.h:49-54).          *)
CutsDoNotMatter == IsPrefix(handled, Requests(CompleteLines(lines, delivered)))

(* A client that waits for each answer before it sends on never waits for a  *)
(* request that has arrived: only a piece that goes beyond the end of a      *)
(* request can leave one unhandled, since onMessage() handles at most one    *)
(* (HttpServer.cc:78-88).                                                    *)
NothingWaits ==
    ~pipelined => handled = Requests(CompleteLines(lines, delivered))

(* One answer for each request in turn, then perhaps one 400; an answer that *)
(* closes is the last, and is given whenever the request demands it          *)
(* (HttpServer.cc:91-105, TcpConnection::send() once shutdown() was called). *)
OneAnswerEach ==
    /\ \A i \in DOMAIN answers :
          /\ answers[i] # "keep" => i = Len(answers) /\ ~connected
          /\ answers[i] # "400" => i <= Len(handled)
          /\ answers[i] = "keep" => ~(\/ handled[i].connection = "close"
                                      \/ handled[i].version = "HTTP/1.0" /\ handled[i].connection = "none")
    /\ connected => Len(answers) = Len(handled)

(* setMethod()'s assertion (HttpRequest.h:55) can only fail on a connection  *)
(* that is already being closed: a rejected request line stays in the buffer *)
(* with its method set, and is parsed again when the peer goes on sending.   *)
AbortsOnlyWhenClosing == aborted => ~connected

(* The input buffer through readFd(), makeSpace() and retrieve(): indices in *)
(* order and beyond the reserved bytes, contents untouched.                  *)
InputSound == HttpTypeOK /\ BufferIntact

(* What onMessage() and onRequest() send, and when they may abort.           *)
AnswersSound == OneAnswerEach /\ AbortsOnlyWhenClosing
=============================================================================
