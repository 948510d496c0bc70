------------------------------- MODULE Buffer -------------------------------
(***************************************************************************)
(* muduo/net/Buffer.h and Buffer.cc as operators on a record: mem is the   *)
(* vector, r and w are readerIndex_ and writerIndex_.  mem[i + 1] is the   *)
(* byte at index i; a byte nobody has written is Blank.                    *)
(***************************************************************************)
EXTENDS Naturals, Sequences, SequencesExt

CONSTANTS kCheapPrepend, kInitialSize,
          ExtraBuf   \* bytes of the stack buffer in readFd()

ASSUME BufferAssumption ==
    kCheapPrepend \in Nat /\ kInitialSize \in Nat /\ ExtraBuf \in Nat \ {0}

Blank == "blank"
Blanks(n) == [i \in 1..n |-> Blank]

newBuffer == [mem |-> Blanks(kCheapPrepend + kInitialSize), r |-> kCheapPrepend, w |-> kCheapPrepend]

readableBytes(b) == b.w - b.r
writableBytes(b) == Len(b.mem) - b.w
prependableBytes(b) == b.r
Contents(b) == SubSeq(b.mem, b.r + 1, b.w)

(* data written at index i.                                                  *)
Overwritten(mem, i, data) ==
    [k \in DOMAIN mem |-> IF k > i /\ k <= i + Len(data) THEN data[k - i] ELSE mem[k]]

retrieveAll(b) == [b EXCEPT !.r = kCheapPrepend, !.w = kCheapPrepend]

retrieve(b, len) == IF len < readableBytes(b) THEN [b EXCEPT !.r = @ + len] ELSE retrieveAll(b)

hasWritten(b, len) == [b EXCEPT !.w = @ + len]

(* Moving the data to the front would not make room for len bytes.           *)
NoRoomInside(b, len) == writableBytes(b) + prependableBytes(b) < len + kCheapPrepend

(* Mutation: the indices move, the data does not.                            *)
makeSpaceNoCopy(b, len) ==
    IF NoRoomInside(b, len)
    THEN [b EXCEPT !.mem = @ \o Blanks(b.w + len - Len(@))]
    ELSE [b EXCEPT !.r = kCheapPrepend, !.w = kCheapPrepend + readableBytes(b)]
makeSpace(b, len) ==
    IF NoRoomInside(b, len)
    THEN [b EXCEPT !.mem = @ \o Blanks(b.w + len - Len(@))]
    ELSE [mem |-> Overwritten(b.mem, kCheapPrepend, Contents(b)),
          r |-> kCheapPrepend, w |-> kCheapPrepend + readableBytes(b)]

ensureWritableBytes(b, len) == IF writableBytes(b) < len THEN makeSpace(b, len) ELSE b

append(b, data) ==
    LET e == ensureWritableBytes(b, Len(data))
    IN  hasWritten([e EXCEPT !.mem = Overwritten(@, e.w, data)], Len(data))

(* readFd(): what one readv() may return, and where it goes: first the free  *)
(* part of the buffer, the rest by way of the stack buffer.                  *)
ReadMax(b) == writableBytes(b) + (IF writableBytes(b) < ExtraBuf THEN ExtraBuf ELSE 0)
readFd(b, data) ==
    LET room == writableBytes(b)
    IN  IF Len(data) <= room
        THEN hasWritten([b EXCEPT !.mem = Overwritten(@, b.w, data)], Len(data))
        ELSE append([mem |-> Overwritten(b.mem, b.w, SubSeq(data, 1, room)),
                     r |-> b.r, w |-> Len(b.mem)],
                    SubSeq(data, room + 1, Len(data)))

(* The comment at 37-44: 0 <= readerIndex <= writerIndex <= size.            *)
IndicesOK(b) == b.r \in Nat /\ b.w \in Nat /\ b.r <= b.w /\ b.w <= Len(b.mem)
=============================================================================
