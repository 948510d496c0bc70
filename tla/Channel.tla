------------------------------ MODULE Channel ------------------------------
(***************************************************************************)
(* muduo/net/Channel.h, Channel.cc and poller/EPollPoller.cc, for one      *)
(* channel: what enable/disable do to the registration of its fd with      *)
(* epoll, which events epoll then reports, and in which order              *)
(* handleEventWithGuard() calls the handlers for them.                     *)
(*                                                                         *)
(* events is a subset of {"r", "w"}: "r" is kReadEvent (POLLIN|POLLPRI),   *)
(* "w" is kWriteEvent.  index is the mark of the poller, and "added" is    *)
(* also what epoll itself knows: EPOLL_CTL_ADD and _DEL go with it.        *)
(***************************************************************************)
EXTENDS Sequences, FiniteSets

Indices == {"new", "added", "deleted"}
Interests == SUBSET {"r", "w"}

isNoneEvent(events) == events = {}
isReading(events) == "r" \in events
isWriting(events) == "w" \in events

(* updateChannel(): a channel that is not known to epoll is added, whatever  *)
(* its events; a known one with no events left is deleted.                   *)
updateChannel(index, events) ==
    IF index = "added" /\ isNoneEvent(events) THEN "deleted" ELSE "added"

(* The asserts of Channel::remove() and EPollPoller::removeChannel().        *)
removeAllowed(index, events) == isNoneEvent(events) /\ index # "new"

(* epoll masks what it reports by the registered events, but for EPOLLHUP    *)
(* and EPOLLERR, which it reports for every fd it knows.                     *)
Reported(index, events, readable, writable, hup, err) ==
    {x \in {"in", "out", "hup", "err"} :
        /\ index = "added"
        /\ \/ x = "in" /\ readable /\ isReading(events)
           \/ x = "out" /\ writable /\ isWriting(events)
           \/ x = "hup" /\ hup
           \/ x = "err" /\ err}

(* handleEventWithGuard(): a hangup closes only when there is nothing to     *)
(* read; errors, then reads, then writes.                                    *)
handleEventWithGuard(revents) ==
    LET When(cond, handler) == IF cond THEN <<handler>> ELSE <<>>
    IN  When("hup" \in revents /\ "in" \notin revents, "close")
        \o When("err" \in revents, "error")
        \o When("in" \in revents, "read")
        \o When("out" \in revents, "write")
=============================================================================
