# TLA+ models of newframework

The repository is a C++ network framework: a copy of muduo (`src/muduo`) with
local changes, and a libevent server with its own threads
(`src/examples/tstlesrv`).  This directory holds TLA+ modules translated from
that code, the TLC configurations that check them and TLAPS proofs of every
safety property that they check.  `PROJECT.json` maps every definition to the lines it models and
lists runs, mutants, findings, hazards and theorems.

## 1. Inventory

| Component | State | Operations | Interacts with | What is hard | What makes it correct |
|---|---|---|---|---|---|
| EventLoop | `looping_ quit_ eventHandling_ callingPendingFunctors_`, `pendingFunctors_` under a mutex, eventfd | loop, quit, runInLoop, queueInLoop, wakeup | every other part posts functors to it | wakeups against a poll without timeout; functors queued by functors | no wakeup or quit lost; functors run once and in order |
| EventLoopThread | `loop_` under mutex and condition | startLoop, threadFunc, destructor | owns a thread with an EventLoop on its stack | start-up and shutdown races on a pointer to a stack object | startLoop returns a live loop; the destructor returns |
| TimerQueue, Timer | `timers_`, `activeTimers_`, `cancelingTimers_`, timerfd, heap | addTimer, cancel, handleRead, reset | functors of the loop, Channel of the timerfd | raw pointers, cancel inside callbacks, address reuse, two clocks | sets agree and point to live timers; cancelled timers stay out; timers fire |
| Channel, EPollPoller | events, index, tie; fd map | enable/disable, update, remove, handleEvent | TcpConnection, Acceptor, Connector, TimerQueue | raw channel pointers in the active list; kDeleted channels added again | reported channels are alive; the poller's index agrees with epoll |
| TcpConnection | `state_ reading_`, output buffer, channel | send, shutdown, forceClose(WithDelay), start/stopRead, the four handlers, connectEstablished/Destroyed | IO loop, TcpServer, user callbacks, other threads | lifetime through shared and raw pointers, races on `state_`, half close with data buffered | stream order, flush before half close, one close, clean destruction |
| TcpServer | `connections_` | newConnection, removeConnection(InLoop), destructor | base loop and IO loops | closing crosses two loops | a connection leaves the map once and dies after its channel |
| ThreadPool | `queue_ running_`, two conditions | start, run, take, stop | user tasks | lost notifies, stop against sleepers, bounded queue | no stranded worker or caller, tasks in order, stop ends |
| tstlesrv dispatch | queue and socketpair per IO thread, pool of ClientCtx | handle_event, dispatch_item, set_item, HandlerFn, get_connitem, create_connection, close_connection | listener thread to IO threads | notifications merged or dropped | no socket lost, every socket taken up, no ctx shared |
| ClientCtx, CFrameTransport | read state machine, two buffers, two events behind one `m_flags` | init, read_socket, write_buffer, wr_transition, close_connection | IoThread | recycling with old state; output order; closing inside a signal | a ctx goes back once; frames and echoes are those of the connection; events stay armed |
| Connector, TcpClient | `connect_ state_ retryDelayMs_`, channel; `connection_` | start, stop, restart, handleWrite, handleError, retry; connect, disconnect, stop, destructor | loop timers and functors, TcpConnection | retry timers and raw functors across stop and restart | no assert fires, no socket leaks, one attempt at a time, stop holds |
| Buffer | two indices and a vector | append, retrieve, makeSpace, readFd | TcpConnection, HTTP, CFrameTransport | boundary between moving and growing | holds the bytes written and not retrieved |
| HTTP | parser state and request per connection | parseRequest, onMessage, onRequest | TcpServer, Buffer | requests cut or joined across reads | the cuts do not matter; one answer each |
| ThriftConnectionPool | idle queue and active set per host, total | get, return, destroy | Thrift clients | timed wait at two limits, connect under the mutex | counters agree, one user per client, get ends |
| Acceptor, EventLoopThreadPool | idle fd, round robin | handleRead, getNextLoop | TcpServer | descriptor limit | not modelled |
| PollPoller | pollfd vector with negated fds | update, remove | EventLoop | index arithmetic | not modelled |
| Thread, latch, blocking queues | mutex and conditions | put, take, wait, countDown | base library | the shapes of ThreadPool | not modelled |
| CEventLoopThread, CTaskThreadPool | status flag, condition | start, join, destroy | tstlesrv | flag set after unlock | not modelled |

Section 6 says why the last four rows, and the rest of the repository, are left
out.

## 2. Modules

`FunctorQueue` is the abstract specification: items are posted and run, each
at most once, in the order of posting.  EventLoop and ThreadPool are both shown
to implement it.

`EventLoop` has the loop thread and any set of other threads.  Each stretch of
code between two points where another thread can be seen is one step: the test
of `quit_`, poll, each channel, the raising of the flag, the swap, each
functor.  `queueInLoop()` and `quit()` are two steps each, the second being the
eventfd write (`calls[t] = "wakeup"`).  Loop-thread user code runs inside
channel callbacks and functors, and before `loop()`.  Functors queued by the
loop thread before `loop()` are kept in `early`: the code gives them no wakeup.
`quit_` is a plain `bool` written by other threads: it is modelled as atomic
and seen at once, which is what the build produces for an aligned byte read
across a system call in each iteration.

`EventLoopThread` extends `EventLoop` with the thread that owns the loop and
the object that starts and destroys it.  The destructor reads `loop_` twice
(lines 43 and 48, `DtorChecksLoop` and `DtorReadsLoop`); when the thread has set
it to NULL in between, the process ends (`crashed`).

`TimerQueue` has the two sets, the batch of expired timers and a heap with
address reuse.  Calls from other threads go through a FIFO, justified by the
theorem about `EventLoop`.  Time is counted in ticks of at least the 100 us
minimum of `howMuchTimeFromNow()`; the wall clock may be set back, the timerfd
counts monotonic time.  Reading a sequence number from freed memory gives any
value.

`Channel` holds pure operators for one channel: what update does to the
poller's index, what epoll reports, and the order of the handlers.

`TcpConnection` has one connection, its channel, its IO loop as a functor
queue with batches, the server on a base loop that may be the same loop, user
code on the loop and on other threads, and the peer.  Bytes are
`<<sender, message, index>>`.  `Referenced` lists every `shared_ptr`; `Dead` is
the moment the destructor runs.  An assert that would fire, or a dead object
that would be used, is recorded in `failed` and the run goes on, as in a build
with `NDEBUG`.  `state_` is atomic for one read or write, and a test followed by
a write on another thread is two steps.

`ThreadPool` makes each stretch under the mutex one step; sleepers are picked
by notify or wake spuriously.

`IoThread` has the listener of tstlesrv and its IO threads; a `ClientCtx` is
only in use or idle.

`FrameTransport` opens the ctx that `IoThread` leaves closed: all `ClientCtx`
objects of one IO thread with their `CFrameTransport`, the descriptors and the
peers.  A handler is an operator on a record `s` (the ctx, the connection, the
number of closes), so that a signal that closes the connection in the middle of
a transition is followed by the rest of that transition, as in the code.  The
four bytes of a length are two; `reserve` keeps them between headers because
`read_framing()` reads into the reserved field and does not check how much it
got.  `m_rd_app_state` is not initialised by the constructor and starts as
either kind of value; `event_del()` of a write event that was never assigned
may succeed or fail.  Failing `event_add()` and the push-connection setters,
which nothing calls, are left out.

`Connector` has the connector and the round of its loop (events and timers,
then the functors swapped out), `TcpClient` extends it with the client, its user
code and a connection reduced to the socket it owns.  `connect_` is the one
member that other threads write: a handler is a step up to its test of
`connect_` and a step after it (`within` says which comes next), so that a
stop() may return in between.  In retry() the two are one step, since the timer
that it sets tests `connect_` again.  A call on another thread is one step for
each access to shared state; the destructor runs on the loop only.  An assert
that fires, or a functor with a raw pointer to a connector that is gone, ends the
behaviour (`Aborted`).  Timers may expire before functors that were queued
earlier have run, as when the handlers of a round take longer than the delay;
`stalled` remembers it until the round is over.
`createNonblockingOrDie()` ends the program when no descriptor is free, so an
attempt begins only with a free one.

`Buffer` gives the vector and the two indices of `Buffer.h` as a record with
operators.  `HttpServer` extends it: the peer's lines are cut into pieces
anywhere, `readFd()` puts each piece into the buffer, `parseRequest()` works on the
buffer's contents, and `onMessage()` answers; the user's callback may call
`setCloseConnection(true)` (`forced`).  A line is one byte of text from
the classes the parser tells apart, and CR LF.

`ConnectionPool` has threads, hosts and clients.  `mMutex` is held over every
stretch of code but the timed wait; connecting, with the mutex held, is a step
of its own.

The theorems about a module `M` are in `MProofs`: `ThreadPoolProofs`,
`ConnectionPoolProofs`, `TimerQueueProofs`, `IoThreadProofs`,
`FrameTransportProofs`, `EventLoopProofs` (also about `EventLoopThread`),
`TcpClientProofs` (also about `Connector`) and `TcpConnectionProofs`, whose
first half is about what a connection sends and its life and whose second half,
about `Buffer` and `HttpServer`, is about what it receives.

Operators whose comment starts with "Mutation:" are bugs the code does not
have.  Nothing uses them; each is swapped in for the definition below it to
see that a property notices.

## 3. Runs

| Run | Shows |
|---|---|
| `event_loop` | no lost wakeup, no lost quit, order, refinement of FunctorQueue; queued functors run and quit ends the loop |
| `loop_thread` | the start-up race is sound; a destructor that meets a running loop gets its join, unless a callback quits the loop and the second reading of `loop_` finds NULL |
| `timer_queue` | sets agree and point to live timers, cancelled stay out, timerfd armed, timers fire |
| `tcp_connection` | stream order, half close after flush, write interest, one close, no dead channel in the active list, clean destruction; shutdown completes, buffers drain, closed connections are released; server on the same loop or on another |
| `tcp_connection_any` | stream order under all racing calls of other threads, dropped pointers and `~TcpServer()` |
| `thread_pool` | notifies reach, order, tasks are taken, callers go on, stop ends; tasks that submit tasks |
| `io_thread` | no socket lost, ctx pool sound, fair dealing; a notification takes up the oldest waiting socket |
| `tcp_client` | no assert fires unless a round of the loop stalls, every socket has one owner, attempts, timers and connections exclude each other, stop() holds but for three named windows, retries connect |
| `http_server` | the buffer keeps its bytes, requests do not depend on the cuts, one answer each, a client that waits for answers never waits for ever |
| `conn_pool` | counters and limits, one user per client, nobody sleeps beside an idle connection, every get ends |
| `frame_transport` | a ctx goes back once, frames and echoes are those of the connection, events stay armed |

Invariants about one piece of state are checked together under one name, a
conjunction of named parts: `TimerSetsSound` (the types, `SetsAgreeAndPointLive`,
`CancelledStayOut`, `TimerfdArmed`), `OutputSound` (types, `StreamInOrder`,
`HalfCloseFlushes`, `WriteInterestMatches`), `LifetimeSound`
(`ActiveChannelLives`, `CleanDestruction`), `NobodyStranded` (types,
`NoStrandedWorker`, `NoStrandedCaller`, `NobodySleepsThroughStop`),
`DispatchSound` (types, `CtxPoolSound`, `NoSocketLost`, `DealtInTurn`), `OneOwner`
(types, `SocketsOwned`, `SingleAttempt`), `InputSound` (types, `BufferIntact`),
`AnswersSound` (`OneAnswerEach`, `AbortsOnlyWhenClosing`), `PoolSound` (types,
`CountsAgree`, `OneUser`) and `CtxSound` (types, `CtxReturnedOnce`).  In the same
way `OutputFlows` is `ShutdownCompletes` and `BufferDrains`, and
`PoolProgresses` is `QueuedTasksRun` and `RunReturns`.

One run is expected to fail: `loop_thread_dtor`.  EventLoopThread.cc:37-39 says
that a set `loop_` is running and is closed and joined; a quit() between the
publication of `loop_` and the start of loop() is erased by loop()
(EventLoop.cpp:132), and join() hangs.

What the properties leave out, because the code behaves otherwise:

- a timer cancelled from a callback of the batch it is itself in is still
  called in that round (TimerQueue.cc:219-223 do not look at
  `cancelingTimers_`); it only does not come back;
- a timer whose time is exactly now is expired, although the comment at
  TimerQueue.cc:242 says that it should not count;
- poll() has no timeout, although EventLoop.cpp:36 speaks of 10 s;
- a shutdown() or forceClose() of another thread may overwrite kDisconnected,
  a functor with a raw `this` may outlive the connection, and stopRead() on a
  closed connection puts its channel back into epoll.  `tcp_connection_any`
  has these behaviours, `tcp_connection` leaves them out;
- a callback that quits the loop before startLoop() has looked at `loop_`
  leaves the owner waiting for ever (the exception in `StartLoopEnds`); one that
  quits it later lets the destructor call quit() through NULL, or on a loop that
  is gone, between its two readings of `loop_` (`selfQuit` in `OwnerSeesLiveLoop`
  and `DtorEndsRunningLoop`);
- tasks that call run() on a full queue can jam the pool (`Jammed`), and tasks
  and callers that wait when stop() is called are left behind;
- addTimer() on another thread reads the sequence number of a timer that the
  loop may have deleted (TimerQueue.cc:145); the model gives it any number;
- `~TcpServer()` with a connection in kDisconnecting trips the assert of
  Channel.cc:74, because connectDestroyed() takes the interest away only in
  kConnected (TcpConnection.cpp:433);
- one event of an IO thread reads up to 128 notifications and takes one item
  (event_watcher.cpp:195, iothread.cpp:139-152); the others wait for the next
  accept;
- a stop() of another thread may return after the loop has tested `connect_`
  and before it acts on it: restart() then undoes it (TcpClient.cpp:176-180), the
  attempt still begins (Connector.cpp:54-142) or the connection is still made
  (Connector.cpp:202-204).  `raced` says where the loop was when stop() wrote
  `connect_`, and `StopHolds` excepts for each of the three what it brings;
- a loop whose handlers take half a second or more in one round may run a retry
  timer before the resetChannel() queued earlier, and connecting() asserts
  (Connector.cpp:143); after a second, the timer of `~TcpClient()` ("FIXME: HACK",
  TcpClient.cpp:98) may let the connector go before resetChannel() or before
  stopInLoop(), so that `~Connector()` asserts (line 38) or the functor
  meets a dead connector.  All three happen in the run; `AssertsHold` says that
  they need such a round (`stalled`) and that no other assert ever fires;
- `~TcpClient()` on another thread than the loop's is left out: TcpClient.cpp:87
  calls it "not 100% safe", and the close callback set there races the connection's
  own close;
- `Careless = FALSE` in `tcp_client`: user code calls connect() only when
  nothing of an earlier attempt is left and does not destruct a client that has
  a connection while functors with raw pointers wait.  Otherwise
  connect() during an attempt trips Connector.cpp:53, stop() followed at once by
  connect() trips Connector.cpp:143 since the old channel is not reset yet, and the
  functors meet a connector that is gone ("FIXME: unsafe" in the code);
- `destroy_connection()` makes room and notifies nobody (`overslept`), and a
  get_connection() whose wait timed out throws without another look;
- onMessage() handles one request per read: a pipelined one waits until more data
  comes (`pipelined`).  A rejected request line stays in the buffer and, when the
  peer goes on after its 400, aborts in HttpRequest.h:55
  (`AbortsOnlyWhenClosing`);
- connections of `FrameTransport` are marked `spoilt` and excepted when they
  get a ctx whose buffers hold data of the former connection (`stale`), when a header
  arrives in two parts (`short`), when write_buffer() overtakes buffered data
  (`overtaken`), and after EPIPE (`fault`).  All four happen in the run.  A
  connection whose output buffer has drained is closed by its next write
  event, since set_write_idle_ctxnew() is empty; the comment at
  frametransport.cpp:63 says that the write event is closed;
- a `stale` ctx with more than twice the wanted bytes left computes a negative
  length (frametransport.cpp:265), which recv() gets as a `uint32_t` of about
  4 GB: the model lets it return whatever there is.  What lands behind the end of
  the buffer is undefined and is left out; the model's buffer takes it;
- a callback that takes a close back, `setCloseConnection(false)` on a request
  that demands it, is left out (nothing in the repository does so);
- dispatch_item() returns false when no IO thread was started
  (iothreadmanager.cpp:52): `NumThreads > 0` leaves this out, although
  CTcpServer::init() ignores the result of start().  The socket would be
  closed and the deleted item written to (tcpserver.cpp:285-291);
- ThreadPool::start() creates its threads one by one; in the model they all exist
  at once, since one that is not created yet does what one that is not scheduled
  yet does: nothing.

### Bounds

- EventLoop: two other threads and three functors, so that two calls can be
  between push and wakeup while a batch runs and a functor queues another;
  `EventfdMax = 2` lets the eventfd fill up.  The theorems remove these bounds.
- EventLoopThread: one owner; two functors.
- TimerQueue: two addresses and two timers: enough for a batch of two, for a
  cancel from one callback to the other and for one address used twice.
  `MaxTime = 2` gives timers due before, at and after a batch; one set-back.
- TcpConnection: two bytes per message, so that a message can be partly
  written; up to two messages per sender, high-water mark 3, one other thread,
  at most `MaxQueue` functors when user code adds one.  `MaxDowns` stops
  behaviours before a third run of handleClose(), in `tcp_connection_any`,
  which does not count them, before the second.  `LoopOps`, `CrossOps`, `KeepsRef`,
  `ServerDtor` and `SameLoop` say what user code does in a run: the main run
  leaves out the calls that break the closing protocol
  (cross-thread shutdown and forceClose, stopRead on a closed connection, a
  pointer dropped while a functor waits, `~TcpServer()`).
- ThreadPool: two workers, one caller besides the tasks themselves, a queue of
  two places and six tasks: two being run, two queued and one more from each
  of the two is what it takes to jam the pool.  Tasks are numbered by the
  order of the calls, which loses nothing since their names do not matter.
- IoThread: two threads and five connections; `ReadMax = 2` stands for the
  128-byte buffer; a socketpair of two bytes fills up.
- TcpClient: four calls, for instance connect, stop, connect again and
  disconnect; three descriptors, one more than can be open at once; a maximal
  delay that is not a power of two of the first, reached after two retries.
- HttpServer: five lines, which give two whole requests with a header and a
  piece beyond them, or a bad line and what follows it; `MaxPiece = 2` begins two lines
  in one piece.  `kCheapPrepend = 2`, `kInitialSize = 3` and
  `ExtraBuf = 4` make the buffer move, grow and spill within these few bytes.
- ConnectionPool: three threads against limits of two per host and three in
  all, so that each limit is met with the other not reached; no bound on the
  length of behaviours.
- FrameTransport: three connections over two ctxs and two descriptors, so
  that a ctx is used again with the same and with another descriptor; bodies of one
  and four bytes and the illegal zero; two frames in all, sent by one
  peer or by two.  Three bytes left of the long body and one wanted are what it
  takes for a negative length.

`TcpConnection` runs do not check deadlock, since a connection that is gone
leaves nothing to do, nor do `tcp_client`, `http_server` and `frame_transport`, whose
calls, lines and connections are used up, nor the `loop_thread` runs, where a loop quit by its own
callbacks may leave the owner waiting; their liveness properties say
when it may.

### Fairness

- EventLoop: weak fairness of every step of the loop thread but of poll only
  when a descriptor is ready, since an idle poll may block for ever (the timeout is
  -1); weak fairness of the eventfd write of a call under way: user callbacks return
  and threads are scheduled.  Nothing obliges anyone to call.
- EventLoopThread: the same, and the steps of the two threads; `join()` only
  when the thread has ended.
- TimerQueue: the clock advances, the loop thread takes its steps, and queued
  functors run although timer events keep coming (strong fairness of
  `RunQueued`), because `doPendingFunctors()` follows every poll.
- TcpConnection: steps of the loops are weakly fair, the peer need do nothing
  except that it makes room for data in time (a peer that never reads may
  block a connection for ever, and the code has no timeout).
- ThreadPool: threads that can run do, tasks end, and a caller woken again and
  again gets its place (strong fairness of `RunPushes`), as a fair mutex and
  condition provide.  Spurious wakeups are not relied on.
- IoThread: the listener finishes its round, and an IO thread with a readable
  socketpair handles it.
- TcpClient: loop steps and calls under way are weakly fair; a server tried
  again and again is reached at last (strong fairness of a successful attempt),
  an assumption about the network that `AttemptsConnect` needs.  A round ends
  with its functors however many events it has (strong fairness of `Swap`), because
  `doPendingFunctors()` follows every poll.
- ConnectionPool: strong fairness of the steps that take the mutex, as for a
  fair mutex, and of the deadline: it is computed once per call
  (thrift_connection_pool.h:123), so that a thread woken again and again still
  meets it.  Nothing obliges a user to give a connection back.
- `http_server` and `frame_transport` check safety only; `NothingWaits` and
  `EventsArmed` say in each state what a liveness property would say of the
  end: nothing is pending that no event will bring on.

## 4. Proofs

Every theorem holds for all values of the constants that satisfy the named
ASSUMEs of the module, which TLC evaluates in the runs.  They ask for naturals
and finite sets, for limits above zero where a zero would stop the code, and
for names that do not clash (`NoClient` is no client, the loop thread is not the owner).
Each safety theorem rests on an inductive invariant; what it adds to the property
is the interesting part.

**EventLoop** (`TypeCorrect`, the type invariant, which is proved and not in a run; `LoopInvariant`, `WakeupsAreNotLost`,
`QuitsAreNotLost`, `FunctorsInOrder`, `LoopImplementsQueue`).  `NoLostWakeup`
speaks only of a loop in poll() and is not inductive.  `IInv` adds `FlagInv`,
that `callingPendingFunctors_` is true exactly from the raising of the flag to
the end of the batch; `BatchInv`, that there is a batch only then; and
`WakeInv`, that in every state except between the return of poll and the swap
(`dispatch`, `callback`, `swap`) a functor in the queue has its wakeup.  In
those three states the swap itself will pick the functor up, so a wakeup may
be consumed by `handleRead()`.  After the swap the queue is empty, and whatever
is queued from then on comes from another thread, or from a functor while
`FlagInv` makes `NeedsWakeup` true.  The refinement follows from
`NothingLostOrReordered`: the head of the batch is the first item of `posted`
that has not run.

**EventLoopThread** (`OwnerFindsLoopAlive`).  `PointerInv` ties `loop_` to the
place of threadFunc(); `NobodyQuit` says that before the destructor's quit()
only callbacks of the loop can have set the flag, and without it the thread has
not left loop(); `SeenStays` carries this from the wait in startLoop() to its
return and from one reading of the destructor to the other.

**ThreadPool** (`PoolTypeCorrect`, `PoolInvariant`, `NobodyIsStranded`,
`PoolImplementsQueue`).  `NotStarted` (no worker runs before start()) makes the
types inductive.  The stranding invariants count: the notified threads are at
least as many as the tasks, or places, that somebody asleep could use.  The proof
needs that a notify moves exactly one sleeper and that a thread leaving or
joining a set changes its size by one.  The refinement rests on `QueueIsRest`: the deque is
what was pushed and not yet taken.

**ConnectionPool** (`PoolInvariant`, `BookkeepingSound`, `SleepersAreRight`).
`Places` says that a client is idle once in one queue or active for one host, so
that lengths and the total are cardinalities of disjoint sets; `ConnectingAlone`,
that the mutex is held over connect(), which makes the room found before it
still there after it; `HostKnown`, `Limits` and `OneUser` are the rest.

**TimerQueue** (`TimerQueueInvariant`, `TimersAreSound`, and the action property
`OthersStay`).  Raw pointers are sound because of `Filed` (what a set or the
batch points to is live and filed under its expiration), `QueuedAdds` (a timer on its
way into the loop is referred to by nobody else), `Sequences` and `Known` (a
number is given once, so an old TimerId never names a new timer at the same
address) and `BatchCancels` (a cancelled timer of the batch is in `cancelingTimers_`, so
reset() drops it).

**TcpConnection.**  `StreamInvariant` and `BytesKeepTheirOrder` hold for every set of
operations, racing or not, for dropped pointers and for `~TcpServer()`: the
wire and the output buffer joined are what was accepted, and the sends that
wait as functors, the batch before the queue, are numbered after everything
of their sender that was accepted.

`LifeInvariant`, `OutputIsSound`, `ClosesOnce` and `LivesUntilRemoved` have
the hypothesis `Disciplined`: other threads only send, keep their pointer until what
they queued has run, reading is not stopped and restarted, and the
server stays.  These are the rules the code needs, not conveniences: section 3
lists what happens without each of them, and the constants of
`tcp_connection` satisfy it.  The proof follows the stages of the connection.  `Fresh`
and `Opening`: nothing but connectEstablished() waits.  `Up`: it is in the map, known
to epoll, and interest in room goes with the output buffer.  `Down`: one of
`Announced` (the callback runs), `Posted` (the base loop has the removal),
`Erased` (exactly one connectDestroyed() waits, in the queue or in the batch) and
`Removed`.  `Handlers` says that one event can close only once, because
handleEventWithGuard() calls the close handler only when it does not call the read handler;
without it handleClose() could run twice in one event.  `Bound` says that whatever
waits to use the connection refers to it, which is why no functor finds it
dead.  Every stage before `Removed` has a reference, hence `LifetimeSound`.

**IoThread** (`DispatchInvariant`, `DispatchIsSound`).  `InQueues`, `InHand`,
`InService` and `Somewhere` give every accepted socket that is not closed exactly
one place; `Idle` keeps free ctxs apart from those in use; `Rounds` says
that every thread has had as many connections as whole rounds were dealt, and
those before `m_nextthreads` one more.

**Connector and TcpClient** (`ClientInvariant`, `NoAssertFires`,
`SocketsHaveOneOwner`, and the action property `StopIsFinal`), under
`~Careless`, which section 3 explains.  `LinesSound`: startInLoop,
resetChannel and connectDestroyed never wait twice.  `ChannelSound`: the
channel is watched exactly during an attempt, and exists afterwards exactly until
the resetChannel() that waits for it.  `AttemptSound`: a timer, a queued start
and a start under way exclude each other and find the connector as it was
made.  `OwnerSound` and `SocketSound`: connection_ is the one connection until the destructor
gives it away, and every open socket belongs to the attempt, to the connection or to
its connectDestroyed().  `GoneSound`: the timer of the destructor outlives the functors with raw
pointers, unless the round is `stalled`.  A late timer can break this, so the
invariant is that all of it holds or that an assert has just failed in a stalled round
(`ClientInv \/ Broken`), after which nothing follows; the functors overtaken are those of this
round, so that the batch has none left in the queue behind it (`RawQueued`).
`StopInv` makes stop() final: unless it hit a restart(), `connect_` stays off, and an
attempt or a connection that the loop has yet to make is one it had begun when stop()
wrote the flag (`raced`).

**FrameTransport** (`CtxsReturnedOnce`, `EventsAlwaysArmed`,
`FramesAlwaysIntact`, `EchoAlwaysIntact`).  The handlers are nested calls in
which a signal may close the connection half way.  The proof describes each by
its outcome (closed, still serving and waiting, or with a message taken), so
that an invariant is shown for the outcomes and not for every path; for a ctx whose
buffer already holds what it wants the outcome leaves open which message it takes.  `CtxInv` is
`TypeInv`, `PoolInv` (a ctx is idle, and then once, or it serves), `EventInv`
(an idle ctx has no event) and `ServeInv` (a ctx in use has exactly one open
connection, the one on its descriptor).  It makes the close unique: after
close_connection() nothing serves, and the rest of the transition meets a ctx whose
descriptor is invalid.  `ArmedInv` adds that whatever serves has the events it needs.
`FrameInv` says where the reader stands: `Layout` gives the places at which the frames begin
in the bytes sent, and `At` ties `m_readWant`, the state of the machine and
the bytes in the buffer to one of them, so that the next message is the next
frame.  `EchoInv` says that the bytes the peer got and the output buffer joined are the
flattened messages; `Flat` states the step of flattening by the running
concatenation, which replaces an induction over the messages.  The exceptions are
those of section 3 (`spoilt`).

**Buffer and HttpServer** (`HttpInvariant`, `InputIsSound`,
`AnswersAreSound`, `CutsNeverMatter`, `NothingIsLeftWaiting`).  The lemmas
`SpaceMade`, `Appended`, `Retrieved` and `ReadFd` say for all sizes that the indices
stay in order and that the contents after makeSpace(), append(), retrieve() and
readFd() are what they should be, on both sides of the boundary between moving and growing and
whether or not a piece spills into the stack buffer.  `HttpInv` says
that the parser stands behind some line `c` (`Place`): `At`, the buffer holds what
arrived behind line `c`; `Progress`, the parser's state and its request are those that
the lines up to `c` give; `Answered`, the requests handled are those that end by
`c`, in order (`Rank` counts them); and `NoneWaiting` unless a request was
pipelined.  None of the properties is inductive alone: `CutsDoNotMatter` needs
the request half read, `NothingWaits` the bytes in the buffer.  The loop in
parseRequest() is handled by a loop invariant (`Parsing`, with `Passed` and `Outcome`):
one turn takes it from one line to the next, and since a turn that goes on
takes at least the two bytes of a CR LF, the loop is over when the
buffer's bytes are used up.  Where an induction is needed the proofs take the least
counterexample (`LeastOf`) instead.

### Only model-checked

- All liveness (`QueuedFunctorsRun`, `QuitEndsLoop`, `StartLoopEnds`,
  `DtorEndsRunningLoop`, `TimersFire`, `OutputFlows`, `ClosedIsReleased`,
  `PoolProgresses`, `StopEnds`, `OldestIsServed`, `AttemptsConnect`, `GetEnds`):
  fairness and ENABLED are outside the prover.

## 5. What could follow

- TcpConnection without `Disciplined`: which of the rules `HalfCloseFlushes`
  and `ActiveChannelLives` each need.
- TcpClient without `~Careless`, in the same way.
- Acceptor with its spare descriptor, together with `newConnection()`.

## 6. Not modelled

- Acceptor and EventLoopThreadPool run on the base loop only: accept, a spare
  descriptor and a round-robin index.  The same dealing of connections over threads
  is checked in IoThread, where it does meet concurrency.
- PollPoller is the alternative to EPollPoller when `MUDUO_USE_POLL` is set:
  sequential index arithmetic with no interleaving.
- Thread, CountDownLatch, BlockingQueue and BoundedBlockingQueue: one condition
  or two around a queue, which ThreadPool has together with the ways of going
  wrong that these classes lack (stop, tasks that submit tasks).
- CEventLoopThread: `m_status` is set after the mutex is released, so that
  start(false) may skip its join(); the class has no other shared state.
  CTaskThreadPool is unfinished and unused.
- Socket and address wrappers are the choices of the environment in the
  models; logging, dates, strings and hashes are conversions without state;
  benchmarks and mains drive the library.
- poco, rapidjson, thrift 0.9.3 with its compiler, concurrentqueue and sigslot
  are third-party code.  They are more than nine tenths of the lines in the repository,
  and a model of them would not be about this program; the modules here
  cover the repository's own concurrent and stateful parts.
