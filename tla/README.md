# Specifications of co_async

TLA+ models of co_async, an asynchronous I/O library for C++20 coroutines over
io_uring: its synchronisation primitives, its event loop and timers, its thread
pool, its pipes and the connection pool of its HTTP client. What is modelled, what
TLC checks on small instances and what TLAPS proves for all of them. Paths below are
relative to `src/`, and those without a directory of their own to `src/co_async/`.

## 1. The system

### 1.1 Execution

An `IOContext` (`generic/io_context.*`) belongs to one thread and owns one
io_uring and one tree of timers. Its loop, `run`, alternates between the timers
(`GenericIOContext::runDuration`) and the ring (`PlatformIOContext::
waitEventsFor`). A coroutine runs until it suspends; nothing else of its thread
runs meanwhile. It suspends in an operation (`UringOp`), whose submission entry
has been *prepared* when the coroutine stops running and is *submitted* by the
next `waitEventsFor` of its thread, or earlier, when `getSqe` finds the
submission queue full. The kernel acts on the entry then. A completion is
noticed by a later `waitEventsFor`, which resumes the coroutine. Two threads share
memory and the kernel's futexes, and nothing else.

So there are two kinds of interleaving: between coroutines of one thread, at
the suspensions only, and between threads, at every access to an atomic. Both
meet in the distance between preparing an entry and its effect.

### 1.2 Components

| component | state | operations | correct when |
|---|---|---|---|
| futex operations (`platform/futex.hpp`, `platform/platform_io.*`) | the word, the entries on each ring, the operations in flight | `futex_wait`, `futex_notify`, cancellation | an operation in flight belongs to exactly one suspended coroutine; a wake wakes who is asleep when the kernel treats it |
| `Mutex` (`generic/mutex.hpp`) | a flag | `lock`, `try_lock`, `unlock`, the guard | one holder, no lost wake-up, a cancelled `lock` takes nothing with it |
| `CallOnce` (`generic/mutex.hpp`) | `mCalled`, a `Mutex` | `call_once`, `set_ready`, the guard | the work is done once, a failure leaves it to the next caller, all callers return |
| `ConditionVariable` (`generic/condition_variable.hpp`) | a counter | `wait`, `notify_one`, `notify_all`, each with a mask | nobody sleeps through a `notify_all` |
| `RingQueue`, `Queue`, `ConcurrentQueue` (`utils/ring_queue.hpp`, `generic/queue.hpp`) | cells and two pointers, a `ConditionVariable`, in `ConcurrentQueue` a spin lock | `push`, `pop`, `try_push`, `try_pop` | a bounded first-in first-out channel; nobody sleeps beside a value or beside room |
| `Semaphore` (`generic/semaphore.hpp`) | a counter | `acquire`, `release` | each success moves the counter by one, within its bounds |
| `CancelSource`, `CancelCallback` (`generic/cancel.hpp`) | a flag, the list of cancellers | register, `doCancel` | every canceller is called once and nothing refers to a source that is gone |
| `when_all`, `when_any`, `co_timeout` (`awaiter/when_all.hpp`, `generic/when_any.hpp`) | a count; a source, a result | | one winner, the rest is cancelled and over when the call returns |
| timers (`generic/generic_io.*`, `utils/rbtree.hpp`) | a red-black tree, intrusive in the frames of the sleepers | `co_sleep`, expiry, cancellation | the tree holds the sleepers in the order they wake; each sleep ends |
| `ThreadPool` (`generic/thread_pool.*`) | three lists, a task and a condition variable per thread | `run`, the life of a thread, destruction | a job is executed once, its result has an owner, `run` returns |
| `IOContext` | the count of pending entries | `runOnce`, `run` | returns when and only when there is nothing to wait for |
| `pipe_stream` (`iostream/pipe_stream.cpp`) | a `ConcurrentQueue` of chunks | read, write, close | the reader gets the writer's bytes, then the end |
| streams (`iostream/stream_base.hpp`) | an input and an output window | read, write, flush | bytes in order, none twice, none lost |
| `HTTPConnectionPool` (`net/http_client.hpp`) | slots per host, a `ConditionVariable` | `connect`, requests, return, garbage collection | a slot has one holder and is never lost, a free slot is found |
| HTTP protocol, client and server (`net/http_*`) | what is under way on a connection | `request`, `request_streamed`, the loop of the server | an answer goes to the request it belongs to |
| `WebSocket` (`net/websocket.hpp`) | the packet, pings, the closing handshake | send, receive | the order of a connection's messages |
| sockets, files, processes, TLS, inflate | a file descriptor or a foreign engine | one system or library call each | |
| `IntrusiveList`, spin mutex and barrier, `SimpleMap`, `uri`, `Expected`, debug output (`utils/`, `net/uri.cpp`) | data structures and helpers | | |

### 1.3 What interacts

`Mutex`, `ConditionVariable` and `Semaphore` are futex words. `Queue` and
`ConcurrentQueue` wait on a `ConditionVariable`, `pipe_stream` is a
`ConcurrentQueue`, `CallOnce` contains a `Mutex`, the HTTP client's pool waits on
a `ConditionVariable` under `co_timeout`, and the TLS client initialises itself
under a `CallOnce`. Every wait registers a `CancelCallback` with the source of
its caller; `when_any` makes such a source, and `co_timeout` is a `when_any` with a
timer. `ThreadPool` jobs wake the calling coroutine through a futex.

### 1.4 What is hard

* A wait is prepared on one thread, the state it is about changes on another,
  and the wake reaches the kernel before or after it.
* Any wait may be cancelled at any time, and the cancellation may meet the
  completion it wants to prevent.
* The decision to notify is taken from a state that is gone when the
  notification is made.
* A frame must live as long as the kernel, a canceller or a job refers to it.
* A detached coroutine may outlive the guard of what it works on.
* The submission queue is bounded, and a full one is emptied in the middle of
  an operation.
* Something must go on in the end: the waiter of a free mutex, the popper of a
  queue with a value, the losers of a `when_any`, the caller of `run`.

`PROJECT.json` lists these as hazards with their lines.

## 2. Modules

| module | models | built on |
|---|---|---|
| `Futex` | a futex word, the rings, the operations in flight | |
| `BasicMutex` | `Mutex`, with its guard | `Futex` |
| `AbstractMutex` | what a mutex promises | |
| `CallOnce` | `CallOnce` | `BasicMutex` |
| `ConditionVariable`, `CvClients` | `ConditionVariable`; tasks that wait and notify | `Futex` |
| `RingQueue` | `RingQueue` as operators on a record | |
| `ConcurrentQueue` | `Queue` and `ConcurrentQueue` | `ConditionVariable`, `RingQueue` |
| `AbstractQueue` | a bounded channel | |
| `Semaphore`, `AbstractSemaphore` | `Semaphore`; what it promises | `Futex` |
| `WhenAny` | one `when_any` or `co_timeout` with its source, its `when_all`, its timers and operations | |
| `ThreadPool` | `ThreadPool` | |
| `RbTree` | `RbTree` as operators on a record of its pointers | |
| `EventLoop` | `IOContext::run` with its timers, the ring and nested coroutines | `RbTree` |
| `PipeStream` | `pipe_stream` with the windows of both `BorrowedStream`s | `ConcurrentQueue` |
| `HttpConnection` | an HTTP/1.1 connection and the server at its end, as operators | |
| `HttpPool` | `HTTPConnectionPool` and `HTTPConnection` | `ConditionVariable`, `HttpConnection` |
| `FutexProofs` | lemmas about the operators of `Futex` | `Futex` |
| `BasicMutexProofs` | theorems about `BasicMutex` and `CallOnce` | `CallOnce`, `FutexProofs` |
| `PipeStreamProofs` | theorems about `ConcurrentQueue` and `PipeStream`, lemmas about `RingQueue` | `PipeStream`, `FutexProofs` |
| `CoroutineProofs` | theorems about `WhenAny` and `EventLoop` | `WhenAny`, `EventLoop` |
| `SemaphoreProofs`, `CvClientsProofs`, `ThreadPoolProofs`, `HttpPoolProofs` | the theorems | the module each is named after, and `FutexProofs` where it has a futex |
| `MC*` | the instances TLC checks | |

### 2.1 State and actions

**Futex.** `word` is the atomic, `sq[c]` the entries prepared on the ring of
context `c`, `op[t]` the state of the wait of coroutine `t` ("queued" on the ring,
"asleep" in the kernel, completed with "ok" or "canceled"), `want[t]` the value and
mask it was given, `canceled[t]` the flag of the source its call runs under. The
steps are operators the other modules conjoin with their program counters:
`FutexWait` and `FutexNotify` prepare entries, `FutexSubmit` has the kernel treat the
oldest entry of a ring, `FutexResume` is the completion. `EAGAIN` is success, as in
`futex_wait`. `SyncWake` selects the build with `CO_ASYNC_INVALFIX`, in which a wake is
a system call. A mask is a set of bits. Submitting one entry at a time covers a batch:
the entries of a ring take effect in order, and those of other rings in between.

**Turns.** A coroutine between two suspensions is in a state of `Running`; `Turn(t)`
says that no other coroutine of `t`'s thread is. Every action that begins to run
a coroutine has `Turn` as a guard, every action inside such a stretch is a step of
its own, since other threads see the atomics in between. `Submit(c)` needs the thread
back in its loop, or a full queue.

**BasicMutex.** `Exchange`, `Sleep`, `Wakeup` are the loop of `lock()`, `Unlock` and
`Notify` the two halves of `unlock()`, `TryLock` is `try_lock()`. **CallOnce** takes
the same steps under its own program counter `once`.

**ConditionVariable.** `CvLoad`, `CvSleep`, `CvResume`, `CvAgain`, `CvReturn`,
`CvCanceled` are `wait`, `CvBump` and `CvNotify` a notification. The counter is
only compared for equality, so an increment takes a value that no waiter holds
(`Incremented`, of `Words`, which are more than the tasks): the state space is finite
and nothing is lost short of 2^32 notifications during one wait. That there is such a
value needs finitely many tasks (`TasksFinite`).

**ConcurrentQueue.** A section under the spin lock does not suspend and touches
nothing else that is shared, so it is one step: `PopEmpty`, `PopTake`, `PushFull`,
`PushStore`, `TryPop`, `TryPush`. The wait begins after the lock is dropped, as in
the code. `AlwaysNotify` selects `Queue` (which notifies after every success) or
`ConcurrentQueue` (which notifies when the ring was empty or full). `Queue` has no
lock: its sections are one step between coroutines of one thread only, and
`QueueAssumption` admits no others for it.

**RingQueue.** The array has `max` cells, as `utils/ring_queue.hpp:13` allocates,
and the pointers wrap only after they have stood one past it (line 39). What is
stored and read there (lines 47, 53, 63, 70), every `(max + 1)`-th value, is
undefined behaviour, with two outcomes in the model: with `slack` the allocation has
room for one more and keeps the value; without, the value is `Lost`, and a pop finds
any value of `Junk` in its place. `Slacks` lets a run choose, and `Strayed` says
that a value has been lost. `AbstractQueue` has the same exception. What such a
store does to the memory it hits is not modelled.

**Semaphore.** The loop around the compare-exchange repeats while the exchange
*succeeds*; the model keeps it that way ("cas", then "again"). `Spurious` allows
`compare_exchange_weak` to fail on an equal value.

**WhenAny.** All on one thread. `Kind` lists the branches in the order of the
arguments: "io" waits for io_uring, "timer" for a timer, "try" for io_uring if it
has to. `Start` is `when_all` resuming the next branch, `Finish` the end of a
branch's task: under a cancelled source the branch ends, otherwise it cancels.
`CancelAll` is `doCancel`: sleepers are resumed inside it, operations get a cancel
entry whose completion it awaits (`KernelCancel`, `CancelReturns`), and the
cancelled operation has its own completion (`Resume`), which may be a late success.
`OuterCancel` is the cancellation of the source this one is registered with,
possible once and at any time; `outer` remembers it.

**ThreadPool.** The three lists are each protected by a lock for one operation,
so a list operation is a step. The mutex of a thread is held across steps, in the
states of `Holds`. `Check` and `Block` are the predicate and the wait of the standard
condition variable; a notification between the two finds nobody, unless it was made
under the mutex. The flag of a run and the wait on it are those of rawRun. `Gone`
marks a job whose caller has returned: the flag is shared and outlives it.

**RbTree.** A tree is a record of the pointers of its nodes: `root`, `kid` per
direction, `parent`, `color`. The code's two mirror images of everything are one
operator with a direction. `Fix` is the loop of `fixViolation` and `Erase` is
`doErase` with both of its branches; the one for two children (`EraseInner`) is
kept as it is written, with the parent of the successor left behind.

**EventLoop.** One thread. A coroutine runs until it suspends, and those it starts
or cancels run inside it: `stack` is the nesting. `Sleep`, `StartIO`, `Stop` are the
suspensions, `Spawn` and `CancelSleep` what a running coroutine does to others.
`RunTimer`, `Return`, `Wait`, `Collect`, `TimedOut`, `ResumeNext` are the loop:
`runDuration` resumes expired timers one at a time and looks at the front of the
tree again after each; `waitEventsFor` collects and counts all completions before it
resumes the first. Time is counted down in `left`, so it is bounded by the delays.
After an erase that left the tree undefined (`torn`) the model stops: what the
program does then is undefined too. The loop asks the tree for nothing but whether
it is empty and for its front, and `TimersKeptUnlessTorn` says of both answers, and
of the order behind them, that they are right.

**PipeStream.** The chunks in the queue are sequences of byte numbers, and the empty
chunk is the announced end. The writer has `out` (`mOutBuffer`) and `rest` (the part
of a span that `putspan` has still to store), the reader `win` and `ix` (`mInBuffer`
from `mInIndex`). `Put`, `Flush`, `Write`, `Close`, `Destroy` and `Get`, `ReadSpan`,
`Peek`, `Forward`, `CloseReader` begin a call; `Pushed`, `PushFails`, `Popped`,
`PopFails` are its continuation when the queue has answered, with the loop inside
`putspan`, `getn` or `peekn` (`ReadsOn`). Every step of the queue below is a step of
`ConcurrentQueue`, cancellation included. `Room` is what `raw_read` may fill: the
span of a `read` on an empty window, which goes past the buffer, or for `fillbuf`
what lies behind `mInIndex`; a longer chunk is cut there. `Get` is both forms of
`getn`: when it fails, the bytes it has got stay in the caller's span or are gone
with its `String` (`GivesUp`). `harm` is the set of ways in which the streams have
lost or reordered bytes so far: "cut", "overwritten" (a `peekn` that reads over what
is still unread), "dropped" (a `getn(n)` that fails) and "overtaken" (`write` on a
full buffer).

**HttpConnection.** Both directions of a connection are sequences of tokens that
carry the number of the request they belong to. `Answer` is what `writeResponse` and
the functions for a body send: a head without a body ("bare"), or a head and pieces,
the last of them known by the length or followed by the line of the empty chunk
("zero") and an empty line ("crlf"). `Final` is the token at which a reader stops,
which differs between a body read as a string and one that is streamed. `Framings`
are the ways in which the answers of an instance are framed. `ServerSteps` is the
loop of `HTTPServer::doHandleConnection`, which may end at any time.

**HttpPool.** `Connect`, `GcMark`, `GcSkip`, `GcUnmark`, `Look` are `connect`,
`garbageCollect` and `lookForFreeSlot`, one entry and one access to its flag per
step, on any threads; `Wait`, `TimeOut`, `WaitOver` are `waitForFreeSlot`, on the
whole `ConditionVariable` with its futex; `Release` and `Tell` are
`~HTTPConnectionPtr`. `Request`, `ReadHead`, `ReadBody` follow `request`; `Fail` and
`Misread` drop the connection (`RAIIPointerResetter`). `request_streamed` returns
after the head and leaves the body to a coroutine of its own: `readers` are the
requests whose body such a coroutine still reads (`StreamRead`), or stops reading
without dropping the connection (`StreamFails`). Nothing keeps the client from
making another request or from giving the entry back meanwhile: `Release` does not
wait for readers. When the next request then begins or the connection is dropped,
the entry is `crossed`, and a reader may get hold of whatever token comes next. When
the connection is dropped under a reader, the code reads from a freed object and the
model forgets the reader.

### 2.2 Bounds

Most models are finite without a bound on the length of behaviours: coroutines call
again and again, and nothing counts calls. What is bounded is the number of
coroutines, threads, entries of a submission queue, queue cells and values. Three
models need more. `PipeStream` numbers the bytes and stops at `MaxBytes`; with
buffers of two bytes (`BufSize`) and spans of up to three (`MaxPut`), three bytes
overflow a buffer, split a span over two chunks, leave a part of a chunk in the
window and fill the queue with an announced end. `Lengths` are the lengths of its
calls: some fit a buffer, a window or a chunk, and some do not. Behind the array of
a ring TLC tries both `Slacks` for the pipe and no room for the queue, whose only
value is also the only `Junk`: with values to tell apart, and for any `Junk`, there
is the theorem `Refinement`. `HttpPool` numbers the requests (`MaxRequests`), and
bounds the garbage collections (`MaxGcs`, which are half a keep-alive time apart)
and the framing and pieces of an answer (`Framings`: without a body, with one piece
of a known length, and an empty chunked one): two requests of two clients on one
slot are a failed one and the one that gets its connection, which is what the
properties are about; their theorems have no bound. `EventLoop` bounds what one
resumption starts or cancels (`MaxCalls`), the delays (`Delays`) and the longest
sleep of the loop (`MaxSleep`), chosen so that a timer may lie before, at and after
it; three sleepers beside the main coroutine reach every shape of a tree whose root
has two children. `Threads` in `ThreadPool` bounds the threads the pool may create;
a client that would need another one waits in "pick", and liveness is stated from
the point where a job has been given to a thread.

## 3. Runs

| run | instance | shows |
|---|---|---|
| `mutex` | 3 coroutines, 2 threads, rings of 2 | all properties of the mutex, with cancellation |
| `condition_variable` | 2 coroutines on 2 threads, rings of 2, masks {1} and {1,2}, `notify_all` | nobody sleeps through a notification; every wait passed by one returns |
| `queue_fair` | `Queue`, 2 poppers, 1 pusher that also polls, 1 cell, one thread | FIFO as a refinement, but for what is stored behind the array; every wait answered, with competing poppers |
| `pipe` | writer and reader on one thread, a queue of 2 chunks, buffers of 2 bytes, 3 bytes | no byte lost, doubled or reordered until a call that `HarmKnown` names, or the ring, does it; until then the end comes last; it is seen; nobody stranded in the `ConcurrentQueue` |
| `semaphore` | 3 coroutines, one thread, maximum 2 | exact counting, every wait answered |
| `call_once` | 3 callers, 2 threads, rings of 1, wakes by system call | done once, guard and mutex agree, all return |
| `when_any` | 3 operations, 2 timers and, in the middle, 1 task that waits only if it has to; the caller may be cancelled | one winner; the branches that wait when one has won end; a result and nothing left behind unless the caller was cancelled |
| `pool` | 2 clients, 2 threads, with the destructor | a job has one thread, a result an owner, runs end |
| `pool_stop` | the destructor | **violated**: it waits for ever |
| `event_loop` | 4 coroutines, delays of 1 and 3, longest sleep 2 | the tree is in order, no timer is slept past, sleeps end, `run` returns only when idle |
| `timer_tree` | the same with delays of 0 and 2 | **violated**: cancelling a timer takes others out of the tree |
| `http` | 2 clients on 2 threads, one slot, two requests, one collection | an entry has one holder and is not lost, answers match requests unless a detached reader meets the next user, a search ends |

Three coroutines are enough for what can go wrong with a wake: one that holds, one
that sleeps, one that comes in between, with the last two on one thread or on two. A
ring of one entry makes `getSqe` submit inside every operation that needs a second
one (the proofs about the mutex hold for any number); a ring of two lets a wait and
a wake overtake each other's effect. A queue of two cells passes through every
position of the pointers, of which there are three, and the queue of one cell
through its two: every second value goes behind the array. Two threads of the pool
are needed for a free and a working one at the same time; two clients compete for
one of them.

Deadlock is checked except where the system may rightly stop: a destroyed pool has
nothing left to do, both ends of a pipe may be closed, the requests of `http` are
counted, and `run` returns.

Each module has a type invariant. Where a run has no property to spare for it
(`PROJECT.json` names those it has), it holds when it is added to the cfg, and for the
modules with theorems it is proved as a part of the invariant.

### 3.1 Fairness

`BasicMutex` needs weak fairness of each coroutine's own steps and of `Submit`.
Elsewhere `Turn` disables a coroutine while others of its thread run, and coroutines
that call again and again could keep it disabled at the wrong moments: the
properties are checked under strong fairness of each coroutine and of each `Submit`.
The code provides it: a coroutine runs to its suspension, `waitEventsFor` submits
every prepared entry and resumes every completion of a batch before it starts
another, and the kernel treats entries in order. Nobody is assumed to lock, call,
push, cancel or destroy. `WhenAny` assumes nothing of the timers and operations
themselves. `ThreadPool` assumes that threads are scheduled, mutexes granted and
jobs finite. `PipeFairSpec` adds to the fairness of the queue that a coroutine acts
on its answer; `PipeSpec` is the pipe without fairness. `HttpPool` assumes that
threads run, that a request ends (it has a timeout), that the timer of 100 ms
expires, and that a client which may give its entry back, having asked, does so in
the end; nothing is assumed of the server, of garbage collections or of detached
readers (`StreamRead`, `StreamFails`). `EventLoop` assumes that the loop runs, that
time passes and that a running coroutine suspends in the end; no operation is
assumed to complete.

### 3.2 Findings

Two runs show a disagreement between the code and what the repository says of it:

* `pool_stop`: `~Thread` notifies without the mutex (`generic/thread_pool.cpp:15-17`);
  a thread between its predicate and its wait misses it, and `join` hangs.
* `timer_tree`: `doErase` leaves the parent of the successor as it was
  (`utils/rbtree.hpp:177-201`) and then relinks through it: after the cancellation of a
  `co_sleep` whose timer has two children, other timers are no longer in the tree.
  `TimersKeptUnlessTorn` shows that nothing else tears it.

The following hold of the code too; nothing in the repository promises otherwise, so
there is no run for them, and those with a definition can be seen by giving it to TLC
with the cfg named:

* `NoStrandedPopper` (`ConcurrentQueue`, `MCQueue.cfg` with `AlwaysNotify = FALSE`
  and `MaxSize = 2`): two poppers of one thread sleep, two values are pushed before
  the thread is back in its loop, and only the first push, which finds the queue
  empty, notifies (`generic/queue.hpp:124-129`). One popper wakes and takes one
  value; the other sleeps beside the second until somebody empties the queue and
  pushes again. So does a `Queue` whose values come from `try_push`.
* The ring (`utils/ring_queue.hpp`): the array has `max` elements (lines 13 and 19),
  the pointers wrap after standing at `mTail` (line 39), and lines 47, 53, 63 and 70
  dereference them there. Every queue of the library is exposed to it, from
  `Queue<char> q1(1)` of an example (`examples/io_multiplex.cpp:8`) to the 64 chunks of
  a pipe (`iostream/pipe_stream.cpp:13`), whose 65th goes behind the array. With
  `Slacks = {FALSE}` TLC finds the values of `Junk` popped; the properties except
  them and are exact otherwise.
* `WorkingCount` (`ThreadPool`, `MCThreadPool.cfg`): `submitJob` records the thread as
  working after it has given it the job (`generic/thread_pool.cpp:73-75`); a quick job
  is over by then and the entry stays.
* `ValuePresent` (`WhenAny`, `MCWhenAny.cfg`): with the enclosing call cancelled no branch
  leaves a value and `result.value()` throws `std::bad_optional_access`
  (`generic/when_any.hpp:58-64`).
* `Deaf` (`HttpPool`): a timeout that meets a wake for an earlier value of the
  counter lets `ConditionVariable::wait` (`generic/condition_variable.hpp:455-457`)
  go to sleep again under a source that is cancelled already. No canceller is called
  for it (`generic/cancel.hpp:214`), so the 100 ms of `waitForFreeSlot` are lost;
  `ConnectReturns` excepts that case. The loop of `BasicMutex::lock` has the same
  form.
* One user of a connection at a time,
  `\A e \in Entries : entry[e].readers # {} => ~entry[e].crossed` (`HttpPool`,
  `MCHttpPool.cfg`): `~HTTPConnectionPtr` (`net/http_client.hpp:324-330`) gives the
  entry back although the coroutine that `request_streamed` has detached (265-269)
  is still suspended in its connection, and the next client of the entry sends a
  request over it. So it goes in `examples/proxy_route.cpp:55-58` when `io.response`
  fails. The two may take each other's bytes, and a request that fails frees the
  connection under the reader.
* `NeverMisread` (`HttpPool`, `MCHttpPool.cfg`): a chunked body read as a string leaves its
  last empty line on the connection, and so does a streamed body whose coroutine
  failed; the next request fails and drops the connection. `AnswerMatches` says that no
  such remains are taken for an answer; it says nothing once a detached reader has met
  another user.
* A slot whose `doConnect` refuses the scheme stays marked
  (`net/http_client.hpp:374`): the last conjunct of `EntryOwned` is false with
  `Supported = FALSE` when it is stated without `Supported`.
* `when_any` with a branch that completes at once before one that waits, as
  `co_timeout(q.pop(), t)` with a value ready: `doCancel` runs before the second
  branch is registered, and the call waits for the timer to expire. `WonEnds` is
  about the branches that wait when the source is cancelled.
* In a pipe: the destructor of a writer that finds 64 chunks queued announces
  nothing (`wop = "silent"`), a writer that sleeps on a full queue is not woken when
  the reader closes, and bytes are lost or reordered by the calls that `HarmKnown`
  names: a chunk is cut to the span of a `read` on an empty window
  (`iostream/stream_base.hpp:477-485`, `iostream/pipe_stream.cpp:28-29`) or to the
  room behind `mInIndex` that `peekn` (295-297) and `pipe_forward` leave; `peekn`
  reads over the bytes it has found too few; `getn(n)` that fails drops what it has
  got (205-210); `write` on a full buffer overtakes it. A cut to nothing is taken
  for the end.

## 4. Proofs

A theorem holds for every value of the constants that the named ASSUMEs of the modules
admit: sizes that are positive, homes that are contexts, finitely many tasks
(`TasksFinite`, where there is a condition variable), and a `Queue` whose tasks are
coroutines of one thread (`QueueAssumption`). Where a theorem needs more, its
hypothesis is named in its statement:

| hypothesis | says | because |
|---|---|---|
| `PipeQueue` | the queue of a pipe is used by its reader and its writer and holds chunks | `pipe_stream` makes it and gives it to these two (`iostream/pipe_stream.cpp:82-87`); `MCPipeStream` assumes it too |
| `OneThread` | the tasks (reader and writer) are coroutines of one thread | the queue and the semaphore promise nothing else across threads, and what is claimed is false there |
| `Together(c)` | all tasks of a queue are coroutines of one thread, that of `c` | as for `OneThread` |
| `EverySuccessTells` | `MaxSize <= 1`, or a `Queue` of which only `pop` and `push` are used | in every other queue a success may notify nobody although several sleep, and what is claimed is false (3.2) |
| `[]TimersKeptUnlessTorn` | the tree of the timers gives the right answers | what the recursive functions of `RbTree` compute is an induction over trees; the run `event_loop` checks it |
| `StrongExchange` | `compare_exchange_weak` fails only on another value | so it does on x86; a failure without a reason makes `acquire` return without a unit |
| `Broadcast` | `notify_all` only, with masks any two of which overlap | a `notify_one` may wake another sleeper, and a mask may miss one: that nobody sleeps through is the promise of `notify_all` |

`BasicMutexProofs` proves for any coroutines, threads, sizes of the submission
queue and both builds (`FutexAssumption`):

* `TypeCorrect`, `MutexSafe`, `OperationsOwned`, `WakeupsKept`: `Spec => []Inv` for
  `TypeOK`, `MutualExclusion`, `OpOwned`, `NoLostWakeup`;
* `Refinement`: `Spec => RefinesAbstractMutex`, each step a step of the abstract
  mutex or a stutter.

Types and mutual exclusion are inductive together. `NoLostWakeup` is not: to see
that a queued wake reaches a sleeper one must know that every wait in flight was
given the value TRUE and the full mask (`Arguments`), and to see that a wait goes to
sleep only for a coroutine that waits, that a queued wait belongs to exactly one
(`OpOwned`). The conjunction is `IndInv`; theorem `Inductive` is the induction, one
lemma per conjunct, one step per action. The case to look at is a free mutex with a
sleeper: if a wake on a ring is consumed it leaves a coroutine with "ok"; if that
coroutine runs it is in "lock"; if it finds the flag set the mutex is not free; and
a waiter whose completion was "ok" goes round the loop even when it has been
cancelled.

The same module proves of `CallOnce` that its work is done under one guard at a time
and never again after `set_ready` (`WorkDoneOnce`), that the guard owns the mutex
(`GuardsOwn`), its types, and that the mutex in it implements the abstract one
(`OnceRefinement`). Each step of `CallOnce` is a step of `BasicMutex`, leaves it alone, or
is a `lock()` repeated under a source that may be cancelled already (`Retry`, which
`RetryInd` treats), so `IndInv` is kept (`OnceStepOfMutex`). `OnceInv` adds where a caller
stands in the mutex for each of its own states, and that nobody does the work when
`mCalled` is set: a caller that has waited for the mutex reads it again under the lock.

`SemaphoreProofs` proves `WithinBounds`: whatever the number of threads and however
often the exchange fails without a reason, the counter stays in 0..`MaxCount`. The
invariant adds to the types that an exchange is only tried with a count the inner
loop has let pass (`Passed`). `Refinement` proves, under `OneThread` and `StrongExchange`,
`Spec => RefinesSemaphore`: each success moves the counter by exactly one. Its invariant
is that one task runs at a time (`Sole`), so the counter is the one that was loaded until
the exchange has succeeded, and another one when the loop tries it again (`Fresh`); the
repetition then fails and ends the loop.

`CvClientsProofs` proves, for any tasks, threads, masks and sizes of the submission
queue and both builds, the invariant `IndInv` (`CvInvariant`: a task has an operation in
flight exactly while it is suspended in `wait`, for the counter it loaded and the mask
of its call, and every wake on a ring was asked for), the types (`CvTypeCorrect`), and,
under `Broadcast`, `NotificationsReach`: `Spec => []NobodySleepsThrough`. Someone who
sleeps on a counter that has moved was asleep before it moved, or was still queued:
in the first case the wake is queued behind him or about to be, in the second
the kernel compares and does not let him sleep. A wake that is consumed wakes all it is
meant for, so nobody is left.

`CoroutineProofs` proves of `WhenAny`, for every list of branches: `AlwaysAWinner`
(unless the enclosing call is cancelled, the result is not empty when the call ends)
and `FrameIsFree` (unless it is, no operation, timer, cancel entry or canceller
refers to the frame then) and `WinnerUnique` (`Spec => OneWinner`: the result is
given once, to the branch that cancels the others), from the invariant of
`WhenAnyInvariant`. Its conjunct `Winning` ties the flag of the source to the
branches: before it is set no branch has ended, while a branch cancels there is no
value, and afterwards there is. Without the condition the first is false
(`ValuePresent`).

Of `EventLoop` it proves, for any coroutines, delays, longest sleep and nesting, and from
`[]TimersKeptUnlessTorn`, `ReturnIsRight` (`[]ReturnsWhenIdle`) and `NoOversleep`
(`[]WakesInTime`). They are inductive with `Awaited` and `Resting` (`LoopInv`, theorem
`LoopInvariant`). `Awaited` says that a coroutine that runs is on the stack, once; that one
that waits for an operation is in exactly one of three places, with the kernel, in the
ring or in the batch; and that `pending` is the number of those not collected. `Resting`
says that while the thread waits nobody runs and no batch is left over. Then a loop that
finds no timer and a count of zero has nobody to wait for, and a wait that is as long as
the front of the tree is as short as the shortest sleep: a new sleep starts only while
a coroutine runs, and time shortens both alike.

`PipeStreamProofs` proves `Refinement`: `Spec => RefinesQueue`, for any capacity and
whatever is cancelled; for a `ConcurrentQueue`, whose sections are under its lock,
with any tasks on any threads, and for a `Queue`, which has no lock, with any tasks
of one thread. The invariant (`ArgKept`) is that the ring is well formed and every
task in a push has a value to give; it rests on lemmas about the ring
(`PushAppends`, `PopTakesFirst`, `EmptyAndFull`): `RingContents` after `RingPush` is
the contents with what was stored appended (the value, or `Lost` behind the array),
after `RingPop` its tail, and `RingEmpty` and `RingFull` are lengths 0 and
`MaxSize`, for every position of the two pointers. So two threads cannot take a
value of a `ConcurrentQueue` twice or out of order, though they may miss a wake-up;
what is popped in place of every `(MaxSize + 1)`-th value may be anything.

For a queue whose tasks are all of one thread (`Together(c)`) and whose successes all
notify (`EverySuccessTells`), it proves that nobody is stranded, however many poppers,
pushers and pollers there are, whatever is cancelled, with rings of any size and in both
builds: `PoppersServed` (`Spec => []NoStrandedPopper`) and `PushersServed`
(`Spec => []NoStrandedPusher`). To know that somebody is on the way is not inductive, since
the one on the way may take one value and leave another: one must count. The invariant
`QueueCalm` says, for values and poppers (`"pop"`) as for places and pushers (`"push"`)

* that every task is where its calls bring it, with the operation in flight its wait asked
  for (`Settled`), and that one task runs at a time (`Single`);
* that who waits although there is something to do has loaded a counter that has changed,
  unless the one success there was is about to change it (`AllNoticed`);
* that while somebody sleeps there are at least as many wakes on the ring, tasks that come
  to test the queue and tasks about to tell (`Carriers`) as there are values to take
  (`Enough`).

Each step of the queue (`QueueSteps`: one begins, misses, succeeds or is in the condition
variable) moves the two sides of the count alike. A success takes one away and makes
itself a teller of the other kind (`EnoughMoves`); a teller becomes a wake on the ring, or
wakes somebody at once (`EnoughTell`); a wake that reaches the kernel becomes a woken
sleeper, whose counter has changed by `AllNoticed`, so that he goes to the test and not to
sleep again (`EnoughSubmit`, `WokenComes`). A cancelled sleeper takes no wake with him:
his completion is either the wake's or ECANCELED. A kernel that puts another one to
sleep finds `Amount = 1` with its teller still there, or nothing to do.

Of the pipe it proves, under `PipeQueue` and for any sizes of its buffers, spans and
queue:

* on any threads, `BytesConserved` (`Conserved`: until one of the named harms is
  done or the ring has lost a chunk, `Unharmed`), `PipeTypeCorrect` (`TypeOK` of the
  queue and `PipeTypeOK`) and `HarmIsKnown` (`HarmKnown`), from `PipeInv`, whose
  induction is `PipeInductive`. Its conjuncts are `Coupled` (`Settled`, and where
  each of the two stands in the queue), `Hands` (what reader and writer hold: when
  there is a chunk in `got` and in `arg`, that the reader reads only behind an empty
  window, except in `peekn`, that a buffer with room ends with the byte put last,
  that `rest` is what follows a full one), `Orderly` and the set `harm` may be.
  `Orderly` is `Conserved` as a statement on four sequences,
  `InOrder(Front, ring, Behind, sent)`, so that each step is one of five moves on
  them: nothing changes, the first chunk moves to the front (`OrderTake`), what is
  behind moves its beginning into the ring (`OrderAdd`), bytes are appended
  (`OrderPut`), or the last ones are taken back by a failed push (`OrderDrop`). A
  lemma per call of the writer and the reader shows which (`WriterPuts` ...
  `ReaderPops`). The model acts on an answer of the queue before anything else
  (`Back`), as a resumed coroutine does on its thread; nothing else is assumed of
  threads.
* under `OneThread`, `PopperNotStranded` and `PusherNotStranded` (`NoStrandedPopper`,
  `NoStrandedPusher`): neither sleeps in the queue while it could go on and no wake is on
  its way. The invariant is `PipeCalm`: `Alone` says that not both run, which closes the gap
  between dropping the lock and loading the counter; `Awake` that who waits although there
  is something to do has loaded a counter that has changed or is about to (`Seen`), and
  that who sleeps on a counter that has changed has a wake queued or about to be
  (`Heard`).
* under `OneThread`, `EndIsFound` (`EndIsEnd`). `Ends` says that, while nothing is
  harmed, an end in the ring is last (`EndsLast`; a closed stream that is destroyed
  announces it once more, `LateBy`), that there is none before it is announced, and
  that once the reader has found it nothing but an end can be left. Then `Conserved`
  gives that what was taken, what is in the reader's buffer and what is still in the
  writer's are all the bytes. On one thread the reader cannot take the end before
  the writer's push of it has returned; on two it can, and `wop` is "close" then.

`ThreadPoolProofs` proves `OneThread` (`Spec => []OneThreadPerJob`), `ResultOwned`
(`Spec => []ResultHasOwner`) and `FreeIdle` (`Spec => []FreeIsIdle`), for any clients and
threads. None is inductive alone: that one thread has a job needs that a thread picked
for it had none (`AssignRight`), which needs the same of the free list (`FreeRight`) and
that a thread leaves its job before it joins the list (`JobRight`); that a job is taken
needs that no stop is requested during a `run` (`AliveInRun`); and that its result has an
owner needs that a client begins with a flag that is not set (`FlagFresh`) and returns
only when it is.

`HttpPoolProofs` proves `EntriesOwned` (`Spec => []EntryOwned`), `NothingDue`
(`Spec => []NoAnswerDue`) and `AnswersMatch` (`Spec => AnswerMatches`), for any
clients, threads, slots, requests, collections, early releases and lengths of a
body. None is inductive. Ownership needs that a holder's entry is marked
(`Ownership`) beside that a marked one has a holder (`NoneLost`, the part that needs
a known scheme, `Supported`). The answers need to know what is on the connection in
each phase of a request: `Quiet` (remains of earlier answers, but no head), `Sent`
(a request, and remains before its answer), `Waiting` (the server has it, its head
is the first thing to come), `Begun` (the head is among what has arrived, everything
behind it belongs to the request) and `Ending` (its head has been read).
`ServerQuiet` and `ServerAsked` show that the server keeps the phase or takes it to
the next, `ReadAsked` and `ReadEnding` that the reader does; a failed request may
leave any phase, and is safe only because it drops the connection. `StepEffect`
reduces the actions to a few effects on the pool, and each invariant is shown for
those. `StreamRight` says that on a connection where no detached reader has met
another user, whoever still reads is at the end of its own answer and no client
makes a request; where they have met, `ConnRight` still holds, since a reader can
only take tokens away (so a client finds its answer, nothing, or something it drops
the connection for), but what the readers get is anything.

The proofs about types share `FutexProofs`: each operator of `Futex` keeps
`FutexTypeOK(Words)`, for any set of words.

Only model-checked:

* every property under fairness (`HandOff`, `WaitEnds`, `PopAnswered`,
  `PushAnswered`, `EndSeen`, `CallAnswered`, `AllReturn`, `WonEnds`, `RunsEnd`,
  `SleepEnds`, `ConnectReturns`): `TLAPS` does not reach liveness, and says nothing
  of ENABLED;
* `TimersKeptUnlessTorn` and `InTurn` of `EventLoop`: they are what the recursive functions
  of `RbTree` compute (that the nodes stay in order through insertion, rotation and
  erasure, that the front is the first of them, and that an empty tree has none), which
  needs induction over trees. The theorems about the loop assume the first.

## 5. Not modelled, and assumptions

* Memory order: the models are sequentially consistent. `CallOnce` reads `mCalled`
  with relaxed order, which they cannot judge.
* The kernel has the futex operations of io_uring and the system calls for futexes
  of one byte.
* What a store behind the array of a `RingQueue` does to the memory it hits: the models know
  that the value is kept or lost there, and nothing else.
* `Queue` shared by threads: it has no lock, and the model holds for one thread only.
* Streams are modelled as pipes use them. Raw streams that read and write short
  (sockets) are not, nor are `getspan`, `dropn`, `dropline`, `dropall`, `getline`,
  `getall`, `peekchar` and `getchunk`; of these `getline` and `getall` with a
  `String` of their own lose it when they fail, as `getn(n)` does. A reader that has
  found the end does not read on.
* Two users of one HTTP connection: when a detached reader of a body meets the next
  request, each takes whole tokens of the model; that they cut each other's bytes,
  and what the reader does with a connection that is freed under it, is not
  followed.
* HTTP: the map of hosts is one host, since hosts share only its lock; compression,
  routes and the parsing of headers are left out, and the bytes of a body are
  pieces without contents.
* `WebSocket` needs streams at the level of bytes for a raw stream that may be cut
  anywhere by a timeout; its hazards are listed.
* `IOContextMT` starts contexts one after the other and has no protocol. Left out for
  good: printing and reflection, allocation, third-party TLS and inflate, single
  system calls, examples, scripts and their generated single header.
* Across threads `ConcurrentQueue` can strand a popper and `Semaphore` can miscount;
  nothing in the repository promises otherwise. FIFO and the bounds of the counter
  are proved for any number of threads; the hazards name what does not hold.
  `Spurious` is FALSE in the run: on x86 the weak exchange does not fail without a
  reason, and on one thread such a failure would make `acquire` return without a unit.

## 6. Plan

Done, in this order: `Futex`, `BasicMutex` with its proofs, `ConditionVariable`,
`ConcurrentQueue`, `Semaphore` with its proof, `CallOnce`, `WhenAny` with its
proofs, `ThreadPool`, the refinement proof of the queue, `RbTree` and `EventLoop`,
`PipeStream`, `HttpConnection` and `HttpPool` with their proofs, the proofs of
`ThreadPool`, of `CallOnce`, of the condition variable, of the pipe and of the
refinement of the semaphore, of the event loop, and of a queue with any number of
tasks of one thread.

Left, most important first:

1. Proofs: that insertion and the branch of `doErase` for at most one child keep the tree
   what the loop needs, which waits for a prover that does induction over data.
2. `CancelTree`: sources registered with sources, cancellers that end each other's
   branches, `when_all` with an exception.
3. A raw stream that reads and writes short, and `WebSocketSession` on top of it:
   pings under a timeout, the closing handshake, the length field, two senders.
4. The spin barrier and the lock-free ring of `utils/`.
