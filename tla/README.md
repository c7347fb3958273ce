# Polyphony: a TLA+ verification project

Polyphony is a Ruby extension that runs many fibers on every thread and lets
them wait for I/O, timers, events, queues and each other without blocking the
thread. Its core is C code under `src/ext/polyphony`, with the fiber life cycle
and the synchronization classes in Ruby under `src/lib/polyphony`. On Linux it
waits with io_uring, elsewhere (or on demand) with libev, whose source is
vendored under `src/ext/libev`.

This directory models that core in TLA+. TLC checks the models on small
instances (`*.cfg`) and TLAPS proves every safety property that the passing runs
check for every instance (`*Proofs.tla`): those of the ring buffer, the
scheduler, the queue, the synchronization classes, the pools, both backends, the
event loop and the compression calls. `PROJECT.json` relates
every definition to the lines it models and every property to the hazard it is
about.

## Inventory

| Component | Source | State | Operations | Correct when |
|---|---|---|---|---|
| Ring buffer | `ring_buffer.c`, `runqueue_ring_buffer.c` | array, size, count, head, tail | push, unshift, shift, delete, clear, migrate, growth | it behaves as a sequence |
| Run queue | `runqueue.c` | the ring buffer of {fiber, value}, and one for parked fibers | push, unshift, shift, delete, migrate | one entry per runnable fiber; exceptions survive |
| Scheduling | `backend_common.c`, `fiber.c`, `thread.c` | `@runnable`, `@parked`, `pending_count`, `switch_count`, `currently_polling` | schedule, switch, snooze, park, idle tasks, wakeup | every runnable fiber is resumed; no thread sleeps with work to do |
| io_uring backend | `backend_io_uring.c` | ring, pending submissions, shared event | poll, handle completions, await, cancel, each I/O operation | a completion resumes the fiber that waits for it; bytes are accounted for |
| Operation contexts | `backend_io_uring_context.c` | free list, taken list, reference counts | acquire, release, attach buffers | no context is reused while a completion may come for it |
| libev backend | `backend_libev.c` | watchers on the C stack, the loop | each I/O operation, timeouts, wakeup, fork | no watcher outlives its function; nobody is forgotten |
| libev event loop | `libev/ev.c`, `libev/ev_epoll.c` | watchers, pending events, descriptor changes, timer heap, wakeup pipe | start, stop, `ev_run`, poll, signal, fork | the kernel watches what the loop believes; no wakeup is lost |
| Queue | `queue.c` | values, two wait queues, capacity, closed | push, shift, delete, cap, clear, shift_all, shift_each, close | waiting fibers are released; the cap holds |
| Event | `event.c` | the waiting fiber, the signal | await, signal | a signal reaches its waiter |
| Mutex, Monitor, ConditionVariable | `core/sync.rb` | token queue, holder, waiters | synchronize, lock, wait, signal, broadcast | mutual exclusion, no lost token |
| Resource pool | `core/resource_pool.rb` | stock, size, limit | acquire, discard, fill | never more than the limit, none lost |
| Thread pool | `core/thread_pool.rb` | task queue, threads | process, cast | a task runs once and answers once |
| Compression, chunked splicing | `io_extensions.c` | two buffers, a zlib stream, a pipe | gzip, gunzip, deflate, inflate, http1_splice_chunked | the whole source arrives, framed as it should be |
| Fiber life cycle | `extensions/fiber.rb` | parent, children, monitors, result | spin, await, select, supervise, terminate, finalize | structured concurrency: no child outlives its parent |
| Threads | `extensions/thread.rb`, `thread.c` | main fiber, result, termination event | start, join, kill, finalize | a join sees the result |
| Timer, throttler | `core/timer.rb`, `core/throttler.rb` | timeouts by fiber | cancel_after, move_on_after, reset | a timeout fires only while its block runs |
| I/O, sockets, pipes, adapters | `extensions/*.rb`, `socket_extensions.c`, `pipe.c`, `adapters/` | none shared | wrappers over the backend | - |

How they interact. Ruby code calls the backend of its thread. A call that has to
wait puts the fiber aside (an operation context, a watcher, a wait queue, an
event) and calls `backend_base_switch_fiber`, which takes the next entry of the
run queue or, when that is empty, polls. Whoever makes progress possible - a
completion, a watcher's callback, a producer, a signal, another thread - calls
`schedule_fiber`, which adds an entry to the run queue of the fiber's own thread
and, if that thread sleeps in its poll, wakes it: with a no-op request
(io_uring) or through the loop's wakeup pipe (libev). The resume value of the
entry is the result of the switch; an exception as a resume value is raised, and
this is how timeouts, cancellation and termination are delivered.

All of it runs under Ruby's global VM lock. The lock is given up between Ruby
instructions and during a blocking poll, so C code between two such points is
atomic with respect to other threads; switches between fibers happen only where
the code asks for one. What is hard is everything that may happen between a
decision and the moment a fiber acts on it: between waking a fiber and running
it, between looking at the run queue and polling, between taking an entry and
clearing `@runnable`, between giving up a request and its late completion,
between the test of a limit and the use of what it allowed.

## Modules

| Module | Models | Notes |
|---|---|---|
| `RingBuffer` | `ring_buffer.c` (and its copy `runqueue_ring_buffer.c`) | the array, with unsigned indices and uninitialized slots |
| `Deque` | the same, seen as a sequence | operators that other modules are built from |
| `DequeMachine` | what a ring buffer promises | the abstract specification `RingBuffer` implements |
| `Scheduler` | `runqueue.c`, `backend_common.c`, poll and await of `backend_io_uring.c`, `fiber.c`, end of `finalize` | threads, fibers, run queues, operations |
| `UringBackend` | contexts, submission, completion and cancellation in `backend_io_uring*.c` | operators on one record |
| `UringOps` | every operation of `backend_io_uring.c` | fibers of one thread and the kernel |
| `LibevOps` | every operation of `backend_libev.c` | fibers of one thread, watchers, the other ends |
| `EventLoop` | `ev.c` and `ev_epoll.c` as far as the backend uses them | the loop, the kernel, threads and signal handlers |
| `IOExtensions` | `io_extensions.c` | one call with its source and destination |
| `FiberQueue` | `queue.c` | every call, blocking or not, and cancellation |
| `FiberSet` | the fibers | the constant that `FiberQueue` and `Fibers` share |
| `Fibers` | the fibers of a thread as users of a queue see them | operators for the three modules below |
| `Sync` | `core/sync.rb` | Mutex, Monitor, ConditionVariable |
| `ThreadPool` | `core/thread_pool.rb`, `event.c` | fibers, threads of the pool, events |
| `ResourcePool` | `core/resource_pool.rb` | fibers, stock, allocator |
| `Primitives` | the three above over `Fibers` | a behavior uses one of them |
| `MCScheduler`, `MCUringOps`, `MCLibevOps`, `MCEventLoop`, `MCIOExtensions`, `MCPrimitives` | - | instances, programs, symmetry |
| `DequeProofs`, `UringBackendProofs` | - | lemmas on the operators of `Deque` and `UringBackend` |
| `SchedulerProofs` | - | theorems about `RingBuffer` and `Scheduler` |
| `PrimitivesProofs` | - | theorems about `FiberQueue` and `Primitives` |
| `UringOpsProofs`, `LibevOpsProofs`, `EventLoopProofs`, `IOExtensionsProofs` | - | theorems about the module of that name |

The layers. `RingBuffer` implements `DequeMachine`, and `Scheduler` and
`FiberQueue` are built from `Deque`, so they inherit the behaviour of the real
buffer. `Scheduler` is the detailed model of switching and polling; in
`UringOps`, `LibevOps` and `Fibers` a fiber is scheduled or not, and which
scheduled fiber runs next is left open (or is a plain queue, in `Fibers`).
`LibevOps` takes from the event loop that an active watcher whose event is there
is called back, and that a thread in a poll is woken by `ev_async_send`;
`EventLoop` is the model of the loop that has to deliver this.

### Deque, DequeMachine and RingBuffer

A deque is a record of a sequence `items` and the `size` of the array behind it.
The size is kept because one operation depends on it: `ring_buffer_delete_at`
closes the gap with a loop that ends when it meets `tail`. In a full buffer
`head = tail`, so for the first item the loop ends at once and the *last* item
goes instead (`Misdeletes`). `Deque` states this; `RingBuffer` has the loop of
the code, and the run `RingBuffer` shows that each operation of the array is the
one of the same name on the deque (`Implements`, with the refinement mapping
that reads `count` items from `head`).

`RingBuffer` keeps `UintMod`, the number of values of an unsigned index: `head -
1` wraps before it is reduced modulo the size. 256 stands for 2^32; both are
multiples of every array size, which is what the code relies on.

### Scheduler

State: per thread the run queue, the parked run queue, `pending_count`,
`switch_count` (modulo the threshold, the only thing the code reads of it), the
current fiber, the completions in its ring and the local variables of the switch
in progress; per fiber `@runnable`, `@parked`, the operation it awaits and where
it is. `phase` is the program counter of a thread (see the module's head). The
steps of a switch are actions of their own so that the order of taking an entry,
polling, handling completions and clearing `@runnable` is the code's, but other
threads run only when the lock is free (`MayRun`).

| Action | Code |
|---|---|
| `Spin`, `Schedule`, `ScheduleWithPriority` | `Fiber_schedule`, `Fiber_raise`, `Fiber_schedule_with_priority` over `backend_base_schedule_fiber` |
| `Snooze`, `Suspend`, `Await`, `Finish` | the ways into `backend_base_switch_fiber` |
| `SwitchTake`, `SwitchEmpty`, `SwitchNone`, `IdleEnd`, `Transfer`, `TransferDead` | its loop and its end |
| `PollReturn`, `PollSignal`, `DrainOne`, `DrainEnd` | `io_uring_backend_poll` and `..._handle_ready_cqes` |
| `Park`, `Unpark`, `Stats` | `Fiber_park`, `Fiber_unpark`, `backend_base_stats` |
| `Complete` | the kernel |

`Calls` selects what the program does, so that a run asks its question of the
programs it is about and a theorem can name the call it excludes. `faults` is a
history variable: it records that a full run queue has lost an entry
(`"misdelete"`), or that a dead fiber was switched to (`"dead"`), the two events
after which some properties do not hold.

Abstractions:

- An operation may complete as soon as the fiber awaits it, although submission
  may be deferred to the next poll. This adds behaviours and removes none.
- A fiber that is resumed before its operation completes cancels it in the same
  step, and no completion of it arrives later; that late completions wake nobody
  else is `WakesTheHolder` of `UringOps`.
- A signal is modelled where its handler schedules an out-of-band fiber, the case
  in which the poll returns.
- Parking is for fibers of the calling thread, which is how the debugger uses it.
- `Threshold` stands for 64.
- `MaxEntries` bounds the run queues where a program could add entries for ever;
  it never stops a completion, a snooze or a switch.

### UringBackend and UringOps

`UringBackend` is a `Backend_t` as a record: the contexts and the store, prepared
and submitted entries, `pending_sqes`, completions in order, the value every
fiber is scheduled with, the context of the shared event and the multishot accept
queues. The C functions that change it are operators from a record to the next,
so that the operations compose them as the code composes calls. The kernel
completes requests in any order, short, failing or in full; works on linked
requests one after the other and cancels the rest of a chain when one fails or
falls short; may complete a request that is being cancelled; and a multishot
accept completes again and again.

In `UringOps` what a fiber does between two switches is one action. `Start` is
an operation up to its first await (with the request `FirstRequest` gives);
`Backend_read`, `Backend_write`, ... are one round each, from the return of the
await to the next await, the return or the raise. Operations with more than one
request have an action of their own to start: the accept queue, the shared
event, multishot accept, timer loop, chain, splice_chunks and double_splice.
`Schedule` is another fiber or thread that schedules a waiting one, with an
exception or, for the operations in `WokenEarly`, with a plain value.

Abstractions: buffers are counted in bytes, of which a transfer has `BufLen`;
blocks of loops and procs do not switch; the submission ring is never full (the
code would dereference a null entry, `backend_io_uring.c:345`); a fork happens
outside of a timeout block and while no fiber waits for an event, because
`event_fd_ctx` then points to freed memory.

### LibevOps

The state is what each fiber is in (`fs`), its watchers (`ws`), what the kernel
knows of its descriptors (`io`), the value it is scheduled with, whether the
thread polls, and whether the loop has a wakeup pipe and was woken. A step is one
round of an operation: a system call and what follows up to the next call or
switch, or from the switch on. The loop calls back any active watcher that is
ready, as often as it likes (level-triggered). Every operation has descriptors of
its own; `Peer...` are the other ends. `copy` is `Backend_splice` where the
system has no `splice(2)`.

### EventLoop

`ev` is a `struct ev_loop`; `sh` are the flags and the pipe that other threads
and signal handlers write; `kern` are descriptors, files and registrations; `run`
is the place in `ev_run`; `snd` are the senders. `ev_run` is split wherever
something else can happen: signal handlers between any two steps, another thread
while it polls, the program in the callbacks. `Open`, `Close`, `Share` and
`Unshare` make descriptors refer to other files while registrations of old files
live on in another process.

Abstractions: the timer heap is binary in the run (`DHEAP` is 4 in the build; the
theorems are about every value); timers do not repeat; the thread that wakes the loop
uses only `break_async`, as `Backend_wakeup` does; descriptors are closed after
their watchers are stopped; `eperms` is a set, where the array of the code may list
a descriptor twice and feed its events twice to the same pending entries. Left
out: periodic, idle, prepare, check, fork, stat
and embed watchers, signalfd, timerfd, other backends (select, poll, linuxaio,
kqueue, ...), and the recovery from errors (`fd_kill`, `fd_enomem`, `fd_ebadf`).

### IOExtensions

One call moves a source to a destination: `src` says what the source holds and
how much was read, `ctx` is the `z_stream_ctx` with its two buffers, `dest` the
pieces that were written. Bytes are counted; those of a gzip header are told
apart, because `gzip_read_header` parses them where they lie. zlib is external:
it may keep up to `Hold` bytes until it is told to finish, and inflates every byte
it is given behind a header (that a stream ends by itself, before the footer, is
not told apart). Strings and files give what is asked for; other sources any part
of it.

What gunzip is given, `GzipFiles`, is any set of byte sequences, gzip files or not.
`gzip_read_header` looks at the first bytes of a string whatever its length: those
behind the end are any of `Unwritten`, and so are bytes of the buffer that no read
has reached. If the data would begin behind the end of the string, the length of
the rest is negative, `avail_in` is huge and inflate takes what it likes, here up to
`MaxStray` bytes. Every read of a header that did not get enough goes to the start of
the buffer again while `in_total` adds them up, so `in_total` can lie behind the
buffer; the first `HEADER` bytes of the output buffer, which follow it, are part of
`buf` for this reason. `split` (history) says that this has happened.

### FiberQueue

State: the fields of `Queue_t` and, per fiber, the blocking call it is in, the
value it wants to add and the resume value it is scheduled with. Every fiber is
taken to be on a thread of its own, so fibers that are scheduled run in any order.
`Push`, `PushCapped`, `Shift` are the calls up to the first switch;
`PushResume` and `ShiftResume` are one round of the waiting loops; the calls that
do not block are one action each, and `shift_each` is split at its block, in
which other fibers may run. `Cancel` schedules an exception for a waiting fiber.

### Fibers, Sync, ThreadPool, ResourcePool, Primitives

`Fibers` is one thread: the current fiber runs up to a switch, those scheduled
run in turn, a queue is a number of values and the fibers that wait
(`ShiftWaits` and `ShiftRound` are the two halves of `Queue_shift`; taking a value
that is there also switches, by a snooze). Wait queues are too short to be full
rings. An exception can be raised in a waiting fiber `MaxInterrupts` times.

`Sync`: a mutex is a queue with one token. `Acquire` is lock, try_lock,
synchronize, enter and try_enter up to the switch, `TokenResume` from there on;
`Leave`, `Wait`, `WaitResume`, `Notify` and `NotifyResume` are the other calls;
`Die` is a fiber that ends while it holds the mutex. `ThreadPool`: `Process` is
`process` up to the push of the task; a thread can run the task and signal before
the fiber calls `Event_await`, which takes the signal (`AwaitSignaled`) or switches
(`AwaitSwitch`) and goes on in `AwaitResume`. `WorkerTake`, `WorkerDone` and
`WorkerRaises` are a thread of the pool, which runs at any time; a block of `cast` that
raises ends it (`Ended`). The switch to a fiber and the end of its `Event_await` are one
step, since the VM lock is held in between.
`ResourcePool`: `AcquireResource`, `Fill`, `Allocated` and `AcquireResume` are
split at the allocator and the wait; `Discard` and `ReleaseResource` end a use.

## Runs

| Run | Instance | Shows |
|---|---|---|
| `RingBuffer` | 2 values, up to 5 items | `RepInv`; every operation is the deque's (`Implements`) |
| `SchedulerFibers` | 1 thread, 3 fibers that yield, wait, are parked, cancelled, finish, are scheduled late; idle proc; statistics | `TypeOK`, `RunnableIsKept`, `ExceptionIsKept`, also between the two run queues |
| `SchedulerThreads` | 2 threads, 3 fibers scheduled across threads | `NoStuckPoll`, `PendingCountExact` |
| `SchedulerLive` | 1 thread, 3 fibers, fair | `RunnableRuns`, `CompletionsAreHandled` |
| `FiberQueue` | 3 fibers, 2 values, capacities 0 to 2, every call, fair | `WellFormed` (types, waiters can be found), `NobodyStarves`, `CapacityIsRespected`, `WaitersProgress` |
| `UringOps` | 2 fibers, 3 contexts, `prepared_limit` 2; one performs any operation and then reads, the other waits for an event or a connection | `WellFormed` (types, exact reference counts), `NobodyForgotten`, `BuffersAreKept`, `WakesTheHolder`, `TimeoutStaysInside`, `TransferAccounted` |
| `LibevOps` | 2 fibers; one performs any operation and then reads or sleeps, the other waits for an event or yields | `WellFormed` (types, no watcher outlives its function), `TransferAccounted`, `DescriptorsClosed`, `TimeoutIsExact`, `NoStuckPoll`, `NobodyForgotten` |
| `EventLoop` | three programs: two watchers on a descriptor that is closed and reused; five timers; an async and a child | `WellFormed` (types, exact `activecnt`), `PendingIsExact`, `KernelKnows`, `TimersInOrder`, `NoLostWakeup` |
| `IOExtensions` | buffers of 7 bytes, sources of up to 15; gzip files, files with long strings, cut off at every byte of the header, with bytes in front | `WellFormed` (positions, returned count, zlib freed), `FooterSeals`, `WholeSource`, `HeaderUnderstood`, `ChunksWellFormed`, `Terminates` |
| `Primitives` | 3 fibers, 1 interruption, 2 pool threads with 2 tasks per fiber, 2 resources, symmetric | `MutualExclusion`, `SleepersCanBeSignalled`, `ProcessAnswers`, `SizeIsExact` |

Why these bounds.

- Five items make the array grow twice (1, 4, 8 slots), be full at each size and
  wrap in both directions.
- Two fibers besides the main one are enough for a fiber to be taken, rescheduled
  and overtaken during one switch. `MaxEntries` 0 still lets completions, snoozes
  and switches add entries to a queue that has some, so a fiber with an exception
  scheduled is woken by its operation, and a fiber is queued twice. Programs
  that make every call do not get further in reasonable time; with `MaxEntries` 1
  the same properties hold for those that do not park (2.7 million states, in
  which full run queues lose entries), for those that spin, raise, wait,
  park and finish without an idle proc (1.2 million), and for those that park but do not wait
  (180 thousand). A wakeup involves the thread that schedules and the thread that
  polls: two threads. `PriorityValues` is the exception of a failed child, the
  value that must not be overtaken.
- On a queue three fibers are a waiter, the one that wakes it and the one that
  overtakes it; capacity 0 is uncapped, so caps are set, changed and lifted.
- Three contexts are the operation in hand, one given up before it and the timer
  or the shared event. `BufLen` 2 and `MaxMoved` 3 give empty, short, full and
  repeated transfers; `prepared_limit` 2 makes a deferred submission reach its
  limit.
- One descriptor with two watchers and two files, and registrations of two
  generations, show a registration that outlives its file. Five timers make a
  heap of three levels, where a timer removed from the middle has to move up.
- Seven bytes hold a header (3 to 7 bytes) exactly, or a footer and a part of the
  data; fifteen are two buffers and a byte. `GzipSources` has headers with none, one
  and two strings, empty ones, short ones and ones longer than the buffer, every
  beginning of a header, and files behind one or two other bytes. `Unwritten` has a
  byte of each kind that the parser tells apart; `MaxStray` is a buffer full.
- Two tasks per fiber are one that is given up and one that could get its answer; with
  two threads a thread that a cast has ended leaves another, or none.

Deadlock is checked for `RingBuffer` and `EventLoop`, which can always go on. It is not in the others: a
program all of whose fibers wait, or have ended, really stops.

Fairness. `Scheduler!Fairness` says that a switch that has begun goes on, and
that Ruby code reaches a switchpoint. The first is C code without a wait other
than the poll, whose step is enabled only if a completion is there. The second
is what cooperative scheduling asks of a program; nothing else is required of
it, not even that operations complete. `FiberQueue!FairSpec` says that a
scheduled fiber runs, which is `RunnableRuns` of the scheduler. `IOExtensions!Spec`
says that a read or write is answered at last, by data, by an end or by an
error.

### Runs that end in a violation

Each checks what a comment in the source says against what the code does.

| Run | Property | What happens |
|---|---|---|
| `RingBufferDelete` | `DeleteRemovesValue` | deleting the first item of a full buffer removes the last (`ring_buffer.c:77`) |
| `UringTimeout` | `TimeoutInterrupts` | a timeout that elapses in the turn in which a read of its block completes is dropped: `Backend_read` looks at the resume value only if the operation is incomplete (`backend_io_uring.c:481`) |

### Conditions the passing runs name

A property that needs an exception says so in its definition; these are all:

- After a `"misdelete"` the fiber that lost its entry keeps `@runnable`, and its
  poll is not woken from another thread when it is scheduled next, because
  `@runnable` is set: `RunnableIsKept`, `NoStuckPoll`, `ExceptionIsKept` and
  `WaitersAreQueued` are stated for histories without that event.
- After a dead fiber has been switched to, `pending_count` stays one too high for
  the await it unwound: `PendingCountExact` excludes it.
- `NobodyStarves` and `WaitersProgress` hold until a waiter is cancelled or
  dropped: it takes its wakeup with it.
- `NobodyForgotten` of `UringOps` excludes a fiber whose chain was broken
  (`BrokenChain`): the rest of a failed chain completes with `ECANCELED`, which
  wakes nobody. `WakesTheHolder` excludes a chain given up with two requests
  left: the first completion meets the reference count 2 and wakes the fiber,
  whatever it does by then.
- `BuffersAreKept` excludes two kinds of writes whose strings the code does not keep:
  those in front of an operation that `Backend_chain` refuses (the context is marked
  `"rejected"`; `backend_io_uring.c:1707-1725` raises with the entries submitted and
  attaches nothing), and the prefixes and postfixes of `splice_chunks` (requests of
  kind `CHUNK`; line 1928 attaches them to the last context only).
- `NobodyForgotten` of `LibevOps` excludes the copy on systems without
  `splice(2)` (`Misaimed`): one watcher is initialized once and never aimed at
  the other descriptor. Its `NoStuckPoll` starts with the wakeup pipe, which
  after a fork is made when a fiber first waits for an event.
- `WholeSource` excludes the two ways in which the output buffer ends a
  compressed file early: the last flush fills it, or leaves less room than a
  footer needs; and it is about sources that give all that is asked for. A string
  that is cut off in its gzip header is excluded too (`CutString`), as zlib is given
  other memory for it.
- `WellFormed` and `HeaderUnderstood` of `IOExtensions` name the same `CutString`, for
  which `in_pos` is behind the string and the header is neither understood nor
  refused; and a header that came in several reads (`split`), for which the position
  after the header need not be the one of the source and `in_total` can pass the buffer
  by up to `HEADER - 1`.
- `TimeoutIsExact` allows another exception to displace the one of the timeout.
- `ProcessAnswers` allows a foreign result to a fiber that has given up an
  earlier `process`. It says of a sleeping fiber that its task is queued or run, not
  that a thread is left to take it from the queue, and of an exception of the block
  that it is the answer, not that it is raised.
- `SizeIsExact` counts failed allocations as resources, as the code does.

### Known disagreements without a run

These were met while modelling; each can be seen with TLC by the change named.

| Where | What | How to see it |
|---|---|---|
| `backend_common.c:117` | a fiber scheduled by the idle proc is left while the thread blocks in its poll | `SchedulerThreads` with `"idle"` in `Calls`: `NoStuckPoll` |
| `backend_common.c:431` | asking for statistics resets the counter of the anti-starvation poll | `SchedulerLive` with `"stats"`: `CompletionsAreHandled` |
| `runqueue.c:22` | a rescheduled fiber moves to the back, again and again | `SchedulerLive` with `"schedule"`: `RunnableRuns` |
| `runqueue.c:31` | `schedule_with_priority` with a plain value replaces an exception that is on its way | `SchedulerFibers` with `PriorityValues = {"value"}` and `MaxEntries = 1`: `ExceptionIsKept` |
| `fiber.rb:472` | an exception raised in a fiber that has finalized resumes it | `SchedulerFibers` with property `NotResumedAfterFinish` |
| `queue.c:197` | a consumer cancelled after its wakeup keeps it from the next one | `FiberQueue` with property `ConsumersAreReleased` |
| `queue.c:117` | producers woken because the cap was lifted wait again | `FiberQueue` with property `ProducersAreReleased` |
| `queue.c:426` | `close` releases consumers only; producers stay blocked | `Close` leaves `pushQueue` alone |
| `backend_io_uring.c:1129` | the cleanup of a multishot accept cancels a context an error has already returned to the store | `UringOps` with `AcceptErrors = TRUE`: `NobodyForgotten` |
| `io_extensions.c:456` | a short read is taken for the end of the source, so the rest of a pipe or socket is not compressed | `IOExtensions` with property `SourceIsDrained` |
| `sync.rb:84` | `try_lock` can wait: its test and its taking are in different turns | `Primitives` with property `TryLockReturns` |
| `sync.rb:41` | an exception while `synchronize` reacquires after a wait releases a token it does not hold | `Primitives` with `FragileStyles = {"sync"}`: `MutualExclusion` |
| `sync.rb:139` | a monitor's count is lost in `ConditionVariable#wait`, and the monitor is never released | `Primitives` with `WaitStyles = {"enter"}`: `MutualExclusion` |
| `sync.rb:233` | `broadcast` goes on to shift from an empty queue, which blocks | `NotifyResume` never leaves the loop |
| `backend_io_uring.c:1707` | a chain with an unknown operation raises while the kernel has the writes in front of it; their buffers are not attached | `UringOps` with `"rejected"` taken out of `BuffersAreKept` |
| `backend_io_uring.c:1928` | the strings of a `splice_chunks` that is given up are attached to its last context only | `"CHUNK"` is not in `BufferKinds` |
| `io_extensions.c:334` | the header of a string is read without looking at its length: `in_pos` is 10 behind a shorter string, and the length of the rest (443-447) is negative | `IOExtensions` with `CutString` replaced by `FALSE`: `WellFormed`, `HeaderUnderstood` |
| `io_extensions.c:342` | every read of a header goes to the start of the buffer, while `in_total` counts all of them: the bytes of the earlier ones are overwritten, and zlib is given bytes that were not read | `IOExtensions` with `ctx.split` replaced by `FALSE`: `WellFormed`, `HeaderUnderstood` |
| `thread_pool.rb:89` | a block of `cast` that raises ends its thread; when all have ended, queued tasks are never taken and `process` never returns | `Primitives` with property `ThreadsLeft` |
| `event.c:75` | an exception signaled before the await is returned as a value, not raised | `Primitives` with property `ExceptionsAreRaised` |
| `event.c:84` | a result of an abandoned `process` answers the next one | `Primitives` with property `ReturnsOwnResult` |
| `resource_pool.rb:107` | a failed allocation keeps its place in `@size`, and `discard!` wakes nobody: a fiber waits for what cannot come | `Primitives` with property `WaitIsJustified` |

## Proofs

Every theorem holds for every value of the constants that satisfies the named
assumptions of the modules (finitely many fibers, a positive threshold and the
like): any number of threads, fibers, values, contexts and watchers, any program.
Where a proof module extends two components, the specifications are told
apart by name: `RingSpec` beside `Scheduler`'s `Spec`, `PrimitivesSpec` beside
`FiberQueue`'s `Spec`. Where a
theorem has a hypothesis of its own, the claim is false without it and the code
is the reason. `PROJECT.json` lists the theorems with the properties they state.

### Deques and the ring buffer

`DequeProofs` has the lemmas on deques: each operation keeps the type, and where
an item may be after a push, a shift or a delete.

`SchedulerProofs` proves `RepresentationHolds` (`RingSpec => []RepInv`) and
`ImplementsDeque` (`RingSpec => Implements`), so that what is proved of a module
built from `Deque` is about the array. `Rep` says that the size divides
`UintMod`, that `head` and `tail` are below it and `count` apart modulo it, and
that the slots in between hold items. The size is in it because stepping back
from index 0 goes through `UintMod - 1`; that doubling a size keeps it a divisor
is `UintAssumption`, which is true of 2^w for up to 2^(w-1) items. The refinement
is proved operation by operation: the array read from `head` is the sequence
that the operation of the same name gives.

### Scheduler

`SchedulerProofs` proves

- `TypeCorrect`: `Spec => []TypeOK`
- `RunnableKeptAlways`: `Spec => []RunnableIsKept`
- `PendingCountCorrect`: `Spec => []PendingCountExact`
- `NoStuckPollAlways`: `Spec => []NoStuckPoll`, if `"idle" \notin Calls`
- `ExceptionKeptAlways`: `Spec => ExceptionIsKept`, if
  `PriorityValues \subseteq {"exception"}`

The inductive invariant `Inv` adds to the first three:

- `QueuesOwned`: a run queue holds entries of fibers of its own thread only,
  without which a pop by one thread could be of another thread's fiber;
- `FibersOwned`: the current fiber of a thread, and the one it has taken, are its
  own;
- `NextInPhase`: an entry is held only while a switch that has taken it drains or
  transfers, so that `Taken` is not left over from an old switch;
- `ControlLives`: the current fiber is not dead, it is the one that runs while its
  thread is in Ruby code, and the main fiber has not finished, so that control
  always returns to a live fiber;
- `PendingCounted`: `pending_count` is at least the number of awaiting fibers, and
  equal to it without faults. The inequality is what keeps it from falling below
  zero, and so `TypeOK`, even after the fault.

`TypeOK` alone is not inductive, because `pending_count - 1` is a natural number
only for a reason; `RunnableIsKept` is not, because a transfer clears `@runnable`
of one fiber and must not lose the entry of another.

For `NoStuckPoll`, `PollInv` adds that completions in a ring belong to the ring's
thread, and that a polling thread with no completion has only finished fibers on
its run queue. The argument: a poll starts with an empty run queue. An entry is
added to it while the thread polls only by another thread's schedule. If the
fiber was not runnable, the schedule leaves a no-op completion in the ring. If it
was, `RunnableIsKept` says it already had an entry, so it is a finished fiber or
the ring was not empty before. With an idle proc the claim is false (see above).

For `ExceptionIsKept`, an action property, `NewInv` adds that a fiber that was not
spun is not runnable and has no completion, so that the one schedule with
priority that carries a plain value, the first of an out-of-band fiber, deletes
nothing. `Fiber#schedule_with_priority` deletes the entry of the fiber whatever
it carries; the library calls it with the exception of a failed child
(`fiber.rb:503`), which is the hypothesis.

### Queue

`PrimitivesProofs` proves `QueueIsWellFormed`, `NobodyStarvesAlways` and
`CapacityRespectedAlways`. `QueueInv` strengthens them: a wait queue holds waiting
fibers only, each once, and all that sleep (`Orderly`); and the woken consumers that are *off* the wait queue are
as many as the values that could serve the sleeping ones (`Served`, and so for
producers). `NobodyStarves` counts all woken fibers; one that was woken by
something else and is still on the wait queue can be taken from it by the next
value, and the count would be short.

### Mutex, monitor, condition variable, pools

`PrimitivesProofs` proves of `PrimitivesSpec`, the three classes,

- `MutualExclusionHolds`, if `"sync" \notin FragileStyles` and
  `WaitStyles \cap Monitors = {}`. The two hypotheses exclude the two uses that
  the code breaks (`sync.rb:41` and `sync.rb:139` above). `LockInv` adds what each
  section owes (`SectionOK`: the style and the counts that decide whether leaving
  gives the token back) and that no exception is on its way to a fiber that
  reacquires inside of `synchronize`;
- `SleepersAreSignalled`, inductive once the types are known;
- `PoolSizeIsExact`, likewise; the count of fibers in the allocator is what the
  step before it must have added to `@size`;
- `ProcessIsAnswered`. `AnswersInv` says that an unfinished task is in one place,
  the queue or one thread, that the tasks of a fiber are numbered, that a fiber
  about to await has been signaled or has its task unfinished, and that one
  that has never given up a call has no task but the one it waits for, and no
  signal but its answer.

### libev backend

`LibevOpsProofs` proves `BackendIsWellFormed`, `TransferIsAccounted`,
`DescriptorsAreClosed`, `TimeoutIsAlwaysExact`, `NoPollIsStuck` and
`NobodyIsForgotten` from one invariant, `BackendInv`. A step of a fiber changes
its own records only (the fork excepted), so the invariant is a predicate on the
four records of one fiber, its place in the function, its watchers, its
descriptors and its resume value:

- `Shape`: a fiber in no operation has nothing left of one;
- `Accounts`: the byte counts, operation by operation, with what a call has
  returned and the snooze after it has not yet added (`held`); a tee consumes
  nothing, a copy has nothing left when it reads;
- `Watches`: which watchers a wait has and where they aim, unless the fiber is
  scheduled (a watcher that calls back once may be gone then);
- `Opens`: a descriptor is open only at the places that every way out closes;
- `Times`: the timer runs exactly inside the block, and once it has fired its
  exception, or one that displaced it, is on its way or being raised;
- `RunInv`: whoever is in the middle of something runs, and who runs is not
  scheduled.

None of the six properties is inductive: `NobodyForgotten` does not say which
watcher a wait has, `TransferAccounted` is silent between a system call and the
snooze, and `TimeoutIsExact` does not know that a fiber inside a block that is in
the program's code is the one that runs.

### io_uring backend

`UringBackendProofs` has the lemmas on the operators `UringOps` is composed of:
the submission moves every chain to the kernel and marks those that a
cancellation follows, a deferred submission never leaves entries uncounted,
acquiring and releasing keep the store exact (a context is free exactly if it has
no reference), and what an operator leaves alone of the other contexts.

`UringOpsProofs` proves the six properties of `UringOps` for any number of
fibers and contexts, any programs and any buffer size:

- `WellFormedHolds`: `Spec => []WellFormed`, the exact reference counts among it
- `NobodyForgottenHolds`: `Spec => []NobodyForgotten`
- `BuffersAreKeptHolds`: `Spec => []BuffersAreKept`
- `WakesTheHolderHolds`: `Spec => []WakesTheHolder`
- `TimeoutStaysInsideHolds`: `Spec => []TimeoutStaysInside`
- `TransferAccountedHolds`: `Spec => []TransferAccounted`

They have two hypotheses. `FewFibers` says that the fibers, and four, are fewer
than `MULTISHOT_REFCOUNT` (0xFFFF in `backend_io_uring_context.h`): the fibers
that wait for an event share a context, each with a reference, and the code takes
a count that has grown to the marker for a multishot accept. `AcceptErrors = FALSE`
excludes the multishot accept that the kernel ends by itself, with which
`NobodyForgotten` is false (`backend_io_uring.c:1129` above).

All follow from one invariant, `UInv` (`UInvHolds`), the last with another on top
of it. No property is inductive:
`RefCountExact` does not say who holds a context, nor that a cancellation never
outlives the request it was for; `NobodyForgotten` does not say which completion
wakes whom. `UInv` has these parts:

- `ContextOK`, of every context and the number `n` of its holders. With no
  reference it has no request, no completion and no holder (`FreeOK`). With a
  count, that is its requests, its completions and `n`, and only a chain or a
  splice has more than one request (`CountOK`). With the marker, its multishot
  accept goes on (`GoesOn`) or has ended, its last completion says so, and no
  fiber relies on it (`HasEnded`). While the kernel has a read or write, also one of
  a chain, its buffers are attached, its chain was refused, or a fiber holds it
  (`KeptOK`).
- `Dooms`: a cancellation is for a request that is still there. Otherwise the next
  user of a context would be cancelled by the last one.
- `FiberOK`, of every fiber: the contexts it holds are its own and, operation by
  operation (`AwaitOK`), have a request or a completion that wakes it, or it is
  scheduled (`Waits`, `WaitsForOne`); its timer is a timeout's; and a fiber with
  no timer is not scheduled with a timeout.
- `EventOK`: the shared context has its poll with the kernel, which nobody
  cancels.
- `SqOK`: `pending_sqes` is positive while anything is prepared, and below the
  limit at which it is submitted.

`UInv` is a predicate on a backend `b` and the fiber states `F`, not on the
variables, so an action is followed call by call: after each operator the
lemmas say which context changed, that every other one is `Untouched`, and
how many fibers hold it (`Between` is the state in which the running fiber has left
its operation and its contexts are still to be released). A completion is
followed along `HandleAction`, the handler that walks the completion queue in
order. Two contexts never confuse each other because a fiber holds only contexts
whose `fiber` it is (`Mine`), the event's context excepted, which all of its
waiters share.

`UInv` says nothing about bytes. `TallyInv` does, of every fiber that has a transfer
in flight (`Accounted`): what the kernel has moved for it is what it has counted,
plus the last result. By `UInv` such a fiber has one context of its own, with the
request out or its completion queued or handled (`Shows`), and the three cases
differ in where that result is to be found. Two more conjuncts make it inductive:
a context whose request is out has `result = 0`, so that a fiber woken early
counts nothing; and the loops that hand every buffer to their block, for which a
round starts with nothing moved, keep a total of 0. The step of one
fiber must leave the transfers of all others alone: every operator is shown to
spare a context that the fiber does not hold (`Spared`, `Apart`), also a release, a
fork, a submission and the completion of another context.

### libev event loop

`EventLoopProofs` proves `LoopIsWellFormed`, `PendingEventsAreExact`,
`KernelIsTold`, `TimersStayInOrder` and `NoWakeupIsLost`, for any watchers,
descriptors, programs and bounds and any branching of the timer heap, from one
invariant, `Inv`:

- `LoopInv`, of the loop alone. A watcher with a pending event knows its place and
  no other event is for it (`Exact`); the watchers on the lists of descriptors,
  timers and asyncs are the active ones, once each (`IoListed`, `TimersListed`,
  `AsyncsListed`), and are counted in `activecnt` (`Counted`); the changed
  descriptors are the ones with something to tell (`Changed`), and the others are
  on record with what their watchers want (`Reified`, `EpermsListed`); no timer is
  later than its children (`Heaped`).
- `KernInv`, of the loop and the kernel. Registrations are of files that were
  opened, and the one of the file a descriptor refers to is the one the loop
  takes it for, by its generation and its mask (`RegsKnown`, `FilesKnown`); a
  watcher was initialized for the file of its descriptor (`WatchersInited`); and,
  unless the loop is to be made anew after a fork, what is on record of a
  descriptor that is in use is what the kernel watches (`Told`). `KernelKnows` speaks of
  the moment of the poll only and does not say why a descriptor that was closed
  and opened again is told anew.
- `PhaseInv`: what is empty or set at which place of `ev_run`. `StoppedInv`: a watcher
  the program has stopped has no event left.
- `WakeupInv`: who will see the flags. A sender sets its flag, then
  `pipe_write_skipped`, then looks at `pipe_write_wanted`, then writes; the loop sets
  and clears them in the other order. Each of the two sides is at one of a few
  places, and in each either the loop does not sleep or the sender is about to
  wake it (`Awake`).

The loops of the C code over changed descriptors, watchers, timers and pending
events are recursive functions of the round. What holds before the first round
and is kept by each holds after the last (`RoundsExist`, `RoundsKeep`): shown by
looking at the least round that fails, which takes the least element of a set of
naturals and no induction schema. Sifting a timer up or down keeps a heap but
for one place; the place moves towards the root or a leaf, and there are no two
of it. That the first timer is the earliest (`RootIsFirst`) is a walk from child to
parent.

### Compression and chunked splicing

`IOExtensionsProofs` proves `BuffersHold`, `FooterSealsFile`, `SourceIsWhole`,
`HeaderIsUnderstood` and `ChunksAreWellFormed` for buffers, headers, footers and
sources of any size, any amount that zlib holds back, and any bytes where a gzip
file is expected. `ExtInv` has

- `Typed` and `Staged`: which call can be where, when zlib's memory is there, and
  that the input was consumed wherever more is read;
- `Totalled`: the total is what was written, and the gzip header before it is;
- `ReadToEnd`: where the whole of a string or file has been read;
- `DeflateAccounts` and `InflateAccounts`: what zlib was given is what it holds and
  what it gave out, with the trailer once it has finished;
- `FooterLast`, `HeaderRead`, `ChunksRead`: the footer is there once, last, and
  nothing is held then; `in_pos` is behind the header that was read, unless the
  header was split over two reads or the string ends inside it (`CutString`), the
  two cases the conditions above name; what a reader of the chunks has understood
  so far (`ReadChunks`) matches the place of the writer.

The five properties are about the ends of a call and the invariant is about
every place in it. The sums and the reader are recursive functions over the pieces
that were written; how they change when a piece is added is shown as above, by
the least length for which it fails.

### Only model-checked

- Liveness (`RunnableRuns`, `CompletionsAreHandled`, `WaitersProgress`,
  `Terminates`), which rests on fairness and `ENABLED`, is out of the prover's reach.
- That the two runs that end in a violation do so: their properties are false.

Every invariant and every other action property of the passing runs has a
theorem. The induction theorems of the proof library take an operator as a
parameter, which the installed provers cannot instantiate; where a proof needs
an induction it is written out for that case with the least counterexample
(`MinOfNats` of `DequeProofs`).

## Not modelled

Wrappers that hand a call to the backend (I/O, sockets, pipes, OpenSSL),
exceptions and their backtraces, tracing, the debugger, adapters of third-party
libraries. Of the scheduler: `Thread#schedule_and_wakeup`, trace procs, idle GC,
and the statistics other than the reset of the counter. Of libev: the watchers
and backends that Polyphony does not use on Linux (above). Of the thread pool:
`stop`. Of the life cycle: everything but spin, raise and the end of `finalize`.

## Plan

1. `FiberTree`: spin, await, select, supervise and restart, terminate, shutdown,
   finalize; abstract specification: a parent finalizes after its children.
2. Threads: start, join, kill and finalization, and `ThreadPool#stop` on them;
   `Timer` and `Throttler`.
