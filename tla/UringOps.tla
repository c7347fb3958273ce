------------------------------ MODULE UringOps ------------------------------
(***************************************************************************)
(* The operations of the io_uring backend, on one thread.                  *)
(*                                                                         *)
(* A fiber runs until it awaits: what it does between two switches is one  *)
(* action, because no other fiber of the thread runs in between, and only  *)
(* the kernel works meanwhile.  An action named after a C function is what *)
(* that function does from the return of its await to the next one, to its *)
(* return or to its raise; the function's part before the first await is   *)
(* in Start, which makes the request that FirstRequest gives.  Which of    *)
(* the scheduled fibers runs next, and when the switch polls, is left open *)
(* here (Scheduler models it).                                             *)
(*                                                                         *)
(* fs[f] is what fiber f is doing: its operation, where it stands in it    *)
(* ("app": in the program's own code; "await": switched out; "raise": an   *)
(* exception on its way out of a timeout block), the contexts it holds,    *)
(* how many bytes are left to write, how many it has counted, how many the *)
(* kernel has moved for it, the timer of the timeout block it is in, and   *)
(* the accept queue it shifts from (named by the fiber that made it).      *)
(*                                                                         *)
(* The blocks of the loops (rb_yield) and the procs of splice_chunks run   *)
(* without switching; a full submission ring is not modelled.              *)
(***************************************************************************)
EXTENDS UringBackend, SequencesExt

CONSTANTS
    OpsOf,           \* what each fiber may perform first, second, ...
    WokenEarly,      \* operations others may end with a plain resume value
    ChunkStrings,    \* which strings splice_chunks is given (see there)
    AcceptErrors,    \* may a multishot accept end with an error
    MaxMoved,        \* bound: the bytes one operation finds to move
    MaxFds           \* bound: descriptors in an accept queue

ReadOps  == {"read", "read_to_eof", "read_expand", "recv", "recvmsg",
             "read_loop", "feed_loop", "recv_loop", "recv_feed_loop"}
WriteOps == {"write", "writev", "send", "sendmsg"}
EventOps == {"wait_event", "accept_loop", "accept_queued"}
OpNames  == ReadOps \cup WriteOps \cup EventOps \cup
            {"accept", "accept_each", "splice", "splice_to_eof", "tee",
             "double_splice", "connect", "wait_io", "waitpid", "close", "sleep",
             "timer_loop", "timeout", "chain", "chain_invalid", "splice_chunks",
             "snooze", "fork"}

ASSUME OpsAssumption ==
    /\ \A f \in Fibers : OpsOf[f] \in Seq(SUBSET OpNames)
    /\ WokenEarly \subseteq OpNames
    /\ ChunkStrings \subseteq 0..2
    /\ AcceptErrors \in BOOLEAN
    /\ {MaxMoved, MaxFds} \subseteq Nat \ {0}

VARIABLES
    bk,     \* the backend
    fs,     \* what every fiber is doing
    cur     \* the fiber that runs, or NoFiber while the thread switches

vars == <<bk, fs, cur>>

NoOp == [op |-> "none", pc |-> "app", ctx |-> NoCtx, aux |-> NoCtx, left |-> 0,
         total |-> 0, moved |-> 0, timer |-> NoCtx, queue |-> NoFiber,
         step |-> 0]

Init ==
    /\ bk = InitialBackend
    /\ fs = [f \in Fibers |-> NoOp]
    /\ cur = NoFiber

----------------------------------------------------------------------------
(* Issuing requests and awaiting them *)

\* The function returns, or raises, to the program or to the timeout block.
Left(s) == [NoOp EXCEPT !.timer = s.timer, !.step = s.step]

Return(f, b) ==
    /\ bk' = b /\ cur' = f
    /\ fs' = [fs EXCEPT ![f] = Left(fs[f])]

Raise(f, b) ==
    /\ bk' = b /\ cur' = f
    /\ fs' = [fs EXCEPT ![f] = [Left(fs[f]) EXCEPT
                  !.pc = IF fs[f].timer = NoCtx THEN "app" ELSE "raise"]]

\* The fiber switches out, with its state s.
Await(f, b, s) ==
    /\ bk' = b /\ cur' = NoFiber
    /\ fs' = [fs EXCEPT ![f] = [s EXCEPT !.pc = "await"]]

\* Acquire a context of type t, prepare its requests, defer the submission.
Issue(b, f, t, reqs) ==
    io_uring_backend_defer_submit(
        prep(context_store_acquire(b, t, f), Acquired(b), reqs, FALSE))

\* ... and switch out: the loop bodies up to the await.
IssueAndAwait(f, b, s, t, n) ==
    /\ CanAcquire(b, 1)
    /\ Await(f, Issue(b, f, t, <<Request(t, n)>>), [s EXCEPT !.ctx = Acquired(b)])

\* The fiber runs, and may begin operation o.
Running(f, o) ==
    /\ cur = f /\ fs[f].pc = "app"
    /\ fs[f].step < Len(OpsOf[f]) /\ o \in OpsOf[f][fs[f].step + 1]

\* fs[f] at the beginning of operation o.
Entered(f, o) ==
    [fs[f] EXCEPT !.op = o, !.step = @ + 1, !.left = IF o \in WriteOps THEN BufLen ELSE 0]

\* The fiber comes back from its await in operation o.
Resumes(f, o) ==
    /\ cur = NoFiber /\ bk.sched[f] # NoValue
    /\ fs[f].pc = "await" /\ fs[f].op = o

Unscheduled(f) == [bk EXCEPT !.sched[f] = NoValue]

\* io_uring_backend_defer_submit_and_await once it runs again: a request
\* that is not complete is cancelled.
Awaited(f) ==
    LET c == fs[f].ctx
    IN  IF bk.ctx[c].ref > 1 THEN CancelNow(Unscheduled(f), c) ELSE Unscheduled(f)

\* ... and then the release of its context: what the operation goes on with.
After(f) ==
    LET b == Awaited(f)
        x == b.ctx[fs[f].ctx]
    IN  [b |-> context_store_release(b, fs[f].ctx), result |-> x.result,
         completed |-> LastReference(x), value |-> bk.sched[f]]

\* What the functions do with an incomplete operation.  Those that transfer
\* to or from a buffer keep it with the context, and look at the resume
\* value only now; the others raise first, whether complete or not.
KeepBuffersMutant(f, a) ==
    IF IS_EXCEPTION(a.value) THEN Raise(f, a.b) ELSE Return(f, a.b)

KeepBuffers(f, a) ==
    LET b == context_attach_buffers(a.b, fs[f].ctx)
    IN  IF IS_EXCEPTION(a.value) THEN Raise(f, b) ELSE Return(f, b)

BufferOp(f, o, Completed(_)) ==
    /\ Resumes(f, o)
    /\ LET a == After(f)
       IN  \/ ~a.completed /\ KeepBuffers(f, a)
           \/ a.completed /\ a.result < 0 /\ Raise(f, a.b)
           \/ a.completed /\ a.result >= 0 /\ Completed(a)

RaiseFirstOp(f, o, Completed(_)) ==
    /\ Resumes(f, o)
    /\ LET a == After(f)
       IN  \/ IS_EXCEPTION(a.value) /\ Raise(f, a.b)
           \/ ~IS_EXCEPTION(a.value) /\ ~a.completed /\ Return(f, a.b)
           \/ ~IS_EXCEPTION(a.value) /\ a.completed /\ a.result < 0 /\ Raise(f, a.b)
           \/ ~IS_EXCEPTION(a.value) /\ a.completed /\ a.result >= 0 /\ Completed(a)

----------------------------------------------------------------------------
(* Reading *)

\* The bytes a Backend_read still has room for.  An expandable buffer that
\* is full grows.
Room(s) == IF s.op = "read_expand" THEN BufLen - (s.total % BufLen) ELSE BufLen - s.total

ReadDone(s, n) ==
    \/ s.op = "read"
    \/ s.op = "read_to_eof" /\ s.total + n = BufLen

Backend_read(f) ==
    \E o \in {"read", "read_to_eof", "read_expand"} :
        BufferOp(f, o, LAMBDA a :
            LET s == [fs[f] EXCEPT !.total = @ + a.result]
            IN  IF a.result = 0 \/ ReadDone(fs[f], a.result)
                THEN Return(f, a.b)
                ELSE IssueAndAwait(f, a.b, s, "READ", Room(s)))

\* The loops give every chunk to the block or to the receiver.
ReadLoop(f, o, t) ==
    BufferOp(f, o, LAMBDA a :
        IF a.result = 0 THEN Return(f, a.b)
        ELSE IssueAndAwait(f, a.b, [fs[f] EXCEPT !.moved = 0], t, BufLen))

Backend_read_loop(f) == ReadLoop(f, "read_loop", "READ")
Backend_feed_loop(f) == ReadLoop(f, "feed_loop", "READ")
Backend_recv_loop(f) == ReadLoop(f, "recv_loop", "RECV")
Backend_recv_feed_loop(f) == ReadLoop(f, "recv_feed_loop", "RECV")
Backend_recv(f) == BufferOp(f, "recv", LAMBDA a : Return(f, a.b))
Backend_recvmsg(f) == BufferOp(f, "recvmsg", LAMBDA a : Return(f, a.b))

(* Writing *)

WriteLoopMutant(f, o, t) ==
    BufferOp(f, o, LAMBDA a :
        IF a.result = fs[f].left THEN Return(f, a.b)
        ELSE IssueAndAwait(f, a.b, fs[f], t, fs[f].left))

WriteLoop(f, o, t) ==
    BufferOp(f, o, LAMBDA a :
        LET s == [fs[f] EXCEPT !.left = @ - a.result]
        IN  IF s.left = 0 THEN Return(f, a.b)
            ELSE IssueAndAwait(f, a.b, s, t, s.left))

Backend_write(f) == WriteLoop(f, "write", "WRITE")
Backend_writev(f) == WriteLoop(f, "writev", "WRITEV")
Backend_send(f) == WriteLoop(f, "send", "SEND")
Backend_sendmsg(f) == WriteLoop(f, "sendmsg", "SENDMSG")

----------------------------------------------------------------------------
(* Sockets *)

\* io_uring_backend_accept: once for Backend_accept, again and again for the
\* accept loop of a build without multishot accept.
io_uring_backend_accept(f) ==
    \/ RaiseFirstOp(f, "accept", LAMBDA a : Return(f, a.b))
    \/ RaiseFirstOp(f, "accept_each",
           LAMBDA a : IssueAndAwait(f, a.b, fs[f], "ACCEPT", 0))

Backend_connect(f) == RaiseFirstOp(f, "connect", LAMBDA a : Return(f, a.b))
Backend_close(f) == RaiseFirstOp(f, "close", LAMBDA a : Return(f, a.b))
Backend_tee(f) == RaiseFirstOp(f, "tee", LAMBDA a : Return(f, a.b))

io_uring_backend_splice(f) ==
    \E o \in {"splice", "splice_to_eof"} :
        RaiseFirstOp(f, o, LAMBDA a :
            IF a.result = 0 \/ o = "splice" THEN Return(f, a.b)
            ELSE IssueAndAwait(f, a.b, [fs[f] EXCEPT !.total = @ + a.result],
                               "SPLICE", BufLen))

\* io_uring_backend_wait_fd, for Backend_wait_io and Backend_waitpid: whether
\* the poll is complete is not looked at.
io_uring_backend_wait_fd(f) ==
    \E o \in {"wait_io", "waitpid"} :
        /\ Resumes(f, o)
        /\ LET a == After(f)
           IN  IF IS_EXCEPTION(a.value) THEN Raise(f, a.b) ELSE Return(f, a.b)

----------------------------------------------------------------------------
(* Waiting for an event: the fibers of a thread share one poll of an       *)
(* eventfd that is never signalled, and one context for it.                *)

EventBegin(b, f) ==
    IF b.event = NoCtx
    THEN [Issue(b, f, "POLL", <<Request("EVENT", 0)>>) EXCEPT !.event = Acquired(b)]
    ELSE [b EXCEPT !.ctx[b.event].ref = @ + 1]

EventEndMutant(b) ==
    LET b1 == context_store_release(b, b.event)
    IN  [io_uring_backend_immediate_submit(prep_cancel(b1, b.event))
             EXCEPT !.event = NoCtx]

EventEnd(b) ==
    LET b1 == context_store_release(b, b.event)
    IN  IF b1.ctx[b.event].ref = 1
        THEN [io_uring_backend_immediate_submit(prep_cancel(b1, b.event))
                  EXCEPT !.event = NoCtx]
        ELSE b1

CanWaitEvent(b) == b.event # NoCtx \/ CanAcquire(b, 1)

Backend_wait_event(f) ==
    /\ Resumes(f, "wait_event")
    /\ LET b == EventEnd(Unscheduled(f))
       IN  IF IS_EXCEPTION(bk.sched[f]) THEN Raise(f, b) ELSE Return(f, b)

(* Multishot accept: one request fills a queue, the loop shifts from it.   *)

\* Queue_shift_block up to its wait: a fiber that finds a value schedules
\* itself first.
ShiftBegin(b, f, q) ==
    LET b1 == IF b.queues[q].fds = <<>> THEN b ELSE Fiber_make_runnable(b, f, "nil")
    IN  EventBegin([b1 EXCEPT !.queues[q].waiters = Append(@, f)], f)

ShiftEnd(f, q) ==
    [EventEnd(Unscheduled(f)) EXCEPT !.queues[q].waiters = RemoveFirst(@, f)]

\* A negative descriptor in the queue is an error to raise.
ShiftedBad(b, q) == Head(b.queues[q].fds) < 0
Shifted(b, q) == [b EXCEPT !.queues[q].fds = Tail(@)]

multishot_accept_start(f) ==
    /\ CanAcquire(bk, 2)
    /\ bk.queues[f].waiters = <<>>
    /\ LET b == [bk EXCEPT !.acceptq = f, !.queues[f].fds = <<>>]
           b1 == Issue(b, f, "MULTISHOT_ACCEPT", <<Request("MULTISHOT_ACCEPT", 0)>>)
           b2 == [b1 EXCEPT !.ctx[Acquired(b)].ref = MULTISHOT_REFCOUNT]
       IN  Await(f, ShiftBegin(b2, f, f),
                 [Entered(f, "accept_loop") EXCEPT !.aux = Acquired(b)])

\* The ensure clause: the cancellation is not submitted now, and the context
\* is left to the completion.
multishot_accept_cleanup(b, f) ==
    [io_uring_backend_defer_submit(prep_cancel(b, fs[f].aux))
        EXCEPT !.acceptq = NoFiber]

accept_loop_from_queue(f) ==
    /\ Resumes(f, "accept_loop")
    /\ LET b == ShiftEnd(f, f)
       IN  \/ IS_EXCEPTION(bk.sched[f]) /\ Raise(f, multishot_accept_cleanup(b, f))
           \/ /\ ~IS_EXCEPTION(bk.sched[f]) /\ b.queues[f].fds = <<>>
              /\ CanWaitEvent(b)
              /\ Await(f, ShiftBegin(b, f, f), fs[f])
           \/ /\ ~IS_EXCEPTION(bk.sched[f]) /\ b.queues[f].fds # <<>>
              /\ IF ShiftedBad(b, f)
                 THEN Raise(f, multishot_accept_cleanup(Shifted(b, f), f))
                 ELSE /\ CanWaitEvent(b)
                      /\ Await(f, ShiftBegin(Shifted(b, f), f, f), fs[f])

\* Backend_accept while a multishot accept runs on the socket shifts from
\* its queue.
Backend_accept(f) ==
    /\ Resumes(f, "accept_queued")
    /\ LET q == fs[f].queue
           b == ShiftEnd(f, q)
       IN  \/ IS_EXCEPTION(bk.sched[f]) /\ Raise(f, b)
           \/ /\ ~IS_EXCEPTION(bk.sched[f]) /\ b.queues[q].fds = <<>>
              /\ CanWaitEvent(b)
              /\ Await(f, ShiftBegin(b, f, q), fs[f])
           \/ /\ ~IS_EXCEPTION(bk.sched[f]) /\ b.queues[q].fds # <<>>
              /\ IF ShiftedBad(b, q) THEN Raise(f, Shifted(b, q))
                 ELSE Return(f, Shifted(b, q))

----------------------------------------------------------------------------
(* Time *)

Backend_sleep(f) ==
    /\ Resumes(f, "sleep")
    /\ LET a == After(f)
       IN  IF IS_EXCEPTION(a.value) THEN Raise(f, a.b) ELSE Return(f, a.b)

\* A round of the timer loop sleeps if the next time is still to come, and
\* snoozes if it has passed.
TimerRound(f, b) ==
    LET s == [fs[f] EXCEPT !.op = "timer_loop"]
    IN  \/ IssueAndAwait(f, b, s, "TIMEOUT", 0)
        \/ Await(f, Fiber_make_runnable(b, f, "nil"), [s EXCEPT !.ctx = NoCtx])

Backend_timer_loop(f) ==
    /\ Resumes(f, "timer_loop")
    /\ LET a == IF fs[f].ctx = NoCtx
                THEN [b |-> Unscheduled(f), completed |-> TRUE, value |-> bk.sched[f]]
                ELSE After(f)
       IN  \/ IS_EXCEPTION(a.value) /\ Raise(f, a.b)
           \/ ~IS_EXCEPTION(a.value) /\ ~a.completed /\ Return(f, a.b)
           \/ ~IS_EXCEPTION(a.value) /\ a.completed /\ TimerRound(f, a.b)

\* The timer of a timeout block resumes the fiber with its exception.
Backend_timeout(f) ==
    /\ Running(f, "timeout") /\ fs[f].timer = NoCtx
    /\ CanAcquire(bk, 1)
    /\ bk' = [Issue(bk, f, "TIMEOUT", <<Request("TIMEOUT", 0)>>)
                 EXCEPT !.ctx[Acquired(bk)].resume = "timeout"]
    /\ fs' = [fs EXCEPT ![f].timer = Acquired(bk), ![f].step = @ + 1]
    /\ UNCHANGED cur

\* The block ends, or an exception leaves it: the timer is always cancelled,
\* even when it has fired.
Backend_timeout_ensureMutant(f) ==
    /\ cur = f /\ fs[f].pc \in {"app", "raise"} /\ fs[f].timer # NoCtx
    /\ bk' = CancelNow(bk, fs[f].timer)
    /\ fs' = [fs EXCEPT ![f] = [Left(fs[f]) EXCEPT !.timer = NoCtx]]
    /\ UNCHANGED cur

Backend_timeout_ensure(f) ==
    /\ cur = f /\ fs[f].pc \in {"app", "raise"} /\ fs[f].timer # NoCtx
    /\ bk' = context_store_release(CancelNow(bk, fs[f].timer), fs[f].timer)
    /\ fs' = [fs EXCEPT ![f] = [Left(fs[f]) EXCEPT !.timer = NoCtx]]
    /\ UNCHANGED cur

----------------------------------------------------------------------------
(* Several requests of one context *)

\* One reference for every request, and one for the fiber.
IssueChain(b, f, t, reqs) ==
    [Issue(b, f, t, reqs) EXCEPT !.ctx[Acquired(b)].ref = Len(reqs) + 1]

ChainRequests == <<Request("WRITE", BufLen), Request("SPLICE", BufLen)>>

Backend_chain(f) ==
    /\ Resumes(f, "chain")
    /\ LET c == fs[f].ctx
           b == context_store_release(Unscheduled(f), c)
           b1 == CancelNow(context_attach_buffers(b, c), c)
       IN  \/ LastReference(bk.ctx[c]) /\ Return(f, b)
           \/ /\ ~LastReference(bk.ctx[c])
              /\ IF IS_EXCEPTION(bk.sched[f]) THEN Raise(f, b1) ELSE Return(f, b1)

\* An unknown operation, in first place or after two good ones: the entries
\* already prepared are submitted with a cancellation, and linked to it.  No
\* buffer is attached.
ChainRejected(f) ==
    LET c == Acquired(bk)
        b == context_store_acquire(bk, "CHAIN", f)
        b1 == [prep(b, c, ChainRequests, TRUE)
                  EXCEPT !.ctx[c] = [@ EXCEPT !.ref = Len(ChainRequests),
                                              !.buffers = "rejected"]]
    IN  /\ \/ bk' = context_store_release([b EXCEPT !.ctx[c].ref = 1], c)
           \/ bk' = CancelNow(b1, c)
        /\ fs' = [fs EXCEPT ![f] = [Left(Entered(f, "chain_invalid")) EXCEPT
                      !.pc = IF fs[f].timer = NoCtx THEN "app" ELSE "raise"]]
        /\ UNCHANGED cur

\* Backend_splice_chunks: the requests up to the next await.  left tells
\* which strings were given (0: none, 1: prefix and postfix, 2: those of the
\* chunks too), total whether this is the last await.
ChunkRequests(s, n) ==
    IF s.left < 2 THEN <<Request("SPLICE", n), Request("SPLICE", BufLen)>>
    ELSE <<Request("CHUNK", 1), Request("SPLICE", n), Request("CHUNK", 1),
           Request("SPLICE", BufLen)>>

ChunksBegin(f, b, s, reqs) ==
    /\ CanAcquire(b, 1)
    /\ Await(f, IssueChain(b, f, "SPLICE", reqs), [s EXCEPT !.ctx = Acquired(b)])

Backend_splice_chunks(f) ==
    /\ Resumes(f, "splice_chunks")
    /\ LET s == fs[f]
           a == After(f)
           b == IF a.completed THEN a.b ELSE CancelNow(a.b, s.ctx)
           failed == ~a.completed /\ IS_EXCEPTION(a.value)
           ended == s.total = 1 \/ (a.result = 0 /\ s.left = 0)
       IN  \/ failed /\ Raise(f, context_attach_buffers(b, s.ctx))
           \/ ~failed /\ ended /\ Return(f, b)
           \/ /\ ~failed /\ ~ended /\ a.result = 0
              /\ ChunksBegin(f, b, [s EXCEPT !.total = 1], <<Request("CHUNK", 1)>>)
           \/ /\ ~failed /\ ~ended /\ a.result # 0
              /\ ChunksBegin(f, b, s,
                     ChunkRequests(s, IF a.result > 0 THEN a.result ELSE BufLen))

----------------------------------------------------------------------------
(* Backend_double_splice: two requests at a time, from the source to a     *)
(* pipe (ctx, NoCtx once the write end is closed) and from it to the       *)
(* destination (aux).                                                      *)

prepare_double_splice_ctx(b, f, k) ==
    LET b1 == prep(context_store_acquire(b, "SPLICE", f), Acquired(b),
                   <<Request(k, BufLen)>>, FALSE)
    IN  [b1 EXCEPT !.pending = @ + 1]

FlushAtLimit(b) ==
    IF b.pending >= PreparedLimit THEN io_uring_backend_immediate_submit(b) ELSE b

\* Given up: released first, cancelled then.
Abandon(b, c) ==
    IF c = NoCtx THEN b ELSE io_uring_backend_cancel(context_store_release(b, c), c)

double_splice_safe(f) ==
    /\ Resumes(f, "double_splice")
    /\ LET s == fs[f]
           b == Unscheduled(f)
           idle == s.ctx # NoCtx /\ b.ctx[s.ctx].ref = 2 /\ b.ctx[s.aux].ref = 2
           gone == io_uring_backend_immediate_submit(Abandon(Abandon(b, s.ctx), s.aux))
           srcDone == s.ctx # NoCtx /\ b.ctx[s.ctx].ref = 1
           srcEof == srcDone /\ b.ctx[s.ctx].result = 0
           b1 == IF srcDone THEN context_store_release(b, s.ctx) ELSE b
           b2 == IF srcDone /\ ~srcEof
                 THEN prepare_double_splice_ctx(b1, f, "SPLICE") ELSE b1
           src == IF srcEof THEN NoCtx ELSE IF srcDone THEN Acquired(b1) ELSE s.ctx
           dstDone == b.ctx[s.aux].ref = 1
           b3 == context_store_release(b2, s.aux)
           b4 == prepare_double_splice_ctx(b3, f, "DRAIN")
           goOn == ~idle /\ ~IS_EXCEPTION(bk.sched[f])
       IN  \/ IS_EXCEPTION(bk.sched[f]) /\ Raise(f, gone)
           \/ idle /\ ~IS_EXCEPTION(bk.sched[f]) /\ Return(f, gone)
           \/ goOn /\ dstDone /\ b.ctx[s.aux].result = 0 /\ Return(f, b3)
           \/ /\ goOn /\ dstDone /\ b.ctx[s.aux].result # 0
              /\ Await(f, FlushAtLimit(b4), [s EXCEPT !.ctx = src, !.aux = Acquired(b3)])
           \/ goOn /\ ~dstDone /\ Await(f, FlushAtLimit(b2), [s EXCEPT !.ctx = src])
----------------------------------------------------------------------------
(* Entering an operation, and the other calls a running fiber makes *)

\* The first request of the operations that await one request at a time.
FirstRequest ==
    [o \in ReadOps \cup WriteOps \cup
            {"splice", "splice_to_eof", "tee", "wait_io", "waitpid", "accept",
             "accept_each", "connect", "close", "sleep"} |->
        CASE o \in {"recv", "recv_loop", "recv_feed_loop"} -> "RECV"
          [] o = "recvmsg" -> "RECVMSG"
          [] o \in ReadOps \ {"recv", "recv_loop", "recv_feed_loop", "recvmsg"} -> "READ"
          [] o \in {"splice", "splice_to_eof", "tee"} -> "SPLICE"
          [] o \in {"wait_io", "waitpid"} -> "POLL"
          [] o \in {"accept", "accept_each"} -> "ACCEPT"
          [] o = "write" -> "WRITE" [] o = "writev" -> "WRITEV"
          [] o = "send" -> "SEND" [] o = "sendmsg" -> "SENDMSG"
          [] o = "connect" -> "CONNECT" [] o = "close" -> "CLOSE"
          [] o = "sleep" -> "TIMEOUT"]

Start(f) ==
    \E o \in DOMAIN FirstRequest :
        /\ Running(f, o)
        /\ o = "accept" => bk.acceptq = NoFiber
        /\ IssueAndAwait(f, bk, Entered(f, o), FirstRequest[o],
               IF o \in ReadOps \cup WriteOps \cup {"splice", "splice_to_eof", "tee"}
               THEN BufLen ELSE 0)

\* Backend_accept is "accept_queued" when it finds an accept queue.
StartQueued(f) ==
    /\ Running(f, "accept_queued") /\ bk.acceptq # NoFiber /\ CanWaitEvent(bk)
    /\ Await(f, ShiftBegin(bk, f, bk.acceptq),
             [Entered(f, "accept_queued") EXCEPT !.queue = bk.acceptq])

StartEvent(f) ==
    /\ Running(f, "wait_event") /\ CanWaitEvent(bk)
    /\ Await(f, EventBegin(bk, f), Entered(f, "wait_event"))

StartMultishot(f) == Running(f, "accept_loop") /\ multishot_accept_start(f)

\* The first round always sleeps.
StartTimerLoop(f) ==
    /\ Running(f, "timer_loop")
    /\ IssueAndAwait(f, bk, Entered(f, "timer_loop"), "TIMEOUT", 0)

StartChain(f) ==
    \/ /\ Running(f, "chain") /\ CanAcquire(bk, 1)
       /\ Await(f, IssueChain(bk, f, "CHAIN", ChainRequests),
                [Entered(f, "chain") EXCEPT !.ctx = Acquired(bk)])
    \/ Running(f, "chain_invalid") /\ CanAcquire(bk, 1) /\ ChainRejected(f)

StartSpliceChunks(f) ==
    /\ Running(f, "splice_chunks")
    /\ \E strings \in ChunkStrings :
        ChunksBegin(f, bk, [Entered(f, "splice_chunks") EXCEPT !.left = strings],
            (IF strings = 0 THEN <<>> ELSE <<Request("CHUNK", 1)>>)
                \o <<Request("SPLICE", BufLen)>>)

StartDoubleSplice(f) ==
    /\ Running(f, "double_splice") /\ CanAcquire(bk, 2)
    /\ LET b1 == prepare_double_splice_ctx(bk, f, "SPLICE")
           b2 == prepare_double_splice_ctx(b1, f, "DRAIN")
       IN  Await(f, FlushAtLimit(b2),
                 [Entered(f, "double_splice") EXCEPT !.ctx = Acquired(bk),
                                                     !.aux = Acquired(b1)])

Backend_snooze(f) ==
    \/ /\ Running(f, "snooze")
       /\ Await(f, Fiber_make_runnable(bk, f, "nil"), Entered(f, "snooze"))
    \/ /\ Resumes(f, "snooze")
       /\ IF IS_EXCEPTION(bk.sched[f]) THEN Raise(f, Unscheduled(f))
          ELSE Return(f, Unscheduled(f))

\* The child of a fork: a new ring and no contexts.  The other fibers are
\* never run again; event_fd_ctx and pending_sqes are not reset.  The fork
\* is made outside of a timeout block and while no fiber of the thread waits
\* for an event: the contexts of these are freed, but still pointed to.
Backend_post_fork(f) ==
    /\ Running(f, "fork")
    /\ bk.event = NoCtx /\ fs[f].timer = NoCtx
    /\ bk' = [InitialBackend EXCEPT !.pending = bk.pending,
                !.acceptq = bk.acceptq, !.queues = bk.queues,
                !.sched = [g \in Fibers |-> NoValue]]
    /\ fs' = [g \in Fibers |-> IF g = f THEN Left(Entered(f, "fork"))
                             ELSE [NoOp EXCEPT !.pc = "dead"]]
    /\ UNCHANGED cur

\* The fiber has nothing more to do.
Finish(f) ==
    /\ cur = f /\ fs[f].pc = "app" /\ fs[f].timer = NoCtx
    /\ fs[f].step = Len(OpsOf[f])
    /\ cur' = NoFiber /\ fs' = [fs EXCEPT ![f].pc = "dead"]
    /\ UNCHANGED bk

----------------------------------------------------------------------------
(* The thread between two fibers, the kernel, and the others *)

\* A fiber that was just spun starts to run.
Run(f) ==
    /\ cur = NoFiber /\ fs[f].pc = "app" /\ bk.sched[f] # NoValue
    /\ Return(f, Unscheduled(f))

\* A blocking poll submits what is pending, and forgets to count it off; a
\* nonblocking one does not.
io_uring_backend_poll ==
    /\ cur = NoFiber /\ \A f \in Fibers : bk.sched[f] = NoValue
    /\ bk.pending > 0 /\ bk.sq # <<>>
    /\ bk' = io_uring_submit(bk)
    /\ UNCHANGED <<fs, cur>>

Backend_poll ==
    /\ cur = NoFiber /\ bk.pending > 0
    /\ bk' = io_uring_backend_immediate_submit(bk)
    /\ UNCHANGED <<fs, cur>>

\* One completion at a time: the ones that are still queued when a fiber
\* runs are the ones that came after the poll.
io_uring_backend_handle_ready_cqes ==
    /\ cur = NoFiber /\ bk.cq # <<>>
    /\ bk' = io_uring_backend_handle_completion([bk EXCEPT !.cq = Tail(@)], Head(bk.cq))
    /\ UNCHANGED <<fs, cur>>

\* Another fiber or another thread schedules a fiber that waits.
Schedule(f) ==
    /\ cur # f /\ fs[f].pc = "await"
    /\ \/ bk' = Fiber_make_runnable(bk, f, "exception")
       \/ /\ fs[f].op \in WokenEarly
          /\ bk' = Fiber_make_runnable(bk, f, "value")
    /\ UNCHANGED <<fs, cur>>

\* The fiber that waits for the requests of context c.
Holds(f, c) == fs[f].pc = "await" /\ c \in {fs[f].ctx, fs[f].aux}

\* A pipe gives end-of-file only when its write end is closed, and nothing
\* moves more than there is.
Possible(r, v) ==
    LET f == bk.ctx[r.ctx].fiber
    IN  /\ (Head(r.reqs).kind = "DRAIN" /\ v = 0 /\ Holds(f, r.ctx)) => fs[f].ctx = NoCtx
        /\ v > 0 /\ Holds(f, r.ctx) => fs[f].moved + v <= MaxMoved

Transfers == ReadOps \cup WriteOps \cup {"splice", "splice_to_eof"}

KernelCompletes ==
    \E r \in bk.kern : \E v \in Results(Head(r.reqs)) :
        LET f == bk.ctx[r.ctx].fiber
        IN  /\ Head(r.reqs).kind # "MULTISHOT_ACCEPT"
            /\ Possible(r, v)
            /\ bk' = Complete(bk, r, v)
            /\ fs' = IF v > 0 /\ Holds(f, r.ctx) /\ fs[f].op \in Transfers
                     THEN [fs EXCEPT ![f].moved = @ + v] ELSE fs
            /\ UNCHANGED cur

KernelCancels ==
    \E r \in bk.kern :
        /\ r.cancelled
        /\ bk' = Complete(bk, r, ECANCELED)
        /\ UNCHANGED <<fs, cur>>

QueuedFds == Len(SelectSeq(bk.cq, LAMBDA e : e.more))
             + (IF bk.acceptq = NoFiber THEN 0 ELSE Len(bk.queues[bk.acceptq].fds))

\* A multishot accept ends only with an error, or when it is cancelled.
KernelAccepts ==
    \E r \in bk.kern :
        /\ Head(r.reqs).kind = "MULTISHOT_ACCEPT"
        /\ \/ /\ QueuedFds < MaxFds
              /\ bk' = [bk EXCEPT !.cq = Append(@, Completion(r.ctx, 1, TRUE))]
           \/ AcceptErrors /\ bk' = Complete(bk, r, ERROR)
        /\ UNCHANGED <<fs, cur>>

Next ==
    \/ io_uring_backend_poll \/ Backend_poll \/ io_uring_backend_handle_ready_cqes
    \/ KernelCompletes \/ KernelCancels \/ KernelAccepts
    \/ \E f \in Fibers :
        \/ Run(f) \/ Schedule(f) \/ Start(f) \/ StartQueued(f) \/ StartEvent(f)
        \/ StartMultishot(f) \/ StartTimerLoop(f) \/ StartChain(f)
        \/ StartSpliceChunks(f) \/ StartDoubleSplice(f) \/ Backend_snooze(f) \/ Finish(f)
        \/ Backend_post_fork(f) \/ Backend_timeout(f) \/ Backend_timeout_ensure(f)
        \/ Backend_read(f) \/ Backend_read_loop(f) \/ Backend_feed_loop(f)
        \/ Backend_recv(f) \/ Backend_recvmsg(f) \/ Backend_recv_loop(f)
        \/ Backend_recv_feed_loop(f) \/ Backend_write(f) \/ Backend_writev(f)
        \/ Backend_send(f) \/ Backend_sendmsg(f) \/ io_uring_backend_accept(f)
        \/ Backend_accept(f) \/ accept_loop_from_queue(f) \/ Backend_connect(f)
        \/ Backend_close(f) \/ Backend_tee(f) \/ io_uring_backend_splice(f)
        \/ io_uring_backend_wait_fd(f) \/ Backend_wait_event(f) \/ Backend_sleep(f)
        \/ Backend_timer_loop(f) \/ Backend_chain(f) \/ Backend_splice_chunks(f)
        \/ double_splice_safe(f)

Spec == Init /\ [][Next]_vars
----------------------------------------------------------------------------
(* What the backend promises *)

\* The number of requests in the chain of context c among S.
ChainLen(S, c) ==
    IF \E r \in S : r.ctx = c THEN Len((CHOOSE r \in S : r.ctx = c).reqs) ELSE 0

\* The requests of context c that are not complete, or whose completion is
\* not handled.
Outstanding(c) ==
    ChainLen(Range(bk.sq) \ {Cancellation(c)}, c) + ChainLen(bk.kern, c)
    + Cardinality({i \in DOMAIN bk.cq : bk.cq[i].ctx = c})

Waiters == {f \in Fibers : fs[f].pc = "await" /\ fs[f].op \in EventOps}

\* The references of fibers to context c.
Holders(c) ==
    Cardinality({f \in Fibers : Holds(f, c)}) + Cardinality({f \in Fibers : fs[f].timer = c})
    + (IF c = bk.event THEN Cardinality(Waiters) ELSE 0)

TypeOK ==
    /\ bk.sched \in [Fibers -> Values \cup {NoValue}]
    /\ bk.made \in 0..MaxContexts /\ bk.pending \in 0..PreparedLimit
    /\ \A c \in Contexts :
        bk.ctx[c].ref \in 0..(Cardinality(Fibers) + 4) \cup {MULTISHOT_REFCOUNT}
    /\ \A e \in Range(bk.cq) : e.ctx \in Contexts /\ e.res \in ECANCELED..BufLen
    /\ \A f \in Fibers :
        /\ fs[f].pc \in {"app", "await", "raise", "dead"}
        /\ {fs[f].ctx, fs[f].aux, fs[f].timer} \subseteq Contexts \cup {NoCtx}
        /\ fs[f].total \in Nat /\ fs[f].moved \in 0..MaxMoved
    /\ cur \in Fibers \cup {NoFiber}

\* Reference counting is exact: a context has one reference for every
\* request whose completion is still to be handled and one for every fiber
\* that will release it, and is in the store exactly when it has none.  So a
\* context is never given to a second operation while the kernel can still
\* complete a request of the first, and none is lost.
RefCountExact ==
    \A c \in Contexts :
        LET x == bk.ctx[c]
        IN  /\ x.ref = MULTISHOT_REFCOUNT => Outstanding(c) >= 1
            /\ x.ref # MULTISHOT_REFCOUNT => x.ref = Outstanding(c) + Holders(c)
            /\ (x.ref = 0) = (c > bk.made \/ c \in Range(bk.avail))

\* A fiber that awaits a request and is not scheduled will be: the request
\* is with the kernel, or will be at the next poll, or its completion waits
\* to be handled.  The exception is a fiber whose chain was broken by a
\* request that failed or fell short: the rest of the chain completes with
\* ECANCELED, which wakes nobody.
BrokenChain(f) ==
    /\ fs[f].op \in {"chain", "splice_chunks"}
    /\ bk.ctx[fs[f].ctx].ref = 1 /\ bk.ctx[fs[f].ctx].result = ECANCELED

InGoodHands(c) == c # NoCtx /\ Outstanding(c) > 0

NobodyForgotten ==
    /\ bk.sq # <<>> => bk.pending > 0
    /\ \A f \in Fibers :
        fs[f].pc = "await" /\ bk.sched[f] = NoValue =>
            \/ fs[f].op \in EventOps /\ InGoodHands(bk.event)
            \/ fs[f].op \notin EventOps /\ (InGoodHands(fs[f].ctx) \/ InGoodHands(fs[f].aux))
            \/ BrokenChain(f)

\* While the kernel can still write to or read from the buffer of a read or
\* write, the one of a chain included, the garbage collector can see it: the
\* fiber is still in the operation, or the buffer is kept with the context.
\* Two kinds of writes are exempt because the code does not keep their strings:
\* those in front of an operation that Backend_chain refuses, and the prefixes
\* and postfixes of Backend_splice_chunks (CHUNK), which are attached to its
\* last context only, and only when an exception ends it.
BufferKinds == {"READ", "RECV", "RECVMSG", "WRITE", "WRITEV", "SEND", "SENDMSG"}
BuffersAreKept ==
    \A r \in bk.kern :
        LET x == bk.ctx[r.ctx]
        IN  Head(r.reqs).kind \in BufferKinds =>
                Holds(x.fiber, r.ctx) \/ x.buffers \in {"attached", "rejected"}

\* A completion wakes the fiber that waits for it, and nobody else: not a
\* fiber that gave the operation up and waits for another one.  The
\* exception is a chain given up with two requests left, which wakes the
\* fiber, whatever it does, when the first of them completes.
WakesTheHolder ==
    bk.cq # <<>> =>
        LET e == Head(bk.cq)
            x == [bk.ctx[e.ctx] EXCEPT !.result = e.res]
        IN  Wakes(x) =>
                \/ Holds(x.fiber, e.ctx) \/ fs[x.fiber].timer = e.ctx
                \/ e.ctx = bk.event
                \/ x.type \in {"CHAIN", "SPLICE"} /\ Outstanding(e.ctx) = 2

\* The exception of a timeout block does not reach a fiber that has left it,
\* however the end of the block races the timer.
TimeoutStaysInside ==
    \A f \in Fibers : bk.sched[f] = "timeout" => fs[f].timer # NoCtx

\* Every byte is counted once: what a transfer has counted, and what the
\* completion it has not taken yet says, is what the kernel has moved.
Uncounted(f) ==
    LET c == fs[f].ctx
        S == {e \in Range(bk.cq) : e.ctx = c}
        r == IF S # {} THEN (CHOOSE e \in S : TRUE).res ELSE bk.ctx[c].result
    IN  IF r > 0 THEN r ELSE 0

TransferAccounted ==
    \A f \in Fibers :
        fs[f].pc = "await" /\ fs[f].op \in Transfers =>
            fs[f].moved = Uncounted(f)
                + (IF fs[f].op \in WriteOps THEN BufLen - fs[f].left ELSE fs[f].total)

\* A timer that fires interrupts the block: its exception is on its way to
\* the fiber, or has been raised in it.  Not so when it reaches the fiber
\* with the completion of a read or a write, which look at their result and
\* drop the resume value.
TimeoutInterrupts ==
    \A f \in Fibers :
        fs[f].timer # NoCtx /\ bk.ctx[fs[f].timer].ref = 1 =>
            fs[f].pc = "raise" \/ IS_EXCEPTION(bk.sched[f])

\* The state is typed and every context's references are counted exactly.
WellFormed == TypeOK /\ RefCountExact
=============================================================================
