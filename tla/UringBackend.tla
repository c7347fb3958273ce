---------------------------- MODULE UringBackend ----------------------------
(***************************************************************************)
(* The io_uring backend as its operations see it: the store of operation   *)
(* contexts, the submission queue, the kernel and the completion queue.    *)
(*                                                                         *)
(* Everything a Backend_t holds is one record, and every C function that   *)
(* changes it is an operator from a record to the next one, so that the    *)
(* operations of UringOps can be composed of them as the code composes     *)
(* calls.  The fields:                                                     *)
(*   ctx      the contexts that were allocated, by number                  *)
(*   avail    store->available, last released first                        *)
(*   made     how many contexts malloc has made                            *)
(*   sq       entries prepared, not submitted: a chain of linked requests  *)
(*            of one context, or the cancellation of a context             *)
(*   pending  backend->pending_sqes                                        *)
(*   kern     the chains the kernel works on; it works on the head         *)
(*   cq       completions not handled, oldest first                        *)
(*   sched    the value every fiber is scheduled with                      *)
(*   event    backend->event_fd_ctx                                        *)
(*   acceptq  @multishot_accept_queue of the server socket: the fiber that *)
(*            made the queue, or NoFiber                                   *)
(*   queues   those queues: how many descriptors each holds, who waits     *)
(***************************************************************************)
EXTENDS Integers, Sequences, FiniteSets

CONSTANTS
    Fibers,
    NoFiber,
    MaxContexts,     \* bound: contexts in use at once
    PreparedLimit,   \* backend->prepared_limit
    BufLen           \* bytes of a buffer, and of a splice

ASSUME BackendAssumption ==
    /\ IsFiniteSet(Fibers) /\ NoFiber \notin Fibers
    /\ {MaxContexts, PreparedLimit, BufLen} \subseteq Nat \ {0}

Contexts == 1..MaxContexts
NoCtx == 0
MULTISHOT_REFCOUNT == 65535

\* Results of requests: a number of bytes, a descriptor, or an error.
ECANCELED == -2
ERROR == -1

\* Resume values.  NoValue: the fiber is not scheduled.
NoValue == "none"
Values == {"nil", "true", "value", "exception", "timeout"}
IS_EXCEPTION(v) == v \in {"exception", "timeout"}

\* buffers: whether those of the requests were attached; "rejected" (history):
\* never, because Backend_chain refused the operation after them.
NewContext(t, f) ==
    [type |-> t, fiber |-> f, ref |-> 2, result |-> 0, resume |-> "nil",
     buffers |-> "none"]

InitialBackend ==
    [ctx |-> [c \in Contexts |-> [NewContext("NONE", NoFiber) EXCEPT !.ref = 0]],
     avail |-> <<>>, made |-> 0, sq |-> <<>>, pending |-> 0, kern |-> {},
     cq |-> <<>>, sched |-> [f \in Fibers |-> "nil"], event |-> NoCtx,
     acceptq |-> NoFiber,
     queues |-> [f \in Fibers |-> [fds |-> <<>>, waiters |-> <<>>]]]

----------------------------------------------------------------------------
(* Contexts *)

\* The context the next acquisition returns.
Acquired(b) == IF b.avail = <<>> THEN b.made + 1 ELSE Head(b.avail)
CanAcquire(b, n) == Len(b.avail) + (MaxContexts - b.made) >= n

context_store_acquire(b, t, f) ==
    [b EXCEPT !.avail = IF @ = <<>> THEN @ ELSE Tail(@),
              !.made  = IF b.avail = <<>> THEN @ + 1 ELSE @,
              !.ctx[Acquired(b)] = NewContext(t, f)]

\* The last reference: the one of a context that is given back to the store.
LastReference(x) == x.ref \in {1, MULTISHOT_REFCOUNT}

context_store_releaseMutant(b, c) ==
    IF b.ctx[c].ref \in {1, 2, MULTISHOT_REFCOUNT}
    THEN [b EXCEPT !.ctx[c] = [NewContext("NONE", NoFiber) EXCEPT !.ref = 0],
                   !.avail = <<c>> \o @]
    ELSE [b EXCEPT !.ctx[c].ref = @ - 1]

context_store_release(b, c) ==
    IF LastReference(b.ctx[c])
    THEN [b EXCEPT !.ctx[c] = [NewContext("NONE", NoFiber) EXCEPT !.ref = 0],
                   !.avail = <<c>> \o @]
    ELSE [b EXCEPT !.ctx[c].ref = @ - 1]

context_attach_buffers(b, c) == [b EXCEPT !.ctx[c].buffers = "attached"]

----------------------------------------------------------------------------
(* The submission queue.  An entry whose IOSQE_IO_LINK flag is set takes   *)
(* the next entry into its chain: "open".  A cancellation that follows     *)
(* such an entry runs only after the chain, when nothing is left to cancel.*)

Request(k, n) == [kind |-> k, len |-> n]
Chain(c, reqs, open) == [ctx |-> c, reqs |-> reqs, open |-> open]
Cancellation(c) == Chain(c, <<>>, FALSE)

prep(b, c, reqs, open) ==
    LET n == Len(b.sq)
    IN  IF n > 0 /\ b.sq[n].open
        THEN [b EXCEPT !.sq[n] = Chain(c, @.reqs \o reqs, open)]
        ELSE [b EXCEPT !.sq = Append(@, Chain(c, reqs, open))]

prep_cancel(b, c) ==
    LET n == Len(b.sq)
    IN  IF n > 0 /\ b.sq[n].open
        THEN [b EXCEPT !.sq[n].open = FALSE]
        ELSE [b EXCEPT !.sq = Append(@, Cancellation(c))]

\* io_uring_submit: the kernel takes the entries in order.  A cancellation
\* finds the request its context has in the kernel, if it has one.
io_uring_submit(b) ==
    LET CancelledAfter(c, i) ==
            \E j \in (i + 1)..Len(b.sq) : b.sq[j] = Cancellation(c)
    IN  [b EXCEPT
           !.sq = <<>>,
           !.kern = {[r EXCEPT !.cancelled = @ \/ CancelledAfter(r.ctx, 0)] : r \in @}
                    \cup {[ctx |-> b.sq[i].ctx, reqs |-> b.sq[i].reqs,
                           cancelled |-> CancelledAfter(b.sq[i].ctx, i)] :
                              i \in {j \in DOMAIN b.sq : b.sq[j].reqs # <<>>}}]

io_uring_backend_immediate_submit(b) ==
    io_uring_submit([b EXCEPT !.pending = 0])

io_uring_backend_defer_submit(b) ==
    IF b.pending + 1 >= PreparedLimit
    THEN io_uring_backend_immediate_submit(b)
    ELSE [b EXCEPT !.pending = @ + 1]

\* io_uring_backend_cancel and the like, without the submission.
io_uring_backend_cancel(b, c) ==
    prep_cancel([b EXCEPT !.ctx[c].result = ECANCELED], c)

CancelNow(b, c) ==
    io_uring_backend_immediate_submit(io_uring_backend_cancel(b, c))

----------------------------------------------------------------------------
(* Completions *)

\* runqueue_push, of a fiber that may be queued already: an exception is
\* not displaced by anything but another exception.
Fiber_make_runnable(b, f, v) ==
    [b EXCEPT !.sched[f] = IF IS_EXCEPTION(@) /\ ~IS_EXCEPTION(v) THEN @ ELSE v]

\* Queue_push on the accept queue of fiber q: the first fiber that waits in
\* Queue_shift is taken from the wait queue and scheduled.
Queue_push(b, q, fd) ==
    LET b1 == [b EXCEPT !.queues[q].fds = Append(@, fd)]
        w == b.queues[q].waiters
    IN  IF w = <<>> THEN b1
        ELSE Fiber_make_runnable([b1 EXCEPT !.queues[q].waiters = Tail(@)],
                                 Head(w), "nil")

handle_multishot_accept_completion(b, e) ==
    IF e.res = ECANCELED
    THEN [context_store_release(b, e.ctx) EXCEPT !.acceptq = NoFiber]
    ELSE LET b1 == IF e.more THEN b ELSE context_store_release(b, e.ctx)
         IN  IF b.acceptq = NoFiber THEN b1 ELSE Queue_push(b1, b.acceptq, e.res)

WakesMutant(x) == x.ref >= 1 /\ x.result # ECANCELED

\* The completion that wakes the fiber: all other requests of the context
\* are complete, the fiber still holds it, and it was not cancelled.
Wakes(x) == x.ref = 2 /\ x.result # ECANCELED

io_uring_backend_handle_completion(b, e) ==
    LET b1 == [b EXCEPT !.ctx[e.ctx].result = e.res]
        x == b1.ctx[e.ctx]
    IN  IF x.ref = MULTISHOT_REFCOUNT
        THEN handle_multishot_accept_completion(b1, e)
        ELSE context_store_release(
                 IF Wakes(x) THEN Fiber_make_runnable(b1, x.fiber, x.resume) ELSE b1,
                 e.ctx)

----------------------------------------------------------------------------
(* The kernel *)

\* What a request can end with.  The event descriptor is never signalled.
Results(q) ==
    CASE q.kind \in {"READ", "RECV", "RECVMSG", "SPLICE", "DRAIN"} -> {ERROR} \cup 0..q.len
      [] q.kind \in {"WRITE", "WRITEV", "SEND", "SENDMSG"} -> {ERROR} \cup 1..q.len
      [] q.kind \in {"CONNECT", "CLOSE"} -> {ERROR, 0}
      [] q.kind \in {"ACCEPT", "MULTISHOT_ACCEPT"} -> {ERROR, 1}
      [] q.kind = "POLL" -> {1}
      [] q.kind = "CHUNK" -> {ERROR, 1}
      [] q.kind = "TIMEOUT" -> {ERROR}
      [] q.kind = "EVENT" -> {}

Completion(c, r, more) == [ctx |-> c, res |-> r, more |-> more]

\* The head of chain r ends with result v: the next request of the chain
\* begins if this one did all it was asked for, else the rest is cancelled.
Complete(b, r, v) ==
    LET whole == v = Head(r.reqs).len
        rest == Tail(r.reqs)
    IN  [b EXCEPT
           !.kern = (@ \ {r}) \cup
                    (IF whole /\ rest # <<>>
                     THEN {[ctx |-> r.ctx, reqs |-> rest, cancelled |-> FALSE]}
                     ELSE {}),
           !.cq = @ \o <<Completion(r.ctx, v, FALSE)>>
                    \o (IF whole THEN <<>>
                        ELSE [i \in 1..Len(rest) |-> Completion(r.ctx, ECANCELED, FALSE)])]
=============================================================================
