----------------------------- MODULE Scheduler -----------------------------
(***************************************************************************)
(* Fiber scheduling: the run queues of runqueue.c, schedule_fiber and      *)
(* switch_fiber of backend_common.c, the poll and the wakeup of the        *)
(* io_uring backend, and the calls of fiber.c, thread.c and fiber.rb that  *)
(* drive them.                                                             *)
(*                                                                         *)
(* Every Ruby thread has a backend with a run queue and runs one fiber at  *)
(* a time.  Any thread may schedule any fiber.  All of it happens under    *)
(* the global VM lock, which a thread gives up in two places only: between *)
(* instructions of Ruby code, and inside a blocking poll.  The C code of a *)
(* switch is split into the steps below but no other thread runs between   *)
(* them (HoldsLock).                                                       *)
(*                                                                         *)
(* The phases of a thread:                                                 *)
(*   "ruby"    the current fiber runs Ruby code                            *)
(*   "switch"  at the top of the loop of backend_base_switch_fiber         *)
(*   "idle"    in backend_run_idle_tasks, running the idle proc            *)
(*   "poll"    in a blocking poll: currently_polling, lock released        *)
(*   "drain"   handling completions, after a poll or in a nonblocking one  *)
(*   "transfer" about to transfer to the entry it has taken                *)
(***************************************************************************)
EXTENDS Naturals, Sequences, FiniteSets, Deque

CONSTANTS
    Threads,
    Fibers,
    ThreadOf,        \* the @thread of every fiber
    MainFiber,       \* the @main_fiber of every thread
    NoFiber,         \* Qnil where a fiber is expected
    NullCqe,         \* a completion that belongs to no operation
    Threshold,       \* ANTI_STARVE_SWITCH_COUNT_THRESHOLD
    Calls,           \* which calls the program makes (see CallNames)
    PriorityValues,  \* the resume values it gives to schedule_with_priority
    MaxEntries       \* bound: no operation begins on a thread, and none of
                     \* its fibers is scheduled, with more entries queued

\* The calls of Ruby programs on the scheduler.  "late" allows a fiber that
\* has finished as the target of schedule; "idle" installs an idle proc;
\* "signal" lets a signal interrupt a blocking poll.
CallNames ==
    {"spin", "schedule", "raise", "priority", "snooze", "await", "suspend",
     "finish", "park", "stats", "late", "idle", "signal"}

\* Resume values: an ordinary value, the value of a completed operation, an
\* exception.
ResumeValues == {"value", "result", "exception"}

ASSUME FibersAssumption ==
    /\ IsFiniteSet(Fibers)
    /\ ThreadOf \in [Fibers -> Threads]
    /\ MainFiber \in [Threads -> Fibers]
    /\ \A t \in Threads : ThreadOf[MainFiber[t]] = t
    /\ NoFiber \notin Fibers
    /\ NullCqe \notin Fibers

ASSUME CallsAssumption ==
    /\ Threshold \in Nat \ {0}
    /\ MaxEntries \in Nat
    /\ Calls \subseteq CallNames
    /\ PriorityValues \subseteq {"value", "exception"}

VARIABLES
    runqueue,        \* per thread: deque of [fiber, value] entries
    parkedRunqueue,  \* per thread: where parked fibers are queued instead
    runnable,        \* @runnable of every fiber
    parked,          \* @parked of every fiber
    state,           \* where every fiber is (see FiberStates)
    op,              \* the operation every fiber awaits (see OpStates)
    cqes,            \* per thread: completions in its ring, not yet handled
    pendingCount,    \* per thread: base->pending_count
    switchCount,     \* per thread: base->switch_count % Threshold
    current,         \* per thread: the current fiber
    phase,           \* per thread: see above
    pendingOps,      \* per thread: was pending_count > 0 when the switch began
    polled,          \* per thread: backend_was_polled
    next,            \* per thread: the entry taken from the run queue
    faults           \* history: which faults have happened (see Faults)

vars == <<runqueue, parkedRunqueue, runnable, parked, state, op, cqes,
          pendingCount, switchCount, current, phase, pendingOps, polled, next,
          faults>>

\* "new" has not been spun yet; "out" is switched out with no operation;
\* "await" is switched out inside io_uring_backend_await; "done" is in the
\* last switch of finalize; "dead" has returned from its block.
FiberStates == {"new", "ruby", "out", "await", "done", "dead"}

\* "inflight": submitted; "complete": its completion is in the ring;
\* "handled": the completion has scheduled the fiber; "event": it waits in
\* Backend_wait_event, on an event that never occurs, to be scheduled.
OpStates == {"none", "inflight", "complete", "handled", "event"}

\* "misdelete": a delete hit the first entry of a full run queue and dropped
\* the last one (Deque!Misdeletes); "dead": a dead fiber was switched to.
Faults == {"misdelete", "dead"}

Phases == {"ruby", "switch", "idle", "poll", "drain", "transfer"}

Entries == [fiber : Fibers, value : ResumeValues]

NoEntry == [fiber |-> NoFiber, value |-> "value"]

EntriesOf(d, f) == {i \in DOMAIN d.items : d.items[i].fiber = f}

HoldsLock(t) == phase[t] \in {"switch", "drain", "transfer"}

\* Thread t may execute: no other thread is inside the C code of a switch.
MayRun(t) == \A u \in Threads \ {t} : ~HoldsLock(u)

RunsRuby(t) == phase[t] \in {"ruby", "idle"} /\ MayRun(t)

Init ==
    /\ runqueue = [t \in Threads |-> EmptyDeque]
    /\ parkedRunqueue = [t \in Threads |-> EmptyDeque]
    /\ runnable = [f \in Fibers |-> FALSE]
    /\ parked = [f \in Fibers |-> FALSE]
    /\ state = [f \in Fibers |-> IF f = MainFiber[ThreadOf[f]] THEN "ruby" ELSE "new"]
    /\ op = [f \in Fibers |-> "none"]
    /\ cqes = [t \in Threads |-> {}]
    /\ pendingCount = [t \in Threads |-> 0]
    /\ switchCount = [t \in Threads |-> 0]
    /\ current = MainFiber
    /\ phase = [t \in Threads |-> "ruby"]
    /\ pendingOps = [t \in Threads |-> FALSE]
    /\ polled = [t \in Threads |-> FALSE]
    /\ next = [t \in Threads |-> NoEntry]
    /\ faults = {}
-----------------------------------------------------------------------------
(***************************************************************************)
(* runqueue.c.  With reschedule, the entry the fiber already has is        *)
(* replaced, unless it carries an exception and the new value does not.    *)
(***************************************************************************)
Reschedulable(d, f, reschedule) ==
    IF reschedule THEN DeleteFirst(d, EntriesOf(d, f)) ELSE d

ExceptionScheduled(d, f) ==
    /\ EntriesOf(d, f) # {}
    /\ d.items[Min(EntriesOf(d, f))].value = "exception"

\* A plain value does not displace an exception.
KeepsException(d, f, v, prioritize) ==
    ~prioritize /\ v # "exception" /\ ExceptionScheduled(d, f)

\* Mutant: the entry is pushed at the head.
RunqueuePushFront(d, f, v, reschedule) ==
    IF reschedule /\ KeepsException(d, f, v, FALSE) THEN d
    ELSE UnshiftItem(Reschedulable(d, f, reschedule), [fiber |-> f, value |-> v])

RunqueuePush(d, f, v, reschedule) ==
    IF reschedule /\ KeepsException(d, f, v, FALSE) THEN d
    ELSE PushItem(Reschedulable(d, f, reschedule), [fiber |-> f, value |-> v])

RunqueueUnshift(d, f, v, reschedule) ==
    UnshiftItem(Reschedulable(d, f, reschedule), [fiber |-> f, value |-> v])

\* The fault, if any, of deleting fiber f's first entry from d.
Misdelete(d, f) ==
    IF EntriesOf(d, f) # {} /\ Misdeletes(d, Min(EntriesOf(d, f)))
    THEN {"misdelete"} ELSE {}

RunqueueDelete(d, f) == DeleteFirst(d, EntriesOf(d, f))

\* Mutant: the value of the entry is not copied.
MigratedToPlain(src, dest, f) ==
    IF EntriesOf(src, f) = {} THEN dest
    ELSE PushItem(dest, [fiber |-> f, value |-> "value"])

\* runqueue_ring_buffer_migrate: what it adds to the destination.
MigratedTo(src, dest, f) ==
    IF EntriesOf(src, f) = {} THEN dest
    ELSE PushItem(dest, src.items[Min(EntriesOf(src, f))])
-----------------------------------------------------------------------------
(***************************************************************************)
(* backend_base_schedule_fiber, called by thread t for fiber f: what it    *)
(* does to the queues.  A dead fiber is not scheduled.  The caller adds    *)
(* the wakeup of the other thread's poll (Wakeup).                         *)
(***************************************************************************)
Enqueue(d, f, v, reschedule, prioritize) ==
    IF prioritize THEN RunqueueUnshift(d, f, v, reschedule)
                  ELSE RunqueuePush(d, f, v, reschedule)

ScheduleFiber(f, v, prioritize) ==
    LET u == ThreadOf[f] IN
    IF state[f] = "dead"
    THEN UNCHANGED <<runqueue, parkedRunqueue, runnable, faults>>
    ELSE /\ runqueue' =
                IF parked[f] THEN runqueue
                ELSE [runqueue EXCEPT ![u] = Enqueue(@, f, v, runnable[f], prioritize)]
         /\ parkedRunqueue' =
                IF ~parked[f] THEN parkedRunqueue
                ELSE [parkedRunqueue EXCEPT ![u] = Enqueue(@, f, v, runnable[f], prioritize)]
         /\ runnable' = [runnable EXCEPT ![f] = TRUE]
         /\ faults' = faults \cup
                LET d == IF parked[f] THEN parkedRunqueue[u] ELSE runqueue[u]
                IN  IF runnable[f] /\ ~KeepsException(d, f, v, prioritize)
                    THEN Misdelete(d, f) ELSE {}

\* Mutant: no wakeup.
WakeupNever(t, f) == UNCHANGED cqes

\* Backend_wakeup of another thread's backend: a no-op is submitted to a ring
\* that is being polled, and completes at once.
Wakeup(t, f) ==
    LET u == ThreadOf[f] IN
    cqes' = IF state[f] # "dead" /\ ~runnable[f] /\ u # t /\ phase[u] = "poll"
            THEN [cqes EXCEPT ![u] = @ \cup {NullCqe}]
            ELSE cqes

WithinBound(t) ==
    Len(runqueue[t].items) + Len(parkedRunqueue[t].items) <= MaxEntries

\* The first lines of backend_base_switch_fiber: thread t's current fiber
\* leaves with `pending' operations pending on the thread.
BeginSwitch(t, pending) ==
    /\ phase' = [phase EXCEPT ![t] = "switch"]
    /\ switchCount' = [switchCount EXCEPT ![t] = (@ + 1) % Threshold]
    /\ pendingOps' = [pendingOps EXCEPT ![t] = pending > 0]
    /\ UNCHANGED <<polled, next>>

queues == <<runqueue, parkedRunqueue, runnable, faults>>
switching == <<phase, switchCount, pendingOps, polled, next>>
-----------------------------------------------------------------------------
(***************************************************************************)
(* What Ruby code running on thread t may call.                            *)
(***************************************************************************)
\* Fiber#spin, or (with priority) Fiber.schedule_priority_oob_fiber: create a
\* fiber of the current thread and schedule it.
Spin(t, f, prioritize) ==
    /\ "spin" \in Calls
    /\ RunsRuby(t)
    /\ state[f] = "new" /\ ThreadOf[f] = t
    /\ state' = [state EXCEPT ![f] = "out"]
    /\ ScheduleFiber(f, "value", prioritize)
    /\ UNCHANGED <<parked, op, cqes, pendingCount, current, switching>>

CanSchedule(f) ==
    state[f] # "new" /\ (state[f] \in {"done", "dead"} => "late" \in Calls)

\* Fiber#schedule with a value, or with the exception of Fiber#raise.
Schedule(t, f, v) ==
    /\ v = "value" => "schedule" \in Calls
    /\ v = "exception" => "raise" \in Calls
    /\ RunsRuby(t)
    /\ CanSchedule(f) /\ WithinBound(ThreadOf[f])
    /\ ScheduleFiber(f, v, FALSE)
    /\ Wakeup(t, f)
    /\ UNCHANGED <<parked, state, op, pendingCount, current, switching>>

\* Fiber#schedule_with_priority.
ScheduleWithPriority(t, f, v) ==
    /\ "priority" \in Calls
    /\ RunsRuby(t)
    /\ CanSchedule(f) /\ WithinBound(ThreadOf[f])
    /\ ScheduleFiber(f, v, TRUE)
    /\ Wakeup(t, f)
    /\ UNCHANGED <<parked, state, op, pendingCount, current, switching>>

\* backend_snooze.
Snooze(t) ==
    LET c == current[t] IN
    /\ "snooze" \in Calls
    /\ phase[t] = "ruby" /\ MayRun(t)
    /\ ScheduleFiber(c, "value", FALSE)
    /\ state' = [state EXCEPT ![c] = "out"]
    /\ BeginSwitch(t, pendingCount[t])
    /\ UNCHANGED <<parked, op, cqes, pendingCount, current>>

\* Thread#switch_fiber, called by Kernel#suspend.
Suspend(t) ==
    /\ "suspend" \in Calls
    /\ phase[t] = "ruby" /\ MayRun(t)
    /\ state' = [state EXCEPT ![current[t]] = "out"]
    /\ BeginSwitch(t, pendingCount[t])
    /\ UNCHANGED <<queues, parked, op, cqes, pendingCount, current>>

\* Submit an operation, or wait for an event, and io_uring_backend_await.  (A
\* bound: a fiber that has abandoned an operation begins no other.)
Await(t, kind) ==
    LET c == current[t] IN
    /\ "await" \in Calls
    /\ WithinBound(t)
    /\ phase[t] = "ruby" /\ MayRun(t)
    /\ op[c] = "none"
    /\ op' = [op EXCEPT ![c] = kind]
    /\ pendingCount' = [pendingCount EXCEPT ![t] = @ + 1]
    /\ state' = [state EXCEPT ![c] = "await"]
    /\ BeginSwitch(t, pendingCount[t] + 1)
    /\ UNCHANGED <<queues, parked, cqes, current>>

\* The end of Fiber#finalize: off the run queue, and switch for the last time.
Finish(t) ==
    LET c == current[t] IN
    /\ "finish" \in Calls
    /\ phase[t] = "ruby" /\ MayRun(t)
    /\ c # MainFiber[t]
    /\ runqueue' = [runqueue EXCEPT ![t] = RunqueueDelete(@, c)]
    /\ faults' = faults \cup Misdelete(runqueue[t], c)
    /\ state' = [state EXCEPT ![c] = "done"]
    /\ BeginSwitch(t, pendingCount[t])
    /\ UNCHANGED <<parkedRunqueue, runnable, parked, op, cqes, pendingCount, current>>

\* Fiber#__park__ and Fiber#__unpark__, for a fiber of the current thread.
Park(t, f) ==
    /\ "park" \in Calls
    /\ RunsRuby(t) /\ ThreadOf[f] = t /\ state[f] # "new"
    /\ parked' = [parked EXCEPT ![f] = TRUE]
    /\ runqueue' = [runqueue EXCEPT ![t] = RunqueueDelete(@, f)]
    /\ parkedRunqueue' = [parkedRunqueue EXCEPT ![t] = MigratedTo(runqueue[t], @, f)]
    /\ faults' = faults \cup Misdelete(runqueue[t], f)
    /\ UNCHANGED <<runnable, state, op, cqes, pendingCount, current, switching>>

Unpark(t, f) ==
    /\ "park" \in Calls
    /\ RunsRuby(t) /\ ThreadOf[f] = t /\ state[f] # "new"
    /\ parked' = [parked EXCEPT ![f] = FALSE]
    /\ parkedRunqueue' = [parkedRunqueue EXCEPT ![t] = RunqueueDelete(@, f)]
    /\ runqueue' = [runqueue EXCEPT ![t] = MigratedTo(parkedRunqueue[t], @, f)]
    /\ faults' = faults \cup Misdelete(parkedRunqueue[t], f)
    /\ UNCHANGED <<runnable, state, op, cqes, pendingCount, current, switching>>

\* Backend_stats resets the counters it reports, switch_count among them.
Stats(t) ==
    /\ "stats" \in Calls
    /\ RunsRuby(t)
    /\ switchCount' = [switchCount EXCEPT ![t] = 0]
    /\ UNCHANGED <<queues, parked, state, op, cqes, pendingCount, current,
                   phase, pendingOps, polled, next>>
-----------------------------------------------------------------------------
(***************************************************************************)
(* The loop of backend_base_switch_fiber, on thread t.                     *)
(***************************************************************************)
\* Mutant: nothing is polled while there are fibers to run.
SwitchTakeStarves(t) ==
    /\ phase[t] = "switch"
    /\ runqueue[t].items # <<>>
    /\ runqueue' = [runqueue EXCEPT ![t] = ShiftItem(@)]
    /\ next' = [next EXCEPT ![t] = Head(runqueue[t].items)]
    /\ phase' = [phase EXCEPT ![t] = "transfer"]
    /\ UNCHANGED <<parkedRunqueue, runnable, faults, parked, state, op, cqes,
                   pendingCount, switchCount, current, pendingOps, polled>>

\* A fiber is taken from the run queue.  Before it is resumed completions are
\* handled without blocking, if operations are pending and either the switch
\* count has reached the threshold or the fiber is the one that is leaving.
SwitchTake(t) ==
    LET e == Head(runqueue[t].items) IN
    /\ phase[t] = "switch"
    /\ runqueue[t].items # <<>>
    /\ runqueue' = [runqueue EXCEPT ![t] = ShiftItem(@)]
    /\ next' = [next EXCEPT ![t] = e]
    /\ phase' = [phase EXCEPT ![t] =
          IF /\ ~polled[t] /\ pendingOps[t]
             /\ switchCount[t] = 0 \/ e.fiber = current[t]
          THEN "drain" ELSE "transfer"]
    /\ UNCHANGED <<parkedRunqueue, runnable, faults, parked, state, op, cqes,
                   pendingCount, switchCount, current, pendingOps, polled>>

\* The run queue is empty: idle tasks once per switch, then either return to
\* the current fiber or poll.
SwitchEmpty(t) ==
    /\ phase[t] = "switch"
    /\ runqueue[t].items = <<>>
    /\ pendingOps[t] \/ "idle" \in Calls
    /\ phase' = [phase EXCEPT ![t] =
          IF "idle" \in Calls /\ ~polled[t] THEN "idle" ELSE "poll"]
    /\ UNCHANGED <<queues, parked, state, op, cqes, pendingCount, switchCount,
                   current, pendingOps, polled, next>>

IdleEnd(t) ==
    /\ phase[t] = "idle" /\ MayRun(t)
    /\ pendingOps[t]
    /\ phase' = [phase EXCEPT ![t] = "poll"]
    /\ UNCHANGED <<queues, parked, state, op, cqes, pendingCount, switchCount,
                   current, pendingOps, polled, next>>

\* Control returns to fiber f or, if f has nothing left to run, to the main
\* fiber of the thread, as Ruby does when a fiber's block returns.
Resumed(t, f) == IF state[f] = "done" THEN MainFiber[t] ELSE f

\* The fiber runs; the local variables of the switch it was in are gone.
Control(t, f) ==
    /\ current' = [current EXCEPT ![t] = Resumed(t, f)]
    /\ state' = [h \in Fibers |-> IF h = Resumed(t, f) THEN "ruby"
                                  ELSE IF h = f THEN "dead" ELSE state[h]]
    /\ phase' = [phase EXCEPT ![t] = "ruby"]
    /\ pendingOps' = [pendingOps EXCEPT ![t] = FALSE]
    /\ polled' = [polled EXCEPT ![t] = FALSE]
    /\ next' = [next EXCEPT ![t] = NoEntry]

\* No other fiber of thread t waits in Backend_wait_event.
LastEvent(t, g) == \A h \in Fibers \ {g} : ThreadOf[h] = t => op[h] # "event"

\* Mutant: a fiber that leaves before its operation is done stays counted.
ResumeUncounted(t, f) ==
    LET g == Resumed(t, f)
    IN  /\ Control(t, f)
        /\ IF state[g] = "await"
           THEN /\ pendingCount' = [pendingCount EXCEPT ![t] =
                                      IF op[g] = "handled" THEN @ - 1 ELSE @]
                /\ op' = [op EXCEPT ![g] = "none"]
                /\ cqes' = [cqes EXCEPT ![t] = @ \ {g}]
           ELSE UNCHANGED <<pendingCount, op, cqes>>

\* The switch returns in the fiber, with its resume value.  A fiber that is
\* inside an operation leaves it: it cancels the operation unless that is
\* complete, and the cancellation completes too.
Resume(t, f) ==
    LET g == Resumed(t, f)
        cancels == \/ op[g] \in {"inflight", "complete"}
                   \/ op[g] = "event" /\ LastEvent(t, g)
    IN  /\ Control(t, f)
        /\ IF state[g] = "await"
           THEN /\ pendingCount' = [pendingCount EXCEPT ![t] = @ - 1]
                /\ op' = [op EXCEPT ![g] = "none"]
                /\ cqes' = IF cancels
                           THEN [cqes EXCEPT ![t] = (@ \ {g}) \cup {NullCqe}]
                           ELSE cqes
           ELSE UNCHANGED <<pendingCount, op, cqes>>

\* No fiber to run and nothing to wait for: the switch returns nil.
SwitchNone(t) ==
    /\ \/ phase[t] = "switch" /\ "idle" \notin Calls
       \/ phase[t] = "idle" /\ MayRun(t)
    /\ phase[t] = "switch" => runqueue[t].items = <<>>
    /\ ~pendingOps[t]
    /\ Resume(t, current[t])
    /\ UNCHANGED <<queues, parked, switchCount>>

\* Mutant: @runnable stays set.
TransferStillRunnable(t) ==
    /\ phase[t] = "transfer"
    /\ state[next[t].fiber] # "dead"
    /\ Resume(t, next[t].fiber)
    /\ UNCHANGED <<queues, parked, switchCount>>

\* @runnable is cleared and control goes to the fiber that was taken.
Transfer(t) ==
    /\ phase[t] = "transfer"
    /\ state[next[t].fiber] # "dead"
    /\ runnable' = [runnable EXCEPT ![next[t].fiber] = FALSE]
    /\ Resume(t, next[t].fiber)
    /\ UNCHANGED <<runqueue, parkedRunqueue, faults, parked, switchCount>>

\* FIBER_TRANSFER raises FiberError when the fiber that was taken is dead.
\* The exception goes to the fiber that is leaving (or to the main fiber, if
\* that has finished) and unwinds its await: pending_count keeps counting the
\* operation, which is neither cancelled nor forgotten.
TransferDead(t) ==
    /\ phase[t] = "transfer"
    /\ state[next[t].fiber] = "dead"
    /\ runnable' = [runnable EXCEPT ![next[t].fiber] = FALSE]
    /\ Control(t, current[t])
    /\ faults' = faults \cup {"dead"}
    /\ UNCHANGED <<runqueue, parkedRunqueue, parked, op, cqes, pendingCount,
                   switchCount>>
-----------------------------------------------------------------------------
(***************************************************************************)
(* Polling.                                                                *)
(***************************************************************************)
\* A blocking poll ends when the ring holds a completion.
PollReturn(t) ==
    /\ phase[t] = "poll" /\ MayRun(t)
    /\ cqes[t] # {}
    /\ phase' = [phase EXCEPT ![t] = "drain"]
    /\ polled' = [polled EXCEPT ![t] = TRUE]
    /\ UNCHANGED <<queues, parked, state, op, cqes, pendingCount, switchCount,
                   current, pendingOps, next>>

\* A signal interrupts the poll (EINTR): its handler schedules an out-of-band
\* fiber with priority, so the run queue is not empty and the poll returns.
PollSignal(t, f) ==
    /\ "signal" \in Calls
    /\ phase[t] = "poll" /\ MayRun(t)
    /\ state[f] = "new" /\ ThreadOf[f] = t
    /\ state' = [state EXCEPT ![f] = "out"]
    /\ ScheduleFiber(f, "value", TRUE)
    /\ phase' = [phase EXCEPT ![t] = "drain"]
    /\ polled' = [polled EXCEPT ![t] = TRUE]
    /\ UNCHANGED <<parked, op, cqes, pendingCount, switchCount, current,
                   pendingOps, next>>

\* io_uring_backend_handle_completion.
DrainOne(t, c) ==
    /\ phase[t] = "drain"
    /\ c \in cqes[t]
    /\ cqes' = [cqes EXCEPT ![t] = @ \ {c}]
    /\ IF c = NullCqe THEN UNCHANGED <<queues, op>>
       ELSE ScheduleFiber(c, "result", FALSE) /\ op' = [op EXCEPT ![c] = "handled"]
    /\ UNCHANGED <<parked, state, pendingCount, current, switching>>

DrainEnd(t) ==
    /\ phase[t] = "drain"
    /\ cqes[t] = {}
    /\ phase' = [phase EXCEPT ![t] = IF next[t] = NoEntry THEN "switch" ELSE "transfer"]
    /\ UNCHANGED <<queues, parked, state, op, cqes, pendingCount, switchCount,
                   current, pendingOps, polled, next>>

\* The kernel completes an operation.
Complete(f) ==
    /\ op[f] = "inflight"
    /\ op' = [op EXCEPT ![f] = "complete"]
    /\ cqes' = [cqes EXCEPT ![ThreadOf[f]] = @ \cup {f}]
    /\ UNCHANGED <<queues, parked, state, pendingCount, current, switching>>
-----------------------------------------------------------------------------
\* The steps of a switch once it has begun.
SwitchStep(t) ==
    \/ SwitchTake(t) \/ SwitchEmpty(t) \/ SwitchNone(t) \/ IdleEnd(t)
    \/ Transfer(t) \/ TransferDead(t) \/ PollReturn(t) \/ DrainEnd(t)
    \/ \E c \in cqes[t] : DrainOne(t, c)

\* The current fiber gives up control.
Yield(t) ==
    \/ Snooze(t) \/ Suspend(t) \/ Finish(t)
    \/ \E kind \in {"inflight", "event"} : Await(t, kind)

\* The current fiber calls the scheduler and runs on.
Call(t) ==
    \/ \E f \in Fibers, prioritize \in BOOLEAN : Spin(t, f, prioritize)
    \/ \E f \in Fibers, v \in {"value", "exception"} : Schedule(t, f, v)
    \/ \E f \in Fibers, v \in PriorityValues : ScheduleWithPriority(t, f, v)
    \/ \E f \in Fibers : Park(t, f) \/ Unpark(t, f)
    \/ Stats(t)

Next ==
    \/ \E t \in Threads : SwitchStep(t) \/ Yield(t) \/ Call(t)
    \/ \E t \in Threads, f \in Fibers : PollSignal(t, f)
    \/ \E f \in Fibers : Complete(f)

Spec == Init /\ [][Next]_vars

\* Fibers are cooperative: Ruby code that runs reaches a switchpoint, and a
\* switch that has begun goes on.
Fairness == \A t \in Threads : WF_vars(SwitchStep(t)) /\ WF_vars(Yield(t))

FairSpec == Spec /\ Fairness
-----------------------------------------------------------------------------
(***************************************************************************)
(* Properties.                                                             *)
(***************************************************************************)
\* The values every variable of the backends and of the fibers may have.
TypeOK ==
    /\ runqueue \in [Threads -> Deques(Entries)]
    /\ parkedRunqueue \in [Threads -> Deques(Entries)]
    /\ runnable \in [Fibers -> BOOLEAN]
    /\ parked \in [Fibers -> BOOLEAN]
    /\ state \in [Fibers -> FiberStates]
    /\ op \in [Fibers -> OpStates]
    /\ cqes \in [Threads -> SUBSET (Fibers \cup {NullCqe})]
    /\ pendingCount \in [Threads -> Nat]
    /\ switchCount \in [Threads -> 0 .. Threshold - 1]
    /\ current \in [Threads -> Fibers]
    /\ phase \in [Threads -> Phases]
    /\ pendingOps \in [Threads -> BOOLEAN]
    /\ polled \in [Threads -> BOOLEAN]
    /\ next \in [Threads -> Entries \cup {NoEntry}]
    /\ faults \subseteq Faults

Finished(f) == state[f] \in {"done", "dead"}

Queued(f) ==
    LET d == IF parked[f] THEN parkedRunqueue[ThreadOf[f]] ELSE runqueue[ThreadOf[f]]
    IN  EntriesOf(d, f) # {}

Taken(f) == next[ThreadOf[f]].fiber = f

\* docs/fiber-scheduling.md: a runnable fiber is on its thread's run queue
\* (the parked one if it is parked), waiting to be resumed, or is just being
\* switched to.
RunnableIsQueued ==
    \A f \in Fibers : runnable[f] /\ ~Finished(f) => Queued(f) \/ Taken(f)

\* @runnable of a live fiber never claims an entry that is not there, except
\* after a delete at the head of a full run queue has dropped one:
\* schedule_fiber relies on it when it skips the wakeup.
RunnableIsKept == "misdelete" \in faults \/ RunnableIsQueued

\* The comment in backend_base_schedule_fiber: no thread is stuck in a
\* blocking poll while a fiber is ready to run in its run queue.  A poll with
\* a completion in the ring returns.
NoStuckPoll ==
    "misdelete" \in faults \/ \A t \in Threads :
        phase[t] = "poll" /\ cqes[t] = {} =>
            \A i \in DOMAIN runqueue[t].items : Finished(runqueue[t].items[i].fiber)

Awaiting(t) == {f \in Fibers : ThreadOf[f] = t /\ state[f] = "await"}

\* pending_count, which decides whether an empty run queue means polling or
\* returning nil, counts the fibers inside an await, however they are resumed
\* (except by the FiberError of a switch to a dead fiber).
PendingCountExact ==
    "dead" \in faults \/ \A t \in Threads : pendingCount[t] = Cardinality(Awaiting(t))

HasException(f) ==
    \E d \in {runqueue[ThreadOf[f]], parkedRunqueue[ThreadOf[f]]} :
        \E i \in EntriesOf(d, f) : d.items[i].value = "exception"

\* runqueue_push: an exception on its way to a fiber (a cancellation, a
\* termination) is not lost to a wakeup that comes after it.
ExceptionIsKept ==
    [][\A f \in Fibers :
          HasException(f) /\ "misdelete" \notin faults' /\ ~Finished(f)'
            => HasException(f)' \/ next'[ThreadOf[f]].fiber = f]_vars

\* The comment in Fiber#finalize: a fiber is not resumed after terminating.
NotResumedAfterFinish ==
    [][\A f \in Fibers : state[f] = "done" => state'[f] = "done"]_vars

\* docs/fiber-scheduling.md: a runnable fiber will eventually be resumed.
RunnableRuns ==
    \A f \in Fibers : (runnable[f] /\ ~parked[f]) ~> (state[f] = "ruby")

\* The comment on anti-starvation in backend_base_switch_fiber: completions
\* are handled even if the run queue never empties.
CompletionsAreHandled ==
    \A f \in Fibers : (op[f] = "complete") ~> (op[f] # "complete")
=============================================================================
