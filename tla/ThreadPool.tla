----------------------------- MODULE ThreadPool -----------------------------
(***************************************************************************)
(* core/thread_pool.rb and event.c.  A fiber that processes a block puts   *)
(* it on the task queue together with its own event, the same one every    *)
(* time (Fiber_auto_watcher), and awaits the event; a thread of the pool   *)
(* runs the block and signals the event with the result, or with the       *)
(* exception that the block raised.  A block of cast has no event: its     *)
(* exception ends the thread.                                              *)
(*                                                                         *)
(* A task is identified by its fiber and its number.  The threads run at   *)
(* any time.  Stopping the pool is not modelled.                           *)
(***************************************************************************)
EXTENDS Fibers

CONSTANTS
    Workers,
    MaxTasks,   \* bound: blocks processed by a fiber
    MaxQueued   \* bound: tasks in the queue

ASSUME PoolAssumption == MaxTasks \in Nat /\ MaxQueued \in Nat

VARIABLES
    event,      \* Event_t of every fiber: whether it waits, signaled, result
    tasks,      \* @task_queue
    worker,     \* the task every thread runs, NoTask or Ended
    process     \* every fiber's calls: how many, what the last one has returned
                \* or raised, whether it raised, whether one was given up

poolVars == <<event, tasks, worker, process>>

NoTask == [fiber |-> NoFiber, n |-> 0]
CastTask == [fiber |-> NoFiber, n |-> 1]
Ended == [fiber |-> NoFiber, n |-> 2]   \* no task: the thread has ended

NoEvent == [waiting |-> FALSE, signaled |-> FALSE, result |-> Nil]

\* Block n of a fiber returns n or raises Raised(n); Answered is the block that a
\* value comes from.
Raised(n) == -1 - n
Answered(v) == IF v < Exc THEN -1 - v ELSE v

InitPool ==
    /\ event = [f \in Fibers |-> NoEvent]
    /\ tasks = <<>>
    /\ worker = [w \in Workers |-> NoTask]
    /\ process = [f \in Fibers |-> [n |-> 0, got |-> Nil, raised |-> FALSE, abandoned |-> FALSE]]

\* process, up to the push onto the task queue.
Process(f) ==
    LET n == process[f].n + 1 IN
    /\ pc[f] = "free" /\ n <= MaxTasks /\ Len(tasks) < MaxQueued
    /\ tasks' = Append(tasks, [fiber |-> f, n |-> n])
    /\ process' = [process EXCEPT ![f] = [n |-> n, got |-> Nil, raised |-> FALSE, abandoned |-> @.abandoned]]
    /\ pc' = [pc EXCEPT ![f] = "pushed"]
    /\ UNCHANGED <<sched, interrupts, event, worker>>

\* Event_await returns what the event was signaled with before, an exception too.
AwaitSignaled(f) ==
    /\ pc[f] = "pushed" /\ event[f].signaled
    /\ event' = [event EXCEPT ![f].signaled = FALSE, ![f].result = Nil]
    /\ process' = [process EXCEPT ![f].got = event[f].result]
    /\ pc' = [pc EXCEPT ![f] = "free"]
    /\ UNCHANGED <<sched, interrupts, tasks, worker>>

\* Event_await, up to its switch.
AwaitSwitch(f) ==
    /\ pc[f] = "pushed" /\ ~event[f].signaled
    /\ event' = [event EXCEPT ![f].waiting = TRUE]
    /\ sched' = Away(sched)
    /\ pc' = [pc EXCEPT ![f] = "await"]
    /\ UNCHANGED <<interrupts, tasks, worker, process>>

\* What Event_await returns or raises when the fiber is resumed with v.
Awaited(f, v) ==
    process' = [process EXCEPT ![f] = [n |-> @.n, got |-> v, raised |-> IS_EXCEPTION(v),
                                       abandoned |-> @.abandoned \/ v = Exc]]

\* Mutant: the event is left as the signal made it.
AwaitResumeMutant(f) ==
    /\ pc[f] = "await" /\ pc' = [pc EXCEPT ![f] = "free"]
    /\ Awaited(f, sched.value[f])
    /\ UNCHANGED <<sched, interrupts, tasks, worker, event>>

\* Event_await after its switch: the event is reset, whatever happened to it.
AwaitResume(f) ==
    /\ pc[f] = "await" /\ pc' = [pc EXCEPT ![f] = "free"]
    /\ event' = [event EXCEPT ![f] = NoEvent]
    /\ Awaited(f, sched.value[f])
    /\ UNCHANGED <<sched, interrupts, tasks, worker>>

\* ThreadPool#cast: a task without an event.
Cast(f) ==
    /\ pc[f] = "free" /\ Len(tasks) < MaxQueued
    /\ tasks' = Append(tasks, CastTask)
    /\ UNCHANGED <<sched, pc, interrupts, event, worker, process>>

PoolSnooze(f) ==
    /\ pc[f] = "free" /\ sched' = Away(MakeRunnable(sched, f, Nil))
    /\ UNCHANGED <<pc, interrupts, poolVars>>

\* run_queued_task, up to the end of the block.
WorkerTake(w) ==
    /\ worker[w] = NoTask /\ tasks # <<>>
    /\ worker' = [worker EXCEPT ![w] = Head(tasks)]
    /\ tasks' = Tail(tasks)
    /\ UNCHANGED <<sched, pc, interrupts, event, process>>

\* Event_signal.
EventSignal(f, v) ==
    IF event[f].signaled THEN UNCHANGED <<event, sched>>
    ELSE /\ event' = [event EXCEPT ![f] = [waiting |-> FALSE, signaled |-> TRUE, result |-> v]]
         /\ sched' = IF event[f].waiting THEN MakeRunnable(sched, f, v) ELSE sched

\* The thread is in a block.  (The switch to a fiber and the end of its Event_await
\* are one step under the VM lock.)
InBlock(w) ==
    /\ worker[w] \notin {NoTask, Ended}
    /\ \A f \in Fibers : sched.current = f => pc[f] # "await"

\* The block returns.
WorkerDone(w) ==
    /\ InBlock(w)
    /\ worker' = [worker EXCEPT ![w] = NoTask]
    /\ IF worker[w].fiber = NoFiber THEN UNCHANGED <<event, sched>>
       ELSE EventSignal(worker[w].fiber, worker[w].n)
    /\ UNCHANGED <<pc, interrupts, tasks, process>>

\* The block raises: the exception is signaled, or ends the thread.
WorkerRaises(w) ==
    /\ InBlock(w)
    /\ IF worker[w].fiber = NoFiber
       THEN /\ worker' = [worker EXCEPT ![w] = Ended]
            /\ UNCHANGED <<event, sched>>
       ELSE /\ worker' = [worker EXCEPT ![w] = NoTask]
            /\ EventSignal(worker[w].fiber, Raised(worker[w].n))
    /\ UNCHANGED <<pc, interrupts, tasks, process>>

PoolInterrupt(f) == Interrupt(f, {"await"}) /\ UNCHANGED poolVars

PoolNext ==
    \/ \E f \in Fibers :
          /\ sched.current = f
          /\ \/ Process(f) \/ AwaitSignaled(f) \/ AwaitSwitch(f) \/ AwaitResume(f)
             \/ Cast(f) \/ PoolSnooze(f)
    \/ \E w \in Workers : WorkerTake(w) \/ WorkerDone(w) \/ WorkerRaises(w)
    \/ \E f \in Fibers : PoolInterrupt(f)

----------------------------------------------------------------------------
(* Properties *)

Pending(f) == \E t \in {tasks[i] : i \in DOMAIN tasks} \cup {worker[w] : w \in Workers} : t.fiber = f

\* A fiber that sleeps in process has not missed its signal: its event waits and
\* is not signaled, and a task that will signal it is queued or run by a thread,
\* although the task may be done before the fiber awaits the event, and signals of
\* calls that were given up arrive before, during and after the next wait.  (That a
\* queued task is run needs a thread that no block of cast has ended: ThreadsLeft.)
AwaitedIsAnswered ==
    \A f \in Fibers : pc[f] = "await" /\ Sleeping(f) =>
        event[f].waiting /\ ~event[f].signaled /\ Pending(f)

\* process returns the result of its own block, or returns or raises its exception,
\* as long as the fiber has not given up an earlier call.
OwnResult ==
    \A f \in Fibers : pc[f] = "free" => Answered(process[f].got) = process[f].n \/ process[f].abandoned

ProcessAnswers == AwaitedIsAnswered /\ OwnResult

----------------------------------------------------------------------------
(* What the code does not give: see README, known disagreements.           *)

\* The comment on process: it returns the value of its block, always.
ReturnsOwnResult == \A f \in Fibers : pc[f] = "free" => Answered(process[f].got) = process[f].n

\* What a block raises, process raises.
ExceptionsAreRaised ==
    \A f \in Fibers : pc[f] = "free" /\ IS_EXCEPTION(process[f].got) => process[f].raised

\* A task that is queued will be taken.
ThreadsLeft == tasks # <<>> => \E w \in Workers : worker[w] # Ended
=============================================================================
