------------------------------- MODULE Fibers -------------------------------
(***************************************************************************)
(* The fibers of one thread as the classes built on Polyphony::Queue see   *)
(* them: one runs, up to a call that switches away; those that are         *)
(* scheduled run in turn.  (Scheduler is the detailed model.)              *)
(***************************************************************************)
EXTENDS Integers, Sequences, FiniteSets, SequencesExt, FiberSet

CONSTANTS
    NoFiber,
    MaxInterrupts   \* bound: exceptions raised in waiting fibers

ASSUME FibersAssumption == IsFiniteSet(Fibers) /\ NoFiber \notin Fibers /\ MaxInterrupts \in Nat

VARIABLES
    sched,      \* the current fiber, the run queue, every fiber's resume value
    pc,         \* what every fiber is in
    interrupts  \* how many exceptions were raised

\* Resume values: nil, a positive number (a result), an exception (Exc, or one
\* that a result is: see ThreadPool).
Nil == 0
Exc == -1
IS_EXCEPTION(v) == v < 0

InitFibers ==
    /\ \E order \in SetToSeqs(Fibers) :
          sched = [current |-> NoFiber, queue |-> order, value |-> [f \in Fibers |-> Nil]]
    /\ pc = [f \in Fibers |-> "free"]
    /\ interrupts = 0

InQueue(s, f) == \E i \in DOMAIN s.queue : s.queue[i] = f

\* Fiber_make_runnable.  A fiber that is scheduled already goes to the back with
\* the new value, unless an exception is on its way and the value is none.  A dead
\* one is not resumed.
MakeRunnable(s, f, v) ==
    IF pc[f] = "dead" \/ (InQueue(s, f) /\ IS_EXCEPTION(s.value[f]) /\ ~IS_EXCEPTION(v)) THEN s
    ELSE [s EXCEPT !.queue = Append(RemoveFirst(@, f), f), !.value[f] = v]

\* The current fiber switches away.
Away(s) == [s EXCEPT !.current = NoFiber]

SwitchFiber ==
    /\ sched.current = NoFiber /\ sched.queue # <<>>
    /\ sched' = [sched EXCEPT !.current = Head(sched.queue), !.queue = Tail(@)]
    /\ UNCHANGED <<pc, interrupts>>

\* A fiber that is in one of the calls gets an exception: a timeout, a stop.
Interrupt(f, calls) ==
    /\ interrupts < MaxInterrupts /\ pc[f] \in calls /\ sched.current # f
    /\ sched' = MakeRunnable(sched, f, Exc)
    /\ interrupts' = interrupts + 1
    /\ UNCHANGED pc

Sleeping(f) == sched.current # f /\ ~InQueue(sched, f) /\ pc[f] # "dead"

----------------------------------------------------------------------------
(* Waiting for a value of an uncapped queue: Queue_push and                *)
(* Queue_shift_block.  The fiber that shifts waits at least once.  (Fewer  *)
(* fibers than fill a wait queue: see RingBuffer.)                         *)

WakeFirst(s, waiters) == IF waiters = <<>> THEN s ELSE MakeRunnable(s, Head(waiters), Nil)
AfterFirst(waiters) == IF waiters = <<>> THEN <<>> ELSE Tail(waiters)

\* Before the switch, with whether the queue has a value.
ShiftWaits(s, f, available) == Away(IF available THEN MakeRunnable(s, f, Nil) ELSE s)

Deleted(waiters, f) == RemoveFirst(waiters, f)

\* After it: what the round of the loop does.
ShiftRound(f, available) ==
    IF sched.value[f] = Exc THEN "raise" ELSE IF available THEN "take" ELSE "again"
=============================================================================
