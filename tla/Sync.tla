-------------------------------- MODULE Sync --------------------------------
(***************************************************************************)
(* core/sync.rb: Mutex, Monitor and ConditionVariable.  A mutex is a queue *)
(* with one token; a condition variable is a queue of fibers.  Because     *)
(* taking something from a queue always switches fibers, every call that   *)
(* takes the token, and signal and broadcast too, let others run between   *)
(* their test and what they do.                                            *)
(***************************************************************************)
EXTENDS Fibers

CONSTANTS
    Styles,        \* how fibers take the mutex
    WaitStyles,    \* in which of these sections they wait on the condition
    FragileStyles  \* in which ones they may be interrupted while reacquiring

ASSUME SyncAssumption == /\ Styles \subseteq {"lock", "try", "sync", "enter", "try_enter"}
                         /\ WaitStyles \subseteq Styles /\ FragileStyles \subseteq Styles

VARIABLES
    mutex,     \* tokens in @store, fibers waiting for one, @holding_fiber, @holding_count
    cond,      \* @queue of the condition variable, and fibers waiting to shift from it
    section    \* every fiber's section: how and how often it was entered,
               \* whether an exception is on its way out, where signal returns to

syncVars == <<mutex, cond, section>>

Outside == [style |-> "none", depth |-> 0, raising |-> FALSE, back |-> "free"]

InitSync ==
    /\ mutex = [store |-> 1, waiters |-> <<>>, holder |-> NoFiber, count |-> 0]
    /\ cond = [queue |-> <<>>, waiters |-> <<>>]
    /\ section = [f \in Fibers |-> Outside]

Monitors == {"enter", "try_enter"}

----------------------------------------------------------------------------
(* Taking and releasing the token *)

\* unlock, conditional_release and the ensure of synchronize_not_holding.
Released(m) == [m EXCEPT !.store = @ + 1, !.waiters = AfterFirst(@), !.holder = NoFiber]
WakesLocker(s, m) == WakeFirst(s, m.waiters)

HolderIsDead == mutex.holder # NoFiber /\ pc[mutex.holder] = "dead"

\* The beginning of a call that takes the token, from state (s, m).
ShiftToken(f, s, m, call) ==
    /\ mutex' = [m EXCEPT !.waiters = Append(@, f)]
    /\ sched' = ShiftWaits(s, f, m.store > 0)
    /\ pc' = [pc EXCEPT ![f] = call]

\* lock, try_lock, synchronize, enter and try_enter.  (When they raise, return
\* false or are reentered nothing changes.)
Acquire(f, style) ==
    LET dead == HolderIsDead /\ style \notin {"try", "sync"}   \* check_dead_holder
        m == IF dead THEN Released(mutex) ELSE mutex
        s == IF dead THEN WakesLocker(sched, mutex) ELSE sched
    IN
    /\ pc[f] = "free" /\ mutex.holder # f
    /\ style \in {"try", "try_enter"} => m.holder = NoFiber
    /\ ShiftToken(f, s, m, "lock")
    /\ section' = [section EXCEPT ![f] = [Outside EXCEPT !.style = style, !.depth = 1]]
    /\ UNCHANGED <<cond, interrupts>>

\* Monitor#enter by the fiber that holds the monitor already.
Reenter(f) ==
    /\ pc[f] \in {"free", "in"} /\ mutex.holder = f /\ ~section[f].raising
    /\ "enter" \in Styles /\ section[f].style \in Monitors \cup {"none"} /\ section[f].depth < 2
    /\ mutex' = [mutex EXCEPT !.count = @ + 1]
    /\ pc' = [pc EXCEPT ![f] = "in"]
    /\ section' = [section EXCEPT ![f].style = "enter", ![f].depth = @ + 1]
    /\ UNCHANGED <<sched, cond, interrupts>>

\* Mutant: the token goes back although it was never taken.
ReleasedAfterFailureMutant(f) == TRUE

\* What an exception in conditional_reacquire does on its way out: the ensure
\* of synchronize_not_holding releases the mutex; a caller of unlock or exit
\* gets a ThreadError, because it does not hold it.
ReleasedAfterFailure(f) == section[f].style = "sync"

\* A round of the loop in @store.shift, in lock and in conditional_reacquire.
TokenResume(f) ==
    LET m == [mutex EXCEPT !.waiters = Deleted(@, f)]
        round == ShiftRound(f, mutex.store > 0)
        fails == pc[f] = "reacquire" /\ ReleasedAfterFailure(f)
    IN
    /\ pc[f] \in {"lock", "reacquire"} /\ UNCHANGED <<cond, interrupts>>
    /\ \/ /\ round = "raise"
          /\ mutex' = IF fails THEN Released(m) ELSE m
          /\ sched' = IF fails THEN WakesLocker(sched, m) ELSE sched
          /\ pc' = [pc EXCEPT ![f] = "free"]
          /\ section' = [section EXCEPT ![f] = Outside]
       \/ /\ round = "take"
          /\ mutex' = [m EXCEPT !.store = @ - 1, !.holder = f,
                          !.count = IF pc[f] = "lock" /\ section[f].style \in Monitors
                                    THEN 1 ELSE @]
          /\ pc' = [pc EXCEPT ![f] = "in"]
          /\ UNCHANGED <<sched, section>>
       \/ round = "again" /\ ShiftToken(f, sched, m, pc[f]) /\ UNCHANGED section

\* The end of the section: unlock, exit, or the end of synchronize, which are
\* also reached by an exception (programs call unlock and exit in an ensure).
Leave(f) ==
    LET monitor == section[f].style \in Monitors
        releases == ~monitor \/ mutex.count = 1
        m == IF monitor THEN [mutex EXCEPT !.count = @ - 1] ELSE mutex
    IN
    /\ pc[f] = "in" /\ UNCHANGED <<cond, interrupts>>
    /\ mutex' = IF releases THEN Released(m) ELSE m
    /\ sched' = IF releases THEN WakesLocker(sched, m) ELSE sched
    /\ IF section[f].depth = 1
       THEN pc' = [pc EXCEPT ![f] = "free"] /\ section' = [section EXCEPT ![f] = Outside]
       ELSE section' = [section EXCEPT ![f].depth = @ - 1] /\ UNCHANGED pc

\* A fiber terminates between lock and unlock.
Die(f) ==
    /\ pc[f] = "in" /\ section[f].style # "sync" /\ ~section[f].raising
    /\ pc' = [pc EXCEPT ![f] = "dead"]
    /\ sched' = Away(sched)
    /\ UNCHANGED <<mutex, cond, section, interrupts>>

\* The fiber gives up control, inside a section and outside.
Snooze(f) ==
    /\ pc[f] \in {"in", "free"} /\ ~section[f].raising
    /\ sched' = Away(MakeRunnable(sched, f, Nil))
    /\ pc' = [pc EXCEPT ![f] = IF @ = "in" THEN "snooze" ELSE @]
    /\ UNCHANGED <<mutex, cond, section, interrupts>>

SnoozeResume(f) ==
    /\ pc[f] = "snooze"
    /\ section' = [section EXCEPT ![f].raising = sched.value[f] = Exc]
    /\ pc' = [pc EXCEPT ![f] = "in"]
    /\ UNCHANGED <<sched, mutex, cond, interrupts>>

----------------------------------------------------------------------------
(* ConditionVariable *)

\* wait, up to the switch: the mutex is released first.
Wait(f) ==
    /\ pc[f] = "in" /\ ~section[f].raising /\ section[f].style \in WaitStyles
    /\ mutex' = Released(mutex)
    /\ cond' = [queue |-> Append(cond.queue, f), waiters |-> AfterFirst(cond.waiters)]
    /\ sched' = Away(WakeFirst(WakesLocker(sched, mutex), cond.waiters))
    /\ pc' = [pc EXCEPT ![f] = "wait"]
    /\ UNCHANGED <<section, interrupts>>

\* Signalled, timed out (the exception ends in move_on_after) or interrupted:
\* the ensure takes the mutex again.
WaitResume(f) ==
    /\ pc[f] = "wait"
    /\ \E raising \in IF sched.value[f] = Exc THEN BOOLEAN ELSE {FALSE} :
          section' = [section EXCEPT ![f].raising = raising]
    /\ ShiftToken(f, sched, mutex, "reacquire")
    /\ UNCHANGED <<cond, interrupts>>

ShiftCond(f, c, call) ==
    /\ cond' = [c EXCEPT !.waiters = Append(@, f)]
    /\ sched' = ShiftWaits(sched, f, c.queue # <<>>)
    /\ pc' = [pc EXCEPT ![f] = call]

\* signal and broadcast, up to the first @queue.shift.
Notify(f, call) ==
    /\ pc[f] \in {"free", "in"} /\ ~section[f].raising
    /\ cond.queue # <<>>
    /\ ShiftCond(f, cond, call)
    /\ section' = [section EXCEPT ![f].back = pc[f]]
    /\ UNCHANGED <<mutex, interrupts>>

\* Mutant: the fiber is taken off the queue and not scheduled.
NotifyResumeMutant(f) ==
    LET c == [cond EXCEPT !.waiters = Deleted(@, f)]
    IN
    /\ pc[f] \in {"signal", "broadcast"} /\ UNCHANGED <<mutex, interrupts>>
    /\ cond' = [c EXCEPT !.queue = AfterFirst(@)]
    /\ pc' = [pc EXCEPT ![f] = section[f].back]
    /\ UNCHANGED <<sched, section>>

\* A round of the shift.  broadcast goes on until shift gives it nothing, which
\* it does not do before the queue is closed: it waits.
NotifyResume(f) ==
    LET c == [cond EXCEPT !.waiters = Deleted(@, f)]
        round == ShiftRound(f, cond.queue # <<>>)
        taken == [c EXCEPT !.queue = Tail(@)]
        s == MakeRunnable(sched, Head(cond.queue), Nil)
    IN
    /\ pc[f] \in {"signal", "broadcast"} /\ UNCHANGED <<mutex, interrupts>>
    /\ \/ /\ round = "raise"
          /\ cond' = c /\ UNCHANGED sched
          /\ pc' = [pc EXCEPT ![f] = section[f].back]
          /\ section' = [section EXCEPT ![f].raising = section[f].back = "in"]
       \/ /\ round = "take" /\ pc[f] = "signal"
          /\ cond' = taken /\ sched' = s
          /\ pc' = [pc EXCEPT ![f] = section[f].back]
          /\ UNCHANGED section
       \/ /\ round = "take" /\ pc[f] = "broadcast"
          /\ cond' = [taken EXCEPT !.waiters = Append(@, f)]
          /\ sched' = ShiftWaits(s, f, taken.queue # <<>>)
          /\ UNCHANGED <<pc, section>>
       \/ round = "again" /\ ShiftCond(f, c, pc[f]) /\ UNCHANGED section

SyncInterrupt(f) ==
    /\ pc[f] = "reacquire" => section[f].style \in FragileStyles
    /\ Interrupt(f, {"lock", "snooze", "wait", "reacquire", "signal", "broadcast"})
    /\ UNCHANGED syncVars

SyncStep(f) ==
    \/ \E style \in Styles : Acquire(f, style)
    \/ Reenter(f) \/ TokenResume(f) \/ Leave(f) \/ Die(f) \/ Snooze(f) \/ SnoozeResume(f)
    \/ Wait(f) \/ WaitResume(f) \/ NotifyResume(f)
    \/ \E call \in {"signal", "broadcast"} : Notify(f, call)

SyncNext ==
    \/ sched.current # NoFiber /\ SyncStep(sched.current)
    \/ \E f \in Fibers : SyncInterrupt(f)

----------------------------------------------------------------------------
(* Properties *)

Holds(f) == \/ pc[f] \in {"in", "snooze"}
            \/ pc[f] \in {"signal", "broadcast"} /\ section[f].back = "in"

\* Whatever wakes a fiber, and although a fiber's test and its taking of the
\* token are in different turns: there is one token, in the store or with the
\* holder; who is in the section is the holder, after a wait too; and the
\* holder is in the section, or dead.
MutualExclusion ==
    /\ mutex.store = (IF mutex.holder = NoFiber THEN 1 ELSE 0)
    /\ \A f \in Fibers : Holds(f) => mutex.holder = f
    /\ mutex.holder # NoFiber => Holds(mutex.holder) \/ HolderIsDead

\* A fiber that sleeps in ConditionVariable#wait is on the queue, where signal
\* finds it: although signals go to fibers that have given up waiting, and
\* broadcasts outlast the fibers they were meant for.
SleepersCanBeSignalled ==
    \A f \in Fibers : pc[f] = "wait" /\ Sleeping(f) => \E i \in DOMAIN cond.queue : cond.queue[i] = f

\* The comment on try_lock: it returns immediately.
TryLockReturns ==
    \A f \in Fibers : pc[f] = "lock" /\ section[f].style = "try" => ~Sleeping(f)
=============================================================================
