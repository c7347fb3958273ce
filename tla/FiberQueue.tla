----------------------------- MODULE FiberQueue -----------------------------
(***************************************************************************)
(* queue.c: Polyphony::Queue, a queue shared by fibers, capped or not.     *)
(*                                                                         *)
(* A consumer that finds the queue empty and a producer that finds it full *)
(* put themselves on a wait queue and switch away; whoever makes a value   *)
(* or a slot available takes the first waiter off its queue and schedules  *)
(* it.  Until the waiter runs anything may happen: another fiber may take  *)
(* what it was woken for, and an exception (a timeout, a termination) may  *)
(* be scheduled for it.                                                    *)
(*                                                                         *)
(* Every call runs under the global VM lock up to its next switch, and is  *)
(* one action.  The fibers are on threads of their own, so those that are  *)
(* scheduled may run in any order.  A fiber's wakeup is the value of its   *)
(* run queue entry; a plain value does not displace an exception           *)
(* (Scheduler!RunqueuePush).                                               *)
(***************************************************************************)
EXTENDS Naturals, Sequences, FiniteSets, Deque, FiberSet

CONSTANTS
    Items,        \* the values put into the queue, each at most once at a time
    Capacities,   \* the arguments of new and cap; 0 is uncapped
    Calls,        \* which calls the program makes (see CallNames)
    NoItem

CallNames ==
    {"push", "unshift", "shift", "shift_nonblock", "delete", "cap", "clear",
     "shift_all", "shift_each", "flush_waiters", "close", "cancel"}

ASSUME QueueAssumption ==
    /\ IsFiniteSet(Fibers)
    /\ NoItem \notin Items
    /\ Capacities \subseteq Nat
    /\ Calls \subseteq CallNames

VARIABLES
    values,       \* the queue's values, a deque
    shiftQueue,   \* fibers waiting to remove a value, a deque
    pushQueue,    \* fibers waiting to add one, a deque
    capacity,     \* 0 if uncapped
    closed,
    doing,        \* the blocking call every fiber is in, or "ruby"
    item,         \* the value a blocked producer wants to add
    wakeup,       \* the resume value every fiber is scheduled with, or "none"
    position,     \* the index of every fiber that is inside shift_each
    faults        \* history: which faults have happened (see Faults)

vars == <<values, shiftQueue, pushQueue, capacity, closed, doing, item, wakeup,
          position, faults>>

Blocking == {"shift", "push", "unshift"}
Wakeups == {"none", "nil", "exception"}

\* "cancel": an exception was scheduled for a waiting fiber; "misdelete": a
\* fiber that left a full wait queue from its head dropped the last waiter.
Faults == {"cancel", "misdelete"}

Count == Len(values.items)
\* Mutant: a full queue has room for one more.
HasRoomPastEnd == capacity >= Count

HasRoom == capacity > Count

Present == {values.items[i] : i \in DOMAIN values.items}

Init ==
    /\ values = EmptyDeque
    /\ shiftQueue = EmptyDeque
    /\ pushQueue = EmptyDeque
    /\ capacity \in Capacities
    /\ closed = FALSE
    /\ doing = [f \in Fibers |-> "ruby"]
    /\ item = [f \in Fibers |-> NoItem]
    /\ wakeup = [f \in Fibers |-> "none"]
    /\ position = [f \in Fibers |-> 0]
    /\ faults = {}
-----------------------------------------------------------------------------
\* Fiber_make_runnable for a set of fibers.  A fiber that is not waiting on
\* the queue is resumed elsewhere.
Scheduled(w, fs) ==
    [f \in Fibers |->
        IF f \in fs /\ doing[f] \in Blocking /\ w[f] # "exception" THEN "nil" ELSE w[f]]

FirstWaiters(q, n) == {q.items[i] : i \in 1 .. n}
WithoutFirst(q, n) == [q EXCEPT !.items = SubSeq(@, n + 1, Len(@))]

\* queue_schedule_first_blocked_fiber takes one waiter, if there is one.
One(q) == IF q.items = <<>> THEN 0 ELSE 1

\* How many producers queue_schedule_blocked_fibers_to_capacity takes when the
\* queue holds n values and the capacity is c.
ToCapacity(n, c) ==
    IF c <= n THEN 0 ELSE Min({c - n, Len(pushQueue.items)})

\* Wakes the first n producers, with w the wakeups so far.
WakeProducers(w, n) ==
    /\ wakeup' = Scheduled(w, FirstWaiters(pushQueue, n))
    /\ pushQueue' = WithoutFirst(pushQueue, n)

\* Mutant: the count is compared before the removal.
AfterRemovalLate(n) == IF capacity # 0 /\ capacity > n + 1 THEN One(pushQueue) ELSE 0

\* The number of producers a removal wakes, when n values are left.
AfterRemoval(n) == IF capacity # 0 /\ capacity > n THEN One(pushQueue) ELSE 0

Positions(q, x) == {i \in DOMAIN q.items : q.items[i] = x}

\* The fault, if any, of deleting fiber f from wait queue q.
Misdelete(q, f) ==
    IF Positions(q, f) # {} /\ Misdeletes(q, Min(Positions(q, f)))
    THEN {"misdelete"} ELSE {}
-----------------------------------------------------------------------------
(***************************************************************************)
(* Adding a value.                                                         *)
(***************************************************************************)
\* Mutant: the value is added and nobody is woken.
AddSilently(f, kind, x, w) ==
    /\ wakeup' = w
    /\ values' = IF kind = "push" THEN PushItem(values, x) ELSE UnshiftItem(values, x)
    /\ UNCHANGED shiftQueue
    /\ doing' = [doing EXCEPT ![f] = "ruby"]
    /\ item' = [item EXCEPT ![f] = NoItem]

\* The end of Queue_push and Queue_unshift: wake a consumer, add the value.
Add(f, kind, x, w) ==
    LET n == One(shiftQueue) IN
    /\ wakeup' = Scheduled(w, FirstWaiters(shiftQueue, n))
    /\ shiftQueue' = WithoutFirst(shiftQueue, n)
    /\ values' = IF kind = "push" THEN PushItem(values, x) ELSE UnshiftItem(values, x)
    /\ doing' = [doing EXCEPT ![f] = "ruby"]
    /\ item' = [item EXCEPT ![f] = NoItem]

\* Queue_push or Queue_unshift on an uncapped queue.
Push(f, kind, x) ==
    /\ doing[f] = "ruby" /\ kind \in Calls
    /\ x \notin Present /\ \A g \in Fibers : item[g] # x
    /\ ~closed /\ capacity = 0
    /\ Add(f, kind, x, wakeup)
    /\ UNCHANGED <<pushQueue, capacity, closed, position, faults>>

\* On a capped queue the producer waits at least once: it schedules itself
\* first if there is room.
PushCapped(f, kind, x) ==
    /\ doing[f] = "ruby" /\ kind \in Calls
    /\ x \notin Present /\ \A g \in Fibers : item[g] # x
    /\ ~closed /\ capacity # 0
    /\ doing' = [doing EXCEPT ![f] = kind]
    /\ item' = [item EXCEPT ![f] = x]
    /\ wakeup' = IF HasRoom THEN [wakeup EXCEPT ![f] = "nil"] ELSE wakeup
    /\ pushQueue' = PushItem(pushQueue, f)
    /\ UNCHANGED <<values, shiftQueue, capacity, closed, position, faults>>

\* One round of the loop of capped_queue_block_push: raise, add or wait again.
PushResume(f) ==
    LET left == DeleteFirst(pushQueue, Positions(pushQueue, f))
        w == [wakeup EXCEPT ![f] = "none"]
    IN
    /\ doing[f] \in {"push", "unshift"} /\ wakeup[f] # "none"
    /\ faults' = faults \cup Misdelete(pushQueue, f)
    /\ \/ /\ wakeup[f] = "exception"
          /\ wakeup' = w /\ pushQueue' = left
          /\ doing' = [doing EXCEPT ![f] = "ruby"]
          /\ item' = [item EXCEPT ![f] = NoItem]
          /\ UNCHANGED <<values, shiftQueue>>
       \/ /\ wakeup[f] = "nil" /\ HasRoom
          /\ pushQueue' = left
          /\ Add(f, doing[f], item[f], w)
       \/ /\ wakeup[f] = "nil" /\ ~HasRoom
          /\ wakeup' = w /\ pushQueue' = PushItem(left, f)
          /\ UNCHANGED <<values, shiftQueue, doing, item>>
    /\ UNCHANGED <<capacity, closed, position>>
-----------------------------------------------------------------------------
(***************************************************************************)
(* Removing values.                                                        *)
(***************************************************************************)
\* Queue_shift_block: the consumer too waits at least once.
Shift(f) ==
    /\ doing[f] = "ruby" /\ "shift" \in Calls
    /\ ~(closed /\ Count = 0)
    /\ doing' = [doing EXCEPT ![f] = "shift"]
    /\ wakeup' = IF Count > 0 THEN [wakeup EXCEPT ![f] = "nil"] ELSE wakeup
    /\ shiftQueue' = PushItem(shiftQueue, f)
    /\ UNCHANGED <<values, pushQueue, capacity, closed, item, position, faults>>

\* The first value goes to its receiver; a producer may be woken.
TakeFirst(w) ==
    /\ values' = ShiftItem(values)
    /\ WakeProducers(w, AfterRemoval(Count - 1))

\* One round of the loop: raise, take a value, return nil or wait again.
ShiftResume(f) ==
    LET left == DeleteFirst(shiftQueue, Positions(shiftQueue, f))
        w == [wakeup EXCEPT ![f] = "none"]
    IN
    /\ doing[f] = "shift" /\ wakeup[f] # "none"
    /\ faults' = faults \cup Misdelete(shiftQueue, f)
    /\ \/ /\ wakeup[f] = "exception" \/ (Count = 0 /\ closed)
          /\ wakeup' = w /\ shiftQueue' = left
          /\ doing' = [doing EXCEPT ![f] = "ruby"]
          /\ UNCHANGED <<values, pushQueue>>
       \/ /\ wakeup[f] = "nil" /\ Count > 0
          /\ shiftQueue' = left
          /\ doing' = [doing EXCEPT ![f] = "ruby"]
          /\ TakeFirst(w)
       \/ /\ wakeup[f] = "nil" /\ Count = 0 /\ ~closed
          /\ wakeup' = w /\ shiftQueue' = PushItem(left, f)
          /\ UNCHANGED <<values, pushQueue, doing>>
    /\ UNCHANGED <<capacity, closed, item, position>>

ShiftNonblock(f) ==
    /\ doing[f] = "ruby" /\ "shift_nonblock" \in Calls
    /\ Count > 0
    /\ TakeFirst(wakeup)
    /\ UNCHANGED <<shiftQueue, capacity, closed, doing, item, position, faults>>

\* Queue_delete.
Delete(f, x) ==
    /\ doing[f] = "ruby" /\ "delete" \in Calls
    /\ values' = DeleteFirst(values, Positions(values, x))
    /\ WakeProducers(wakeup, AfterRemoval(Len(values'.items)))
    /\ UNCHANGED <<shiftQueue, capacity, closed, doing, item, position, faults>>

\* Queue_clear, and Queue_shift_all, which hands all the values over.
Empties(f, call) ==
    /\ doing[f] = "ruby" /\ call \in Calls
    /\ values' = ClearItems(values)
    /\ WakeProducers(wakeup, ToCapacity(0, capacity))
    /\ UNCHANGED <<shiftQueue, capacity, closed, doing, item, position, faults>>

Clear(f) == Empties(f, "clear")
ShiftAll(f) == Empties(f, "shift_all")

\* Queue_shift_each yields the values one by one, and other fibers may run
\* while the block does; only at the end is the queue emptied.  A block that
\* breaks or raises leaves it as it is.
EachStart(f) ==
    /\ doing[f] = "ruby" /\ "shift_each" \in Calls
    /\ doing' = [doing EXCEPT ![f] = "each"]
    /\ position' = [position EXCEPT ![f] = 0]
    /\ UNCHANGED <<values, shiftQueue, pushQueue, capacity, closed, item, wakeup, faults>>

EachYield(f) ==
    /\ doing[f] = "each" /\ position[f] < Count
    /\ position' = [position EXCEPT ![f] = @ + 1]
    /\ UNCHANGED <<values, shiftQueue, pushQueue, capacity, closed, doing, item, wakeup, faults>>

EachEnd(f) ==
    /\ doing[f] = "each"
    /\ doing' = [doing EXCEPT ![f] = "ruby"]
    /\ position' = [position EXCEPT ![f] = 0]
    /\ \/ /\ position[f] >= Count
          /\ values' = ClearItems(values)
          /\ WakeProducers(wakeup, ToCapacity(0, capacity))
       \/ /\ 0 < position[f]
          /\ UNCHANGED <<values, pushQueue, wakeup>>
    /\ UNCHANGED <<shiftQueue, capacity, closed, item, faults>>
-----------------------------------------------------------------------------
(***************************************************************************)
(* Control.                                                                *)
(***************************************************************************)
\* Queue_cap.
Cap(f, c) ==
    /\ doing[f] = "ruby" /\ "cap" \in Calls
    /\ c # capacity
    /\ capacity' = c
    /\ WakeProducers(wakeup, IF c # 0 THEN ToCapacity(Count, c) ELSE Len(pushQueue.items))
    /\ UNCHANGED <<values, shiftQueue, closed, doing, item, position, faults>>

\* Every waiting consumer is taken off the queue and scheduled.
ReleaseConsumers ==
    LET n == Len(shiftQueue.items) IN
    /\ wakeup' = Scheduled(wakeup, FirstWaiters(shiftQueue, n))
    /\ shiftQueue' = WithoutFirst(shiftQueue, n)

FlushWaiters(f) ==
    /\ doing[f] = "ruby" /\ "flush_waiters" \in Calls
    /\ ReleaseConsumers
    /\ UNCHANGED <<values, pushQueue, capacity, closed, doing, item, position, faults>>

Close(f) ==
    /\ doing[f] = "ruby" /\ "close" \in Calls
    /\ ~closed /\ closed' = TRUE
    /\ ReleaseConsumers
    /\ UNCHANGED <<values, pushQueue, capacity, doing, item, position, faults>>

\* An exception is scheduled for a fiber that waits on the queue.
Cancel(f) ==
    /\ "cancel" \in Calls
    /\ doing[f] \in Blocking
    /\ wakeup' = [wakeup EXCEPT ![f] = "exception"]
    /\ faults' = faults \cup {"cancel"}
    /\ UNCHANGED <<values, shiftQueue, pushQueue, capacity, closed, doing, item, position>>
-----------------------------------------------------------------------------
Resume(f) == PushResume(f) \/ ShiftResume(f)

Next ==
    \E f \in Fibers :
        \/ Resume(f)
        \/ \E kind \in {"push", "unshift"}, x \in Items :
              Push(f, kind, x) \/ PushCapped(f, kind, x)
        \/ Shift(f) \/ ShiftNonblock(f)
        \/ \E x \in Items : Delete(f, x)
        \/ Clear(f) \/ ShiftAll(f)
        \/ EachStart(f) \/ EachYield(f) \/ EachEnd(f)
        \/ \E c \in Capacities : Cap(f, c)
        \/ FlushWaiters(f) \/ Close(f) \/ Cancel(f)

Spec == Init /\ [][Next]_vars

\* A fiber that is scheduled runs.
FairSpec == Spec /\ \A f \in Fibers : WF_vars(Resume(f))
-----------------------------------------------------------------------------
(***************************************************************************)
(* Properties.                                                             *)
(***************************************************************************)
\* The values of the fields of Queue_t and of the fibers that use it.
TypeOK ==
    /\ values \in Deques(Items)
    /\ shiftQueue \in Deques(Fibers)
    /\ pushQueue \in Deques(Fibers)
    /\ capacity \in Capacities
    /\ closed \in BOOLEAN
    /\ doing \in [Fibers -> Blocking \cup {"ruby", "each"}]
    /\ item \in [Fibers -> Items \cup {NoItem}]
    /\ wakeup \in [Fibers -> Wakeups]
    /\ position \in [Fibers -> Nat]
    /\ faults \subseteq Faults

Consumers == {f \in Fibers : doing[f] = "shift"}
Producers == {f \in Fibers : doing[f] \in {"push", "unshift"}}
Asleep(fs) == {f \in fs : wakeup[f] = "none"}
Woken(fs) == {f \in fs : wakeup[f] = "nil"}

\* A fiber that waits and has not been scheduled can be found: it is on its
\* wait queue, once, unless a fiber that left a full one has dropped it.  Every
\* fiber on a wait queue is waiting.
WaitersAreQueued ==
    "misdelete" \in faults \/
    /\ \A f \in Asleep(Consumers) : Cardinality(Positions(shiftQueue, f)) = 1
    /\ \A f \in Asleep(Producers) : Cardinality(Positions(pushQueue, f)) = 1
    /\ \A i \in DOMAIN shiftQueue.items : shiftQueue.items[i] \in Consumers
    /\ \A i \in DOMAIN pushQueue.items : pushQueue.items[i] \in Producers

\* No consumer sleeps while there is a value no woken consumer will take,
\* whatever happened to the values since the consumers were woken.  (A waiter
\* that is cancelled or dropped does take its wakeup with it.)
NoStarvedConsumer ==
    faults = {} /\ Asleep(Consumers) # {} => Count <= Cardinality(Woken(Consumers))

\* No producer sleeps while a capped queue has room no woken producer will use,
\* with the same exception.
NoStarvedProducer ==
    faults = {} /\ Asleep(Producers) # {} /\ capacity > Count
        => capacity - Count <= Cardinality(Woken(Producers))

\* Both sides of the queue.
NobodyStarves == NoStarvedConsumer /\ NoStarvedProducer

\* The comment on Queue#initialize: no call adds a value to a capped queue
\* that is full, however many producers were woken for the same slot.
CapacityIsRespected ==
    [][Len(values'.items) > Count /\ capacity # 0 => Len(values'.items) <= capacity]_vars

\* Values and sleeping consumers do not stay together: the consumers that were
\* woken take the values, even if others come first, as long as no wakeup was
\* lost with a waiter.
ConsumersProgress ==
    (Count > 0 /\ Asleep(Consumers) # {}) ~>
        (Count = 0 \/ Asleep(Consumers) = {} \/ faults # {})

\* Nor do room in a capped queue and sleeping producers.
ProducersProgress ==
    (capacity > Count /\ Asleep(Producers) # {}) ~>
        (capacity <= Count \/ Asleep(Producers) = {} \/ faults # {})

\* Both sides of the queue.
WaitersProgress == ConsumersProgress /\ ProducersProgress

\* The class comment: a consumer blocked on an empty queue is released when a
\* value is added, whatever happens to the other consumers.
ConsumersAreReleased ==
    (Count > 0 /\ Asleep(Consumers) # {}) ~> (Count = 0 \/ Asleep(Consumers) = {})

\* The comment on Queue#cap: a producer does not stay blocked on a queue that
\* is not full, or has become uncapped.
ProducersAreReleased ==
    (Asleep(Producers) # {} /\ (capacity = 0 \/ capacity > Count))
        ~> (Asleep(Producers) = {} \/ (capacity # 0 /\ capacity <= Count))

\* The fields are typed and every waiter can be found.
WellFormed == TypeOK /\ WaitersAreQueued
=============================================================================
