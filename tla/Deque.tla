------------------------------- MODULE Deque -------------------------------
(***************************************************************************)
(* What the two ring buffers of the extension promise to their callers.    *)
(*                                                                         *)
(* ring_buffer.c (the values and the wait queues of a Polyphony::Queue)    *)
(* and runqueue_ring_buffer.c (the two run queues of a backend) hold a     *)
(* double-ended queue in a circular array.  Seen through head, tail and    *)
(* count, the array is a sequence of items and the number of slots that    *)
(* are allocated for it; everything else is representation.  RingBuffer    *)
(* models the array itself and is shown to implement these operators;      *)
(* Scheduler and FiberQueue are built from them.                           *)
(*                                                                         *)
(* One operation does not do what its name says.  The loop that closes the *)
(* gap when an item is deleted runs while idx2 != tail, so when the buffer *)
(* is full (head = tail) and the item is the first one it does not run at  *)
(* all, and the tail is stepped back over the LAST item.  DeleteAt says    *)
(* so, and every module that deletes inherits it.                          *)
(***************************************************************************)
EXTENDS Naturals, Sequences, SequencesExt

\* A buffer as ring_buffer_init leaves it: no item, one slot.
EmptyDeque == [items |-> <<>>, size |-> 1]

IsFull(d) == Len(d.items) = d.size

\* Mutant: the array is never grown.
GrownSizeStuck(d) == d.size

\* The number of slots once there is room for one more item.
GrownSize(d) ==
    IF ~IsFull(d) THEN d.size ELSE IF d.size = 1 THEN 4 ELSE 2 * d.size

PushItem(d, e) == [items |-> Append(d.items, e), size |-> GrownSize(d)]

UnshiftItem(d, e) == [items |-> <<e>> \o d.items, size |-> GrownSize(d)]

\* The buffer after shift has taken Head(d.items).
ShiftItem(d) == [d EXCEPT !.items = Tail(@)]

ClearItems(d) == [d EXCEPT !.items = <<>>]

\* The case in which the gap is closed at the wrong end.
Misdeletes(d, i) == i = 1 /\ IsFull(d) /\ d.size > 1

DeleteAt(d, i) ==
    [d EXCEPT !.items = IF Misdeletes(d, i)
                        THEN Front(@)
                        ELSE RemoveAt(@, i)]

\* Mutant: the item is found and not deleted.
DeleteFirstKeeps(d, positions) == d

\* Deletes the first of the items at positions; no position, no change.
DeleteFirst(d, positions) ==
    IF positions = {} THEN d ELSE DeleteAt(d, Min(positions))

\* The deques over a set of items: no more items than slots.
Deques(Items) ==
    {d \in [items : Seq(Items), size : Nat \ {0}] : Len(d.items) <= d.size}
=============================================================================
