----------------------------- MODULE RingBuffer -----------------------------
(***************************************************************************)
(* ring_buffer.c: a circular array that grows, indexed with unsigned       *)
(* integers.  runqueue_ring_buffer.c is the same code over {fiber, value}  *)
(* entries.                                                                *)
(*                                                                         *)
(* The array is a function on 0..size-1.  Slots that realloc has just      *)
(* added hold Garbage, and the slot of an item that has been taken keeps   *)
(* it.  The indices are unsigned integers of UintMod values: stepping back *)
(* from 0 wraps to UintMod - 1 before it is reduced modulo the size.       *)
(***************************************************************************)
EXTENDS Naturals, Sequences, FiniteSets

CONSTANTS
    Values,      \* what callers store
    Nil,         \* Qnil
    Garbage,     \* the content of a slot nobody has written
    UintMod,     \* 2^w for the w-bit unsigned int of head and tail
    MaxCount     \* bound on the number of items

ASSUME ValuesAssumption == Nil \notin Values /\ Garbage \notin Values
ASSUME BoundAssumption == MaxCount \in Nat \ {0} /\ UintMod \in Nat \ {0}

\* Doubling a size that divides UintMod gives another one: true of 2^w for up
\* to 2^(w-1) items.
ASSUME UintAssumption ==
    \A n \in 1 .. MaxCount : UintMod % n = 0 => UintMod % (2 * n) = 0

VARIABLES
    buf,         \* the struct: entries, size, count, head, tail
    out          \* what the last operation returned

ringVars == <<buf, out>>

(***************************************************************************)
(* Operators on the struct.                                                *)
(***************************************************************************)
InitialBuffer ==
    [entries |-> [i \in {0} |-> Garbage], size |-> 1,
     count |-> 0, head |-> 0, tail |-> 0]

\* (idx + k) % size, as the code forms the index of the k-th slot after idx.
Ahead(b, idx, k) == (idx + k) % b.size

\* (idx - 1) % size on unsigned integers.
Back(b, idx) == ((idx + UintMod - 1) % UintMod) % b.size

\* Double the array and copy the part that had wrapped round behind the old
\* end.
Reallocated(b) ==
    LET newSize == IF b.size = 1 THEN 4 ELSE 2 * b.size
        wrapped == {i \in 0 .. b.size - 1 : i < b.head /\ i < b.tail}
    IN  [b EXCEPT !.size = newSize,
                  !.entries = [i \in 0 .. newSize - 1 |->
                                 IF i < b.size THEN b.entries[i]
                                 ELSE IF i - b.size \in wrapped
                                      THEN b.entries[i - b.size]
                                      ELSE Garbage]]

\* Mutant: the tail keeps its index, which now is inside the items.
ResizeKeepsTail(b) == Reallocated(b)

\* ring_buffer_resize: grow, and put the tail behind the last item.
Resize(b) == [Reallocated(b) EXCEPT !.tail = b.head + b.count]

WithRoom(b) == IF b.count = b.size THEN Resize(b) ELSE b

PushBuffer(b, v) ==
    LET r == WithRoom(b)
    IN  [r EXCEPT !.entries[r.tail] = v,
                  !.tail = Ahead(r, r.tail, 1),
                  !.count = @ + 1]

UnshiftBuffer(b, v) ==
    LET r == WithRoom(b)
        h == Back(r, r.head)
    IN  [r EXCEPT !.entries[h] = v, !.head = h, !.count = @ + 1]

ShiftBuffer(b) == [b EXCEPT !.head = Ahead(b, b.head, 1), !.count = @ - 1]

ClearBuffer(b) == [b EXCEPT !.count = 0, !.head = 0, !.tail = 0]

\* ring_buffer_delete_at: every slot from idx up to the tail takes the value
\* of the slot after it.  The loop ends when it meets the tail, so its number
\* of rounds is the distance from idx to the tail, which is 0 when they are
\* the same slot.
DeleteAtBuffer(b, idx) ==
    LET distance(i) == (i + b.size - idx) % b.size
    IN  [b EXCEPT !.entries = [i \in 0 .. b.size - 1 |->
                                 IF distance(i) < distance(b.tail)
                                 THEN b.entries[Ahead(b, i, 1)]
                                 ELSE b.entries[i]],
                  !.count = @ - 1,
                  !.tail = Back(b, b.tail)]

\* The items the buffer holds, first to last, as mark, shift_each and
\* shift_all enumerate them.
Contents(b) == [i \in 1 .. b.count |-> b.entries[Ahead(b, b.head, i - 1)]]

\* The distances from the head at which v is stored.
Matches(b, v) == {k \in 0 .. b.count - 1 : b.entries[Ahead(b, b.head, k)] = v}

\* Mutant: the search does not stop at the first match.
DeleteBufferLast(b, v) ==
    IF Matches(b, v) = {} THEN b
    ELSE DeleteAtBuffer(b, Ahead(b, b.head,
            CHOOSE k \in Matches(b, v) : \A j \in Matches(b, v) : k >= j))

\* ring_buffer_delete: delete the first item equal to v.
DeleteBuffer(b, v) ==
    IF Matches(b, v) = {} THEN b
    ELSE DeleteAtBuffer(b, Ahead(b, b.head,
            CHOOSE k \in Matches(b, v) : \A j \in Matches(b, v) : k <= j))
-----------------------------------------------------------------------------
RingInit == buf = InitialBuffer /\ out = Nil

HasRoom == buf.count < MaxCount

Push(v) == HasRoom /\ buf' = PushBuffer(buf, v) /\ out' = Nil

Unshift(v) == HasRoom /\ buf' = UnshiftBuffer(buf, v) /\ out' = Nil

Shift ==
    \/ buf.count = 0 /\ out' = Nil /\ UNCHANGED buf
    \/ buf.count > 0 /\ out' = buf.entries[buf.head] /\ buf' = ShiftBuffer(buf)

ShiftAll == buf' = ClearBuffer(buf) /\ out' = Contents(buf)

Clear == buf' = ClearBuffer(buf) /\ out' = Nil

Delete(v) == buf' = DeleteBuffer(buf, v) /\ out' = Nil

RingNext ==
    \/ \E v \in Values : Push(v) \/ Unshift(v) \/ Delete(v)
    \/ Shift
    \/ ShiftAll
    \/ Clear

RingSpec == RingInit /\ [][RingNext]_ringVars
-----------------------------------------------------------------------------
\* The representation invariant of the struct: the indices stay inside the
\* array, the tail is count slots after the head, and no slot that holds an
\* item was left uninitialised by realloc.
RepInv ==
    /\ buf.size \in Nat \ {0}
    /\ buf.entries \in [0 .. buf.size - 1 -> Values \cup {Garbage}]
    /\ buf.count \in 0 .. buf.size
    /\ buf.head \in 0 .. buf.size - 1
    /\ buf.tail = Ahead(buf, buf.head, buf.count)
    /\ \A k \in 0 .. buf.count - 1 :
          buf.entries[Ahead(buf, buf.head, k)] \in Values

Abstract == INSTANCE DequeMachine
              WITH dq <- [items |-> Contents(buf), size |-> buf.size]

\* Every operation on the circular array, growth and wrap-round included, is
\* the operation of the same name on a plain sequence (ring_buffer.c).
Implements == Abstract!Spec

\* What the comment on Queue#delete says of ring_buffer_delete: it removes
\* the given value, and nothing else, from the queue.
DeleteRemovesValue ==
    [][\A v \in Values :
          Delete(v) =>
            LET s == Contents(buf)
                at == {i \in DOMAIN s : s[i] = v}
            IN  IF at = {} THEN Contents(buf)' = s
                ELSE \E i \in at : /\ \A j \in at : i <= j
                                   /\ Contents(buf)' =
                                        SubSeq(s, 1, i - 1) \o SubSeq(s, i + 1, Len(s))]_ringVars
=============================================================================
