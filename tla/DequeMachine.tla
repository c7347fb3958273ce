---------------------------- MODULE DequeMachine ----------------------------
(***************************************************************************)
(* The abstract specification of a ring buffer: a deque and the answer of  *)
(* the last operation.  RingBuffer implements it (RingBuffer!Implements).  *)
(***************************************************************************)
EXTENDS Deque

CONSTANTS
    Values,      \* what callers store
    Nil,         \* Qnil, the answer of a shift on an empty buffer
    MaxCount     \* bound on the number of items

VARIABLES
    dq,          \* the deque
    out          \* what the last operation returned: a value, Nil, or a sequence

Init == dq = EmptyDeque /\ out = Nil

HasRoom == Len(dq.items) < MaxCount

Push(v) == HasRoom /\ dq' = PushItem(dq, v) /\ out' = Nil

Unshift(v) == HasRoom /\ dq' = UnshiftItem(dq, v) /\ out' = Nil

Shift ==
    \/ dq.items = <<>> /\ dq' = dq /\ out' = Nil
    \/ dq.items # <<>> /\ dq' = ShiftItem(dq) /\ out' = Head(dq.items)

ShiftAll == dq' = ClearItems(dq) /\ out' = dq.items

Clear == dq' = ClearItems(dq) /\ out' = Nil

Delete(v) ==
    /\ dq' = DeleteFirst(dq, {i \in DOMAIN dq.items : dq.items[i] = v})
    /\ out' = Nil

Next ==
    \/ \E v \in Values : Push(v) \/ Unshift(v) \/ Delete(v)
    \/ Shift
    \/ ShiftAll
    \/ Clear

Spec == Init /\ [][Next]_<<dq, out>>
=============================================================================
