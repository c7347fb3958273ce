---------------------------- MODULE DequeProofs ----------------------------
(***************************************************************************)
(* What the operations of Deque keep: every one of them gives a deque, and *)
(* no item is lost, except by a delete that hits the first item of a full  *)
(* buffer.                                                                 *)
(***************************************************************************)
EXTENDS Deque, SequenceTheorems, WellFoundedInduction, TLAPS

\* The items of a deque, wherever they are.
ItemsOf(d) == Range(d.items)

(***************************************************************************)
(* A set of natural numbers that is not empty has a least element, so the  *)
(* first position that delete looks for is one of the positions.           *)
(***************************************************************************)
LEMMA MinOfNats ==
  ASSUME NEW S \in SUBSET Nat, S # {}
  PROVE  Min(S) \in S /\ \A y \in S : Min(S) <= y
<1>1. PICK x \in S : \A y \in S : ~(<<y, x>> \in OpToRel(<, Nat))
  BY WFMin, NatLessThanWellFounded, Zenon
<1>2. \A y \in S : ~(y < x)
  <2>1. ASSUME NEW y \in S, y < x PROVE <<y, x>> \in OpToRel(<, Nat)
    BY <2>1, Zenon DEF OpToRel
  <2>2. QED
    BY <1>1, <2>1
<1>3. \A y \in S : x <= y
  BY <1>2, SMT
<1>4. QED
  BY <1>3, Zenon DEF Min

(***************************************************************************)
(* A buffer that is full grows before an item is added (GrownSize).        *)
(***************************************************************************)
LEMMA RoomForOneMore ==
  ASSUME NEW Items, NEW d \in Deques(Items)
  PROVE  GrownSize(d) \in Nat \ {0} /\ Len(d.items) + 1 <= GrownSize(d)
  BY DEF Deques, GrownSize, IsFull

LEMMA RangeOfOne ==
  ASSUME NEW e
  PROVE  Range(<<e>>) = {e}
  BY DEF Range

(***************************************************************************)
(* ring_buffer_push and ring_buffer_unshift add the item and keep the      *)
(* others, growing the array when it is full.                              *)
(***************************************************************************)
LEMMA PushKeeps ==
  ASSUME NEW Items, NEW d \in Deques(Items), NEW e \in Items
  PROVE  /\ PushItem(d, e) \in Deques(Items)
         /\ ItemsOf(PushItem(d, e)) = ItemsOf(d) \cup {e}
<1>1. d.items \in Seq(Items) /\ <<e>> \in Seq(Items)
  BY DEF Deques
<1>2. PushItem(d, e) \in Deques(Items)
  BY RoomForOneMore DEF Deques, PushItem
<1>3. Range(Append(d.items, e)) = Range(d.items) \cup {e}
  <2>1. Append(d.items, e) = d.items \o <<e>>
    BY <1>1, AppendIsConcat, Zenon
  <2>2. Range(d.items \o <<e>>) = Range(d.items) \cup Range(<<e>>)
    BY <1>1, RangeConcatenation, Zenon
  <2>3. QED
    BY <2>1, <2>2, RangeOfOne, Zenon
<1>4. PushItem(d, e).items = Append(d.items, e)
  BY DEF PushItem
<1>5. QED
  BY <1>2, <1>3, <1>4, Zenon DEF ItemsOf

LEMMA UnshiftKeeps ==
  ASSUME NEW Items, NEW d \in Deques(Items), NEW e \in Items
  PROVE  /\ UnshiftItem(d, e) \in Deques(Items)
         /\ ItemsOf(UnshiftItem(d, e)) = ItemsOf(d) \cup {e}
<1>1. d.items \in Seq(Items) /\ <<e>> \in Seq(Items)
  BY DEF Deques
<1>2. UnshiftItem(d, e) \in Deques(Items)
  BY RoomForOneMore DEF Deques, UnshiftItem
<1>3. Range(<<e>> \o d.items) = Range(d.items) \cup {e}
  <2>1. Range(<<e>> \o d.items) = Range(<<e>>) \cup Range(d.items)
    BY <1>1, RangeConcatenation, Zenon
  <2>2. QED
    BY <2>1, RangeOfOne, Zenon
<1>4. UnshiftItem(d, e).items = <<e>> \o d.items
  BY DEF UnshiftItem
<1>5. QED
  BY <1>2, <1>3, <1>4, Zenon DEF ItemsOf

(***************************************************************************)
(* ring_buffer_shift takes the first item and keeps the others.            *)
(***************************************************************************)
LEMMA ShiftKeeps ==
  ASSUME NEW Items, NEW d \in Deques(Items), d.items # <<>>
  PROVE  /\ Head(d.items) \in Items
         /\ ShiftItem(d) \in Deques(Items)
         /\ ItemsOf(d) = ItemsOf(ShiftItem(d)) \cup {Head(d.items)}
<1>1. d.items \in Seq(Items) /\ Head(d.items) \in Items
  BY DEF Deques
<1>2. /\ Tail(d.items) \in Seq(Items) /\ <<Head(d.items)>> \in Seq(Items)
      /\ Len(Tail(d.items)) = Len(d.items) - 1
      /\ d.items = <<Head(d.items)>> \o Tail(d.items)
  BY <1>1
<1>3. ShiftItem(d).items = Tail(d.items) /\ ShiftItem(d) \in Deques(Items)
  BY <1>1, <1>2 DEF ShiftItem, Deques
<1>4. Range(d.items) = Range(<<Head(d.items)>>) \cup Range(Tail(d.items))
  BY <1>2, RangeConcatenation, Zenon
<1>5. QED
  BY <1>1, <1>3, <1>4, RangeOfOne, Zenon DEF ItemsOf

(***************************************************************************)
(* ring_buffer_delete_at takes one item away.  Unless the item is the      *)
(* first one of a full buffer the others are kept.                         *)
(***************************************************************************)
LEMMA DeleteAtKeeps ==
  ASSUME NEW Items, NEW d \in Deques(Items), NEW i \in 1 .. Len(d.items)
  PROVE  /\ DeleteAt(d, i) \in Deques(Items)
         /\ Len(DeleteAt(d, i).items) = Len(d.items) - 1
         /\ ItemsOf(DeleteAt(d, i)) \subseteq ItemsOf(d)
         /\ ~Misdeletes(d, i) => ItemsOf(d) = ItemsOf(DeleteAt(d, i)) \cup {d.items[i]}
<1> DEFINE s == d.items
           before == SubSeq(s, 1, i - 1)
           after == SubSeq(s, i + 1, Len(s))
           left == IF Misdeletes(d, i) THEN Front(s) ELSE before \o after
<1>1. /\ s \in Seq(Items) /\ Len(s) \in Nat /\ d.size \in Nat \ {0} /\ Len(s) <= d.size
      /\ s[i] \in Items /\ s[Len(s)] \in Items
  BY DEF Deques
<1>2. /\ before \in Seq(Items) /\ Len(before) = i - 1
      /\ after \in Seq(Items) /\ Len(after) = Len(s) - i
      /\ \A k \in 1 .. i - 1 : before[k] = s[k]
      /\ \A k \in 1 .. Len(s) - i : after[k] = s[i + k]
  BY <1>1
<1>3. Front(s) \in Seq(Items) /\ Len(Front(s)) = Len(s) - 1
  BY <1>1 DEF Front
<1>4. left \in Seq(Items) /\ Len(left) = Len(s) - 1
  <2>1. before \o after \in Seq(Items) /\ Len(before \o after) = Len(before) + Len(after)
    BY <1>2, ConcatProperties, Zenon
  <2> HIDE DEF s, before, after
  <2>2. QED
    BY <1>1, <1>2, <1>3, <2>1 DEF s
<1>5. Range(s) = Range(before \o after) \cup {s[i]}
  <2>1. SubSeq(s, 1, i) = before \o <<s[i]>> /\ s = SubSeq(s, 1, i) \o after
    BY <1>1, SubSeqRecursiveSecond, ConcatAdjacentSubSeq, SubSeqFull
  <2>2. <<s[i]>> \in Seq(Items) /\ SubSeq(s, 1, i) \in Seq(Items)
    BY <1>1
  <2>3. Range(SubSeq(s, 1, i) \o after) = Range(SubSeq(s, 1, i)) \cup Range(after)
    BY <1>2, <2>2, RangeConcatenation, Zenon
  <2>4. Range(SubSeq(s, 1, i)) = Range(before) \cup Range(<<s[i]>>)
    BY <1>1, <1>2, <2>1, <2>2, RangeConcatenation, Zenon
  <2>5. Range(before \o after) = Range(before) \cup Range(after)
    BY <1>2, RangeConcatenation, Zenon
  <2>6. Range(<<s[i]>>) = {s[i]}
    BY RangeOfOne, Zenon
  <2> HIDE DEF s, before, after
  <2>7. QED
    BY <2>1, <2>3, <2>4, <2>5, <2>6, Zenon
<1>6. Range(Front(s)) \subseteq Range(s)
  BY <1>1, <1>3 DEF Range, Front
<1>7. DeleteAt(d, i) = [d EXCEPT !.items = left]
  BY DEF DeleteAt, RemoveAt
<1>8. DeleteAt(d, i).items = left /\ DeleteAt(d, i) \in Deques(Items)
  <2> HIDE DEF left
  <2>1. QED
    BY <1>1, <1>4, <1>7 DEF Deques
<1> HIDE DEF s, before, after, left
<1>9. Range(DeleteAt(d, i).items) \subseteq Range(s)
  BY <1>5, <1>6, <1>8 DEF left
<1>10. ~Misdeletes(d, i) => Range(s) = Range(DeleteAt(d, i).items) \cup {s[i]}
  BY <1>5, <1>8 DEF left
<1>11. Len(DeleteAt(d, i).items) = Len(d.items) - 1
  BY <1>4, <1>8 DEF s
<1>12. QED
  BY <1>8, <1>9, <1>10, <1>11, Zenon DEF ItemsOf, s

\* A sequence without its i-th element.
LEMMA RemovedAt ==
  ASSUME NEW S, NEW s \in Seq(S), NEW i \in 1 .. Len(s)
  PROVE  /\ RemoveAt(s, i) \in Seq(S) /\ Len(RemoveAt(s, i)) = Len(s) - 1
         /\ \A k \in 1 .. Len(s) - 1 : RemoveAt(s, i)[k] = IF i <= k THEN s[k + 1] ELSE s[k]
<1> DEFINE t == RemoveAt(s, i)
           a == SubSeq(s, 1, i - 1)
           b == SubSeq(s, i + 1, Len(s))
<1>1. /\ a \in Seq(S) /\ Len(a) = i - 1 /\ b \in Seq(S) /\ Len(b) = Len(s) - i /\ Len(s) \in Nat
      /\ \A k \in 1 .. i - 1 : a[k] = s[k]
      /\ \A k \in 1 .. Len(s) - i : b[k] = s[i + k]
  OBVIOUS
<1>2. t = a \o b
  BY DEF RemoveAt
<1> HIDE DEF a, b, t
<1>3. /\ t \in Seq(S) /\ Len(t) = Len(a) + Len(b)
      /\ \A k \in 1 .. Len(a) + Len(b) : t[k] = IF k <= Len(a) THEN a[k] ELSE b[k - Len(a)]
  BY <1>1, <1>2, ConcatProperties, Zenon
<1>4. Len(t) = Len(s) - 1 /\ Len(a) + Len(b) = Len(s) - 1
  BY <1>1, <1>3
<1>5. ASSUME NEW k \in 1 .. Len(s) - 1 PROVE t[k] = IF i <= k THEN s[k + 1] ELSE s[k]
  <2>1. CASE ~(i <= k)
    <3>1. k \in 1 .. i - 1 /\ k <= Len(a)
      BY <1>1, <2>1
    <3>2. QED
      BY <1>1, <1>3, <1>4, <2>1, <3>1
  <2>2. CASE i <= k
    <3>1. k - Len(a) \in 1 .. Len(s) - i /\ ~(k <= Len(a)) /\ i + (k - Len(a)) = k + 1
      BY <1>1, <2>2
    <3>2. t[k] = b[k - Len(a)]
      BY <1>3, <1>4, <3>1
    <3>3. b[k - Len(a)] = s[i + (k - Len(a))]
      BY <1>1, <3>1
    <3>4. QED
      BY <2>2, <3>1, <3>2, <3>3
  <2>3. QED
    BY <2>1, <2>2
<1>6. QED
  BY <1>3, <1>4, <1>5 DEF t
=============================================================================
