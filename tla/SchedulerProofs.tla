-------------------------- MODULE SchedulerProofs --------------------------
(***************************************************************************)
(* Proofs about the ring buffer and the scheduler whose run queues are     *)
(* ring buffers, for any number of items, any width of the indices, and    *)
(* any number of threads, fibers and queued entries and any threshold.     *)
(*                                                                         *)
(* The ring buffer: the circular array implements the deque.  All the      *)
(* index arithmetic of ring_buffer.c is of two forms: k slots after an     *)
(* index, with k no more than the size, and one slot before it on unsigned *)
(* integers.  The first lemmas give both without a division; what an       *)
(* operation does to the array is then linear arithmetic on the distances  *)
(* from the head.                                                          *)
(*                                                                         *)
(* The scheduler: the run queue operators come first: each gives a deque   *)
(* of entries and keeps the entries of the other fibers, unless it has hit *)
(* the fault that Misdelete reports.  With that, what is on a run queue    *)
(* matters only as the set of its fibers.                                  *)
(***************************************************************************)
EXTENDS RingBuffer, Scheduler, DequeProofs, FiniteSetTheorems

-----------------------------------------------------------------------------
(* The ring buffer.                                                        *)

\* k slots after h in an array of n slots.
Wrap(n, h, k) == IF h + k < n THEN h + k ELSE (h + k) - n

Slots == Values \cup {Garbage}
Arrays == UNION {[0 .. n - 1 -> Slots] : n \in Nat}

Structs == [entries : Arrays, size : Nat \ {0}, count : Nat, head : Nat, tail : Nat]

\* The parts of RepInv, of any buffer.  The inductive invariant adds that the
\* size divides the number of unsigned integers: stepping back from index 0
\* wraps to the last slot only because it does.
Rep(b) ==
    /\ b \in Structs
    /\ b.entries \in [0 .. b.size - 1 -> Slots]
    /\ b.count <= b.size
    /\ b.head < b.size
    /\ b.tail = Wrap(b.size, b.head, b.count)
    /\ \A k \in 0 .. b.count - 1 : b.entries[Wrap(b.size, b.head, k)] \in Values
    /\ UintMod % b.size = 0

View(b) == [items |-> Contents(b), size |-> b.size]
-----------------------------------------------------------------------------
LEMMA ModLow ==
  ASSUME NEW a \in Nat, NEW n \in Nat \ {0}, a < n
  PROVE  a % n = a
  BY SMT

LEMMA ModHigh ==
  ASSUME NEW a \in Nat, NEW n \in Nat \ {0}, a < n
  PROVE  (a + n) % n = a
  BY SMT

LEMMA ModOf ==
  ASSUME NEW q \in Nat, NEW n \in Nat \ {0}, NEW r \in 0 .. n - 1
  PROVE  (n * q + r) % n = r
  BY SMT

LEMMA DivMod ==
  ASSUME NEW u \in Nat, NEW n \in Nat \ {0}
  PROVE  u = n * (u \div n) + (u % n) /\ u \div n \in Nat
  BY SMT

LEMMA TimesPred ==
  ASSUME NEW n \in Nat, NEW p \in Nat
  PROVE  n * (p + 1) = n * p + n
  BY SMT

\* What n divides is followed by n - 1, one step back.
LEMMA ModPred ==
  ASSUME NEW u \in Nat \ {0}, NEW n \in Nat \ {0}, u % n = 0
  PROVE  (u - 1) % n = n - 1 /\ n <= u
<1> DEFINE q == u \div n
<1>1. u = n * q + (u % n) /\ q \in Nat
  BY DivMod
<1> HIDE DEF q
<1>2. u = n * q
  <2>1. n * q \in Nat
    BY <1>1
  <2>2. QED
    BY <1>1, <2>1
<1>3. q # 0
  BY <1>1, <1>2
<1> DEFINE p == q - 1
<1>4. p \in Nat /\ q = p + 1 /\ n - 1 \in 0 .. n - 1
  BY <1>1, <1>3
<1> HIDE DEF p
<1>5. u - 1 = n * p + (n - 1)
  <2>1. u = n * p + n
    BY <1>2, <1>4, TimesPred
  <2>2. n * p \in Nat
    BY <1>4
  <2>3. QED
    BY <2>1, <2>2
<1>6. (u - 1) % n = n - 1
  BY <1>4, <1>5, ModOf
<1>7. n <= u
  BY ModLow
<1>8. QED
  BY <1>6, <1>7

\* The index of the k-th slot after an index.
LEMMA AheadWraps ==
  ASSUME NEW b, NEW n \in Nat \ {0}, b.size = n, NEW h \in 0 .. n - 1, NEW k \in 0 .. n
  PROVE  Ahead(b, h, k) = Wrap(n, h, k) /\ Wrap(n, h, k) \in 0 .. n - 1
<1>1. CASE h + k < n
  BY <1>1, ModLow DEF Ahead, Wrap
<1>2. CASE ~(h + k < n)
  <2> DEFINE a == h + k - n
  <2>1. a \in Nat /\ a < n /\ h + k = a + n
    BY <1>2
  <2>2. Wrap(n, h, k) = a
    BY <1>2 DEF Wrap
  <2> HIDE DEF a
  <2>3. (a + n) % n = a
    BY <2>1, ModHigh
  <2>4. Ahead(b, h, k) = (h + k) % n
    BY DEF Ahead
  <2>5. QED
    BY <2>1, <2>2, <2>3, <2>4
<1>3. QED
  BY <1>1, <1>2

LEMMA NextWraps ==
  ASSUME NEW b, NEW n \in Nat \ {0}, b.size = n, NEW h \in 0 .. n - 1
  PROVE  Ahead(b, h, 1) = Wrap(n, h, 1) /\ Wrap(n, h, 1) \in 0 .. n - 1
<1>1. PICK k \in 0 .. n : k = 1
  OBVIOUS
<1>2. Ahead(b, h, k) = Wrap(n, h, k) /\ Wrap(n, h, k) \in 0 .. n - 1
  BY AheadWraps
<1>3. QED
  BY <1>1, <1>2, Zenon

\* The slot before an index, on unsigned integers.
LEMMA BackWraps ==
  ASSUME NEW b, NEW n \in Nat \ {0}, b.size = n, UintMod % n = 0, NEW h \in 0 .. n - 1
  PROVE  Back(b, h) = Wrap(n, h, n - 1)
<1> DEFINE U == UintMod
<1>1. U \in Nat \ {0} /\ (U - 1) % n = n - 1 /\ n <= U
  BY BoundAssumption, ModPred
<1>2. Back(b, h) = ((h + U - 1) % U) % n
  BY DEF Back
<1> HIDE DEF U
<1>3. CASE h = 0
  <2>1. h + U - 1 = U - 1 /\ U - 1 \in Nat /\ U - 1 < U
    BY <1>1, <1>3
  <2>2. (U - 1) % U = U - 1
    BY <1>1, <2>1, ModLow
  <2>3. Wrap(n, h, n - 1) = n - 1
    BY <1>3 DEF Wrap
  <2>4. QED
    BY <1>1, <1>2, <2>1, <2>2, <2>3
<1>4. CASE h # 0
  <2> DEFINE a == h - 1
  <2>1. h + U - 1 = a + U /\ a \in Nat /\ a < U /\ a < n
    BY <1>1, <1>4
  <2>2. Wrap(n, h, n - 1) = a
    BY <1>4 DEF Wrap
  <2> HIDE DEF a
  <2>3. (a + U) % U = a /\ a % n = a
    BY <1>1, <2>1, ModHigh, ModLow
  <2>4. QED
    BY <1>2, <2>1, <2>2, <2>3
<1>5. QED
  BY <1>3, <1>4

\* The slots at the distances up to the size.
LEMMA WrapFacts ==
  ASSUME NEW n \in Nat \ {0}, NEW h \in 0 .. n - 1
  PROVE  /\ \A k \in 0 .. n : Wrap(n, h, k) \in 0 .. n - 1
         /\ Wrap(n, h, 0) = h /\ Wrap(n, h, n) = h
  BY DEF Wrap
-----------------------------------------------------------------------------
\* What the representation says, part by part.
LEMMA RepParts ==
  ASSUME NEW b, Rep(b)
  PROVE  /\ b \in Structs /\ b.size \in Nat \ {0} /\ b.count \in 0 .. b.size
         /\ b.head \in 0 .. b.size - 1 /\ b.tail = Wrap(b.size, b.head, b.count)
         /\ b.tail \in 0 .. b.size - 1
         /\ b.entries \in [0 .. b.size - 1 -> Slots]
         /\ \A k \in 0 .. b.count - 1 : b.entries[Wrap(b.size, b.head, k)] \in Values
         /\ UintMod % b.size = 0
<1>1. b.size \in Nat \ {0} /\ b.count \in 0 .. b.size /\ b.head \in 0 .. b.size - 1
  BY DEF Rep, Structs
<1>2. b.tail \in 0 .. b.size - 1
  <2>1. \A k \in 0 .. b.size : Wrap(b.size, b.head, k) \in 0 .. b.size - 1
    BY <1>1, WrapFacts
  <2>2. b.tail = Wrap(b.size, b.head, b.count)
    BY DEF Rep
  <2>3. QED
    BY <1>1, <2>1, <2>2
<1>3. QED
  BY <1>1, <1>2 DEF Rep

\* A struct is represented correctly if its fields are.
LEMMA MakeRep ==
  ASSUME NEW n \in Nat \ {0}, NEW e \in [0 .. n - 1 -> Slots], NEW c \in 0 .. n, NEW h \in 0 .. n - 1,
         NEW t, t = Wrap(n, h, c), UintMod % n = 0, \A k \in 0 .. c - 1 : e[Wrap(n, h, k)] \in Values,
         NEW b, b = [entries |-> e, size |-> n, count |-> c, head |-> h, tail |-> t]
  PROVE  Rep(b)
<1>1. e \in Arrays
  BY DEF Arrays
<1>2. t \in Nat
  BY WrapFacts
<1>3. b \in Structs
  BY <1>1, <1>2 DEF Structs
<1>4. b.entries = e /\ b.size = n /\ b.count = c /\ b.head = h /\ b.tail = t
  OBVIOUS
<1>5. c <= n /\ h < n
  OBVIOUS
<1>6. QED
  BY <1>3, <1>4, <1>5 DEF Rep

\* The items of a buffer, by their distance from the head.
LEMMA ContentsOf ==
  ASSUME NEW b, Rep(b)
  PROVE  /\ Contents(b) \in Seq(Values) /\ Len(Contents(b)) = b.count /\ DOMAIN Contents(b) = 1 .. b.count
         /\ \A i \in 1 .. b.count : Contents(b)[i] = b.entries[Wrap(b.size, b.head, i - 1)]
<1>1. b.size \in Nat \ {0} /\ b.count \in 0 .. b.size /\ b.head \in 0 .. b.size - 1
  BY RepParts
<1>2. \A k \in 0 .. b.count - 1 : b.entries[Wrap(b.size, b.head, k)] \in Values
  BY RepParts
<1>3. ASSUME NEW i \in 1 .. b.count
      PROVE  /\ Ahead(b, b.head, i - 1) = Wrap(b.size, b.head, i - 1)
             /\ b.entries[Wrap(b.size, b.head, i - 1)] \in Values
  <2>1. i - 1 \in 0 .. b.size /\ i - 1 \in 0 .. b.count - 1
    BY <1>1
  <2>2. QED
    BY <1>1, <1>2, <2>1, AheadWraps
<1> DEFINE s == Contents(b)
           c == b.count
           x(i) == b.entries[Wrap(b.size, b.head, i - 1)]
<1>4. s = [i \in 1 .. c |-> x(i)] /\ c \in Nat /\ \A i \in 1 .. c : x(i) \in Values
  BY <1>1, <1>3 DEF Contents
<1> HIDE DEF s, c, x
<1>5. s \in [1 .. c -> Values] /\ \A i \in 1 .. c : s[i] = x(i)
  BY <1>4
<1>6. s \in Seq(Values) /\ Len(s) = c /\ DOMAIN s = 1 .. c
  BY <1>4, <1>5
<1>7. QED
  BY <1>5, <1>6, Zenon DEF s, c, x

\* Buffers with the same items at the same distances hold the same.
LEMMA SameContents ==
  ASSUME NEW b, NEW r, Rep(b), Rep(r), r.count = b.count,
         \A k \in 0 .. b.count - 1 :
            r.entries[Wrap(r.size, r.head, k)] = b.entries[Wrap(b.size, b.head, k)]
  PROVE  Contents(r) = Contents(b)
<1>1. b.count \in Nat
  BY RepParts
<1>2. \A i \in 1 .. b.count : Contents(r)[i] = Contents(b)[i]
  <2> SUFFICES ASSUME NEW i \in 1 .. b.count PROVE Contents(r)[i] = Contents(b)[i]
    OBVIOUS
  <2>1. i - 1 \in 0 .. b.count - 1
    BY <1>1
  <2>2. QED
    BY <2>1, ContentsOf
<1>3. Contents(r) \in Seq(Values) /\ Contents(b) \in Seq(Values)
      /\ Len(Contents(r)) = b.count /\ Len(Contents(b)) = b.count
  BY ContentsOf
<1>4. QED
  BY <1>2, <1>3, SeqEqual

\* ring_buffer_resize: the items are in order from the head, and none of their
\* slots is one that realloc left uninitialised.
LEMMA ResizeKeeps ==
  ASSUME NEW b, Rep(b), b.count = b.size, b.count < MaxCount
  PROVE  /\ Rep(Resize(b)) /\ Resize(b).count = b.count
         /\ Resize(b).size = IF b.size = 1 THEN 4 ELSE 2 * b.size
         /\ Contents(Resize(b)) = Contents(b)
<1> DEFINE s == b.size
           h == b.head
           n == IF s = 1 THEN 4 ELSE 2 * s
           wrapped == {i \in 0 .. s - 1 : i < h /\ i < b.tail}
           e == [i \in 0 .. n - 1 |-> IF i < s THEN b.entries[i]
                                      ELSE IF i - s \in wrapped THEN b.entries[i - s] ELSE Garbage]
           r == Resize(b)
<1>1. /\ b \in Structs /\ s \in Nat \ {0} /\ b.count = s /\ h \in 0 .. s - 1 /\ b.tail = h
      /\ b.entries \in [0 .. s - 1 -> Slots] /\ UintMod % s = 0
      /\ \A k \in 0 .. s - 1 : b.entries[Wrap(s, h, k)] \in Values
  <2>1. Wrap(b.size, b.head, b.size) = b.head
    BY RepParts, WrapFacts
  <2>2. QED
    BY <2>1, RepParts
<1>2. n \in Nat \ {0} /\ s <= n /\ 2 * s <= n
  BY <1>1
<1>3. UintMod % n = 0
  <2>1. s \in 1 .. MaxCount /\ (s = 1 => 2 \in 1 .. MaxCount)
    BY <1>1, BoundAssumption
  <2>2. UintMod % (2 * s) = 0
    BY <1>1, <2>1, UintAssumption
  <2>3. CASE s = 1
    <3>1. UintMod % 2 = 0 /\ 2 \in 1 .. MaxCount
      BY <2>1, <2>2, <2>3
    <3>2. UintMod % (2 * 2) = 0
      BY <3>1, UintAssumption
    <3>3. QED
      BY <2>3, <3>2
  <2>4. QED
    BY <2>2, <2>3
<1>4. Garbage \in Slots
  BY DEF Slots
<1>5. r = [entries |-> e, size |-> n, count |-> s, head |-> h, tail |-> h + s]
  <2>1. Reallocated(b) = [b EXCEPT !.size = n, !.entries = e]
    BY DEF Reallocated
  <2> DEFINE m == n
             f == e
             t == h + s
  <2>2. r = [[b EXCEPT !.size = m, !.entries = f] EXCEPT !.tail = t]
    BY <1>1, <2>1 DEF Resize
  <2>3. b.count = s /\ b.head = h
    BY <1>1
  <2> HIDE DEF m, f, t, r, s, h, n, e
  <2>4. r = [entries |-> f, size |-> m, count |-> s, head |-> h, tail |-> t]
    BY <1>1, <2>2, <2>3 DEF Structs
  <2>5. QED
    BY <2>4 DEF m, f, t
<1>6. e \in [0 .. n - 1 -> Slots]
  <2>1. ASSUME NEW i \in 0 .. n - 1
        PROVE  (IF i < s THEN b.entries[i]
                ELSE IF i - s \in wrapped THEN b.entries[i - s] ELSE Garbage) \in Slots
    BY <1>1, <1>4
  <2> HIDE DEF n, s, wrapped
  <2>2. QED
    BY <2>1
<1>7. ASSUME NEW k \in 0 .. s - 1
      PROVE  Wrap(n, h, k) = h + k /\ e[h + k] = b.entries[Wrap(s, h, k)]
  <2>1. h + k \in 0 .. n - 1 /\ h + k < n
    BY <1>1, <1>2
  <2>2. e[h + k] = IF h + k < s THEN b.entries[h + k]
                   ELSE IF (h + k) - s \in wrapped THEN b.entries[(h + k) - s] ELSE Garbage
    BY <2>1
  <2>3. ~(h + k < s) => (h + k) - s \in wrapped
    BY <1>1
  <2> HIDE DEF e, wrapped, n
  <2>4. e[h + k] = IF h + k < s THEN b.entries[h + k] ELSE b.entries[(h + k) - s]
    <3>1. CASE h + k < s
      BY <2>2, <3>1, Zenon
    <3>2. CASE ~(h + k < s)
      BY <2>2, <2>3, <3>2, Zenon
    <3>3. QED
      BY <3>1, <3>2
  <2>5. Wrap(s, h, k) = (IF h + k < s THEN h + k ELSE (h + k) - s)
    BY <1>1 DEF Wrap
  <2>7. Wrap(n, h, k) = h + k
    BY <2>1, Zenon DEF Wrap
  <2> HIDE DEF s, h
  <2>6. QED
    BY <2>4, <2>5, <2>7
<1>8. h + s = Wrap(n, h, s) /\ h \in 0 .. n - 1 /\ s \in 0 .. n
  BY <1>1, <1>2 DEF Wrap
<1> HIDE DEF r, e, n, wrapped
<1>9. Rep(r)
  <2>1. \A k \in 0 .. s - 1 : e[Wrap(n, h, k)] \in Values
    BY <1>1, <1>7
  <2> DEFINE t == h + s
  <2>2. /\ n \in Nat \ {0} /\ s \in 0 .. n /\ h \in 0 .. n - 1 /\ t = Wrap(n, h, s)
        /\ r = [entries |-> e, size |-> n, count |-> s, head |-> h, tail |-> t]
    BY <1>2, <1>5, <1>8
  <2> HIDE DEF s, h, t
  <2>3. QED
    BY <1>3, <1>6, <2>1, <2>2, MakeRep
<1>10. r.count = b.count /\ r.size = n /\ r.entries = e /\ r.head = h
  BY <1>1, <1>5
<1>11. Contents(r) = Contents(b)
  <2>1. \A k \in 0 .. b.count - 1 : r.entries[Wrap(r.size, r.head, k)] = b.entries[Wrap(b.size, b.head, k)]
    BY <1>1, <1>7, <1>10
  <2>2. QED
    BY <1>9, <1>10, <2>1, SameContents
<1>12. QED
  BY <1>9, <1>10, <1>11 DEF r, n

\* There is room for one more item after WithRoom, and nothing has moved.
LEMMA WithRoomKeeps ==
  ASSUME NEW b, Rep(b), b.count < MaxCount
  PROVE  /\ Rep(WithRoom(b)) /\ WithRoom(b).count = b.count
         /\ WithRoom(b).count < WithRoom(b).size
         /\ WithRoom(b).size = GrownSize(View(b))
         /\ Contents(WithRoom(b)) = Contents(b)
<1>1. /\ Len(View(b).items) = b.count /\ View(b).size = b.size
      /\ b.count \in 0 .. b.size /\ b.size \in Nat \ {0}
  BY ContentsOf, RepParts DEF View
<1>2. CASE b.count = b.size
  <2>1. WithRoom(b) = Resize(b)
    BY <1>2 DEF WithRoom
  <2>2. GrownSize(View(b)) = IF b.size = 1 THEN 4 ELSE 2 * b.size
    BY <1>1, <1>2 DEF GrownSize, IsFull
  <2>3. b.size < IF b.size = 1 THEN 4 ELSE 2 * b.size
    BY <1>1
  <2>4. QED
    BY <1>2, <2>1, <2>2, <2>3, ResizeKeeps
<1>3. CASE b.count # b.size
  <2>1. WithRoom(b) = b
    BY <1>3 DEF WithRoom
  <2>2. GrownSize(View(b)) = b.size
    BY <1>1, <1>3 DEF GrownSize, IsFull
  <2>3. QED
    BY <1>1, <1>3, <2>1, <2>2
<1>4. QED
  BY <1>2, <1>3
-----------------------------------------------------------------------------
\* ring_buffer_push puts the item behind the last one.
LEMMA PushImplements ==
  ASSUME NEW b, Rep(b), b.count < MaxCount, NEW v \in Values
  PROVE  Rep(PushBuffer(b, v)) /\ View(PushBuffer(b, v)) = PushItem(View(b), v)
<1> DEFINE r == WithRoom(b)
           n == r.size
           h == r.head
           c == r.count
           a == r.entries
           e == [a EXCEPT ![r.tail] = v]
           t == Wrap(n, h, c + 1)
           m == c + 1
           p == PushBuffer(b, v)
<1>1. Rep(r) /\ c = b.count /\ c < n /\ n = GrownSize(View(b)) /\ Contents(r) = Contents(b)
  BY WithRoomKeeps
<1>2. p = [r EXCEPT !.entries = e, !.tail = Ahead(r, r.tail, 1), !.count = m]
  BY DEF PushBuffer
<1> HIDE DEF r, p
<1>3. /\ r \in Structs /\ n \in Nat \ {0} /\ c \in 0 .. n - 1 /\ h \in 0 .. n - 1
      /\ r.tail = Wrap(n, h, c) /\ r.tail \in 0 .. n - 1
      /\ a \in [0 .. n - 1 -> Slots] /\ UintMod % n = 0
      /\ \A k \in 0 .. c - 1 : a[Wrap(n, h, k)] \in Values
  BY <1>1, RepParts
<1>4. Ahead(r, r.tail, 1) = t /\ m \in 0 .. n
  <2>1. Ahead(r, r.tail, 1) = Wrap(n, r.tail, 1)
    BY <1>3, AheadWraps
  <2>2. Wrap(n, Wrap(n, h, c), 1) = Wrap(n, h, c + 1)
    <3> HIDE DEF n, h, c
    <3>1. QED
      BY <1>3 DEF Wrap
  <2>3. QED
    BY <1>3, <2>1, <2>2
<1>5. v \in Slots
  BY DEF Slots
<1>6. /\ e \in [0 .. n - 1 -> Slots] /\ e[Wrap(n, h, c)] = v
      /\ \A k \in 0 .. c - 1 : e[Wrap(n, h, k)] = a[Wrap(n, h, k)]
  <2>1. e \in [0 .. n - 1 -> Slots] /\ e[r.tail] = v /\ \A i \in 0 .. n - 1 : i # r.tail => e[i] = a[i]
    BY <1>3, <1>5
  <2>2. \A k \in 0 .. c - 1 : Wrap(n, h, k) # Wrap(n, h, c) /\ Wrap(n, h, k) \in 0 .. n - 1
    <3> HIDE DEF n, h, c
    <3>1. QED
      BY <1>3 DEF Wrap
  <2> HIDE DEF e, a
  <2>3. QED
    BY <1>3, <2>1, <2>2
<1>7. p = [entries |-> e, size |-> n, count |-> m, head |-> h, tail |-> t]
  <2> HIDE DEF e, m, t
  <2>1. p = [r EXCEPT !.entries = e, !.tail = t, !.count = m]
    BY <1>2, <1>4
  <2>2. QED
    BY <1>3, <2>1 DEF Structs
<1>8. m = c + 1 /\ t = Wrap(n, h, m)
  OBVIOUS
<1>9. \A k \in 0 .. m - 1 : e[Wrap(n, h, k)] \in Values
  <2>1. \A k \in 0 .. m - 1 : k \in 0 .. c - 1 \/ k = c
    BY <1>3
  <2> HIDE DEF e, a, m
  <2>2. QED
    BY <1>3, <1>6, <2>1
<1> HIDE DEF e, a, m, t, n, h, c
<1>10. Rep(p)
  BY <1>3, <1>4, <1>6, <1>7, <1>8, <1>9, MakeRep
<1>11. p.size = n /\ p.count = m /\ p.entries = e /\ p.head = h
  BY <1>7
<1>12. Contents(p) = Append(Contents(b), v)
  <2> DEFINE s == Contents(b)
             x == Contents(p)
             y == Append(s, v)
  <2>1. /\ s \in Seq(Values) /\ Len(s) = c
        /\ \A i \in 1 .. c : s[i] = a[Wrap(n, h, i - 1)]
    BY <1>1, ContentsOf DEF a, c, n, h
  <2>2. /\ x \in Seq(Values) /\ Len(x) = m
        /\ \A i \in 1 .. m : x[i] = e[Wrap(n, h, i - 1)]
    BY <1>10, <1>11, ContentsOf
  <2> HIDE DEF s, x
  <2>3. y \in Seq(Values) /\ Len(y) = m /\ y[m] = v /\ \A i \in 1 .. c : y[i] = s[i]
    BY <1>3, <1>8, <2>1
  <2> HIDE DEF y
  <2>4. ASSUME NEW i \in 1 .. m PROVE x[i] = y[i]
    <3>1. CASE i = m
      <4>1. i - 1 = c
        BY <1>3, <1>8, <3>1
      <4>2. QED
        BY <1>6, <2>2, <2>3, <3>1, <4>1
    <3>2. CASE i # m
      <4>1. i - 1 \in 0 .. c - 1 /\ i \in 1 .. c
        BY <1>3, <1>8, <3>2
      <4>2. QED
        BY <1>6, <2>1, <2>2, <2>3, <4>1
    <3>3. QED
      BY <3>1, <3>2
  <2>5. x = y
    BY <2>2, <2>3, <2>4, SeqEqual
  <2>6. QED
    BY <2>5 DEF x, y, s
<1>13. QED
  <2>1. View(p) = [items |-> Append(Contents(b), v), size |-> n]
    BY <1>11, <1>12 DEF View
  <2>2. PushItem(View(b), v) = [items |-> Append(Contents(b), v), size |-> GrownSize(View(b))]
    BY DEF PushItem, View
  <2>3. QED
    BY <1>1, <1>10, <2>1, <2>2 DEF p, n

\* ring_buffer_unshift puts the item in front of the first one.
LEMMA UnshiftImplements ==
  ASSUME NEW b, Rep(b), b.count < MaxCount, NEW v \in Values
  PROVE  Rep(UnshiftBuffer(b, v)) /\ View(UnshiftBuffer(b, v)) = UnshiftItem(View(b), v)
<1> DEFINE r == WithRoom(b)
           n == r.size
           h == r.head
           c == r.count
           a == r.entries
           g == Back(r, h)
           e == [a EXCEPT ![g] = v]
           t == r.tail
           m == c + 1
           p == UnshiftBuffer(b, v)
<1>1. Rep(r) /\ c = b.count /\ c < n /\ n = GrownSize(View(b)) /\ Contents(r) = Contents(b)
  BY WithRoomKeeps
<1>2. p = [r EXCEPT !.entries = e, !.head = g, !.count = m]
  BY DEF UnshiftBuffer
<1> HIDE DEF r, p
<1>3. /\ r \in Structs /\ n \in Nat \ {0} /\ c \in 0 .. n - 1 /\ h \in 0 .. n - 1
      /\ t = Wrap(n, h, c)
      /\ a \in [0 .. n - 1 -> Slots] /\ UintMod % n = 0
      /\ \A k \in 0 .. c - 1 : a[Wrap(n, h, k)] \in Values
  BY <1>1, RepParts
<1>4. g = Wrap(n, h, n - 1) /\ m \in 0 .. n /\ m = c + 1
  BY <1>3, BackWraps
<1>5. v \in Slots
  BY DEF Slots
<1> HIDE DEF g, m
<1>6. /\ g \in 0 .. n - 1 /\ Wrap(n, g, 0) = g /\ Wrap(n, g, m) = t
      /\ \A k \in 1 .. n : Wrap(n, g, k) = Wrap(n, h, k - 1)
  <2>1. g \in 0 .. n - 1 /\ \A k \in 1 .. n : Wrap(n, g, k) = Wrap(n, h, k - 1)
    <3> HIDE DEF n, h
    <3>1. QED
      BY <1>3, <1>4 DEF Wrap
  <2>2. Wrap(n, g, 0) = g
    BY <1>3, <2>1, WrapFacts
  <2>3. m \in 1 .. n /\ m - 1 = c
    BY <1>3, <1>4
  <2>4. QED
    BY <1>3, <2>1, <2>2, <2>3
<1>7. /\ e \in [0 .. n - 1 -> Slots] /\ e[g] = v
      /\ \A k \in 0 .. c - 1 : e[Wrap(n, h, k)] = a[Wrap(n, h, k)]
  <2>1. e \in [0 .. n - 1 -> Slots] /\ e[g] = v /\ \A i \in 0 .. n - 1 : i # g => e[i] = a[i]
    BY <1>3, <1>5, <1>6
  <2>2. \A k \in 0 .. c - 1 : Wrap(n, h, k) # Wrap(n, h, n - 1) /\ Wrap(n, h, k) \in 0 .. n - 1
    <3> HIDE DEF n, h, c
    <3>1. QED
      BY <1>3 DEF Wrap
  <2> HIDE DEF e, a
  <2>3. QED
    BY <1>4, <2>1, <2>2
<1>8. p = [entries |-> e, size |-> n, count |-> m, head |-> g, tail |-> t]
  <2> HIDE DEF e
  <2>1. p = [r EXCEPT !.entries = e, !.head = g, !.count = m]
    BY <1>2
  <2>2. QED
    BY <1>3, <2>1 DEF Structs
<1> HIDE DEF e, a, t, n, h, c
<1>9. \A k \in 1 .. m - 1 : e[Wrap(n, g, k)] = a[Wrap(n, h, k - 1)]
  <2> SUFFICES ASSUME NEW k \in 1 .. m - 1 PROVE e[Wrap(n, g, k)] = a[Wrap(n, h, k - 1)]
    OBVIOUS
  <2>1. k \in 1 .. n /\ k - 1 \in 0 .. c - 1
    BY <1>3, <1>4
  <2>2. QED
    BY <1>6, <1>7, <2>1
<1>10. \A k \in 0 .. m - 1 : e[Wrap(n, g, k)] \in Values
  <2> SUFFICES ASSUME NEW k \in 0 .. m - 1 PROVE e[Wrap(n, g, k)] \in Values
    OBVIOUS
  <2>1. CASE k = 0
    BY <1>6, <1>7, <2>1
  <2>2. CASE k # 0
    <3>1. k \in 1 .. m - 1 /\ k - 1 \in 0 .. c - 1
      BY <1>3, <1>4, <2>2
    <3>2. QED
      BY <1>3, <1>9, <3>1
  <2>3. QED
    BY <2>1, <2>2
<1>11. Rep(p)
  <2>1. n \in Nat \ {0} /\ m \in 0 .. n /\ g \in 0 .. n - 1 /\ t = Wrap(n, g, m) /\ UintMod % n = 0
    BY <1>3, <1>4, <1>6
  <2>2. QED
    BY <1>7, <1>8, <1>10, <2>1, MakeRep
<1>12. p.size = n /\ p.count = m /\ p.entries = e /\ p.head = g
  BY <1>8
<1>13. Contents(p) = <<v>> \o Contents(b)
  <2> DEFINE s == Contents(b)
             x == Contents(p)
             y == <<v>> \o s
  <2>1. /\ s \in Seq(Values) /\ Len(s) = c
        /\ \A i \in 1 .. c : s[i] = a[Wrap(n, h, i - 1)]
    BY <1>1, ContentsOf DEF a, c, n, h
  <2>2. /\ x \in Seq(Values) /\ Len(x) = m
        /\ \A i \in 1 .. m : x[i] = e[Wrap(n, g, i - 1)]
    BY <1>11, <1>12, ContentsOf
  <2> HIDE DEF s, x
  <2>3. y \in Seq(Values) /\ Len(y) = m /\ y[1] = v /\ \A i \in 2 .. m : y[i] = s[i - 1]
    BY <1>3, <1>4, <2>1
  <2> HIDE DEF y
  <2>4. ASSUME NEW i \in 1 .. m PROVE x[i] = y[i]
    <3>1. CASE i = 1
      <4>1. i - 1 = 0
        BY <3>1
      <4>2. QED
        BY <1>6, <1>7, <2>2, <2>3, <3>1, <4>1
    <3>2. CASE i # 1
      <4> DEFINE j == i - 1
      <4>1. j \in 1 .. m - 1 /\ j \in 1 .. c /\ i \in 2 .. m
        BY <1>3, <1>4, <3>2
      <4>2. x[i] = e[Wrap(n, g, j)] /\ y[i] = s[j]
        BY <2>2, <2>3, <4>1
      <4> HIDE DEF j
      <4>3. QED
        BY <1>9, <2>1, <4>1, <4>2
    <3>3. QED
      BY <3>1, <3>2
  <2>5. x = y
    BY <2>2, <2>3, <2>4, SeqEqual
  <2>6. QED
    BY <2>5 DEF x, y, s
<1>14. QED
  <2>1. View(p) = [items |-> <<v>> \o Contents(b), size |-> n]
    BY <1>12, <1>13 DEF View
  <2>2. UnshiftItem(View(b), v) = [items |-> <<v>> \o Contents(b), size |-> GrownSize(View(b))]
    BY DEF UnshiftItem, View
  <2>3. QED
    BY <1>1, <1>11, <2>1, <2>2 DEF p, n

\* ring_buffer_shift takes the first item.
LEMMA ShiftImplements ==
  ASSUME NEW b, Rep(b), b.count > 0
  PROVE  /\ Rep(ShiftBuffer(b)) /\ View(ShiftBuffer(b)) = ShiftItem(View(b))
         /\ b.entries[b.head] = Head(Contents(b)) /\ Contents(b) # <<>>
<1> DEFINE n == b.size
           h == b.head
           c == b.count
           e == b.entries
           t == b.tail
           g == Ahead(b, h, 1)
           m == c - 1
           p == ShiftBuffer(b)
<1>1. p = [b EXCEPT !.head = g, !.count = m]
  BY DEF ShiftBuffer
<1>2. /\ b \in Structs /\ n \in Nat \ {0} /\ c \in 1 .. n /\ h \in 0 .. n - 1
      /\ t = Wrap(n, h, c)
      /\ e \in [0 .. n - 1 -> Slots] /\ UintMod % n = 0
      /\ \A k \in 0 .. c - 1 : e[Wrap(n, h, k)] \in Values
  BY RepParts
<1>3. g = Wrap(n, h, 1) /\ g \in 0 .. n - 1 /\ m \in 0 .. n /\ c = m + 1
  <2>1. b.size = n /\ 1 \in 0 .. n /\ m \in 0 .. n /\ c = m + 1
    BY <1>2
  <2>3. n \in Nat \ {0} /\ h \in 0 .. n - 1
    BY <1>2
  <2> HIDE DEF n, h, m, c
  <2>4. Ahead(b, h, 1) = Wrap(n, h, 1) /\ Wrap(n, h, 1) \in 0 .. n - 1
    BY <2>1, <2>3, NextWraps, Zenon
  <2>2. QED
    BY <2>1, <2>4
<1> HIDE DEF g, m, p
<1>4. \A k \in 0 .. m : Wrap(n, g, k) = Wrap(n, h, k + 1)
  <2> HIDE DEF n, h, c
  <2>1. QED
    BY <1>2, <1>3 DEF Wrap
<1>5. p = [entries |-> e, size |-> n, count |-> m, head |-> g, tail |-> t]
  BY <1>1, <1>2 DEF Structs
<1> HIDE DEF e, t, n, h, c
<1>6. t = Wrap(n, g, m) /\ \A k \in 0 .. m - 1 : e[Wrap(n, g, k)] = e[Wrap(n, h, k + 1)] /\ k + 1 \in 0 .. c - 1
  BY <1>2, <1>3, <1>4
<1>7. \A k \in 0 .. m - 1 : e[Wrap(n, g, k)] \in Values
  BY <1>2, <1>6
<1>8. Rep(p)
  BY <1>2, <1>3, <1>5, <1>6, <1>7, MakeRep
<1>9. p.size = n /\ p.count = m /\ p.entries = e /\ p.head = g
  BY <1>5
<1> DEFINE s == Contents(b)
           x == Contents(p)
           y == Tail(s)
<1>10. /\ s \in Seq(Values) /\ Len(s) = c
       /\ \A i \in 1 .. c : s[i] = e[Wrap(n, h, i - 1)]
  BY ContentsOf DEF e, n, h, c
<1>11. /\ x \in Seq(Values) /\ Len(x) = m
       /\ \A i \in 1 .. m : x[i] = e[Wrap(n, g, i - 1)]
  BY <1>8, <1>9, ContentsOf
<1> HIDE DEF s, x
<1>12. s # <<>> /\ y \in Seq(Values) /\ Len(y) = m /\ \A i \in 1 .. m : y[i] = s[i + 1]
  BY <1>2, <1>3, <1>10
<1>13. Head(s) = e[h]
  <2>1. Head(s) = s[1] /\ 1 \in 1 .. c /\ 1 - 1 = 0
    BY <1>2, <1>10
  <2>2. Wrap(n, h, 0) = h
    BY <1>2, WrapFacts
  <2>3. QED
    BY <1>10, <2>1, <2>2
<1> HIDE DEF y
<1>14. x = y
  <2>1. ASSUME NEW i \in 1 .. m PROVE x[i] = y[i]
    <3> DEFINE k == i - 1
    <3>1. k \in 0 .. m - 1 /\ k + 1 = i /\ i + 1 \in 1 .. c /\ (i + 1) - 1 = i
      BY <1>2, <1>3
    <3>2. x[i] = e[Wrap(n, g, k)] /\ y[i] = s[i + 1]
      BY <1>11, <1>12
    <3> HIDE DEF k
    <3>3. s[i + 1] = e[Wrap(n, h, i)]
      BY <1>10, <3>1
    <3>4. QED
      BY <1>6, <3>1, <3>2, <3>3
  <2>2. QED
    BY <1>11, <1>12, <2>1, SeqEqual
<1>15. View(p) = ShiftItem(View(b))
  <2>1. View(p) = [items |-> y, size |-> n]
    BY <1>9, <1>14 DEF View, x
  <2>2. View(b) = [items |-> s, size |-> n]
    BY DEF View, s, n
  <2> DEFINE d == View(b)
  <2>6. d.items = s
    BY <2>2
  <2> HIDE DEF d
  <2>4. ShiftItem(d) = [d EXCEPT !.items = Tail(d.items)]
    BY Zenon DEF ShiftItem
  <2>5. ShiftItem(d) = [d EXCEPT !.items = y]
    BY <2>4, <2>6, Zenon DEF y
  <2>3. QED
    BY <2>1, <2>2, <2>5 DEF d
<1>16. QED
  BY <1>8, <1>12, <1>13, <1>15 DEF p, s, e, h

\* The buffer is emptied; its array stays.
LEMMA ClearImplements ==
  ASSUME NEW b, Rep(b)
  PROVE  Rep(ClearBuffer(b)) /\ View(ClearBuffer(b)) = ClearItems(View(b))
<1> DEFINE n == b.size
           e == b.entries
           p == ClearBuffer(b)
<1>1. b \in Structs /\ n \in Nat \ {0} /\ e \in [0 .. n - 1 -> Slots] /\ UintMod % n = 0
  BY RepParts
<1>2. p = [entries |-> e, size |-> n, count |-> 0, head |-> 0, tail |-> 0]
  <2> DEFINE z == 0
  <2>1. p = [b EXCEPT !.count = z, !.head = z, !.tail = z]
    BY DEF ClearBuffer
  <2> HIDE DEF z
  <2>2. p = [entries |-> e, size |-> n, count |-> z, head |-> z, tail |-> z]
    BY <1>1, <2>1 DEF Structs
  <2>3. QED
    BY <2>2 DEF z
<1> HIDE DEF n, e, p
<1>3. 0 \in 0 .. n - 1 /\ 0 \in 0 .. n /\ 0 = Wrap(n, 0, 0)
  BY <1>1 DEF Wrap
<1>4. \A k \in 0 .. 0 - 1 : e[Wrap(n, 0, k)] \in Values
  OBVIOUS
<1>5. Rep(p)
  BY <1>1, <1>2, <1>3, <1>4, MakeRep
<1>6. p.count = 0 /\ p.size = n
  BY <1>2
<1>7. Contents(p) = <<>>
  <2>1. Contents(p) \in Seq(Values) /\ Len(Contents(p)) = 0
    BY <1>5, <1>6, ContentsOf
  <2>2. QED
    BY <2>1
<1>8. QED
  BY <1>5, <1>6, <1>7 DEF View, ClearItems, p, n
-----------------------------------------------------------------------------
\* How far index i is behind index j in an array of n slots.
Gap(n, i, j) == IF j <= i THEN i - j ELSE (i + n) - j

LEMMA GapIsDistance ==
  ASSUME NEW n \in Nat \ {0}, NEW i \in 0 .. n - 1, NEW j \in 0 .. n - 1
  PROVE  (i + n - j) % n = Gap(n, i, j) /\ Gap(n, i, j) \in 0 .. n - 1
<1>1. CASE j <= i
  <2> DEFINE a == i - j
  <2>1. a \in Nat /\ a < n /\ i + n - j = a + n
    BY <1>1
  <2>2. Gap(n, i, j) = a
    BY <1>1 DEF Gap
  <2> HIDE DEF a
  <2>3. (a + n) % n = a
    BY <2>1, ModHigh
  <2>4. QED
    BY <2>1, <2>2, <2>3
<1>2. CASE ~(j <= i)
  <2> DEFINE a == (i + n) - j
  <2>1. a \in Nat /\ a < n /\ i + n - j = a
    BY <1>2
  <2>2. Gap(n, i, j) = a
    BY <1>2 DEF Gap
  <2> HIDE DEF a
  <2>3. a % n = a
    BY <2>1, ModLow
  <2>4. QED
    BY <2>1, <2>2, <2>3
<1>3. QED
  BY <1>1, <1>2

\* The slots that the loop of ring_buffer_delete_at overwrites, by their
\* distances from the head: those from the deleted one on; none at all if it is
\* the first of a full buffer.
LEMMA SlotsMoved ==
  ASSUME NEW n \in Nat \ {0}, NEW h \in 0 .. n - 1, NEW c \in 1 .. n, NEW k \in 0 .. c - 1,
         NEW j \in 0 .. c - 1
  PROVE  Gap(n, Wrap(n, h, j), Wrap(n, h, k)) < Gap(n, Wrap(n, h, c), Wrap(n, h, k))
           <=> k <= j /\ ~(c = n /\ k = 0)
<1>1. Gap(n, Wrap(n, h, j), Wrap(n, h, k)) = IF k <= j THEN j - k ELSE (j + n) - k
  BY DEF Gap, Wrap
<1>2. Gap(n, Wrap(n, h, c), Wrap(n, h, k)) = IF c = n /\ k = 0 THEN 0 ELSE c - k
  BY DEF Gap, Wrap
<1>3. QED
  BY <1>1, <1>2

\* ring_buffer_delete_at deletes the item, or drops the last one (DeleteAt).
LEMMA DeleteAtImplements ==
  ASSUME NEW b, Rep(b), NEW k \in 0 .. b.count - 1
  PROVE  /\ Rep(DeleteAtBuffer(b, Ahead(b, b.head, k)))
         /\ View(DeleteAtBuffer(b, Ahead(b, b.head, k))) = DeleteAt(View(b), k + 1)
<1> DEFINE n == b.size
           h == b.head
           c == b.count
           a == b.entries
           at == Wrap(n, h, k)
           e == [i \in 0 .. n - 1 |-> IF Gap(n, i, at) < Gap(n, b.tail, at)
                                      THEN a[Wrap(n, i, 1)] ELSE a[i]]
           t == Back(b, b.tail)
           m == c - 1
           p == DeleteAtBuffer(b, Ahead(b, b.head, k))
           drops == c = n /\ k = 0
<1>1. /\ b \in Structs /\ n \in Nat \ {0} /\ c \in 1 .. n /\ h \in 0 .. n - 1 /\ k \in 0 .. c - 1
      /\ b.tail = Wrap(n, h, c) /\ b.tail \in 0 .. n - 1
      /\ a \in [0 .. n - 1 -> Slots] /\ UintMod % n = 0
      /\ \A j \in 0 .. c - 1 : a[Wrap(n, h, j)] \in Values
  BY RepParts
<1>2. m \in 0 .. n /\ c = m + 1
  BY <1>1
<1>3. Ahead(b, b.head, k) = at /\ at \in 0 .. n - 1
  <2>1. k \in 0 .. n /\ b.size = n
    BY <1>1
  <2>2. QED
    BY <1>1, <2>1, AheadWraps
<1>4. t = Wrap(n, h, m)
  <2>1. t = Wrap(n, b.tail, n - 1)
    BY <1>1, BackWraps
  <2>2. Wrap(n, Wrap(n, h, c), n - 1) = Wrap(n, h, m)
    <3> HIDE DEF n, h, c, m
    <3>1. QED
      BY <1>1, <1>2 DEF Wrap
  <2>3. QED
    BY <1>1, <2>1, <2>2
<1>5. \A i \in 0 .. n - 1 : /\ (i + n - at) % n = Gap(n, i, at)
                            /\ Ahead(b, i, 1) = Wrap(n, i, 1) /\ Wrap(n, i, 1) \in 0 .. n - 1
  <2>1. 1 \in 0 .. n /\ b.size = n
    BY <1>1
  <2> HIDE DEF n, at
  <2>4. n \in Nat \ {0} /\ at \in 0 .. n - 1
    BY <1>1, <1>3
  <2>3. ASSUME NEW i \in 0 .. n - 1 PROVE Ahead(b, i, 1) = Wrap(n, i, 1) /\ Wrap(n, i, 1) \in 0 .. n - 1
    BY <2>1, <2>4, NextWraps, Zenon
  <2>5. ASSUME NEW i \in 0 .. n - 1 PROVE (i + n - at) % n = Gap(n, i, at)
    BY <2>4, GapIsDistance, Zenon
  <2>2. QED
    BY <2>3, <2>5, Zenon
<1>6. p = [b EXCEPT !.entries = e, !.count = m, !.tail = t]
  <2> DEFINE d(i) == (i + n - at) % n
             f == [i \in 0 .. n - 1 |-> IF d(i) < d(b.tail) THEN a[Ahead(b, i, 1)] ELSE a[i]]
  <2>1. p = [b EXCEPT !.entries = f, !.count = m, !.tail = t]
    BY <1>3 DEF DeleteAtBuffer
  <2>2. f = e
    <3>1. d(b.tail) = Gap(n, b.tail, at)
      BY <1>1, <1>5
    <3>2. ASSUME NEW i \in 0 .. n - 1
          PROVE  (IF d(i) < d(b.tail) THEN a[Ahead(b, i, 1)] ELSE a[i])
                   = IF Gap(n, i, at) < Gap(n, b.tail, at) THEN a[Wrap(n, i, 1)] ELSE a[i]
      BY <1>5, <3>1
    <3>3. QED
      BY <3>2, Zenon
  <2>3. QED
    BY <2>1, <2>2, Zenon
<1> HIDE DEF p, t, m
<1>7. p = [entries |-> e, size |-> n, count |-> m, head |-> h, tail |-> t]
  <2> HIDE DEF e
  <2>1. QED
    BY <1>1, <1>6 DEF Structs
<1>8. e \in [0 .. n - 1 -> Slots]
  <2>1. ASSUME NEW i \in 0 .. n - 1
        PROVE  (IF Gap(n, i, at) < Gap(n, b.tail, at) THEN a[Wrap(n, i, 1)] ELSE a[i]) \in Slots
    BY <1>1, <1>5
  <2> HIDE DEF n, at, a
  <2>2. QED
    BY <2>1
<1>9. ASSUME NEW j \in 0 .. m - 1
      PROVE  e[Wrap(n, h, j)] = IF k <= j /\ ~drops THEN a[Wrap(n, h, j + 1)] ELSE a[Wrap(n, h, j)]
  <2> DEFINE i == Wrap(n, h, j)
  <2>1. j \in 0 .. c - 1 /\ j \in 0 .. n - 1 /\ i \in 0 .. n - 1 /\ Wrap(n, i, 1) = Wrap(n, h, j + 1)
    <3>1. j \in 0 .. c - 1 /\ j \in 0 .. n - 1
      BY <1>1, <1>2
    <3>3. n \in Nat \ {0} /\ h \in 0 .. n - 1 /\ j + 1 <= n
      BY <1>1, <1>2
    <3> HIDE DEF n, h, c
    <3>4. Wrap(n, h, j) \in 0 .. n - 1
      BY <3>1, <3>3 DEF Wrap
    <3>5. Wrap(n, Wrap(n, h, j), 1) = Wrap(n, h, j + 1)
      BY <3>1, <3>3 DEF Wrap
    <3>2. QED
      BY <3>1, <3>4, <3>5
  <2>2. e[i] = IF Gap(n, i, at) < Gap(n, b.tail, at) THEN a[Wrap(n, i, 1)] ELSE a[i]
    BY <2>1
  <2>3. Gap(n, i, at) < Gap(n, b.tail, at) <=> k <= j /\ ~drops
    <3> HIDE DEF n, h, c
    <3>1. QED
      BY <1>1, <2>1, SlotsMoved
  <2> HIDE DEF e, drops, n, at
  <2>4. QED
    BY <2>1, <2>2, <2>3, Zenon
<1> HIDE DEF e, at
<1>10. \A j \in 0 .. m - 1 : e[Wrap(n, h, j)] \in Values
  <2> SUFFICES ASSUME NEW j \in 0 .. m - 1 PROVE e[Wrap(n, h, j)] \in Values
    OBVIOUS
  <2>1. j \in 0 .. c - 1 /\ j + 1 \in 0 .. c - 1
    BY <1>1, <1>2
  <2>2. QED
    BY <1>1, <1>9, <2>1
<1> HIDE DEF n, h, c, a
<1>11. Rep(p)
  <2>1. n \in Nat \ {0} /\ m \in 0 .. n /\ h \in 0 .. n - 1 /\ UintMod % n = 0
    BY <1>1, <1>2
  <2>2. QED
    BY <1>4, <1>7, <1>8, <1>10, <2>1, MakeRep
<1>12. p.size = n /\ p.count = m /\ p.entries = e /\ p.head = h
  BY <1>7
<1> DEFINE s == Contents(b)
           x == Contents(p)
           y == IF drops THEN Front(s) ELSE RemoveAt(s, k + 1)
<1>13. /\ s \in Seq(Values) /\ Len(s) = c
       /\ \A i \in 1 .. c : s[i] = a[Wrap(n, h, i - 1)]
  BY ContentsOf DEF a, n, h, c
<1>14. /\ x \in Seq(Values) /\ Len(x) = m
       /\ \A i \in 1 .. m : x[i] = e[Wrap(n, h, i - 1)]
  BY <1>11, <1>12, ContentsOf
<1> HIDE DEF s, x
<1>15. ASSUME NEW i \in 1 .. m
       PROVE  x[i] = IF k + 1 <= i /\ ~drops THEN s[i + 1] ELSE s[i]
  <2> DEFINE j == i - 1
  <2>1. j \in 0 .. m - 1 /\ (k <= j <=> k + 1 <= i) /\ i \in 1 .. c /\ i + 1 \in 1 .. c
        /\ j + 1 = i /\ (i + 1) - 1 = i
    BY <1>1, <1>2
  <2>2. x[i] = e[Wrap(n, h, j)] /\ s[i] = a[Wrap(n, h, j)]
    BY <1>13, <1>14, <2>1
  <2>3. s[i + 1] = a[Wrap(n, h, i)]
    BY <1>13, <2>1
  <2> HIDE DEF j, drops
  <2>4. e[Wrap(n, h, j)] = IF k <= j /\ ~drops THEN a[Wrap(n, h, j + 1)] ELSE a[Wrap(n, h, j)]
    BY <1>9, <2>1
  <2>5. QED
    BY <2>1, <2>2, <2>3, <2>4, Zenon
<1>16. /\ Front(s) \in Seq(Values) /\ Len(Front(s)) = m /\ \A i \in 1 .. m : Front(s)[i] = s[i]
  BY <1>1, <1>2, <1>13 DEF Front
<1>17. /\ RemoveAt(s, k + 1) \in Seq(Values) /\ Len(RemoveAt(s, k + 1)) = m
       /\ \A i \in 1 .. m : RemoveAt(s, k + 1)[i] = IF k + 1 <= i THEN s[i + 1] ELSE s[i]
  <2>1. k + 1 \in 1 .. Len(s) /\ Len(s) - 1 = m
    BY <1>1, <1>2, <1>13
  <2>2. QED
    BY <1>13, <2>1, RemovedAt
<1>18. x = y
  <2> HIDE DEF drops
  <2>1. y \in Seq(Values) /\ Len(y) = m
    BY <1>16, <1>17
  <2>2. \A i \in 1 .. m : x[i] = y[i]
    BY <1>15, <1>16, <1>17
  <2> HIDE DEF y
  <2>3. QED
    BY <1>14, <2>1, <2>2, SeqEqual
<1>19. View(p) = DeleteAt(View(b), k + 1)
  <2> DEFINE d == View(b)
             z == IF Misdeletes(d, k + 1) THEN Front(d.items) ELSE RemoveAt(d.items, k + 1)
  <2>1. d.items = s /\ d.size = n /\ d = [items |-> s, size |-> n]
    BY DEF View, s, n
  <2>2. z = y
    <3>1. Misdeletes(d, k + 1) <=> drops /\ n > 1
      BY <1>1, <1>13, <2>1 DEF Misdeletes, IsFull
    <3>2. CASE n > 1 \/ ~drops
      BY <2>1, <3>1, <3>2
    <3>3. CASE ~(n > 1) /\ drops
      <4>1. m = 0
        BY <1>1, <1>2, <3>3
      <4>2. Len(RemoveAt(s, k + 1)) = Len(Front(s)) /\ \A i \in 1 .. Len(Front(s)) : RemoveAt(s, k + 1)[i] = Front(s)[i]
        BY <1>16, <1>17, <4>1
      <4>3. RemoveAt(s, k + 1) = Front(s)
        BY <1>16, <1>17, <4>2, SeqEqual
      <4>4. QED
        BY <2>1, <3>1, <3>3, <4>3
    <3>4. QED
      BY <3>2, <3>3
  <2>3. DeleteAt(d, k + 1) = [d EXCEPT !.items = z]
    BY DEF DeleteAt
  <2>4. View(p) = [items |-> x, size |-> n]
    BY <1>12 DEF View, x
  <2> HIDE DEF d, z, y
  <2>5. QED
    BY <1>18, <2>1, <2>2, <2>3, <2>4 DEF d
<1>20. QED
  BY <1>11, <1>19 DEF p

\* ring_buffer_delete deletes the first item that is the given value.
LEMMA DeleteImplements ==
  ASSUME NEW b, Rep(b), NEW v
  PROVE  /\ Rep(DeleteBuffer(b, v))
         /\ View(DeleteBuffer(b, v)) = DeleteFirst(View(b), {i \in DOMAIN Contents(b) : Contents(b)[i] = v})
<1> DEFINE M == Matches(b, v)
           at == {i \in DOMAIN Contents(b) : Contents(b)[i] = v}
           c == b.count
<1>1. c \in 0 .. b.size /\ b.size \in Nat \ {0} /\ b.head \in 0 .. b.size - 1
  BY RepParts
<1>2. /\ DOMAIN Contents(b) = 1 .. c
      /\ \A i \in 1 .. c : Contents(b)[i] = b.entries[Wrap(b.size, b.head, i - 1)]
  BY ContentsOf
<1>3. ASSUME NEW k \in 0 .. c - 1 PROVE Ahead(b, b.head, k) = Wrap(b.size, b.head, k)
  <2>1. k \in 0 .. b.size
    BY <1>1
  <2>2. QED
    BY <1>1, <2>1, AheadWraps
<1>4. \A k : k \in M <=> k \in 0 .. c - 1 /\ b.entries[Wrap(b.size, b.head, k)] = v
  <2>1. \A k : k \in M <=> k \in 0 .. c - 1 /\ b.entries[Ahead(b, b.head, k)] = v
    BY Zenon DEF Matches
  <2>2. QED
    BY <1>3, <2>1, Zenon
<1>5. \A i : i \in at <=> i \in 1 .. c /\ b.entries[Wrap(b.size, b.head, i - 1)] = v
  BY <1>2
<1>6. DeleteBuffer(b, v) = IF M = {} THEN b ELSE DeleteAtBuffer(b, Ahead(b, b.head, Min(M)))
  BY Zenon DEF DeleteBuffer, Min
<1>7. DeleteFirst(View(b), at) = IF at = {} THEN View(b) ELSE DeleteAt(View(b), Min(at))
  BY DEF DeleteFirst
<1> HIDE DEF M, at, c
<1>8. /\ \A k \in M : k + 1 \in at
      /\ \A i \in at : i - 1 \in M
  <2>1. \A k \in 0 .. c - 1 : k + 1 \in 1 .. c /\ (k + 1) - 1 = k
    BY <1>1
  <2>2. \A i \in 1 .. c : i - 1 \in 0 .. c - 1
    BY <1>1
  <2>3. QED
    BY <1>4, <1>5, <2>1, <2>2, Zenon
<1>9. CASE M = {}
  <2>1. at = {}
    BY <1>8, <1>9
  <2>2. QED
    BY <1>6, <1>7, <1>9, <2>1 DEF at
<1>10. CASE M # {}
  <2>1. at # {}
    BY <1>8, <1>10
  <2>2. M \in SUBSET Nat /\ at \in SUBSET Nat
    BY <1>1, <1>4, <1>5
  <2>3. PICK k \in M : k = Min(M) /\ \A j \in M : k <= j
    BY <1>10, <2>2, MinOfNats
  <2>4. PICK i \in at : i = Min(at) /\ \A j \in at : i <= j
    BY <2>1, <2>2, MinOfNats
  <2>5. i = k + 1
    <3>1. i <= k + 1 /\ k <= i - 1
      BY <1>8, <2>3, <2>4
    <3>2. QED
      BY <2>2, <3>1
  <2>6. k \in 0 .. b.count - 1
    BY <1>4 DEF c
  <2>7. /\ Rep(DeleteAtBuffer(b, Ahead(b, b.head, k)))
        /\ View(DeleteAtBuffer(b, Ahead(b, b.head, k))) = DeleteAt(View(b), k + 1)
    BY <2>6, DeleteAtImplements
  <2>8. DeleteBuffer(b, v) = DeleteAtBuffer(b, Ahead(b, b.head, k))
    BY <1>6, <1>10, <2>3, Zenon
  <2>9. DeleteFirst(View(b), at) = DeleteAt(View(b), k + 1)
    BY <1>7, <2>1, <2>4, <2>5, Zenon
  <2>10. QED
    BY <2>7, <2>8, <2>9 DEF at
<1>11. QED
  BY <1>9, <1>10
-----------------------------------------------------------------------------
LEMMA InitialRep ==
  Rep(InitialBuffer) /\ View(InitialBuffer) = EmptyDeque
<1> DEFINE e == [i \in {0} |-> Garbage]
           p == InitialBuffer
<1>1. p = [entries |-> e, size |-> 1, count |-> 0, head |-> 0, tail |-> 0]
  BY DEF InitialBuffer
<1>2. e \in [0 .. 1 - 1 -> Slots]
  <2>1. 0 .. 1 - 1 = {0} /\ Garbage \in Slots
    BY DEF Slots
  <2>2. QED
    BY <2>1
<1> HIDE DEF e, p
<1>3. /\ 1 \in Nat \ {0} /\ 0 \in 0 .. 1 /\ 0 \in 0 .. 1 - 1 /\ 0 = Wrap(1, 0, 0) /\ UintMod % 1 = 0
      /\ \A k \in 0 .. 0 - 1 : e[Wrap(1, 0, k)] \in Values
  BY BoundAssumption DEF Wrap
<1>4. Rep(p)
  BY <1>1, <1>2, <1>3, MakeRep
<1>5. p.count = 0 /\ p.size = 1
  BY <1>1
<1>6. Contents(p) = <<>>
  <2>1. Contents(p) \in Seq(Values) /\ Len(Contents(p)) = 0
    BY <1>4, <1>5, ContentsOf
  <2>2. QED
    BY <2>1
<1>7. QED
  BY <1>4, <1>5, <1>6 DEF View, EmptyDeque, p

\* Every operation keeps the representation, and is the operation of the same
\* name on the deque.
LEMMA RingStep ==
  ASSUME Rep(buf), [RingNext]_ringVars
  PROVE  Rep(buf)' /\ [Abstract!Next]_<<View(buf), out>>
<1>1. CASE UNCHANGED ringVars
  BY <1>1 DEF ringVars, View, Contents, Ahead, Rep
<1>2. Len(Contents(buf)) = buf.count /\ buf.count \in Nat /\ Contents(buf) \in Seq(Values)
  BY ContentsOf, RepParts
<1>3. View(buf).items = Contents(buf)
  BY DEF View
<1>4. View(buf)' = View(buf')
  BY DEF View, Contents, Ahead
<1>5. Rep(buf)' <=> Rep(buf')
  BY DEF Rep
<1>6. ASSUME NEW v \in Values, Push(v) PROVE Rep(buf') /\ Abstract!Next
  <2>1. buf.count < MaxCount /\ buf' = PushBuffer(buf, v) /\ out' = Nil
    BY <1>6 DEF Push, HasRoom
  <2>2. Rep(buf') /\ View(buf') = PushItem(View(buf), v)
    BY <2>1, PushImplements
  <2>3. Abstract!Push(v)
    BY <1>2, <1>3, <1>4, <2>1, <2>2
       DEF Abstract!Push, Abstract!HasRoom, Abstract!PushItem, Abstract!GrownSize, Abstract!IsFull,
           PushItem, GrownSize, IsFull, View
  <2>4. QED
    BY <2>2, <2>3 DEF Abstract!Next
<1>7. ASSUME NEW v \in Values, Unshift(v) PROVE Rep(buf') /\ Abstract!Next
  <2>1. buf.count < MaxCount /\ buf' = UnshiftBuffer(buf, v) /\ out' = Nil
    BY <1>7 DEF Unshift, HasRoom
  <2>2. Rep(buf') /\ View(buf') = UnshiftItem(View(buf), v)
    BY <2>1, UnshiftImplements
  <2>3. Abstract!Unshift(v)
    BY <1>2, <1>3, <1>4, <2>1, <2>2
       DEF Abstract!Unshift, Abstract!HasRoom, Abstract!UnshiftItem, Abstract!GrownSize, Abstract!IsFull,
           UnshiftItem, GrownSize, IsFull, View
  <2>4. QED
    BY <2>2, <2>3 DEF Abstract!Next
<1>8. ASSUME NEW v \in Values, Delete(v) PROVE Rep(buf') /\ Abstract!Next
  <2>1. buf' = DeleteBuffer(buf, v) /\ out' = Nil
    BY <1>8 DEF Delete
  <2>2. /\ Rep(buf')
        /\ View(buf') = DeleteFirst(View(buf), {i \in DOMAIN Contents(buf) : Contents(buf)[i] = v})
    BY <2>1, DeleteImplements
  <2>3. Abstract!Delete(v)
    BY <1>3, <1>4, <2>1, <2>2, Zenon
       DEF Abstract!Delete, Abstract!DeleteFirst, Abstract!DeleteAt, Abstract!Misdeletes, Abstract!IsFull,
           Abstract!Front, Abstract!RemoveAt, Abstract!Min,
           DeleteFirst, DeleteAt, Misdeletes, IsFull, Front, RemoveAt, Min, View
  <2>4. QED
    BY <2>2, <2>3 DEF Abstract!Next
<1>9. ASSUME Shift PROVE Rep(buf') /\ Abstract!Next
  <2>1. CASE buf.count = 0 /\ out' = Nil /\ UNCHANGED buf
    <3>1. Contents(buf) = <<>>
      BY <1>2, <2>1
    <3>2. Abstract!Shift
      BY <1>3, <1>4, <2>1, <3>1 DEF Abstract!Shift, View
    <3>3. QED
      BY <2>1, <3>2 DEF Abstract!Next
  <2>2. CASE buf.count > 0 /\ out' = buf.entries[buf.head] /\ buf' = ShiftBuffer(buf)
    <3>1. /\ Rep(buf') /\ View(buf') = ShiftItem(View(buf))
          /\ out' = Head(Contents(buf)) /\ Contents(buf) # <<>>
      BY <2>2, ShiftImplements
    <3>2. Abstract!Shift
      BY <1>3, <1>4, <3>1 DEF Abstract!Shift, Abstract!ShiftItem, ShiftItem, View
    <3>3. QED
      BY <3>1, <3>2 DEF Abstract!Next
  <2>3. QED
    BY <1>9, <2>1, <2>2 DEF Shift
<1>10. ASSUME ShiftAll \/ Clear PROVE Rep(buf') /\ Abstract!Next
  <2>1. buf' = ClearBuffer(buf) /\ (out' = Nil \/ out' = Contents(buf))
    BY <1>10 DEF ShiftAll, Clear
  <2>2. Rep(buf') /\ View(buf') = ClearItems(View(buf))
    BY <2>1, ClearImplements
  <2>3. Abstract!ShiftAll \/ Abstract!Clear
    BY <1>3, <1>4, <2>1, <2>2
       DEF Abstract!ShiftAll, Abstract!Clear, Abstract!ClearItems, ClearItems, View
  <2>4. QED
    BY <2>2, <2>3 DEF Abstract!Next
<1>11. QED
  BY <1>1, <1>5, <1>6, <1>7, <1>8, <1>9, <1>10 DEF RingNext

LEMMA RepIsRepInv ==
  ASSUME Rep(buf)
  PROVE  RepInv
<1>1. /\ buf.size \in Nat \ {0} /\ buf.count \in 0 .. buf.size
      /\ buf.head \in 0 .. buf.size - 1 /\ buf.tail = Wrap(buf.size, buf.head, buf.count)
      /\ buf.entries \in [0 .. buf.size - 1 -> Slots]
      /\ \A k \in 0 .. buf.count - 1 : buf.entries[Wrap(buf.size, buf.head, k)] \in Values
  BY RepParts
<1>2. \A k \in 0 .. buf.size : Ahead(buf, buf.head, k) = Wrap(buf.size, buf.head, k)
  BY <1>1, AheadWraps
<1>3. buf.tail = Ahead(buf, buf.head, buf.count)
  BY <1>1, <1>2
<1>4. \A k \in 0 .. buf.count - 1 : buf.entries[Ahead(buf, buf.head, k)] \in Values
  BY <1>1, <1>2
<1>5. QED
  BY <1>1, <1>3, <1>4 DEF RepInv, Slots

\* The indices stay inside the array, and every slot between them holds an item
\* that was stored: growth leaves no uninitialised slot among the items, and
\* stepping back from index 0 on unsigned integers arrives at the last slot
\* (ring_buffer_resize, ring_buffer_unshift, ring_buffer_delete_at).
THEOREM RepresentationHolds ==
  RingSpec => []RepInv
<1>1. RingInit => Rep(buf)
  BY InitialRep DEF RingInit
<1>2. Rep(buf) /\ [RingNext]_ringVars => Rep(buf)'
  BY RingStep
<1>3. Rep(buf) => RepInv
  BY RepIsRepInv
<1>4. QED
  BY <1>1, <1>2, <1>3, PTL DEF RingSpec

\* The circular array implements the deque that the other modules use: every
\* operation of ring_buffer.c is the operation of the same name on a sequence.
THEOREM ImplementsDeque ==
  RingSpec => Implements
<1>1. RingInit => Rep(buf) /\ Abstract!Init
  BY InitialRep DEF RingInit, Abstract!Init, Abstract!EmptyDeque, EmptyDeque, View
<1>2. Rep(buf) /\ [RingNext]_ringVars => Rep(buf)' /\ [Abstract!Next]_<<View(buf), out>>
  BY RingStep
<1>3. Rep(buf) /\ [RingNext]_ringVars =>
        Rep(buf)' /\ [Abstract!Next]_<<[items |-> Contents(buf), size |-> buf.size], out>>
  BY <1>2 DEF View
<1>4. QED
  BY <1>1, <1>3, PTL DEF RingSpec, Implements, Abstract!Spec

-----------------------------------------------------------------------------
(* The scheduler.                                                          *)

\* The run queues that the backends may hold.
RunQueues == Deques(Entries)

\* The fibers that have an entry on a run queue.
QueuedOn(d) == {e.fiber : e \in ItemsOf(d)}

LEMMA EntriesOfQueued ==
  ASSUME NEW d \in RunQueues, NEW f
  PROVE  /\ EntriesOf(d, f) \in SUBSET Nat
         /\ EntriesOf(d, f) \subseteq 1 .. Len(d.items)
         /\ EntriesOf(d, f) # {} <=> f \in QueuedOn(d)
         /\ QueuedOn(d) \subseteq Fibers
<1>1. /\ d.items \in Seq(Entries)
      /\ DOMAIN d.items = 1 .. Len(d.items)
      /\ 1 .. Len(d.items) \in SUBSET Nat
      /\ \A i \in 1 .. Len(d.items) : d.items[i] \in Entries
  BY DEF RunQueues, Deques
<1>2. \A e \in Entries : e.fiber \in Fibers
  BY DEF Entries
<1>3. QED
  BY <1>1, <1>2, Zenon DEF EntriesOf, QueuedOn, ItemsOf, Range

\* The first entry of a fiber that has one.
LEMMA FirstEntry ==
  ASSUME NEW d \in RunQueues, NEW f \in QueuedOn(d)
  PROVE  /\ Min(EntriesOf(d, f)) \in 1 .. Len(d.items)
         /\ d.items[Min(EntriesOf(d, f))] \in ItemsOf(d)
         /\ d.items[Min(EntriesOf(d, f))] \in Entries
         /\ d.items[Min(EntriesOf(d, f))].fiber = f
<1>1. Min(EntriesOf(d, f)) \in EntriesOf(d, f)
  BY EntriesOfQueued, MinOfNats
<1>2. \A i \in 1 .. Len(d.items) : d.items[i] \in Entries
  BY DEF RunQueues, Deques
<1>3. QED
  BY <1>1, <1>2, EntriesOfQueued, Zenon DEF EntriesOf, ItemsOf, Range

(***************************************************************************)
(* runqueue_delete takes one entry of the fiber away, and the entries of   *)
(* the other fibers stay unless the delete missed.                         *)
(***************************************************************************)
LEMMA DeleteEntry ==
  ASSUME NEW d \in RunQueues, NEW f
  PROVE  /\ RunqueueDelete(d, f) \in RunQueues
         /\ QueuedOn(RunqueueDelete(d, f)) \subseteq QueuedOn(d)
         /\ Misdelete(d, f) = {} => QueuedOn(d) \subseteq QueuedOn(RunqueueDelete(d, f)) \cup {f}
<1>1. CASE EntriesOf(d, f) = {}
  BY <1>1 DEF RunqueueDelete, DeleteFirst
<1>2. CASE EntriesOf(d, f) # {}
  <2> DEFINE i == Min(EntriesOf(d, f))
  <2>1. RunqueueDelete(d, f) = DeleteAt(d, i)
    BY <1>2, Zenon DEF RunqueueDelete, DeleteFirst
  <2>2. f \in QueuedOn(d)
    BY <1>2, EntriesOfQueued
  <2>3. i \in 1 .. Len(d.items) /\ d.items[i].fiber = f
    BY <2>2, FirstEntry
  <2>4. Misdelete(d, f) = {} => ~Misdeletes(d, i)
    BY <1>2, Zenon DEF Misdelete
  <2> HIDE DEF i
  <2>5. /\ DeleteAt(d, i) \in RunQueues
        /\ ItemsOf(DeleteAt(d, i)) \subseteq ItemsOf(d)
        /\ ~Misdeletes(d, i) => ItemsOf(d) = ItemsOf(DeleteAt(d, i)) \cup {d.items[i]}
    BY <2>3, DeleteAtKeeps, Zenon DEF RunQueues
  <2>6. QED
    BY <2>1, <2>3, <2>4, <2>5, Zenon DEF QueuedOn
<1>3. QED
  BY <1>1, <1>2

LEMMA AddEntry ==
  ASSUME NEW d \in RunQueues, NEW e \in Entries
  PROVE  /\ PushItem(d, e) \in RunQueues
         /\ QueuedOn(PushItem(d, e)) = QueuedOn(d) \cup {e.fiber}
         /\ UnshiftItem(d, e) \in RunQueues
         /\ QueuedOn(UnshiftItem(d, e)) = QueuedOn(d) \cup {e.fiber}
<1>1. /\ PushItem(d, e) \in RunQueues
      /\ ItemsOf(PushItem(d, e)) = ItemsOf(d) \cup {e}
  BY PushKeeps DEF RunQueues
<1>2. /\ UnshiftItem(d, e) \in RunQueues
      /\ ItemsOf(UnshiftItem(d, e)) = ItemsOf(d) \cup {e}
  BY UnshiftKeeps DEF RunQueues
<1>3. {x.fiber : x \in ItemsOf(d) \cup {e}} = {x.fiber : x \in ItemsOf(d)} \cup {e.fiber}
  OBVIOUS
<1>4. QED
  BY <1>1, <1>2, <1>3, Zenon DEF QueuedOn

LEMMA TakeEntry ==
  ASSUME NEW d \in RunQueues, d.items # <<>>
  PROVE  /\ Head(d.items) \in Entries
         /\ ShiftItem(d) \in RunQueues
         /\ QueuedOn(d) = QueuedOn(ShiftItem(d)) \cup {Head(d.items).fiber}
<1>1. /\ Head(d.items) \in Entries
      /\ ShiftItem(d) \in RunQueues
      /\ ItemsOf(d) = ItemsOf(ShiftItem(d)) \cup {Head(d.items)}
  BY ShiftKeeps, Zenon DEF RunQueues
<1>2. \A S, h : {e.fiber : e \in S \cup {h}} = {e.fiber : e \in S} \cup {h.fiber}
  OBVIOUS
<1>3. QED
  BY <1>1, <1>2, Zenon DEF QueuedOn

(***************************************************************************)
(* runqueue_push and runqueue_unshift: afterwards the fiber has an entry,  *)
(* and the other fibers still have theirs unless a delete missed.          *)
(***************************************************************************)
LEMMA EnqueueEntry ==
  ASSUME NEW d \in RunQueues, NEW f \in Fibers, NEW v \in ResumeValues,
         NEW r, NEW prioritize
  PROVE  /\ Enqueue(d, f, v, r, prioritize) \in RunQueues
         /\ f \in QueuedOn(Enqueue(d, f, v, r, prioritize))
         /\ QueuedOn(Enqueue(d, f, v, r, prioritize)) \subseteq QueuedOn(d) \cup {f}
         /\ (r /\ ~KeepsException(d, f, v, prioritize) => Misdelete(d, f) = {})
              => QueuedOn(d) \subseteq QueuedOn(Enqueue(d, f, v, r, prioritize))
<1> DEFINE q == Enqueue(d, f, v, r, prioritize)
           e == [fiber |-> f, value |-> v]
           c == Reschedulable(d, f, r)
<1>1. e \in Entries /\ e.fiber = f
  BY DEF Entries
<1>2. CASE ~prioritize /\ r /\ KeepsException(d, f, v, FALSE)
  <2>1. q = d
    BY <1>2, Zenon DEF Enqueue, RunqueuePush
  <2>2. f \in QueuedOn(d)
    BY <1>2, EntriesOfQueued DEF KeepsException, ExceptionScheduled
  <2>3. QED
    BY <2>1, <2>2, Zenon
<1>3. CASE ~(~prioritize /\ r /\ KeepsException(d, f, v, FALSE))
  <2>1. q = PushItem(c, e) \/ q = UnshiftItem(c, e)
    BY <1>3, Zenon DEF Enqueue, RunqueuePush, RunqueueUnshift
  <2>2. c = IF r THEN RunqueueDelete(d, f) ELSE d
    BY Zenon DEF Reschedulable, RunqueueDelete
  <2>3. /\ c \in RunQueues
        /\ QueuedOn(c) \subseteq QueuedOn(d)
        /\ (r => Misdelete(d, f) = {}) => QueuedOn(d) \subseteq QueuedOn(c) \cup {f}
    <3>1. CASE r
      <4>1. c = RunqueueDelete(d, f)
        BY <3>1, <2>2, Zenon
      <4> HIDE DEF c
      <4>2. QED
        BY <3>1, <4>1, DeleteEntry, Zenon
    <3>2. CASE ~r
      BY <3>2, <2>2, Zenon
    <3>3. QED
      BY <3>1, <3>2
  <2> HIDE DEF c, e, q
  <2>4. q \in RunQueues /\ QueuedOn(q) = QueuedOn(c) \cup {f}
    BY <1>1, <2>1, <2>3, AddEntry, Zenon
  <2>5. r => ~KeepsException(d, f, v, prioritize)
    BY <1>3, Zenon DEF KeepsException
  <2>6. QED
    BY <2>3, <2>4, <2>5, Zenon DEF q
<1>4. QED
  BY <1>2, <1>3, Zenon

(***************************************************************************)
(* runqueue_migrate adds the fiber's entry, if it has one, to the other    *)
(* queue.                                                                  *)
(***************************************************************************)
LEMMA MigrateEntry ==
  ASSUME NEW src \in RunQueues, NEW dest \in RunQueues, NEW f
  PROVE  /\ MigratedTo(src, dest, f) \in RunQueues
         /\ QueuedOn(dest) \subseteq QueuedOn(MigratedTo(src, dest, f))
         /\ f \in QueuedOn(src) => f \in QueuedOn(MigratedTo(src, dest, f))
         /\ QueuedOn(MigratedTo(src, dest, f)) \subseteq
              QueuedOn(dest) \cup (QueuedOn(src) \cap {f})
<1>1. CASE f \in QueuedOn(src)
  <2> DEFINE e == src.items[Min(EntriesOf(src, f))]
  <2>1. MigratedTo(src, dest, f) = PushItem(dest, e)
    BY <1>1, EntriesOfQueued, Zenon DEF MigratedTo
  <2>2. e \in Entries /\ e.fiber = f
    BY <1>1, FirstEntry, Zenon
  <2> HIDE DEF e
  <2>3. /\ PushItem(dest, e) \in RunQueues
        /\ QueuedOn(PushItem(dest, e)) = QueuedOn(dest) \cup {f}
    BY <2>2, AddEntry, Zenon
  <2>4. QED
    BY <1>1, <2>1, <2>3
<1>2. CASE f \notin QueuedOn(src)
  <2>1. MigratedTo(src, dest, f) = dest
    BY <1>2, EntriesOfQueued, Zenon DEF MigratedTo
  <2>2. QED
    BY <1>2, <2>1, Zenon
<1>3. QED
  BY <1>1, <1>2
-----------------------------------------------------------------------------
(***************************************************************************)
(* The inductive invariant.                                                *)
(***************************************************************************)
QueueTypes ==
    /\ runqueue \in [Threads -> RunQueues]
    /\ parkedRunqueue \in [Threads -> RunQueues]
    /\ runnable \in [Fibers -> BOOLEAN]
    /\ parked \in [Fibers -> BOOLEAN]
    /\ faults \subseteq Faults

\* A fiber is queued on its own thread.
QueuesOwned ==
    \A t \in Threads :
        \A f \in QueuedOn(runqueue[t]) \cup QueuedOn(parkedRunqueue[t]) : ThreadOf[f] = t

\* A thread runs, and switches to, its own fibers.
FibersOwned ==
    \A t \in Threads : /\ ThreadOf[current[t]] = t
                       /\ next[t] # NoEntry => ThreadOf[next[t].fiber] = t

\* An entry is held only between the shift and the transfer.
NextInPhase ==
    \A t \in Threads :
        /\ phase[t] \in {"ruby", "switch", "idle", "poll"} => next[t] = NoEntry
        /\ phase[t] = "transfer" => next[t] # NoEntry

\* Where control can return to: the current and the main fiber are alive.
ControlLives ==
    \A t \in Threads :
        /\ state[current[t]] # "dead"
        /\ phase[t] = "ruby" => state[current[t]] = "ruby"
        /\ ~Finished(MainFiber[t])

\* pending_count never falls behind the number of fibers inside an await.
PendingCounted ==
    \A t \in Threads :
        /\ Cardinality(Awaiting(t)) <= pendingCount[t]
        /\ "dead" \notin faults => Cardinality(Awaiting(t)) = pendingCount[t]

Inv ==
    /\ TypeOK
    /\ QueuesOwned
    /\ FibersOwned
    /\ NextInPhase
    /\ ControlLives
    /\ PendingCounted
    /\ RunnableIsKept

(***************************************************************************)
(* What a step may do to the queues without making @runnable lie: nothing  *)
(* leaves a queue for good, and only what is queued becomes runnable.      *)
(***************************************************************************)
QueuesKeep ==
    /\ QueueTypes'
    /\ QueuesOwned'
    /\ "dead" \in faults' <=> "dead" \in faults
    /\ "misdelete" \notin faults' =>
          /\ "misdelete" \notin faults
          /\ \A g \in Fibers : Queued(g) => Queued(g)'
          /\ \A g \in Fibers : runnable'[g] => runnable[g] \/ Queued(g)'

\* The run queue a fiber belongs on.
QueueOf(rq, prq, pk, g) == IF pk[g] THEN prq[ThreadOf[g]] ELSE rq[ThreadOf[g]]

LEMMA QueueOfIsQueue ==
  ASSUME NEW rq \in [Threads -> RunQueues], NEW prq \in [Threads -> RunQueues],
         NEW pk, NEW g \in Fibers
  PROVE  /\ QueueOf(rq, prq, pk, g) \in RunQueues
         /\ EntriesOf(QueueOf(rq, prq, pk, g), g) # {}
              <=> g \in QueuedOn(QueueOf(rq, prq, pk, g))
<1>1. QueueOf(rq, prq, pk, g) \in RunQueues
  BY FibersAssumption DEF QueueOf
<1>2. QED
  BY <1>1, EntriesOfQueued, Zenon

\* Queued, before and after a step, in terms of QueuedOn.
LEMMA QueuedIsQueuedOn ==
  /\ QueueTypes => \A g \in Fibers :
        Queued(g) <=> g \in QueuedOn(QueueOf(runqueue, parkedRunqueue, parked, g))
  /\ QueueTypes' => \A g \in Fibers :
        Queued(g)' <=> g \in QueuedOn(QueueOf(runqueue', parkedRunqueue', parked', g))
<1>1. QueueTypes => \A g \in Fibers :
        Queued(g) <=> g \in QueuedOn(QueueOf(runqueue, parkedRunqueue, parked, g))
  BY QueueOfIsQueue, Zenon DEF Queued, QueueOf, QueueTypes
<1>2. QueueTypes' => \A g \in Fibers :
        Queued(g)' <=> g \in QueuedOn(QueueOf(runqueue', parkedRunqueue', parked', g))
  BY QueueOfIsQueue, Zenon DEF Queued, QueueOf, QueueTypes
<1>3. QED
  BY <1>1, <1>2

LEMMA MisdeleteFault ==
  ASSUME NEW d, NEW f
  PROVE  /\ Misdelete(d, f) \subseteq {"misdelete"}
         /\ "misdelete" \notin Misdelete(d, f) => Misdelete(d, f) = {}
  BY DEF Misdelete

(***************************************************************************)
(* backend_base_schedule_fiber keeps the queues.                           *)
(***************************************************************************)
LEMMA ScheduleKeeps ==
  ASSUME QueueTypes, QueuesOwned, UNCHANGED parked,
         NEW f \in Fibers, NEW v \in ResumeValues, NEW prioritize \in BOOLEAN,
         ScheduleFiber(f, v, prioritize)
  PROVE  /\ QueuesKeep
         /\ state[f] # "dead" => Queued(f)'
         /\ \A t \in Threads \ {ThreadOf[f]} :
               runqueue'[t] = runqueue[t] /\ parkedRunqueue'[t] = parkedRunqueue[t]
         /\ QueuedOn(runqueue'[ThreadOf[f]]) \subseteq QueuedOn(runqueue[ThreadOf[f]]) \cup {f}
         /\ parked[f] => runqueue' = runqueue
         /\ runnable[f] => runnable' = runnable
<1>1. CASE state[f] = "dead"
  <2>1. UNCHANGED <<runqueue, parkedRunqueue, runnable, parked, faults>>
    BY <1>1 DEF ScheduleFiber
  <2>2. QueueTypes' /\ QueuesOwned'
    BY <2>1 DEF QueueTypes, QueuesOwned
  <2>3. \A g \in Fibers : Queued(g)' <=> Queued(g)
    BY <2>1 DEF Queued
  <2>4. QED
    BY <1>1, <2>1, <2>2, <2>3 DEF QueuesKeep
<1>2. CASE state[f] # "dead"
  <2> DEFINE u == ThreadOf[f]
             d == IF parked[f] THEN parkedRunqueue[u] ELSE runqueue[u]
             q == Enqueue(d, f, v, runnable[f], prioritize)
             deletes == runnable[f] /\ ~KeepsException(d, f, v, prioritize)
  <2>1. u \in Threads /\ d \in RunQueues
    BY FibersAssumption DEF QueueTypes
  <2>2. runnable[f] \in BOOLEAN
    BY DEF QueueTypes
  <2>3. /\ q \in RunQueues /\ f \in QueuedOn(q)
        /\ QueuedOn(q) \subseteq QueuedOn(d) \cup {f}
        /\ (deletes => Misdelete(d, f) = {}) => QueuedOn(d) \subseteq QueuedOn(q)
    <3> HIDE DEF d
    <3>1. QED
      BY <2>1, <2>2, EnqueueEntry, Zenon
  <2>4. /\ runqueue' = IF parked[f] THEN runqueue ELSE [runqueue EXCEPT ![u] = q]
        /\ parkedRunqueue' = IF parked[f] THEN [parkedRunqueue EXCEPT ![u] = q]
                             ELSE parkedRunqueue
        /\ runnable' = [runnable EXCEPT ![f] = TRUE]
        /\ faults' = faults \cup (IF deletes THEN Misdelete(d, f) ELSE {})
    BY <1>2 DEF ScheduleFiber
  <2> HIDE DEF q, deletes
  <2>5. /\ faults' \subseteq Faults
        /\ "dead" \in faults' <=> "dead" \in faults
        /\ "misdelete" \notin faults' =>
              /\ "misdelete" \notin faults
              /\ deletes => Misdelete(d, f) = {}
    <3> HIDE DEF d
    <3>1. QED
      BY <2>4, MisdeleteFault DEF QueueTypes, Faults
  <2>6. QueueTypes'
    BY <2>1, <2>3, <2>4, <2>5 DEF QueueTypes
  <2>7. QueuesOwned'
    BY <2>1, <2>3, <2>4 DEF QueuesOwned, QueueTypes
  <2>8. Queued(f)'
    <3>1. QueueOf(runqueue', parkedRunqueue', parked', f) = q
      BY <2>1, <2>4 DEF QueueTypes, QueueOf
    <3>2. QED
      BY <2>3, <2>6, <3>1, QueuedIsQueuedOn, Zenon
  <2>9. ASSUME "misdelete" \notin faults', NEW g \in Fibers, Queued(g)
        PROVE  Queued(g)'
    <3>1. g \in QueuedOn(QueueOf(runqueue, parkedRunqueue, parked, g))
      BY <2>9, QueuedIsQueuedOn, Zenon
    <3>2. QueuedOn(d) \subseteq QueuedOn(q)
      BY <2>3, <2>5, <2>9, Zenon
    <3>3. \/ /\ QueueOf(runqueue', parkedRunqueue', parked', g) = q
             /\ QueueOf(runqueue, parkedRunqueue, parked, g) = d
          \/ QueueOf(runqueue', parkedRunqueue', parked', g)
               = QueueOf(runqueue, parkedRunqueue, parked, g)
      <4>1. CASE ThreadOf[g] = u /\ parked[g] = parked[f]
        BY <2>1, <2>4, <4>1 DEF QueueTypes, QueueOf
      <4>2. CASE ~(ThreadOf[g] = u /\ parked[g] = parked[f])
        BY <2>1, <2>4, <4>2, FibersAssumption DEF QueueTypes, QueueOf
      <4>3. QED
        BY <4>1, <4>2
    <3>4. QED
      BY <2>6, <3>1, <3>2, <3>3, QueuedIsQueuedOn, Zenon
  <2>10. QED
    BY <2>1, <2>3, <2>4, <2>5, <2>6, <2>7, <2>8, <2>9 DEF QueuesKeep, QueueTypes
<1>3. QED
  BY <1>1, <1>2

LEMMA UnchangedKeeps ==
  ASSUME QueueTypes, QueuesOwned, UNCHANGED <<queues, parked>>
  PROVE  QueuesKeep
<1>1. UNCHANGED <<runqueue, parkedRunqueue, runnable, faults, parked>>
  BY DEF queues
<1>2. QueueTypes' /\ QueuesOwned'
  BY <1>1 DEF QueueTypes, QueuesOwned
<1>3. \A g \in Fibers : Queued(g)' <=> Queued(g)
  BY <1>1 DEF Queued
<1>4. QED
  BY <1>1, <1>2, <1>3 DEF QueuesKeep

(***************************************************************************)
(* Fiber#__park__ and Fiber#__unpark__ move the entry to the queue where   *)
(* the fiber is looked for from then on.                                   *)
(***************************************************************************)
LEMMA ParkKeeps ==
  ASSUME QueueTypes, QueuesOwned, NEW t \in Threads, NEW f \in Fibers, Park(t, f)
  PROVE  QueuesKeep
<1> DEFINE src == runqueue[t]
           dest == parkedRunqueue[t]
           left == RunqueueDelete(src, f)
           moved == MigratedTo(src, dest, f)
<1>1. src \in RunQueues /\ dest \in RunQueues /\ ThreadOf[f] = t
  BY DEF QueueTypes, Park
<1>2. /\ parked' = [parked EXCEPT ![f] = TRUE]
      /\ runqueue' = [runqueue EXCEPT ![t] = left]
      /\ parkedRunqueue' = [parkedRunqueue EXCEPT ![t] = moved]
      /\ faults' = faults \cup Misdelete(src, f)
      /\ runnable' = runnable
  BY DEF Park
<1>3. /\ left \in RunQueues
      /\ QueuedOn(left) \subseteq QueuedOn(src)
      /\ Misdelete(src, f) = {} => QueuedOn(src) \subseteq QueuedOn(left) \cup {f}
  BY <1>1, DeleteEntry, Zenon
<1>4. /\ moved \in RunQueues
      /\ QueuedOn(dest) \subseteq QueuedOn(moved)
      /\ f \in QueuedOn(src) => f \in QueuedOn(moved)
      /\ QueuedOn(moved) \subseteq QueuedOn(dest) \cup (QueuedOn(src) \cap {f})
  BY <1>1, MigrateEntry, Zenon
<1> HIDE DEF left, moved
<1>5. /\ faults' \subseteq Faults
      /\ "dead" \in faults' <=> "dead" \in faults
      /\ "misdelete" \notin faults' => "misdelete" \notin faults /\ Misdelete(src, f) = {}
  <2> HIDE DEF src
  <2>1. QED
    BY <1>2, MisdeleteFault DEF QueueTypes, Faults
<1>6. QueueTypes'
  BY <1>2, <1>3, <1>4, <1>5 DEF QueueTypes
<1>7. QueuesOwned'
  BY <1>1, <1>2, <1>3, <1>4 DEF QueuesOwned, QueueTypes
<1>8. ASSUME "misdelete" \notin faults', NEW g \in Fibers, Queued(g)
      PROVE  Queued(g)'
  <2> DEFINE q == QueueOf(runqueue, parkedRunqueue, parked, g)
             r == QueueOf(runqueue', parkedRunqueue', parked', g)
  <2>1. g \in QueuedOn(q)
    BY <1>8, QueuedIsQueuedOn, Zenon
  <2>2. CASE g = f
    <3>1. r = moved /\ (q = src \/ q = dest)
      BY <1>1, <1>2, <2>2 DEF QueueTypes, QueueOf
    <3>2. QED
      BY <1>4, <1>6, <2>1, <2>2, <3>1, QueuedIsQueuedOn, Zenon
  <2>3. CASE g # f /\ ThreadOf[g] = t
    <3>1. (q = src /\ r = left) \/ (q = dest /\ r = moved)
      BY <1>1, <1>2, <2>3 DEF QueueTypes, QueueOf
    <3>2. g \in QueuedOn(r)
      BY <1>3, <1>4, <1>5, <1>8, <2>1, <2>3, <3>1
    <3>3. QED
      BY <1>6, <3>2, QueuedIsQueuedOn, Zenon
  <2>4. CASE g # f /\ ThreadOf[g] # t
    <3>1. q = r
      BY <1>1, <1>2, <2>4, FibersAssumption DEF QueueTypes, QueueOf
    <3>2. QED
      BY <1>6, <2>1, <3>1, QueuedIsQueuedOn, Zenon
  <2>5. QED
    BY <2>2, <2>3, <2>4
<1>9. QED
  BY <1>2, <1>5, <1>6, <1>7, <1>8 DEF QueuesKeep

LEMMA UnparkKeeps ==
  ASSUME QueueTypes, QueuesOwned, NEW t \in Threads, NEW f \in Fibers, Unpark(t, f)
  PROVE  QueuesKeep
<1> DEFINE src == parkedRunqueue[t]
           dest == runqueue[t]
           left == RunqueueDelete(src, f)
           moved == MigratedTo(src, dest, f)
<1>1. src \in RunQueues /\ dest \in RunQueues /\ ThreadOf[f] = t
  BY DEF QueueTypes, Unpark
<1>2. /\ parked' = [parked EXCEPT ![f] = FALSE]
      /\ parkedRunqueue' = [parkedRunqueue EXCEPT ![t] = left]
      /\ runqueue' = [runqueue EXCEPT ![t] = moved]
      /\ faults' = faults \cup Misdelete(src, f)
      /\ runnable' = runnable
  BY DEF Unpark
<1>3. /\ left \in RunQueues
      /\ QueuedOn(left) \subseteq QueuedOn(src)
      /\ Misdelete(src, f) = {} => QueuedOn(src) \subseteq QueuedOn(left) \cup {f}
  BY <1>1, DeleteEntry, Zenon
<1>4. /\ moved \in RunQueues
      /\ QueuedOn(dest) \subseteq QueuedOn(moved)
      /\ f \in QueuedOn(src) => f \in QueuedOn(moved)
      /\ QueuedOn(moved) \subseteq QueuedOn(dest) \cup (QueuedOn(src) \cap {f})
  BY <1>1, MigrateEntry, Zenon
<1> HIDE DEF left, moved
<1>5. /\ faults' \subseteq Faults
      /\ "dead" \in faults' <=> "dead" \in faults
      /\ "misdelete" \notin faults' => "misdelete" \notin faults /\ Misdelete(src, f) = {}
  <2> HIDE DEF src
  <2>1. QED
    BY <1>2, MisdeleteFault DEF QueueTypes, Faults
<1>6. QueueTypes'
  BY <1>2, <1>3, <1>4, <1>5 DEF QueueTypes
<1>7. QueuesOwned'
  BY <1>1, <1>2, <1>3, <1>4 DEF QueuesOwned, QueueTypes
<1>8. ASSUME "misdelete" \notin faults', NEW g \in Fibers, Queued(g)
      PROVE  Queued(g)'
  <2> DEFINE q == QueueOf(runqueue, parkedRunqueue, parked, g)
             r == QueueOf(runqueue', parkedRunqueue', parked', g)
  <2>1. g \in QueuedOn(q)
    BY <1>8, QueuedIsQueuedOn, Zenon
  <2>2. CASE g = f
    <3>1. r = moved /\ (q = src \/ q = dest)
      BY <1>1, <1>2, <2>2 DEF QueueTypes, QueueOf
    <3>2. QED
      BY <1>4, <1>6, <2>1, <2>2, <3>1, QueuedIsQueuedOn, Zenon
  <2>3. CASE g # f /\ ThreadOf[g] = t
    <3>1. (q = src /\ r = left) \/ (q = dest /\ r = moved)
      BY <1>1, <1>2, <2>3 DEF QueueTypes, QueueOf
    <3>2. g \in QueuedOn(r)
      BY <1>3, <1>4, <1>5, <1>8, <2>1, <2>3, <3>1
    <3>3. QED
      BY <1>6, <3>2, QueuedIsQueuedOn, Zenon
  <2>4. CASE g # f /\ ThreadOf[g] # t
    <3>1. q = r
      BY <1>1, <1>2, <2>4, FibersAssumption DEF QueueTypes, QueueOf
    <3>2. QED
      BY <1>6, <2>1, <3>1, QueuedIsQueuedOn, Zenon
  <2>5. QED
    BY <2>2, <2>3, <2>4
<1>9. QED
  BY <1>2, <1>5, <1>6, <1>7, <1>8 DEF QueuesKeep

(***************************************************************************)
(* What keeps the parts of the invariant that speak of several variables.  *)
(***************************************************************************)
LEMMA RunnableKept ==
  ASSUME RunnableIsKept, QueuesKeep, UNCHANGED next,
         \A g \in Fibers : Finished(g) => Finished(g)' \/ Queued(g)'
  PROVE  RunnableIsKept'
<1> SUFFICES ASSUME "misdelete" \notin faults', NEW g \in Fibers,
                    runnable'[g], ~Finished(g)'
             PROVE  Queued(g)' \/ Taken(g)'
  BY DEF RunnableIsKept, RunnableIsQueued
<1>1. CASE Queued(g)'
  BY <1>1
<1>2. CASE ~Queued(g)'
  <2>1. runnable[g] /\ ~Finished(g) /\ "misdelete" \notin faults /\ ~Queued(g)
    BY <1>2 DEF QueuesKeep
  <2>2. Taken(g)
    BY <2>1 DEF RunnableIsKept, RunnableIsQueued
  <2>3. QED
    BY <2>2 DEF Taken
<1>3. QED
  BY <1>1, <1>2

LEMMA PendingKept ==
  ASSUME PendingCounted, UNCHANGED pendingCount,
         "dead" \in faults' <=> "dead" \in faults,
         \A g \in Fibers : state'[g] = "await" <=> state[g] = "await"
  PROVE  PendingCounted'
<1>1. \A t : Awaiting(t)' = Awaiting(t)
  BY DEF Awaiting
<1>2. QED
  BY <1>1 DEF PendingCounted

\* The types of what the queues do not hold.
OtherTypes ==
    /\ state \in [Fibers -> FiberStates]
    /\ op \in [Fibers -> OpStates]
    /\ cqes \in [Threads -> SUBSET (Fibers \cup {NullCqe})]
    /\ pendingCount \in [Threads -> Nat]
    /\ switchCount \in [Threads -> 0 .. Threshold - 1]
    /\ current \in [Threads -> Fibers]
    /\ phase \in [Threads -> Phases]
    /\ pendingOps \in [Threads -> BOOLEAN]
    /\ polled \in [Threads -> BOOLEAN]
    /\ next \in [Threads -> Entries \cup {NoEntry}]

LEMMA TypeParts ==
  /\ TypeOK <=> QueueTypes /\ OtherTypes
  /\ TypeOK' <=> QueueTypes' /\ OtherTypes'
  BY DEF TypeOK, QueueTypes, OtherTypes, RunQueues

(***************************************************************************)
(* A step that leaves control where it is: it may queue entries, spin new  *)
(* fibers and move on inside a switch.                                     *)
(***************************************************************************)
Stays ==
    /\ UNCHANGED <<current, next, pendingCount>>
    /\ \A g \in Fibers : state'[g] = state[g] \/ (state[g] = "new" /\ state'[g] = "out")
    /\ \A u \in Threads :
          \/ phase'[u] = phase[u]
          \/ /\ phase'[u] # "ruby"
             /\ phase'[u] \in {"switch", "idle", "poll"} => next[u] = NoEntry
             /\ phase'[u] = "transfer" => next[u] # NoEntry

LEMMA StayKeeps ==
  ASSUME Inv, QueuesKeep, OtherTypes', Stays
  PROVE  Inv'
<1>1. TypeOK'
  BY TypeParts DEF QueuesKeep
<1>2. QueuesOwned'
  BY DEF QueuesKeep
<1>3. FibersOwned'
  BY DEF Inv, FibersOwned, Stays
<1>4. NextInPhase'
  BY DEF Inv, NextInPhase, Stays
<1>5. ControlLives'
  <2>1. OtherTypes
    BY TypeParts DEF Inv
  <2>2. QED
    BY <2>1, FibersAssumption DEF Inv, ControlLives, Stays, OtherTypes, Finished
<1>6. PendingCounted'
  <2>1. \A g \in Fibers : state'[g] = "await" <=> state[g] = "await"
    BY DEF Stays
  <2>2. QED
    BY <2>1, PendingKept DEF Inv, Stays, QueuesKeep
<1>7. RunnableIsKept'
  <2>1. \A g \in Fibers : Finished(g) => Finished(g)'
    BY DEF Stays, Finished
  <2>2. QED
    BY <2>1, RunnableKept DEF Inv, Stays
<1>8. QED
  BY <1>1, <1>2, <1>3, <1>4, <1>5, <1>6, <1>7 DEF Inv
-----------------------------------------------------------------------------
(***************************************************************************)
(* The invariant is preserved: one step per action.                        *)
(***************************************************************************)
LEMMA InvParts ==
  ASSUME Inv
  PROVE  QueueTypes /\ QueuesOwned /\ OtherTypes
  BY TypeParts DEF Inv

LEMMA CallKeeps ==
  ASSUME Inv, NEW t \in Threads, Call(t)
  PROVE  Inv'
<1>0. QueueTypes /\ QueuesOwned /\ OtherTypes
  BY InvParts
<1>1. ASSUME NEW f \in Fibers, NEW prioritize \in BOOLEAN, Spin(t, f, prioritize)
      PROVE  Inv'
  <2>1. QueuesKeep
    <3>1. ScheduleFiber(f, "value", prioritize) /\ UNCHANGED parked
      BY <1>1 DEF Spin
    <3>2. "value" \in ResumeValues
      BY DEF ResumeValues
    <3>3. QED
      BY <1>0, <3>1, <3>2, ScheduleKeeps, Zenon
  <2>2. OtherTypes' /\ Stays
    BY <1>0, <1>1 DEF Spin, OtherTypes, Stays, switching, FiberStates
  <2>3. QED
    BY <2>1, <2>2, StayKeeps
<1>2. ASSUME NEW f \in Fibers, NEW v \in ResumeValues, NEW prioritize \in BOOLEAN,
             ScheduleFiber(f, v, prioritize), Wakeup(t, f),
             UNCHANGED <<parked, state, op, pendingCount, current, switching>>
      PROVE  Inv'
  <2>1. QueuesKeep
    BY <1>0, <1>2, ScheduleKeeps, Zenon
  <2>2. cqes' \in [Threads -> SUBSET (Fibers \cup {NullCqe})]
    BY <1>0, <1>2 DEF OtherTypes, Wakeup
  <2>3. OtherTypes' /\ Stays
    BY <1>0, <1>2, <2>2 DEF OtherTypes, Stays, switching
  <2>4. QED
    BY <2>1, <2>3, StayKeeps
<1>3. ASSUME NEW f \in Fibers, NEW v \in {"value", "exception"}, Schedule(t, f, v)
      PROVE  Inv'
  <2>1. v \in ResumeValues /\ FALSE \in BOOLEAN
    BY DEF ResumeValues
  <2>2. /\ ScheduleFiber(f, v, FALSE) /\ Wakeup(t, f)
        /\ UNCHANGED <<parked, state, op, pendingCount, current, switching>>
    BY <1>3 DEF Schedule
  <2>3. QED
    BY <1>2, <2>1, <2>2
<1>4. ASSUME NEW f \in Fibers, NEW v \in PriorityValues, ScheduleWithPriority(t, f, v)
      PROVE  Inv'
  <2>1. v \in ResumeValues /\ TRUE \in BOOLEAN
    BY CallsAssumption DEF ResumeValues
  <2>2. /\ ScheduleFiber(f, v, TRUE) /\ Wakeup(t, f)
        /\ UNCHANGED <<parked, state, op, pendingCount, current, switching>>
    BY <1>4 DEF ScheduleWithPriority
  <2>3. QED
    BY <1>2, <2>1, <2>2
<1>5. ASSUME NEW f \in Fibers, Park(t, f) \/ Unpark(t, f)
      PROVE  Inv'
  <2>1. QueuesKeep
    BY <1>0, <1>5, ParkKeeps, UnparkKeeps, Zenon
  <2>2. OtherTypes' /\ Stays
    BY <1>0, <1>5 DEF Park, Unpark, OtherTypes, Stays, switching
  <2>3. QED
    BY <2>1, <2>2, StayKeeps
<1>6. CASE Stats(t)
  <2>1. QueuesKeep
    BY <1>0, <1>6, UnchangedKeeps DEF Stats
  <2>2. OtherTypes' /\ Stays
    BY <1>0, <1>6, CallsAssumption DEF Stats, OtherTypes, Stays
  <2>3. QED
    BY <2>1, <2>2, StayKeeps
<1>7. QED
  BY <1>1, <1>3, <1>4, <1>5, <1>6 DEF Call

LEMMA KernelKeeps ==
  ASSUME Inv, NEW f \in Fibers, Complete(f)
  PROVE  Inv'
<1>0. QueueTypes /\ QueuesOwned /\ OtherTypes
  BY InvParts
<1>1. QueuesKeep
  BY <1>0, UnchangedKeeps DEF Complete
<1>2. OtherTypes' /\ Stays
  BY <1>0, FibersAssumption DEF Complete, OtherTypes, Stays, switching, OpStates
<1>3. QED
  BY <1>1, <1>2, StayKeeps

LEMMA SignalKeeps ==
  ASSUME Inv, NEW t \in Threads, NEW f \in Fibers, PollSignal(t, f)
  PROVE  Inv'
<1>0. QueueTypes /\ QueuesOwned /\ OtherTypes
  BY InvParts
<1>1. QueuesKeep
  <2>1. ScheduleFiber(f, "value", TRUE) /\ UNCHANGED parked
    BY DEF PollSignal
  <2>2. "value" \in ResumeValues /\ TRUE \in BOOLEAN
    BY DEF ResumeValues
  <2>3. QED
    BY <1>0, <2>1, <2>2, ScheduleKeeps, Zenon
<1>2. OtherTypes' /\ Stays
  BY <1>0 DEF PollSignal, OtherTypes, Stays, FiberStates, Phases
<1>3. QED
  BY <1>1, <1>2, StayKeeps

(***************************************************************************)
(* The current fiber gives up control: its state becomes s.                *)
(***************************************************************************)
Leaves(t, s) ==
    /\ phase[t] = "ruby"
    /\ state' = [state EXCEPT ![current[t]] = s]
    /\ pendingCount' = IF s = "await" THEN [pendingCount EXCEPT ![t] = @ + 1]
                       ELSE pendingCount
    /\ BeginSwitch(t, pendingCount'[t])
    /\ UNCHANGED <<cqes, current>>

LEMMA LeaveKeeps ==
  ASSUME Inv, NEW t \in Threads, NEW s \in {"out", "await", "done"}, Leaves(t, s),
         s = "done" => current[t] # MainFiber[t],
         op' \in [Fibers -> OpStates],
         QueueTypes', QueuesOwned', "dead" \in faults' <=> "dead" \in faults,
         RunnableIsKept'
  PROVE  Inv'
<1>0. QueueTypes /\ OtherTypes /\ current[t] \in Fibers /\ state[current[t]] = "ruby"
  BY InvParts DEF Leaves, Inv, ControlLives, OtherTypes
<1>1. TypeOK'
  <2>1. switchCount' \in [Threads -> 0 .. Threshold - 1]
    BY <1>0, CallsAssumption DEF Leaves, BeginSwitch, OtherTypes
  <2>2. pendingCount' \in [Threads -> Nat]
    BY <1>0 DEF Leaves, OtherTypes
  <2>3. OtherTypes'
    BY <1>0, <2>1, <2>2 DEF Leaves, BeginSwitch, OtherTypes, FiberStates, Phases
  <2>4. QED
    BY <2>3, TypeParts
<1>2. FibersOwned'
  BY DEF Inv, FibersOwned, Leaves, BeginSwitch
<1>3. NextInPhase'
  BY <1>0 DEF Inv, NextInPhase, Leaves, BeginSwitch, OtherTypes
<1>4. ControlLives'
  <2>1. \A u \in Threads : u # t => current[u] # current[t]
    BY DEF Inv, FibersOwned
  <2>2. \A u \in Threads : s = "done" => MainFiber[u] # current[t]
    BY FibersAssumption DEF Inv, FibersOwned
  <2>3. QED
    BY <1>0, <2>1, <2>2, FibersAssumption
       DEF Inv, ControlLives, Leaves, BeginSwitch, OtherTypes, Finished
<1>5. PendingCounted'
  <2>1. CASE s # "await"
    <3>1. \A g \in Fibers : state'[g] = "await" <=> state[g] = "await"
      BY <1>0, <2>1 DEF Leaves, OtherTypes
    <3>2. QED
      BY <2>1, <3>1, PendingKept DEF Inv, Leaves
  <2>2. CASE s = "await"
    <3>1. /\ Awaiting(t)' = Awaiting(t) \cup {current[t]}
          /\ current[t] \notin Awaiting(t)
          /\ IsFiniteSet(Awaiting(t))
      <4>1. ThreadOf[current[t]] = t
        BY DEF Inv, FibersOwned
      <4>2. IsFiniteSet(Awaiting(t))
        BY FibersAssumption, FS_Subset DEF Awaiting
      <4>3. QED
        BY <1>0, <2>2, <4>1, <4>2 DEF Leaves, OtherTypes, Awaiting
    <3>2. Cardinality(Awaiting(t)') = Cardinality(Awaiting(t)) + 1
      BY <3>1, FS_AddElement
    <3>3. \A u \in Threads : u # t => Awaiting(u)' = Awaiting(u)
      BY <1>0 DEF Leaves, OtherTypes, Awaiting, Inv, FibersOwned
    <3>4. Cardinality(Awaiting(t)) \in Nat
      BY <3>1, FS_CardinalityType
    <3>5. QED
      BY <1>0, <2>2, <3>2, <3>3, <3>4 DEF Inv, PendingCounted, Leaves, OtherTypes
  <2>3. QED
    BY <2>1, <2>2
<1>6. QED
  BY <1>1, <1>2, <1>3, <1>4, <1>5 DEF Inv

LEMMA YieldKeeps ==
  ASSUME Inv, NEW t \in Threads, Yield(t)
  PROVE  Inv'
<1>0. QueueTypes /\ QueuesOwned /\ OtherTypes /\ current[t] \in Fibers
  BY InvParts DEF OtherTypes
<1>1. CASE Snooze(t)
  <2>0. PICK c \in Fibers : c = current[t]
    BY <1>0
  <2>1. ScheduleFiber(c, "value", FALSE) /\ UNCHANGED parked
    BY <1>1, <2>0 DEF Snooze
  <2>2. "value" \in ResumeValues /\ FALSE \in BOOLEAN
    BY DEF ResumeValues
  <2>3. QueuesKeep /\ (state[c] # "dead" => Queued(c)')
    BY <1>0, <2>1, <2>2, ScheduleKeeps, Zenon
  <2>4. RunnableIsKept'
    <3>1. \A g \in Fibers : Finished(g) => Finished(g)' \/ Queued(g)'
      BY <1>0, <1>1, <2>0, <2>3 DEF Snooze, OtherTypes, Finished, Inv, ControlLives
    <3>2. QED
      BY <1>1, <2>3, <3>1, RunnableKept DEF Inv, Snooze, BeginSwitch
  <2>5. Leaves(t, "out") /\ op' = op
    BY <1>1 DEF Snooze, Leaves
  <2>6. QED
    BY <1>0, <2>3, <2>4, <2>5, LeaveKeeps DEF QueuesKeep, OtherTypes
<1>2. CASE Suspend(t)
  <2>1. QueuesKeep
    BY <1>0, <1>2, UnchangedKeeps DEF Suspend
  <2>2. Leaves(t, "out") /\ op' = op
    BY <1>2 DEF Suspend, Leaves
  <2>3. RunnableIsKept'
    <3>1. \A g \in Fibers : Finished(g) => Finished(g)'
      BY <1>0, <2>2 DEF Leaves, OtherTypes, Finished, Inv, ControlLives
    <3>2. QED
      BY <2>1, <2>2, <3>1, RunnableKept DEF Inv, Leaves, BeginSwitch
  <2>4. QED
    BY <1>0, <2>1, <2>2, <2>3, LeaveKeeps DEF QueuesKeep, OtherTypes
<1>3. ASSUME NEW kind \in {"inflight", "event"}, Await(t, kind)
      PROVE  Inv'
  <2>1. QueuesKeep
    BY <1>0, <1>3, UnchangedKeeps DEF Await
  <2>2. Leaves(t, "await")
    BY <1>0, <1>3 DEF Await, Leaves, OtherTypes
  <2>3. op' \in [Fibers -> OpStates]
    BY <1>0, <1>3 DEF Await, OtherTypes, OpStates
  <2>4. RunnableIsKept'
    <3>1. \A g \in Fibers : Finished(g) => Finished(g)'
      BY <1>0, <2>2 DEF Leaves, OtherTypes, Finished, Inv, ControlLives
    <3>2. QED
      BY <2>1, <2>2, <3>1, RunnableKept DEF Inv, Leaves, BeginSwitch
  <2>5. QED
    BY <2>1, <2>2, <2>3, <2>4, LeaveKeeps DEF QueuesKeep
<1>4. CASE Finish(t)
  <2> DEFINE c == current[t]
             d == runqueue[t]
             left == RunqueueDelete(d, c)
  <2>1. /\ d \in RunQueues
        /\ ThreadOf[c] = t
    BY <1>0 DEF QueueTypes, Inv, FibersOwned
  <2>2. /\ left \in RunQueues
        /\ QueuedOn(left) \subseteq QueuedOn(d)
        /\ Misdelete(d, c) = {} => QueuedOn(d) \subseteq QueuedOn(left) \cup {c}
    <3> HIDE DEF c, d
    <3>1. QED
      BY <2>1, DeleteEntry, Zenon
  <2>3. /\ runqueue' = [runqueue EXCEPT ![t] = left]
        /\ faults' = faults \cup Misdelete(d, c)
        /\ UNCHANGED <<parkedRunqueue, runnable, parked>>
    BY <1>4 DEF Finish
  <2>4. Leaves(t, "done") /\ op' = op /\ c # MainFiber[t]
    BY <1>4 DEF Finish, Leaves
  <2> HIDE DEF left
  <2>5. /\ faults' \subseteq Faults
        /\ "dead" \in faults' <=> "dead" \in faults
        /\ "misdelete" \notin faults' => "misdelete" \notin faults /\ Misdelete(d, c) = {}
    <3> HIDE DEF c, d
    <3>1. QED
      BY <1>0, <2>3, MisdeleteFault DEF QueueTypes, Faults
  <2>6. QueueTypes'
    BY <1>0, <2>2, <2>3, <2>5 DEF QueueTypes
  <2>7. QueuesOwned'
    BY <1>0, <2>2, <2>3 DEF QueuesOwned, QueueTypes
  <2>8. RunnableIsKept'
    <3> SUFFICES ASSUME "misdelete" \notin faults', NEW g \in Fibers,
                        runnable'[g], ~Finished(g)'
                 PROVE  Queued(g)' \/ Taken(g)'
      BY DEF RunnableIsKept, RunnableIsQueued
    <3>1. g # c /\ ~Finished(g)
      BY <1>0, <2>4 DEF Leaves, OtherTypes, Finished
    <3>2. Queued(g) \/ Taken(g)
      BY <2>3, <2>5, <3>1 DEF Inv, RunnableIsKept, RunnableIsQueued
    <3>3. CASE Taken(g)
      BY <2>4, <3>3 DEF Taken, Leaves, BeginSwitch
    <3>4. CASE Queued(g)
      <4>1. g \in QueuedOn(QueueOf(runqueue, parkedRunqueue, parked, g))
        BY <1>0, <3>4, QueuedIsQueuedOn, Zenon
      <4>2. \/ /\ QueueOf(runqueue, parkedRunqueue, parked, g) = d
               /\ QueueOf(runqueue', parkedRunqueue', parked', g) = left
            \/ QueueOf(runqueue, parkedRunqueue, parked, g)
                 = QueueOf(runqueue', parkedRunqueue', parked', g)
        BY <1>0, <2>3, FibersAssumption DEF QueueTypes, QueueOf
      <4>3. g \in QueuedOn(QueueOf(runqueue', parkedRunqueue', parked', g))
        <5> HIDE DEF c, d
        <5>1. QED
          BY <2>2, <2>5, <3>1, <4>1, <4>2
      <4>4. QED
        BY <2>6, <4>3, QueuedIsQueuedOn, Zenon
    <3>5. QED
      BY <3>2, <3>3, <3>4
  <2>9. QED
    BY <1>0, <2>4, <2>5, <2>6, <2>7, <2>8, LeaveKeeps DEF OtherTypes
<1>5. QED
  BY <1>1, <1>2, <1>3, <1>4 DEF Yield

(***************************************************************************)
(* Control returns to a live fiber of the thread, or to its main fiber.    *)
(***************************************************************************)
LEMMA ResumedLives ==
  ASSUME Inv, NEW t \in Threads, NEW f \in Fibers, ThreadOf[f] = t, state[f] # "dead",
         Control(t, f)
  PROVE  /\ Resumed(t, f) \in Fibers
         /\ ThreadOf[Resumed(t, f)] = t
         /\ ~Finished(Resumed(t, f))
         /\ \A g \in Fibers : Finished(g) => Finished(g)'
  BY FibersAssumption DEF Inv, ControlLives, Resumed, Control, Finished

LEMMA ControlKeeps ==
  ASSUME Inv, NEW t \in Threads, NEW f \in Fibers, ThreadOf[f] = t, state[f] # "dead",
         Control(t, f), UNCHANGED switchCount,
         op' \in [Fibers -> OpStates],
         cqes' \in [Threads -> SUBSET (Fibers \cup {NullCqe})],
         pendingCount' \in [Threads -> Nat],
         QueueTypes', QueuesOwned', PendingCounted', RunnableIsKept'
  PROVE  Inv'
<1>0. OtherTypes
  BY InvParts
<1>1. /\ Resumed(t, f) \in Fibers
      /\ ThreadOf[Resumed(t, f)] = t
      /\ ~Finished(Resumed(t, f))
  BY ResumedLives
<1>2. TypeOK'
  <2>1. OtherTypes'
    BY <1>0, <1>1 DEF Control, OtherTypes, FiberStates, Phases
  <2>2. QED
    BY <2>1, TypeParts
<1>3. FibersOwned'
  BY <1>0, <1>1 DEF Inv, FibersOwned, Control, OtherTypes
<1>4. NextInPhase'
  BY <1>0 DEF Inv, NextInPhase, Control, OtherTypes
<1>5. ControlLives'
  <2>1. ASSUME NEW u \in Threads, u # t
        PROVE  /\ state'[current'[u]] = state[current[u]]
               /\ phase'[u] = phase[u]
    BY <1>0, <1>1, <2>1 DEF Control, OtherTypes, Inv, FibersOwned
  <2>2. /\ state'[current'[t]] = "ruby"
        /\ \A u \in Threads : ~Finished(MainFiber[u])'
    BY <1>0, <1>1, FibersAssumption
       DEF Control, OtherTypes, Inv, ControlLives, Finished, Resumed
  <2>3. QED
    BY <2>1, <2>2 DEF Inv, ControlLives
<1>6. QED
  BY <1>2, <1>3, <1>4, <1>5 DEF Inv

LEMMA ResumeCounts ==
  ASSUME Inv, NEW t \in Threads, NEW f \in Fibers, ThreadOf[f] = t, state[f] # "dead",
         Resume(t, f), "dead" \in faults' <=> "dead" \in faults
  PROVE  /\ Control(t, f)
         /\ op' \in [Fibers -> OpStates]
         /\ cqes' \in [Threads -> SUBSET (Fibers \cup {NullCqe})]
         /\ pendingCount' \in [Threads -> Nat]
         /\ PendingCounted'
<1> DEFINE g == Resumed(t, f)
<1>0. OtherTypes /\ Control(t, f)
  BY InvParts DEF Resume
<1>1. g \in Fibers /\ ThreadOf[g] = t /\ ~Finished(g)
  BY <1>0, ResumedLives
<1>2. \A h \in Fibers : state'[h] = IF h = g THEN "ruby"
                                     ELSE IF h = f THEN "dead" ELSE state[h]
  BY <1>0 DEF Control
<1>3. \A h \in Fibers \ {g} : state'[h] = "await" <=> state[h] = "await"
  <2>1. f # g => state[f] = "done"
    BY DEF Resumed
  <2> HIDE DEF g
  <2>2. QED
    BY <1>2, <2>1
<1>4. op' \in [Fibers -> OpStates] /\ cqes' \in [Threads -> SUBSET (Fibers \cup {NullCqe})]
  BY <1>0, <1>1 DEF Resume, OtherTypes, OpStates
<1>5. \A u \in Threads : IsFiniteSet(Awaiting(u)) /\ Cardinality(Awaiting(u)) \in Nat
  BY FibersAssumption, FS_Subset, FS_CardinalityType DEF Awaiting
<1>6. CASE state[g] = "await"
  <2>1. pendingCount' = [pendingCount EXCEPT ![t] = @ - 1]
    BY <1>6 DEF Resume
  <2> HIDE DEF g
  <2>2. Awaiting(t)' = Awaiting(t) \ {g} /\ g \in Awaiting(t)
    BY <1>1, <1>2, <1>3, <1>6 DEF Awaiting
  <2>3. \A u \in Threads : u # t => Awaiting(u)' = Awaiting(u)
    BY <1>1, <1>2, <1>3 DEF Awaiting
  <2>4. Cardinality(Awaiting(t)') = Cardinality(Awaiting(t)) - 1
    BY <1>5, <2>2, FS_RemoveElement
  <2>5. Cardinality(Awaiting(t)) # 0
    BY <1>5, <2>2, FS_EmptySet
  <2>6. pendingCount' \in [Threads -> Nat] /\ PendingCounted'
    BY <1>0, <1>5, <2>1, <2>3, <2>4, <2>5 DEF Inv, PendingCounted, OtherTypes
  <2>7. QED
    BY <1>0, <1>4, <2>6
<1>7. CASE state[g] # "await"
  <2>1. pendingCount' = pendingCount
    BY <1>7 DEF Resume
  <2> HIDE DEF g
  <2>2. \A h \in Fibers : state'[h] = "await" <=> state[h] = "await"
    BY <1>2, <1>3, <1>7
  <2>3. PendingCounted'
    BY <2>1, <2>2, PendingKept DEF Inv
  <2>4. QED
    BY <1>0, <1>4, <2>1, <2>3 DEF OtherTypes
<1>8. QED
  BY <1>6, <1>7

(***************************************************************************)
(* The steps of a switch.                                                  *)
(***************************************************************************)
LEMMA TakeKeeps ==
  ASSUME Inv, NEW t \in Threads, SwitchTake(t)
  PROVE  Inv'
<1> DEFINE d == runqueue[t]
           e == Head(d.items)
<1>0. QueueTypes /\ QueuesOwned /\ OtherTypes
  BY InvParts
<1>1. d \in RunQueues /\ d.items # <<>>
  BY <1>0 DEF QueueTypes, SwitchTake
<1>2. /\ e \in Entries /\ ShiftItem(d) \in RunQueues
      /\ QueuedOn(d) = QueuedOn(ShiftItem(d)) \cup {e.fiber}
  <2> HIDE DEF d
  <2>1. QED
    BY <1>1, TakeEntry
<1>3. /\ runqueue' = [runqueue EXCEPT ![t] = ShiftItem(d)]
      /\ next' = [next EXCEPT ![t] = e]
      /\ phase'[t] \in {"drain", "transfer"}
      /\ phase' = [phase EXCEPT ![t] = phase'[t]]
      /\ UNCHANGED <<parkedRunqueue, runnable, faults, parked, state, op, cqes,
                     pendingCount, switchCount, current, pendingOps, polled>>
  BY <1>0 DEF SwitchTake, OtherTypes
<1>4. e.fiber \in Fibers /\ e # NoEntry /\ ThreadOf[e.fiber] = t
  <2>1. e.fiber \in Fibers /\ e.fiber \in QueuedOn(d)
    <3> HIDE DEF e, d
    <3>1. QED
      BY <1>2 DEF Entries
  <2>2. ThreadOf[e.fiber] = t
    BY <1>0, <2>1 DEF QueuesOwned
  <2>3. QED
    BY <2>1, <2>2, FibersAssumption DEF NoEntry
<1> HIDE DEF e
<1>5. QueueTypes'
  BY <1>0, <1>2, <1>3 DEF QueueTypes
<1>6. QueuesOwned'
  BY <1>0, <1>2, <1>3 DEF QueuesOwned, QueueTypes
<1>7. TypeOK'
  <2>1. OtherTypes'
    BY <1>0, <1>2, <1>3 DEF OtherTypes, Phases
  <2>2. QED
    BY <1>5, <2>1, TypeParts
<1>8. FibersOwned' /\ NextInPhase'
  BY <1>0, <1>3, <1>4 DEF OtherTypes, Inv, FibersOwned, NextInPhase
<1>9. ControlLives'
  BY <1>0, <1>3 DEF OtherTypes, Inv, ControlLives, Finished
<1>10. PendingCounted'
  BY <1>3, PendingKept DEF Inv
<1>11. RunnableIsKept'
  <2> SUFFICES ASSUME "misdelete" \notin faults', NEW g \in Fibers,
                      runnable'[g], ~Finished(g)'
               PROVE  Queued(g)' \/ Taken(g)'
    BY DEF RunnableIsKept, RunnableIsQueued
  <2>1. Queued(g) \/ Taken(g)
    BY <1>3 DEF Inv, RunnableIsKept, RunnableIsQueued, Finished
  <2>2. CASE Taken(g)
    <3>1. next[t] = NoEntry
      BY DEF Inv, NextInPhase, SwitchTake
    <3>2. ThreadOf[g] # t
      BY <2>2, <3>1, FibersAssumption DEF Taken, NoEntry
    <3>3. QED
      BY <1>0, <1>3, <2>2, <3>2, FibersAssumption DEF Taken, OtherTypes
  <2>3. CASE Queued(g)
    <3>1. g \in QueuedOn(QueueOf(runqueue, parkedRunqueue, parked, g))
      BY <1>0, <2>3, QueuedIsQueuedOn, Zenon
    <3>2. CASE g = e.fiber
      BY <1>0, <1>3, <1>4, <3>2 DEF Taken, OtherTypes
    <3>3. CASE g # e.fiber
      <4>1. \/ /\ QueueOf(runqueue, parkedRunqueue, parked, g) = d
               /\ QueueOf(runqueue', parkedRunqueue', parked', g) = ShiftItem(d)
            \/ QueueOf(runqueue, parkedRunqueue, parked, g)
                 = QueueOf(runqueue', parkedRunqueue', parked', g)
        BY <1>0, <1>3, FibersAssumption DEF QueueTypes, QueueOf
      <4>2. g \in QueuedOn(QueueOf(runqueue', parkedRunqueue', parked', g))
        <5> HIDE DEF d
        <5>1. QED
          BY <1>2, <3>1, <3>3, <4>1
      <4>3. QED
        BY <1>5, <4>2, QueuedIsQueuedOn, Zenon
    <3>4. QED
      BY <3>2, <3>3
  <2>4. QED
    BY <2>1, <2>2, <2>3
<1>12. QED
  BY <1>6, <1>7, <1>8, <1>9, <1>10, <1>11 DEF Inv

LEMMA SwitchNoneKeeps ==
  ASSUME Inv, NEW t \in Threads, SwitchNone(t)
  PROVE  Inv'
<1>0. QueueTypes /\ QueuesOwned /\ OtherTypes
  BY InvParts
<1>1. PICK f \in Fibers : f = current[t]
  BY <1>0 DEF OtherTypes
<1>2. ThreadOf[f] = t /\ state[f] # "dead" /\ Resume(t, f) /\ next[t] = NoEntry
  BY <1>1 DEF Inv, FibersOwned, ControlLives, NextInPhase, SwitchNone
<1>3. QueuesKeep
  BY <1>0, UnchangedKeeps DEF SwitchNone
<1>4. /\ Control(t, f)
      /\ op' \in [Fibers -> OpStates]
      /\ cqes' \in [Threads -> SUBSET (Fibers \cup {NullCqe})]
      /\ pendingCount' \in [Threads -> Nat]
      /\ PendingCounted'
  BY <1>2, <1>3, ResumeCounts DEF QueuesKeep
<1>5. RunnableIsKept'
  <2>1. next' = next
    BY <1>0, <1>2, <1>4 DEF Control, OtherTypes
  <2>2. \A g \in Fibers : Finished(g) => Finished(g)'
    BY <1>2, <1>4, ResumedLives
  <2>3. QED
    BY <1>3, <2>1, <2>2, RunnableKept DEF Inv
<1>6. QED
  BY <1>2, <1>3, <1>4, <1>5, ControlKeeps DEF QueuesKeep, SwitchNone

(***************************************************************************)
(* What a transfer does to @runnable and to the entry that was taken.      *)
(***************************************************************************)
LEMMA TransferRunnable ==
  ASSUME Inv, NEW t \in Threads, NEW f \in Fibers,
         phase[t] = "transfer", ThreadOf[f] = t, state[f] # "dead", Control(t, f),
         runnable' = [runnable EXCEPT ![next[t].fiber] = FALSE],
         UNCHANGED <<runqueue, parkedRunqueue, parked>>,
         faults' \subseteq Faults, faults \subseteq faults'
  PROVE  QueueTypes' /\ QueuesOwned' /\ RunnableIsKept'
<1>0. QueueTypes /\ QueuesOwned /\ OtherTypes
  BY InvParts
<1>1. QueueTypes'
  BY <1>0 DEF QueueTypes
<1>2. QueuesOwned'
  BY <1>0 DEF QueuesOwned
<1>3. RunnableIsKept'
  <2> SUFFICES ASSUME "misdelete" \notin faults', NEW g \in Fibers,
                      runnable'[g], ~Finished(g)'
               PROVE  Queued(g)' \/ Taken(g)'
    BY DEF RunnableIsKept, RunnableIsQueued
  <2>1. runnable[g] /\ g # next[t].fiber
    BY <1>0 DEF QueueTypes
  <2>2. ~Finished(g)
    BY ResumedLives
  <2>3. Queued(g) \/ Taken(g)
    BY <2>1, <2>2 DEF Inv, RunnableIsKept, RunnableIsQueued
  <2>4. Queued(g) => Queued(g)'
    BY DEF Queued
  <2>5. Taken(g) => Taken(g)'
    BY <1>0, <2>1, FibersAssumption DEF Taken, Control, OtherTypes
  <2>6. QED
    BY <2>3, <2>4, <2>5
<1>4. QED
  BY <1>1, <1>2, <1>3

LEMMA TransferKeeps ==
  ASSUME Inv, NEW t \in Threads, Transfer(t)
  PROVE  Inv'
<1>0. QueueTypes /\ OtherTypes
  BY InvParts
<1>1. PICK f \in Fibers : f = next[t].fiber
  BY <1>0 DEF OtherTypes, Inv, NextInPhase, Transfer, Entries
<1>2. /\ ThreadOf[f] = t /\ state[f] # "dead" /\ Resume(t, f)
      /\ phase[t] = "transfer"
      /\ runnable' = [runnable EXCEPT ![next[t].fiber] = FALSE]
      /\ UNCHANGED <<runqueue, parkedRunqueue, parked, faults, switchCount>>
  BY <1>1 DEF Inv, FibersOwned, NextInPhase, Transfer
<1>3. /\ Control(t, f)
      /\ op' \in [Fibers -> OpStates]
      /\ cqes' \in [Threads -> SUBSET (Fibers \cup {NullCqe})]
      /\ pendingCount' \in [Threads -> Nat]
      /\ PendingCounted'
  BY <1>2, ResumeCounts
<1>4. QueueTypes' /\ QueuesOwned' /\ RunnableIsKept'
  <2>1. faults' \subseteq Faults /\ faults \subseteq faults'
    BY <1>0, <1>2 DEF QueueTypes
  <2>2. QED
    BY <1>2, <1>3, <2>1, TransferRunnable
<1>5. QED
  BY <1>2, <1>3, <1>4, ControlKeeps

LEMMA TransferDeadKeeps ==
  ASSUME Inv, NEW t \in Threads, TransferDead(t)
  PROVE  Inv'
<1>0. QueueTypes /\ OtherTypes
  BY InvParts
<1>1. PICK f \in Fibers : f = current[t]
  BY <1>0 DEF OtherTypes
<1>2. /\ ThreadOf[f] = t /\ state[f] # "dead" /\ Control(t, f)
      /\ phase[t] = "transfer"
      /\ runnable' = [runnable EXCEPT ![next[t].fiber] = FALSE]
      /\ faults' = faults \cup {"dead"}
      /\ UNCHANGED <<runqueue, parkedRunqueue, parked, op, cqes, pendingCount, switchCount>>
  BY <1>1 DEF Inv, FibersOwned, ControlLives, TransferDead
<1>3. QueueTypes' /\ QueuesOwned' /\ RunnableIsKept'
  <2>1. faults' \subseteq Faults /\ faults \subseteq faults'
    BY <1>0, <1>2 DEF QueueTypes, Faults
  <2>2. QED
    BY <1>2, <2>1, TransferRunnable
<1>4. PendingCounted'
  <2>1. \A u \in Threads : Awaiting(u)' \subseteq Awaiting(u)
    BY <1>2 DEF Awaiting, Control
  <2>2. \A u \in Threads : /\ Cardinality(Awaiting(u)') <= Cardinality(Awaiting(u))
                           /\ Cardinality(Awaiting(u)') \in Nat
                           /\ Cardinality(Awaiting(u)) \in Nat
    <3>1. \A u \in Threads : IsFiniteSet(Awaiting(u))
      BY FibersAssumption, FS_Subset DEF Awaiting
    <3>2. QED
      BY <2>1, <3>1, FS_Subset, FS_CardinalityType
  <2>3. QED
    BY <1>0, <1>2, <2>2 DEF Inv, PendingCounted, OtherTypes
<1>5. QED
  BY <1>0, <1>2, <1>3, <1>4, ControlKeeps DEF OtherTypes

LEMMA DrainKeeps ==
  ASSUME Inv, NEW t \in Threads, NEW c \in cqes[t], DrainOne(t, c)
  PROVE  Inv'
<1>0. QueueTypes /\ QueuesOwned /\ OtherTypes
  BY InvParts
<1>1. CASE c = NullCqe
  <2>1. QueuesKeep
    BY <1>0, <1>1, UnchangedKeeps DEF DrainOne
  <2>2. OtherTypes' /\ Stays
    BY <1>0, <1>1 DEF DrainOne, OtherTypes, Stays, switching
  <2>3. QED
    BY <2>1, <2>2, StayKeeps
<1>2. CASE c # NullCqe
  <2>1. c \in Fibers
    BY <1>0, <1>2 DEF OtherTypes
  <2>2. ScheduleFiber(c, "result", FALSE) /\ UNCHANGED parked
    BY <1>2 DEF DrainOne
  <2>3. "result" \in ResumeValues /\ FALSE \in BOOLEAN
    BY DEF ResumeValues
  <2>4. QueuesKeep
    BY <1>0, <2>1, <2>2, <2>3, ScheduleKeeps, Zenon
  <2>5. OtherTypes' /\ Stays
    BY <1>0, <1>2 DEF DrainOne, OtherTypes, Stays, switching, OpStates
  <2>6. QED
    BY <2>4, <2>5, StayKeeps
<1>3. QED
  BY <1>1, <1>2

LEMMA SwitchKeeps ==
  ASSUME Inv, NEW t \in Threads, SwitchStep(t)
  PROVE  Inv'
<1>0. QueueTypes /\ QueuesOwned /\ OtherTypes
  BY InvParts
<1>1. CASE SwitchEmpty(t) \/ IdleEnd(t) \/ PollReturn(t) \/ DrainEnd(t)
  <2>1. QueuesKeep
    BY <1>0, <1>1, UnchangedKeeps DEF SwitchEmpty, IdleEnd, PollReturn, DrainEnd
  <2>2. OtherTypes'
    BY <1>0, <1>1 DEF SwitchEmpty, IdleEnd, PollReturn, DrainEnd, OtherTypes, Phases
  <2>3. Stays
    BY <1>0, <1>1 DEF SwitchEmpty, IdleEnd, PollReturn, DrainEnd, OtherTypes, Stays,
                      Inv, NextInPhase
  <2>4. QED
    BY <2>1, <2>2, <2>3, StayKeeps
<1>2. QED
  BY <1>1, TakeKeeps, SwitchNoneKeeps, TransferKeeps, TransferDeadKeeps, DrainKeeps
     DEF SwitchStep

LEMMA StutterKeeps ==
  ASSUME Inv, UNCHANGED vars
  PROVE  Inv'
<1>0. QueueTypes /\ QueuesOwned /\ OtherTypes
  BY InvParts
<1>1. QueuesKeep
  BY <1>0, UnchangedKeeps DEF vars, queues
<1>2. OtherTypes' /\ Stays
  BY <1>0 DEF vars, OtherTypes, Stays
<1>3. QED
  BY <1>1, <1>2, StayKeeps

LEMMA InitInv ==
  ASSUME Init
  PROVE  Inv
<1>1. EmptyDeque \in RunQueues /\ QueuedOn(EmptyDeque) = {}
  <2>1. EmptyDeque \in RunQueues
    BY DEF EmptyDeque, RunQueues, Deques
  <2>2. EmptyDeque.items = <<>>
    BY DEF EmptyDeque
  <2>3. QED
    BY <2>1, <2>2 DEF QueuedOn, ItemsOf, Range
<1>2. QueueTypes
  BY <1>1 DEF Init, QueueTypes
<1>3. OtherTypes
  BY FibersAssumption, CallsAssumption
     DEF Init, OtherTypes, FiberStates, OpStates, Phases
<1>4. QueuesOwned
  BY <1>1 DEF Init, QueuesOwned
<1>5. FibersOwned /\ NextInPhase /\ ControlLives
  BY FibersAssumption DEF Init, FibersOwned, NextInPhase, ControlLives, Finished
<1>6. PendingCounted
  <2>1. \A t : Awaiting(t) = {}
    BY DEF Init, Awaiting
  <2>2. Cardinality({}) = 0
    BY FS_EmptySet
  <2>3. \A t \in Threads : pendingCount[t] = 0 /\ Cardinality(Awaiting(t)) = 0
    BY <2>1, <2>2 DEF Init
  <2>4. QED
    BY <2>3 DEF PendingCounted
<1>7. RunnableIsKept
  BY DEF Init, RunnableIsKept, RunnableIsQueued
<1>8. QED
  BY <1>2, <1>3, <1>4, <1>5, <1>6, <1>7, TypeParts DEF Inv

(***************************************************************************)
(* Inv is an invariant of the scheduler.                                   *)
(***************************************************************************)
THEOREM Invariance == Spec => []Inv
<1>1. Init => Inv
  BY InitInv
<1>2. Inv /\ [Next]_vars => Inv'
  BY CallKeeps, YieldKeeps, SwitchKeeps, SignalKeeps, KernelKeeps, StutterKeeps DEF Next
<1>3. QED
  BY <1>1, <1>2, PTL DEF Spec

(***************************************************************************)
(* Every variable of the backends and the fibers keeps its type: nothing   *)
(* is written outside a run queue, no entry is taken from an empty one,    *)
(* and pending_count, which is unsigned, never wraps below zero.           *)
(***************************************************************************)
THEOREM TypeCorrect == Spec => []TypeOK
<1>1. Inv => TypeOK
  BY DEF Inv
<1>2. QED
  BY <1>1, Invariance, PTL

(***************************************************************************)
(* backend_base_schedule_fiber may trust @runnable: a live fiber that has  *)
(* it set has an entry on its queue or is being switched to, unless a      *)
(* delete has hit the head of a full run queue.                            *)
(***************************************************************************)
THEOREM RunnableKeptAlways == Spec => []RunnableIsKept
<1>1. Inv => RunnableIsKept
  BY DEF Inv
<1>2. QED
  BY <1>1, Invariance, PTL

(***************************************************************************)
(* backend_base_switch_fiber may trust pending_count: it is the number of  *)
(* fibers inside an await, however many there are and however they are     *)
(* resumed, unless a dead fiber has been switched to.                      *)
(***************************************************************************)
THEOREM PendingCountCorrect == Spec => []PendingCountExact
<1>1. Inv => PendingCountExact
  BY DEF Inv, PendingCounted, PendingCountExact
<1>2. QED
  BY <1>1, Invariance, PTL
-----------------------------------------------------------------------------
(***************************************************************************)
(* No thread sleeps in a blocking poll while one of its fibers is ready,   *)
(* as long as no idle proc is installed: a proof for any number of threads *)
(* that schedule each other's fibers.                                      *)
(*                                                                         *)
(* The argument.  A thread starts a poll with an empty run queue.  While   *)
(* it polls only other threads can queue a fiber of it.  If the fiber was  *)
(* not runnable, schedule_fiber wakes the poll.  If it was, there is no    *)
(* wakeup, but then the invariant RunnableIsKept says that the fiber       *)
(* already had an entry, so it was there before.                           *)
(***************************************************************************)
\* What a poll that nothing has ended yet may leave on the run queue.
PollWaits ==
    \A t \in Threads :
        phase[t] = "poll" /\ cqes[t] = {} =>
            \A f \in QueuedOn(runqueue[t]) : Finished(f)

\* A completion is in the ring of the thread of its fiber.
CqesOwned == \A t \in Threads : \A c \in cqes[t] : c # NullCqe => ThreadOf[c] = t

PollInv ==
    /\ \A t \in Threads : phase[t] # "idle"
    /\ CqesOwned
    /\ "misdelete" \notin faults => PollWaits

(***************************************************************************)
(* A fiber that has terminated stays so, and a fault that has happened     *)
(* has happened.                                                           *)
(***************************************************************************)
Monotone ==
    /\ \A g \in Fibers : Finished(g) => Finished(g)'
    /\ faults \subseteq faults'

LEMMA ScheduleMonotone ==
  ASSUME NEW f, NEW v, NEW prioritize, ScheduleFiber(f, v, prioritize)
  PROVE  faults \subseteq faults'
  BY DEF ScheduleFiber

LEMMA StaysMonotone ==
  ASSUME Stays
  PROVE  \A g \in Fibers : Finished(g) => Finished(g)'
  BY DEF Stays, Finished

LEMMA LeavesMonotone ==
  ASSUME Inv, NEW t \in Threads, NEW s, Leaves(t, s)
  PROVE  \A g \in Fibers : Finished(g) => Finished(g)'
<1>1. OtherTypes /\ state[current[t]] = "ruby"
  BY InvParts DEF Leaves, Inv, ControlLives
<1>2. QED
  BY <1>1 DEF Leaves, OtherTypes, Finished

(***************************************************************************)
(* A step of thread t that touches nothing of the other threads.           *)
(***************************************************************************)
Local(t) ==
    /\ \A u \in Threads \ {t} : /\ runqueue'[u] = runqueue[u]
                                /\ cqes'[u] = cqes[u]
                                /\ phase'[u] = phase[u]
    /\ phase'[t] # "idle"
    /\ phase'[t] = "poll" => QueuedOn(runqueue'[t]) = {}
    /\ \A c \in cqes'[t] : c # NullCqe => ThreadOf[c] = t
    /\ Monotone

LEMMA LocalKeepsPoll ==
  ASSUME Inv, PollInv, NEW t \in Threads, Local(t)
  PROVE  PollInv'
<1>1. \A u \in Threads : phase'[u] # "idle"
  BY DEF PollInv, Local
<1>2. CqesOwned'
  BY DEF PollInv, Local, CqesOwned
<1>3. ASSUME "misdelete" \notin faults', NEW u \in Threads,
             phase'[u] = "poll", cqes'[u] = {},
             NEW f \in QueuedOn(runqueue'[u])
      PROVE  Finished(f)'
  <2>1. u # t
    BY <1>3 DEF Local
  <2>2. Finished(f)
    BY <1>3, <2>1 DEF Local, Monotone, PollInv, PollWaits
  <2>3. f \in Fibers
    <3>1. runqueue'[u] \in RunQueues
      BY <2>1, InvParts DEF Local, QueueTypes
    <3>2. QED
      BY <1>3, <3>1, EntriesOfQueued
  <2>4. QED
    BY <2>2, <2>3 DEF Local, Monotone
<1>4. QED
  BY <1>1, <1>2, <1>3 DEF PollInv, PollWaits
-----------------------------------------------------------------------------
(***************************************************************************)
(* The calls of Ruby code.                                                 *)
(***************************************************************************)
LEMMA RunsInRuby ==
  ASSUME PollInv, NEW t \in Threads, RunsRuby(t)
  PROVE  phase[t] = "ruby"
  BY DEF PollInv, RunsRuby

\* Scheduling a fiber of another thread: the heart of the argument.
LEMMA ScheduleKeepsPoll ==
  ASSUME Inv, PollInv, NEW t \in Threads, phase[t] = "ruby",
         NEW f \in Fibers, NEW v \in ResumeValues, NEW prioritize \in BOOLEAN,
         ScheduleFiber(f, v, prioritize), Wakeup(t, f), UNCHANGED <<parked, state, phase>>
  PROVE  PollInv'
<1> DEFINE u == ThreadOf[f]
<1>0. QueueTypes /\ QueuesOwned /\ OtherTypes /\ u \in Threads
  BY InvParts, FibersAssumption
<1>1. /\ \A w \in Threads \ {u} : runqueue'[w] = runqueue[w]
      /\ QueuedOn(runqueue'[u]) \subseteq QueuedOn(runqueue[u]) \cup {f}
      /\ parked[f] => runqueue' = runqueue
      /\ "misdelete" \notin faults' => "misdelete" \notin faults
  <2>1. /\ QueuesKeep
        /\ \A w \in Threads \ {ThreadOf[f]} : runqueue'[w] = runqueue[w]
    BY <1>0, ScheduleKeeps, Zenon
  <2>2. /\ QueuedOn(runqueue'[ThreadOf[f]]) \subseteq QueuedOn(runqueue[ThreadOf[f]]) \cup {f}
        /\ parked[f] => runqueue' = runqueue
    BY <1>0, ScheduleKeeps, Zenon
  <2>3. QED
    BY <2>1, <2>2, Zenon DEF QueuesKeep
<1>2. CqesOwned'
  BY <1>0 DEF PollInv, CqesOwned, Wakeup, OtherTypes
<1>3. \A w \in Threads : cqes[w] \subseteq cqes'[w]
  BY <1>0 DEF Wakeup, OtherTypes
<1>4. ASSUME "misdelete" \notin faults', phase[u] = "poll", cqes'[u] = {},
             f \in QueuedOn(runqueue'[u]), f \notin QueuedOn(runqueue[u])
      PROVE  Finished(f)
  <2>1. u # t
    BY <1>4
  <2>2. state[f] = "dead" \/ runnable[f]
    BY <1>0, <1>4, <2>1 DEF Wakeup, OtherTypes
  <2>3. CASE state[f] = "dead"
    BY <2>3 DEF Finished
  <2>4. CASE runnable[f] /\ state[f] # "dead"
    <3> SUFFICES ASSUME ~Finished(f) PROVE FALSE
      OBVIOUS
    <3>1. Queued(f) \/ Taken(f)
      BY <1>1, <1>4, <2>4 DEF Inv, RunnableIsKept, RunnableIsQueued
    <3>2. ~Taken(f)
      <4>1. next[u] = NoEntry
        BY <1>0, <1>4 DEF Inv, NextInPhase
      <4>2. QED
        BY <4>1, FibersAssumption DEF Taken, NoEntry
    <3>3. ~parked[f]
      BY <1>1, <1>4
    <3>4. f \in QueuedOn(runqueue[u])
      <4>1. f \in QueuedOn(QueueOf(runqueue, parkedRunqueue, parked, f))
        BY <1>0, <3>1, <3>2, QueuedIsQueuedOn, Zenon
      <4>2. QED
        BY <3>3, <4>1 DEF QueueOf
    <3>5. QED
      BY <1>4, <3>4
  <2>5. QED
    BY <2>2, <2>3, <2>4
<1>5. ASSUME "misdelete" \notin faults', NEW w \in Threads,
             phase'[w] = "poll", cqes'[w] = {},
             NEW g \in QueuedOn(runqueue'[w])
      PROVE  Finished(g)'
  <2>1. cqes[w] = {} /\ phase[w] = "poll"
    BY <1>3, <1>5
  <2>2. CASE g \in QueuedOn(runqueue[w])
    BY <1>1, <1>5, <2>1, <2>2 DEF PollInv, PollWaits, Finished
  <2>3. CASE g \notin QueuedOn(runqueue[w])
    <3>1. w = u /\ g = f
      BY <1>1, <1>5, <2>3
    <3>2. QED
      BY <1>4, <1>5, <2>1, <2>3, <3>1 DEF Finished
  <2>4. QED
    BY <2>2, <2>3
<1>6. QED
  BY <1>2, <1>5 DEF PollInv, PollWaits

LEMMA CallKeepsPoll ==
  ASSUME Inv, PollInv, NEW t \in Threads, Call(t)
  PROVE  PollInv'
<1>0. QueueTypes /\ QueuesOwned /\ OtherTypes
  BY InvParts
<1>1. ASSUME NEW f \in Fibers, NEW prioritize \in BOOLEAN, Spin(t, f, prioritize)
      PROVE  PollInv'
  <2>1. ScheduleFiber(f, "value", prioritize) /\ UNCHANGED parked /\ ThreadOf[f] = t
    BY <1>1 DEF Spin
  <2>2. "value" \in ResumeValues
    BY DEF ResumeValues
  <2>3. \A u \in Threads \ {ThreadOf[f]} : runqueue'[u] = runqueue[u]
    BY <1>0, <2>1, <2>2, ScheduleKeeps, Zenon
  <2>4. phase[t] = "ruby"
    BY <1>1, RunsInRuby DEF Spin
  <2>5. Monotone
    BY <1>0, <1>1, <2>1, ScheduleMonotone DEF Monotone, Spin, OtherTypes, Finished
  <2>6. Local(t)
    BY <1>1, <2>1, <2>3, <2>4, <2>5 DEF Local, Spin, switching, PollInv, CqesOwned
  <2>7. QED
    BY <2>6, LocalKeepsPoll
<1>2. ASSUME NEW f \in Fibers, NEW v \in {"value", "exception"}, Schedule(t, f, v)
      PROVE  PollInv'
  <2>1. v \in ResumeValues /\ FALSE \in BOOLEAN
    BY DEF ResumeValues
  <2>2. phase[t] = "ruby"
    BY <1>2, RunsInRuby DEF Schedule
  <2>3. ScheduleFiber(f, v, FALSE) /\ Wakeup(t, f) /\ UNCHANGED <<parked, state, phase>>
    BY <1>2 DEF Schedule, switching
  <2>4. QED
    BY <2>1, <2>2, <2>3, ScheduleKeepsPoll
<1>3. ASSUME NEW f \in Fibers, NEW v \in PriorityValues, ScheduleWithPriority(t, f, v)
      PROVE  PollInv'
  <2>1. v \in ResumeValues /\ TRUE \in BOOLEAN
    BY CallsAssumption DEF ResumeValues
  <2>2. phase[t] = "ruby"
    BY <1>3, RunsInRuby DEF ScheduleWithPriority
  <2>3. ScheduleFiber(f, v, TRUE) /\ Wakeup(t, f) /\ UNCHANGED <<parked, state, phase>>
    BY <1>3 DEF ScheduleWithPriority, switching
  <2>4. QED
    BY <2>1, <2>2, <2>3, ScheduleKeepsPoll
<1>4. ASSUME NEW f \in Fibers, Park(t, f) \/ Unpark(t, f)
      PROVE  PollInv'
  <2>1. phase[t] = "ruby"
    BY <1>4, RunsInRuby DEF Park, Unpark
  <2>2. Monotone
    BY <1>4 DEF Monotone, Park, Unpark, Finished
  <2>3. Local(t)
    BY <1>0, <1>4, <2>1, <2>2
       DEF Local, Park, Unpark, switching, PollInv, CqesOwned, QueueTypes
  <2>4. QED
    BY <2>3, LocalKeepsPoll
<1>5. CASE Stats(t)
  <2>1. phase[t] = "ruby"
    BY <1>5, RunsInRuby DEF Stats
  <2>2. Local(t)
    BY <1>5, <2>1 DEF Local, Monotone, Stats, queues, PollInv, CqesOwned, Finished
  <2>3. QED
    BY <2>2, LocalKeepsPoll
<1>6. QED
  BY <1>1, <1>2, <1>3, <1>4, <1>5 DEF Call
-----------------------------------------------------------------------------
(***************************************************************************)
(* The steps of a thread that gives up control or switches.                *)
(***************************************************************************)
LEMMA YieldKeepsPoll ==
  ASSUME Inv, PollInv, NEW t \in Threads, Yield(t)
  PROVE  PollInv'
<1>0. /\ QueueTypes /\ QueuesOwned /\ OtherTypes
      /\ current[t] \in Fibers /\ ThreadOf[current[t]] = t
  BY InvParts DEF OtherTypes, Inv, FibersOwned
<1>1. PICK s \in {"out", "await", "done"} : Leaves(t, s)
  BY <1>0 DEF Yield, Snooze, Suspend, Await, Finish, Leaves, OtherTypes
<1>2. \A u \in Threads \ {t} : runqueue'[u] = runqueue[u]
  <2>1. CASE Snooze(t)
    <3>1. PICK c \in Fibers : c = current[t]
      BY <1>0
    <3>2. ScheduleFiber(c, "value", FALSE) /\ UNCHANGED parked
      BY <2>1, <3>1 DEF Snooze
    <3>3. "value" \in ResumeValues /\ FALSE \in BOOLEAN
      BY DEF ResumeValues
    <3>4. \A u \in Threads \ {ThreadOf[c]} : runqueue'[u] = runqueue[u]
      BY <1>0, <3>2, <3>3, ScheduleKeeps, Zenon
    <3>5. QED
      BY <1>0, <3>1, <3>4
  <2>2. CASE ~Snooze(t)
    BY <1>0, <2>2 DEF Yield, Suspend, Await, Finish, queues, QueueTypes
  <2>3. QED
    BY <2>1, <2>2
<1>3. faults \subseteq faults'
  BY ScheduleMonotone DEF Yield, Snooze, Suspend, Await, Finish, queues
<1>4. Monotone
  BY <1>1, <1>3, LeavesMonotone DEF Monotone
<1>5. Local(t)
  BY <1>0, <1>1, <1>2, <1>4
     DEF Local, Leaves, BeginSwitch, OtherTypes, PollInv, CqesOwned
<1>6. QED
  BY <1>5, LocalKeepsPoll

LEMMA SignalKeepsPoll ==
  ASSUME Inv, PollInv, NEW t \in Threads, NEW f \in Fibers, PollSignal(t, f)
  PROVE  PollInv'
<1>0. QueueTypes /\ QueuesOwned /\ OtherTypes
  BY InvParts
<1>1. ScheduleFiber(f, "value", TRUE) /\ UNCHANGED parked /\ ThreadOf[f] = t
  BY DEF PollSignal
<1>2. "value" \in ResumeValues /\ TRUE \in BOOLEAN
  BY DEF ResumeValues
<1>3. \A u \in Threads \ {ThreadOf[f]} : runqueue'[u] = runqueue[u]
  BY <1>0, <1>1, <1>2, ScheduleKeeps, Zenon
<1>4. Monotone
  BY <1>0, <1>1, ScheduleMonotone DEF Monotone, PollSignal, OtherTypes, Finished
<1>5. Local(t)
  BY <1>0, <1>1, <1>3, <1>4 DEF Local, PollSignal, OtherTypes, PollInv, CqesOwned
<1>6. QED
  BY <1>5, LocalKeepsPoll

\* Control returns to a fiber of thread t, and its operation is cancelled.
LEMMA ControlKeepsPoll ==
  ASSUME Inv, PollInv, NEW t \in Threads,
         NEW f \in Fibers, ThreadOf[f] = t, state[f] # "dead", Control(t, f),
         Resume(t, f) \/ UNCHANGED cqes,
         runqueue' = runqueue, faults \subseteq faults'
  PROVE  PollInv'
<1>0. OtherTypes
  BY InvParts
<1>1. Monotone
  BY ResumedLives DEF Monotone
<1>2. /\ \A u \in Threads \ {t} : cqes'[u] = cqes[u] /\ phase'[u] = phase[u]
      /\ phase'[t] = "ruby"
      /\ cqes'[t] \subseteq cqes[t] \cup {NullCqe}
  BY <1>0 DEF Control, Resume, OtherTypes
<1>3. Local(t)
  BY <1>1, <1>2 DEF Local, PollInv, CqesOwned
<1>4. QED
  BY <1>3, LocalKeepsPoll

LEMMA DrainKeepsPoll ==
  ASSUME Inv, PollInv, NEW t \in Threads, NEW c \in cqes[t], DrainOne(t, c)
  PROVE  PollInv'
<1>0. QueueTypes /\ QueuesOwned /\ OtherTypes
  BY InvParts
<1>1. /\ \A u \in Threads \ {t} : runqueue'[u] = runqueue[u]
      /\ faults \subseteq faults'
  <2>1. CASE c = NullCqe
    BY <2>1 DEF DrainOne, queues
  <2>2. CASE c # NullCqe
    <3>1. c \in Fibers /\ ThreadOf[c] = t
      BY <1>0, <2>2 DEF OtherTypes, PollInv, CqesOwned
    <3>2. ScheduleFiber(c, "result", FALSE) /\ UNCHANGED parked
      BY <2>2 DEF DrainOne
    <3>3. "result" \in ResumeValues /\ FALSE \in BOOLEAN
      BY DEF ResumeValues
    <3>4. \A u \in Threads \ {ThreadOf[c]} : runqueue'[u] = runqueue[u]
      BY <1>0, <3>1, <3>2, <3>3, ScheduleKeeps, Zenon
    <3>5. QED
      BY <3>1, <3>2, <3>4, ScheduleMonotone
  <2>3. QED
    BY <2>1, <2>2
<1>2. Local(t)
  BY <1>0, <1>1 DEF Local, Monotone, DrainOne, switching, OtherTypes, PollInv, CqesOwned,
                    Finished
<1>3. QED
  BY <1>2, LocalKeepsPoll

\* A run queue with no items queues no fiber.
LEMMA NothingQueued ==
  ASSUME NEW d, d.items = <<>>
  PROVE  QueuedOn(d) = {}
  BY DEF QueuedOn, ItemsOf, Range

LEMMA SwitchKeepsPoll ==
  ASSUME "idle" \notin Calls, Inv, PollInv, NEW t \in Threads, SwitchStep(t)
  PROVE  PollInv'
<1>0. QueueTypes /\ OtherTypes
  BY InvParts
<1>1. CASE SwitchTake(t)
  <2>1. Local(t)
    BY <1>0, <1>1 DEF Local, Monotone, SwitchTake, QueueTypes, OtherTypes, PollInv,
                      CqesOwned, Finished
  <2>2. QED
    BY <2>1, LocalKeepsPoll
<1>2. CASE SwitchEmpty(t)
  <2>1. QueuedOn(runqueue[t]) = {} /\ runqueue' = runqueue
    BY <1>2, NothingQueued DEF SwitchEmpty, queues
  <2>2. Local(t)
    BY <1>0, <1>2, <2>1 DEF Local, Monotone, SwitchEmpty, queues, OtherTypes, PollInv,
                            CqesOwned, Finished
  <2>3. QED
    BY <2>2, LocalKeepsPoll
<1>3. CASE SwitchNone(t)
  <2>1. PICK f \in Fibers : f = current[t]
    BY <1>0 DEF OtherTypes
  <2>2. /\ ThreadOf[f] = t /\ state[f] # "dead" /\ Resume(t, f)
        /\ runqueue' = runqueue /\ faults' = faults
    BY <1>3, <2>1 DEF Inv, FibersOwned, ControlLives, SwitchNone, queues
  <2>3. QED
    BY <2>2, ControlKeepsPoll DEF Resume
<1>4. CASE Transfer(t)
  <2>1. PICK f \in Fibers : f = next[t].fiber
    BY <1>0, <1>4 DEF OtherTypes, Inv, NextInPhase, Transfer, Entries
  <2>2. /\ ThreadOf[f] = t /\ state[f] # "dead" /\ Resume(t, f)
        /\ runqueue' = runqueue /\ faults' = faults
    BY <1>4, <2>1 DEF Inv, FibersOwned, NextInPhase, Transfer
  <2>3. QED
    BY <2>2, ControlKeepsPoll DEF Resume
<1>5. CASE TransferDead(t)
  <2>1. PICK f \in Fibers : f = current[t]
    BY <1>0 DEF OtherTypes
  <2>2. /\ ThreadOf[f] = t /\ state[f] # "dead" /\ Control(t, f)
        /\ runqueue' = runqueue /\ faults \subseteq faults' /\ cqes' = cqes
    BY <1>5, <2>1 DEF Inv, FibersOwned, ControlLives, TransferDead
  <2>3. QED
    BY <2>2, ControlKeepsPoll
<1>6. CASE PollReturn(t) \/ DrainEnd(t)
  <2>1. Local(t)
    BY <1>0, <1>6 DEF Local, Monotone, PollReturn, DrainEnd, queues, OtherTypes, PollInv,
                      CqesOwned, Finished
  <2>2. QED
    BY <2>1, LocalKeepsPoll
<1>7. ~IdleEnd(t)
  BY DEF IdleEnd, PollInv
<1>8. QED
  BY <1>1, <1>2, <1>3, <1>4, <1>5, <1>6, <1>7, DrainKeepsPoll DEF SwitchStep

\* A completion can only end a poll.
LEMMA KernelKeepsPoll ==
  ASSUME Inv, PollInv, NEW f \in Fibers, Complete(f)
  PROVE  PollInv'
<1>0. OtherTypes /\ ThreadOf[f] \in Threads
  BY InvParts, FibersAssumption
<1>1. /\ UNCHANGED <<runqueue, faults, phase, state>>
      /\ \A t \in Threads : cqes[t] \subseteq cqes'[t]
  BY <1>0 DEF Complete, queues, switching, OtherTypes
<1>2. CqesOwned'
  BY <1>0 DEF Complete, OtherTypes, PollInv, CqesOwned
<1>3. QED
  BY <1>1, <1>2 DEF PollInv, PollWaits, Finished
-----------------------------------------------------------------------------
\* What PollInv says of the fibers on a run queue, NoStuckPoll says of its
\* entries.
LEMMA PollInvSuffices ==
  ASSUME Inv, PollInv
  PROVE  NoStuckPoll
<1> SUFFICES ASSUME "misdelete" \notin faults, NEW t \in Threads,
                    phase[t] = "poll", cqes[t] = {},
                    NEW i \in DOMAIN runqueue[t].items
             PROVE  Finished(runqueue[t].items[i].fiber)
  BY DEF NoStuckPoll
<1>1. runqueue[t].items[i] \in ItemsOf(runqueue[t])
  BY DEF ItemsOf, Range
<1>2. runqueue[t].items[i].fiber \in QueuedOn(runqueue[t])
  BY <1>1 DEF QueuedOn
<1>3. QED
  BY <1>2 DEF PollInv, PollWaits

(***************************************************************************)
(* The comment in backend_base_schedule_fiber holds: whatever the threads  *)
(* do to each other's fibers, no thread is stuck in a blocking poll while  *)
(* a live fiber is ready in its run queue.  The assumption is needed: with *)
(* an idle proc the claim is false (TLC shows it with "idle" in Calls).    *)
(***************************************************************************)
THEOREM NoStuckPollAlways ==
  ASSUME "idle" \notin Calls
  PROVE  Spec => []NoStuckPoll
<1>1. Init => PollInv
  BY DEF Init, PollInv, PollWaits, CqesOwned
<1>2. Inv /\ PollInv /\ [Next]_vars => PollInv'
  <2> SUFFICES ASSUME Inv, PollInv, [Next]_vars PROVE PollInv'
    OBVIOUS
  <2>1. CASE UNCHANGED vars
    BY <2>1 DEF vars, PollInv, PollWaits, CqesOwned, Finished
  <2>2. CASE Next
    BY <2>2, CallKeepsPoll, YieldKeepsPoll, SwitchKeepsPoll, SignalKeepsPoll,
       KernelKeepsPoll DEF Next
  <2>3. QED
    BY <2>1, <2>2
<1>3. Inv /\ PollInv => NoStuckPoll
  BY PollInvSuffices
<1>4. QED
  BY <1>1, <1>2, <1>3, Invariance, PTL DEF Spec

-----------------------------------------------------------------------------
(***************************************************************************)
(* An exception on its way to a fiber is not lost.  The entries that carry *)
(* one matter as the set of their fibers, and the operators of runqueue.c  *)
(* keep that set.                                                          *)
(***************************************************************************)
Thrown(f) == [fiber |-> f, value |-> "exception"]
Carries(d, f) == Thrown(f) \in ItemsOf(d)

LEMMA CarriedException ==
  ASSUME NEW d \in RunQueues, NEW f \in Fibers
  PROVE  (\E i \in EntriesOf(d, f) : d.items[i].value = "exception") <=> Carries(d, f)
<1>1. /\ d.items \in Seq(Entries) /\ DOMAIN d.items = 1 .. Len(d.items)
      /\ \A i \in DOMAIN d.items : d.items[i] \in Entries
  BY DEF RunQueues, Deques
<1>2. \A e \in Entries : e.fiber = f /\ e.value = "exception" <=> e = Thrown(f)
  BY DEF Entries, Thrown
<1>3. QED
  BY <1>1, <1>2, Zenon DEF Carries, EntriesOf, ItemsOf, Range

LEMMA FirstIsException ==
  ASSUME NEW d \in RunQueues, NEW f \in Fibers, EntriesOf(d, f) # {}
  PROVE  /\ Min(EntriesOf(d, f)) \in 1 .. Len(d.items)
         /\ d.items[Min(EntriesOf(d, f))] \in Entries
         /\ d.items[Min(EntriesOf(d, f))].fiber = f
         /\ ExceptionScheduled(d, f) <=> d.items[Min(EntriesOf(d, f))] = Thrown(f)
<1> DEFINE e == d.items[Min(EntriesOf(d, f))]
<1>1. f \in QueuedOn(d)
  BY EntriesOfQueued
<1>2. Min(EntriesOf(d, f)) \in 1 .. Len(d.items) /\ e \in Entries /\ e.fiber = f
  BY <1>1, FirstEntry
<1> HIDE DEF e
<1>3. e.value = "exception" <=> e = Thrown(f)
  BY <1>2 DEF Entries, Thrown
<1>4. QED
  BY <1>2, <1>3, Zenon DEF e, ExceptionScheduled

LEMMA DeleteCarries ==
  ASSUME NEW d \in RunQueues, NEW f \in Fibers, NEW g \in Fibers,
         Misdelete(d, f) = {}, Carries(d, g)
  PROVE  Carries(RunqueueDelete(d, f), g) \/ (g = f /\ ExceptionScheduled(d, f))
<1>1. CASE EntriesOf(d, f) = {}
  BY <1>1 DEF RunqueueDelete, DeleteFirst
<1>2. CASE EntriesOf(d, f) # {}
  <2> DEFINE i == Min(EntriesOf(d, f))
  <2>1. RunqueueDelete(d, f) = DeleteAt(d, i) /\ ~Misdeletes(d, i)
    BY <1>2, Zenon DEF RunqueueDelete, DeleteFirst, Misdelete
  <2>2. /\ i \in 1 .. Len(d.items) /\ d.items[i].fiber = f
        /\ ExceptionScheduled(d, f) <=> d.items[i] = Thrown(f)
    BY <1>2, FirstIsException
  <2> HIDE DEF i
  <2>3. ItemsOf(d) = ItemsOf(DeleteAt(d, i)) \cup {d.items[i]}
    BY <2>1, <2>2, DeleteAtKeeps, Zenon DEF RunQueues
  <2>4. CASE Thrown(g) = d.items[i]
    <3>1. g = f
      BY <2>2, <2>4 DEF Thrown
    <3>2. QED
      BY <2>2, <2>4, <3>1
  <2>5. CASE Thrown(g) # d.items[i]
    BY <2>1, <2>3, <2>5, Zenon DEF Carries
  <2>6. QED
    BY <2>4, <2>5
<1>3. QED
  BY <1>1, <1>2

LEMMA AddCarries ==
  ASSUME NEW d \in RunQueues, NEW e \in Entries, NEW g \in Fibers,
         Carries(d, g) \/ e = Thrown(g)
  PROVE  Carries(PushItem(d, e), g) /\ Carries(UnshiftItem(d, e), g)
<1>1. ItemsOf(PushItem(d, e)) = ItemsOf(d) \cup {e}
  BY PushKeeps DEF RunQueues
<1>2. ItemsOf(UnshiftItem(d, e)) = ItemsOf(d) \cup {e}
  BY UnshiftKeeps DEF RunQueues
<1>3. QED
  BY <1>1, <1>2, Zenon DEF Carries

\* A plain value replaces no exception unless it comes with priority.
LEMMA EnqueueCarries ==
  ASSUME NEW d \in RunQueues, NEW f \in Fibers, NEW g \in Fibers, NEW v \in ResumeValues,
         NEW r \in BOOLEAN, NEW prioritize \in BOOLEAN,
         prioritize /\ r => v = "exception",
         r /\ ~KeepsException(d, f, v, prioritize) => Misdelete(d, f) = {},
         Carries(d, g)
  PROVE  Carries(Enqueue(d, f, v, r, prioritize), g)
<1> DEFINE e == [fiber |-> f, value |-> v]
           q == Reschedulable(d, f, r)
<1>1. e \in Entries
  BY DEF Entries
<1>2. v = "exception" => e = Thrown(f)
  BY DEF Thrown
<1>3. CASE ~r
  <2>1. q = d
    BY <1>3 DEF Reschedulable
  <2> HIDE DEF e, q
  <2>2. Carries(PushItem(q, e), g) /\ Carries(UnshiftItem(q, e), g)
    BY <1>1, <2>1, AddCarries, Zenon
  <2>3. QED
    BY <1>3, <2>2 DEF Enqueue, RunqueuePush, RunqueueUnshift, e, q
<1>4. CASE r
  <2>1. q = RunqueueDelete(d, f) /\ q \in RunQueues
    BY <1>4, DeleteEntry DEF Reschedulable, RunqueueDelete
  <2>2. CASE KeepsException(d, f, v, prioritize)
    BY <1>4, <2>2 DEF Enqueue, RunqueuePush, KeepsException
  <2>3. CASE ~KeepsException(d, f, v, prioritize)
    <3>1. Misdelete(d, f) = {}
      BY <1>4, <2>3
    <3>2. Carries(q, g) \/ (g = f /\ ExceptionScheduled(d, f))
      BY <2>1, <3>1, DeleteCarries
    <3>3. ExceptionScheduled(d, f) => v = "exception"
      BY <1>4, <2>3 DEF KeepsException
    <3>4. Carries(q, g) \/ e = Thrown(g)
      BY <1>2, <3>2, <3>3
    <3> HIDE DEF e, q
    <3>5. Carries(PushItem(q, e), g) /\ Carries(UnshiftItem(q, e), g)
      BY <1>1, <2>1, <3>4, AddCarries, Zenon
    <3>6. ~(r /\ KeepsException(d, f, v, FALSE)) \/ prioritize
      BY <2>3 DEF KeepsException
    <3>7. QED
      BY <3>5, <3>6 DEF Enqueue, RunqueuePush, RunqueueUnshift, e, q
  <2>4. QED
    BY <2>2, <2>3
<1>5. QED
  BY <1>3, <1>4

LEMMA MigrateCarries ==
  ASSUME NEW src \in RunQueues, NEW dest \in RunQueues, NEW f \in Fibers, NEW g \in Fibers
  PROVE  /\ Carries(dest, g) => Carries(MigratedTo(src, dest, f), g)
         /\ ExceptionScheduled(src, f) => Carries(MigratedTo(src, dest, f), f)
<1>1. CASE EntriesOf(src, f) = {}
  BY <1>1 DEF MigratedTo, ExceptionScheduled
<1>2. CASE EntriesOf(src, f) # {}
  <2> DEFINE e == src.items[Min(EntriesOf(src, f))]
  <2>1. e \in Entries /\ (ExceptionScheduled(src, f) <=> e = Thrown(f))
    BY <1>2, FirstIsException
  <2>2. MigratedTo(src, dest, f) = PushItem(dest, e)
    BY <1>2 DEF MigratedTo
  <2> HIDE DEF e
  <2>3. QED
    BY <2>1, <2>2, AddCarries, Zenon
<1>3. QED
  BY <1>1, <1>2

LEMMA ShiftCarries ==
  ASSUME NEW d \in RunQueues, d.items # <<>>, NEW g \in Fibers, Carries(d, g)
  PROVE  Carries(ShiftItem(d), g) \/ Head(d.items).fiber = g
<1>1. ItemsOf(d) = ItemsOf(ShiftItem(d)) \cup {Head(d.items)}
  BY ShiftKeeps, Zenon DEF RunQueues
<1>2. CASE Thrown(g) = Head(d.items)
  BY <1>2 DEF Thrown
<1>3. CASE Thrown(g) # Head(d.items)
  BY <1>1, <1>3, Zenon DEF Carries
<1>4. QED
  BY <1>2, <1>3

\* HasException in these terms.
CarriedOn(rq, prq, g) == Carries(rq[ThreadOf[g]], g) \/ Carries(prq[ThreadOf[g]], g)

LEMMA HasExceptionIsCarried ==
  ASSUME QueueTypes, QueueTypes', NEW g \in Fibers
  PROVE  /\ HasException(g) <=> CarriedOn(runqueue, parkedRunqueue, g)
         /\ HasException(g)' <=> CarriedOn(runqueue', parkedRunqueue', g)
<1> DEFINE u == ThreadOf[g]
<1>1. u \in Threads
  BY FibersAssumption
<1> HIDE DEF u
<1>2. /\ runqueue[u] \in RunQueues /\ parkedRunqueue[u] \in RunQueues
      /\ runqueue'[u] \in RunQueues /\ parkedRunqueue'[u] \in RunQueues
  BY <1>1 DEF QueueTypes
<1>3. \A d \in RunQueues :
        (\E i \in EntriesOf(d, g) : d.items[i].value = "exception") <=> Carries(d, g)
  BY CarriedException
<1>4. HasException(g) <=> Carries(runqueue[u], g) \/ Carries(parkedRunqueue[u], g)
  BY <1>2, <1>3, Zenon DEF HasException, u
<1>5. HasException(g)' <=> Carries(runqueue'[u], g) \/ Carries(parkedRunqueue'[u], g)
  BY <1>2, <1>3, Zenon DEF HasException, EntriesOf, u
<1>6. QED
  BY <1>4, <1>5 DEF CarriedOn, u

\* What a step may do to the exceptions that are queued.
ExceptionsStay ==
    \A g \in Fibers :
        HasException(g) /\ "misdelete" \notin faults' /\ ~Finished(g)'
            => HasException(g)' \/ next'[ThreadOf[g]].fiber = g

LEMMA UnchangedExceptions ==
  ASSUME UNCHANGED <<runqueue, parkedRunqueue>>
  PROVE  ExceptionsStay
<1>1. \A g \in Fibers : HasException(g)' <=> HasException(g)
  BY DEF HasException, EntriesOf
<1>2. QED
  BY <1>1 DEF ExceptionsStay

\* backend_base_schedule_fiber.
LEMMA ScheduleExceptions ==
  ASSUME QueueTypes, QueueTypes', runnable \in [Fibers -> BOOLEAN],
         NEW f \in Fibers, NEW v \in ResumeValues, NEW prioritize \in BOOLEAN,
         prioritize /\ runnable[f] => v = "exception",
         ScheduleFiber(f, v, prioritize)
  PROVE  ExceptionsStay
<1>1. CASE state[f] = "dead"
  <2>1. UNCHANGED <<runqueue, parkedRunqueue>>
    BY <1>1 DEF ScheduleFiber
  <2>2. QED
    BY <2>1, UnchangedExceptions
<1>2. CASE state[f] # "dead"
  <2> SUFFICES ASSUME NEW g \in Fibers, HasException(g), "misdelete" \notin faults'
               PROVE  HasException(g)'
    BY DEF ExceptionsStay
  <2> DEFINE u == ThreadOf[f]
             d == IF parked[f] THEN parkedRunqueue[u] ELSE runqueue[u]
             q == Enqueue(d, f, v, runnable[f], prioritize)
  <2>1. u \in Threads /\ ThreadOf[g] \in Threads /\ runnable[f] \in BOOLEAN
    BY FibersAssumption
  <2>2. d \in RunQueues
    BY <2>1 DEF QueueTypes
  <2>3. runnable[f] /\ ~KeepsException(d, f, v, prioritize) => Misdelete(d, f) = {}
    <3>1. runnable[f] /\ ~KeepsException(d, f, v, prioritize) => Misdelete(d, f) \subseteq faults'
      BY <1>2 DEF ScheduleFiber
    <3> HIDE DEF d
    <3>2. QED
      BY <3>1, MisdeleteFault
  <2>4. /\ runqueue' = IF parked[f] THEN runqueue ELSE [runqueue EXCEPT ![u] = q]
        /\ parkedRunqueue' =
              IF ~parked[f] THEN parkedRunqueue ELSE [parkedRunqueue EXCEPT ![u] = q]
    BY <1>2 DEF ScheduleFiber
  <2>5. CarriedOn(runqueue, parkedRunqueue, g)
    BY HasExceptionIsCarried
  <2>6. Carries(d, g) => Carries(q, g)
    <3> HIDE DEF d
    <3>1. QED
      BY <2>1, <2>2, <2>3, EnqueueCarries
  <2>7. DOMAIN runqueue = Threads /\ DOMAIN parkedRunqueue = Threads
    BY DEF QueueTypes
  <2> HIDE DEF q
  <2>8. CarriedOn(runqueue', parkedRunqueue', g)
    BY <2>1, <2>4, <2>5, <2>6, <2>7 DEF CarriedOn
  <2>9. QED
    BY <2>8, HasExceptionIsCarried
<1>3. QED
  BY <1>1, <1>2

\* Fiber#__park__ and Fiber#__unpark__: the first entry moves, whatever it carries.
LEMMA MoveExceptions ==
  ASSUME QueueTypes, QueueTypes', NEW t \in Threads, NEW f \in Fibers, ThreadOf[f] = t,
         Park(t, f) \/ Unpark(t, f)
  PROVE  ExceptionsStay
<1> SUFFICES ASSUME NEW g \in Fibers, HasException(g), "misdelete" \notin faults'
             PROVE  HasException(g)'
  BY DEF ExceptionsStay
<1> DEFINE src == IF Park(t, f) THEN runqueue[t] ELSE parkedRunqueue[t]
           dest == IF Park(t, f) THEN parkedRunqueue[t] ELSE runqueue[t]
           rest == RunqueueDelete(src, f)
           all == MigratedTo(src, dest, f)
<1>1. src \in RunQueues /\ dest \in RunQueues
  BY DEF QueueTypes
<1>2. DOMAIN runqueue = Threads /\ DOMAIN parkedRunqueue = Threads
  BY DEF QueueTypes
<1>3. /\ Park(t, f) => /\ runqueue' = [runqueue EXCEPT ![t] = rest]
                       /\ parkedRunqueue' = [parkedRunqueue EXCEPT ![t] = all]
      /\ ~Park(t, f) => /\ runqueue' = [runqueue EXCEPT ![t] = all]
                        /\ parkedRunqueue' = [parkedRunqueue EXCEPT ![t] = rest]
      /\ Misdelete(src, f) \subseteq faults'
  <2>1. CASE Park(t, f)
    BY <2>1 DEF Park
  <2>2. CASE ~Park(t, f)
    BY <2>2 DEF Unpark
  <2>3. QED
    BY <2>1, <2>2
<1>4. /\ Park(t, f) => src = runqueue[t] /\ dest = parkedRunqueue[t]
      /\ ~Park(t, f) => src = parkedRunqueue[t] /\ dest = runqueue[t]
  OBVIOUS
<1> HIDE DEF src, dest
<1>5. Misdelete(src, f) = {}
  BY <1>3, MisdeleteFault
<1>6. Carries(dest, g) => Carries(all, g)
  BY <1>1, MigrateCarries
<1>7. Carries(src, g) => Carries(rest, g) \/ Carries(all, g)
  BY <1>1, <1>5, DeleteCarries, MigrateCarries
<1> HIDE DEF rest, all
<1>8. CarriedOn(runqueue, parkedRunqueue, g)
  BY HasExceptionIsCarried
<1>9. CarriedOn(runqueue', parkedRunqueue', g)
  <2>1. CASE ThreadOf[g] = t
    BY FibersAssumption, <1>2, <1>3, <1>4, <1>6, <1>7, <1>8, <2>1 DEF CarriedOn
  <2>2. CASE ThreadOf[g] # t
    BY FibersAssumption, <1>2, <1>3, <1>8, <2>2 DEF CarriedOn
  <2>3. QED
    BY <2>1, <2>2
<1>10. QED
  BY <1>9, HasExceptionIsCarried

\* The end of Fiber#finalize: what it deletes was on its way to a fiber that
\* terminates.
LEMMA FinishExceptions ==
  ASSUME QueueTypes, QueueTypes', NEW t \in Threads, current[t] \in Fibers,
         state \in [Fibers -> FiberStates], Finish(t)
  PROVE  ExceptionsStay
<1> SUFFICES ASSUME NEW g \in Fibers, HasException(g), "misdelete" \notin faults', ~Finished(g)'
             PROVE  HasException(g)'
  BY DEF ExceptionsStay
<1>1. PICK c \in Fibers : c = current[t]
  OBVIOUS
<1>2. g # c
  BY <1>1 DEF Finish, Finished
<1>3. runqueue[t] \in RunQueues /\ DOMAIN runqueue = Threads
  BY DEF QueueTypes
<1>4. /\ runqueue' = [runqueue EXCEPT ![t] = RunqueueDelete(runqueue[t], c)]
      /\ parkedRunqueue' = parkedRunqueue /\ Misdelete(runqueue[t], c) \subseteq faults'
  BY <1>1 DEF Finish
<1>5. Misdelete(runqueue[t], c) = {}
  BY <1>4, MisdeleteFault
<1>6. Carries(runqueue[t], g) => Carries(RunqueueDelete(runqueue[t], c), g)
  BY <1>2, <1>3, <1>5, DeleteCarries
<1>7. CarriedOn(runqueue, parkedRunqueue, g)
  BY HasExceptionIsCarried
<1>8. CarriedOn(runqueue', parkedRunqueue', g)
  BY <1>3, <1>4, <1>6, <1>7 DEF CarriedOn
<1>9. QED
  BY <1>8, HasExceptionIsCarried

LEMMA TakeExceptions ==
  ASSUME QueueTypes, QueueTypes', DOMAIN next = Threads, NEW t \in Threads, SwitchTake(t)
  PROVE  ExceptionsStay
<1> SUFFICES ASSUME NEW g \in Fibers, HasException(g)
             PROVE  HasException(g)' \/ next'[ThreadOf[g]].fiber = g
  BY DEF ExceptionsStay
<1>1. /\ runqueue[t] \in RunQueues /\ DOMAIN runqueue = Threads /\ runqueue[t].items # <<>>
      /\ runqueue' = [runqueue EXCEPT ![t] = ShiftItem(runqueue[t])]
      /\ next' = [next EXCEPT ![t] = Head(runqueue[t].items)]
      /\ parkedRunqueue' = parkedRunqueue
  BY DEF QueueTypes, SwitchTake
<1>2. Carries(runqueue[t], g) =>
        Carries(ShiftItem(runqueue[t]), g) \/ Head(runqueue[t].items).fiber = g
  BY <1>1, ShiftCarries
<1>3. CarriedOn(runqueue, parkedRunqueue, g)
  BY HasExceptionIsCarried
<1>4. CarriedOn(runqueue', parkedRunqueue', g) \/ next'[ThreadOf[g]].fiber = g
  BY <1>1, <1>2, <1>3 DEF CarriedOn
<1>5. QED
  BY <1>4, HasExceptionIsCarried

\* A fiber that has not been spun has never been scheduled nor awaited anything.
NewInv ==
    \A f \in Fibers : state[f] = "new" =>
        ~runnable[f] /\ op[f] = "none" /\ \A t \in Threads : f \notin cqes[t]

\* What keeps it: what a step schedules, awaits or completes is no new fiber.
NewStay ==
    \A f \in Fibers : state'[f] = "new" =>
        /\ state[f] = "new"
        /\ runnable'[f] => runnable[f]
        /\ op'[f] # "none" => op[f] # "none"
        /\ \A t \in Threads : f \in cqes'[t] => f \in cqes[t]

LEMMA NewKept ==
  ASSUME NewInv, NewStay
  PROVE  NewInv'
  BY DEF NewInv, NewStay

LEMMA ScheduledAlone ==
  ASSUME NEW f, NEW v, NEW prioritize, ScheduleFiber(f, v, prioritize),
         runnable \in [Fibers -> BOOLEAN]
  PROVE  \A g \in Fibers : g # f => runnable'[g] = runnable[g]
  BY DEF ScheduleFiber

LEMMA CallsNew ==
  ASSUME QueueTypes, OtherTypes, NEW t \in Threads, Call(t)
  PROVE  NewStay
<1>0. runnable \in [Fibers -> BOOLEAN] /\ state \in [Fibers -> FiberStates] /\ NullCqe \notin Fibers
  BY FibersAssumption DEF QueueTypes, OtherTypes
<1>1. ASSUME NEW f \in Fibers, NEW prioritize \in BOOLEAN, Spin(t, f, prioritize)
      PROVE  NewStay
  BY <1>0, <1>1, ScheduledAlone DEF Spin, NewStay
<1>2. ASSUME NEW f \in Fibers, NEW v, Schedule(t, f, v) \/ ScheduleWithPriority(t, f, v)
      PROVE  NewStay
  <2>1. /\ \A g \in Fibers : g # f => runnable'[g] = runnable[g]
        /\ state[f] # "new" /\ state' = state /\ op' = op /\ Wakeup(t, f)
    BY <1>0, <1>2, ScheduledAlone DEF Schedule, ScheduleWithPriority, CanSchedule
  <2>2. \A g \in Fibers, u \in Threads : g \in cqes'[u] => g \in cqes[u]
    BY <1>0, <2>1 DEF Wakeup, OtherTypes
  <2>3. QED
    BY <2>1, <2>2 DEF NewStay
<1>3. ASSUME NEW f \in Fibers, Park(t, f) \/ Unpark(t, f)
      PROVE  NewStay
  BY <1>3 DEF Park, Unpark, NewStay
<1>4. CASE Stats(t)
  BY <1>4 DEF Stats, queues, NewStay
<1>5. QED
  BY <1>1, <1>2, <1>3, <1>4 DEF Call

LEMMA YieldsNew ==
  ASSUME QueueTypes, OtherTypes, NEW t \in Threads, Yield(t)
  PROVE  NewStay
<1>0. /\ runnable \in [Fibers -> BOOLEAN] /\ state \in [Fibers -> FiberStates]
      /\ op \in [Fibers -> OpStates] /\ current[t] \in Fibers
  BY DEF QueueTypes, OtherTypes
<1>1. CASE Snooze(t)
  <2>1. \A g \in Fibers : g # current[t] => runnable'[g] = runnable[g]
    <3>1. PICK c \in Fibers : c = current[t] /\ ScheduleFiber(c, "value", FALSE)
      BY <1>0, <1>1 DEF Snooze
    <3>2. \A g \in Fibers : g # c => runnable'[g] = runnable[g]
      BY <1>0, <3>1 DEF ScheduleFiber
    <3>3. QED
      BY <3>1, <3>2
  <2>2. QED
    BY <1>0, <1>1, <2>1 DEF Snooze, NewStay
<1>2. CASE Suspend(t) \/ Finish(t)
  BY <1>0, <1>2 DEF Suspend, Finish, queues, NewStay
<1>3. ASSUME NEW kind, Await(t, kind)
      PROVE  NewStay
  BY <1>0, <1>3 DEF Await, queues, NewStay
<1>4. QED
  BY <1>1, <1>2, <1>3 DEF Yield

LEMMA ControlNew ==
  ASSUME NEW t, NEW f, Control(t, f), NEW g \in Fibers, state'[g] = "new"
  PROVE  state[g] = "new" /\ g # Resumed(t, f)
  BY DEF Control

LEMMA ResumesNew ==
  ASSUME OtherTypes, NEW t \in Threads, NEW f, Resume(t, f),
         \A g \in Fibers : runnable'[g] => runnable[g]
  PROVE  NewStay
<1>1. NullCqe \notin Fibers
  BY FibersAssumption
<1>2. \A g \in Fibers : state'[g] = "new" => state[g] = "new"
  BY ControlNew DEF Resume
<1>3. \A g \in Fibers : op'[g] # "none" => op[g] # "none"
  BY DEF Resume, OtherTypes
<1>4. \A g \in Fibers, u \in Threads : g \in cqes'[u] => g \in cqes[u]
  BY <1>1 DEF Resume, OtherTypes
<1>5. QED
  BY <1>2, <1>3, <1>4 DEF NewStay

LEMMA SwitchesNew ==
  ASSUME QueueTypes, OtherTypes, NewInv, NEW t \in Threads, SwitchStep(t)
  PROVE  NewStay
<1>0. runnable \in [Fibers -> BOOLEAN]
  BY DEF QueueTypes
<1>1. CASE SwitchTake(t) \/ SwitchEmpty(t) \/ IdleEnd(t) \/ PollReturn(t) \/ DrainEnd(t)
  BY <1>1 DEF SwitchTake, SwitchEmpty, IdleEnd, PollReturn, DrainEnd, queues, NewStay
<1>2. CASE SwitchNone(t)
  BY <1>2, ResumesNew DEF SwitchNone, queues
<1>3. CASE Transfer(t)
  <2>1. \A g \in Fibers : runnable'[g] => runnable[g]
    BY <1>0, <1>3 DEF Transfer
  <2>2. QED
    BY <1>3, <2>1, ResumesNew DEF Transfer
<1>4. CASE TransferDead(t)
  <2>1. \A g \in Fibers : runnable'[g] => runnable[g]
    BY <1>0, <1>4 DEF TransferDead
  <2>2. \A g \in Fibers : state'[g] = "new" => state[g] = "new"
    BY <1>4, ControlNew DEF TransferDead
  <2>3. QED
    BY <1>4, <2>1, <2>2 DEF TransferDead, NewStay
<1>5. ASSUME NEW c \in cqes[t], DrainOne(t, c)
      PROVE  NewStay
  <2>1. \A g \in Fibers, u \in Threads : g \in cqes'[u] => g \in cqes[u]
    BY <1>5 DEF DrainOne, OtherTypes
  <2>2. CASE c = NullCqe
    BY <1>5, <2>1, <2>2 DEF DrainOne, queues, NewStay
  <2>3. CASE c # NullCqe
    <3>1. c \in Fibers /\ state[c] # "new" /\ state' = state
      BY <1>5, <2>3 DEF OtherTypes, NewInv, DrainOne
    <3>2. \A g \in Fibers : g # c => runnable'[g] = runnable[g]
      <4>1. ScheduleFiber(c, "result", FALSE)
        BY <1>5, <2>3 DEF DrainOne
      <4>2. QED
        BY <1>0, <4>1, ScheduledAlone
    <3>3. op' = [op EXCEPT ![c] = "handled"]
      BY <1>5, <2>3 DEF DrainOne
    <3>4. QED
      BY <2>1, <3>1, <3>2, <3>3 DEF NewStay, OtherTypes
  <2>4. QED
    BY <2>2, <2>3
<1>6. QED
  BY <1>1, <1>2, <1>3, <1>4, <1>5 DEF SwitchStep

LEMMA NewStep ==
  ASSUME QueueTypes, OtherTypes, NewInv, [Next]_vars
  PROVE  NewInv'
<1>0. runnable \in [Fibers -> BOOLEAN] /\ state \in [Fibers -> FiberStates]
  BY DEF QueueTypes, OtherTypes
<1>1. CASE UNCHANGED vars
  BY <1>1 DEF vars, NewInv
<1>2. ASSUME NEW t \in Threads, SwitchStep(t) \/ Yield(t) \/ Call(t)
      PROVE  NewInv'
  BY <1>2, SwitchesNew, YieldsNew, CallsNew, NewKept
<1>3. ASSUME NEW t \in Threads, NEW f \in Fibers, PollSignal(t, f)
      PROVE  NewInv'
  <2>1. NewStay
    BY <1>0, <1>3, ScheduledAlone DEF PollSignal, NewStay
  <2>2. QED
    BY <2>1, NewKept
<1>4. ASSUME NEW f \in Fibers, Complete(f)
      PROVE  NewInv'
  <2>1. state[f] # "new"
    BY <1>4 DEF Complete, NewInv
  <2>2. NewStay
    BY <1>4, <2>1, FibersAssumption DEF Complete, queues, OtherTypes, NewStay
  <2>3. QED
    BY <2>2, NewKept
<1>5. QED
  BY <1>1, <1>2, <1>3, <1>4 DEF Next

LEMMA ExceptionsStep ==
  ASSUME PriorityValues \subseteq {"exception"},
         Inv, Inv', NewInv, [Next]_vars
  PROVE  ExceptionsStay
<1>0. /\ QueueTypes /\ QueueTypes' /\ OtherTypes
      /\ runnable \in [Fibers -> BOOLEAN] /\ state \in [Fibers -> FiberStates]
  BY InvParts, TypeParts DEF Inv, QueueTypes, OtherTypes
<1>1. {"value", "result", "exception"} \subseteq ResumeValues
  BY DEF ResumeValues
<1>2. CASE UNCHANGED vars
  BY <1>2, UnchangedExceptions DEF vars
<1>3. ASSUME NEW t \in Threads, Call(t)
      PROVE  ExceptionsStay
  <2>1. ASSUME NEW f \in Fibers, NEW prioritize \in BOOLEAN, Spin(t, f, prioritize)
        PROVE  ExceptionsStay
    <3>1. ~runnable[f] /\ ScheduleFiber(f, "value", prioritize)
      BY <2>1 DEF Spin, NewInv
    <3>2. QED
      BY <1>0, <1>1, <3>1, ScheduleExceptions
  <2>2. ASSUME NEW f \in Fibers, NEW v \in {"value", "exception"}, Schedule(t, f, v)
        PROVE  ExceptionsStay
    BY <1>0, <1>1, <2>2, ScheduleExceptions DEF Schedule
  <2>3. ASSUME NEW f \in Fibers, NEW v \in PriorityValues, ScheduleWithPriority(t, f, v)
        PROVE  ExceptionsStay
    BY <1>0, <1>1, <2>3, ScheduleExceptions DEF ScheduleWithPriority
  <2>4. ASSUME NEW f \in Fibers, Park(t, f) \/ Unpark(t, f)
        PROVE  ExceptionsStay
    <3>1. ThreadOf[f] = t
      BY <2>4 DEF Park, Unpark
    <3>2. QED
      BY <1>0, <2>4, <3>1, MoveExceptions
  <2>5. CASE Stats(t)
    BY <2>5, UnchangedExceptions DEF Stats, queues
  <2>6. QED
    BY <1>3, <2>1, <2>2, <2>3, <2>4, <2>5 DEF Call
<1>4. ASSUME NEW t \in Threads, Yield(t)
      PROVE  ExceptionsStay
  <2>0. current[t] \in Fibers
    BY <1>0 DEF OtherTypes
  <2>1. CASE Snooze(t)
    <3>1. ScheduleFiber(current[t], "value", FALSE)
      BY <2>1 DEF Snooze
    <3>2. QED
      BY <1>0, <1>1, <2>0, <3>1, ScheduleExceptions
  <2>2. CASE Finish(t)
    BY <1>0, <2>0, <2>2, FinishExceptions
  <2>3. CASE Suspend(t) \/ \E kind \in {"inflight", "event"} : Await(t, kind)
    BY <2>3, UnchangedExceptions DEF Suspend, Await, queues
  <2>4. QED
    BY <1>4, <2>1, <2>2, <2>3 DEF Yield
<1>5. ASSUME NEW t \in Threads, SwitchStep(t)
      PROVE  ExceptionsStay
  <2>1. CASE SwitchTake(t)
    BY <1>0, <2>1, TakeExceptions DEF OtherTypes
  <2>2. CASE \/ SwitchEmpty(t) \/ IdleEnd(t) \/ PollReturn(t) \/ DrainEnd(t)
             \/ SwitchNone(t) \/ Transfer(t) \/ TransferDead(t)
    BY <2>2, UnchangedExceptions
       DEF SwitchEmpty, IdleEnd, PollReturn, DrainEnd, SwitchNone, Transfer, TransferDead, queues
  <2>3. ASSUME NEW c \in cqes[t], DrainOne(t, c)
        PROVE  ExceptionsStay
    <3>1. CASE c = NullCqe
      BY <2>3, <3>1, UnchangedExceptions DEF DrainOne, queues
    <3>2. CASE c # NullCqe
      <4>1. c \in Fibers /\ ScheduleFiber(c, "result", FALSE)
        BY <1>0, <2>3, <3>2 DEF OtherTypes, DrainOne
      <4>2. QED
        BY <1>0, <1>1, <4>1, ScheduleExceptions
    <3>3. QED
      BY <3>1, <3>2
  <2>4. QED
    BY <1>5, <2>1, <2>2, <2>3 DEF SwitchStep
<1>6. ASSUME NEW t \in Threads, NEW f \in Fibers, PollSignal(t, f)
      PROVE  ExceptionsStay
  <2>1. ~runnable[f] /\ ScheduleFiber(f, "value", TRUE)
    BY <1>6 DEF PollSignal, NewInv
  <2>2. QED
    BY <1>0, <1>1, <2>1, ScheduleExceptions
<1>7. ASSUME NEW f \in Fibers, Complete(f)
      PROVE  ExceptionsStay
  BY <1>7, UnchangedExceptions DEF Complete, queues
<1>8. QED
  BY <1>2, <1>3, <1>4, <1>5, <1>6, <1>7 DEF Next

(***************************************************************************)
(* No step of any thread loses an exception on its way to a live fiber:    *)
(* not a later schedule, not the completion of its operation, not parking  *)
(* (runqueue_push, runqueue_migrate).  The assumption is what the library  *)
(* does: Fiber#schedule_with_priority, which deletes the entry of the      *)
(* fiber whatever it carries, is given the exception of a failed child.    *)
(***************************************************************************)
THEOREM ExceptionKeptAlways ==
  ASSUME PriorityValues \subseteq {"exception"}
  PROVE  Spec => ExceptionIsKept
<1>1. Init => NewInv
  BY DEF Init, NewInv
<1>2. Inv /\ NewInv /\ [Next]_vars => NewInv'
  BY NewStep, InvParts
<1>3. Inv /\ Inv' /\ NewInv /\ [Next]_vars =>
        [\A f \in Fibers :
            HasException(f) /\ "misdelete" \notin faults' /\ ~Finished(f)'
              => HasException(f)' \/ next'[ThreadOf[f]].fiber = f]_vars
  BY ExceptionsStep DEF ExceptionsStay
<1>4. QED
  BY <1>1, <1>2, <1>3, Invariance, PTL DEF Spec, ExceptionIsKept
=============================================================================
