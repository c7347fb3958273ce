-------------------------- MODULE PrimitivesProofs --------------------------
(***************************************************************************)
(* Proofs about what fibers wait on: Polyphony::Queue (FiberQueue), and    *)
(* the classes that are built on it (Primitives: Sync, ThreadPool,         *)
(* ResourcePool and the Fibers they share), for any number of fibers,      *)
(* values, capacities, threads, exceptions, tasks and resources.           *)
(*                                                                         *)
(* The queue.  Consumers and producers are two instances of the same       *)
(* thing, a side of the queue: a set of fibers that wait for a number of   *)
(* units (values, or free slots), the wait queue on which they are found,  *)
(* and their wakeups.  What the calls do to a side is joining the wait     *)
(* queue, leaving it, and waking the first of it; the lemmas are about     *)
(* these three.                                                            *)
(*                                                                         *)
(* The classes.  First, what scheduling a fiber does to the scheduler.     *)
(* Then, for every class, the types of its state, an inductive invariant   *)
(* that implies the property, one lemma per operation and the theorem.     *)
(* The classes do not share state, so the invariant of one says of a       *)
(* behavior that is about another only that its own state is as it was     *)
(* created.                                                                *)
(***************************************************************************)
EXTENDS FiberQueue, Primitives, DequeProofs, FiniteSetTheorems

-----------------------------------------------------------------------------
(* The queue.                                                              *)

\* No fiber is on the wait queue twice.
Distinct(q) == \A i, j \in DOMAIN q.items : q.items[i] = q.items[j] => i = j

\* Every fiber on wait queue q is one of those that wait, M, and all those that
\* are not scheduled are on it.
Side(q, M, w) ==
    /\ Distinct(q)
    /\ ItemsOf(q) \subseteq M
    /\ \A f \in M : w[f] = "none" => f \in ItemsOf(q)

\* The fibers that were taken off the wait queue to be woken, and that have not
\* run yet.
Reserve(q, M, w) == {f \in M : w[f] = "nil" /\ f \notin ItemsOf(q)}

\* If one sleeps, others were taken off the wait queue for each of k units.
Enough(q, M, w, k) == (\E f \in M : w[f] = "none") => k <= Cardinality(Reserve(q, M, w))

\* The free slots of a capped queue.
Room == IF HasRoom THEN capacity - Count ELSE 0

\* A producer that waits has a value to add.
ItemsReady == \A f \in Producers : item[f] \in Items

\* The sides, as long as no delete has hit the first waiter of a full wait queue.
Orderly ==
    /\ Side(shiftQueue, Consumers, wakeup)
    /\ Side(pushQueue, Producers, wakeup)
    /\ \A f \in Fibers : doing[f] \notin Blocking => wakeup[f] = "none"

\* As long as no exception was raised in a waiting fiber either.
Served ==
    /\ \A f \in Fibers : wakeup[f] # "exception"
    /\ Enough(shiftQueue, Consumers, wakeup, Count)
    /\ Enough(pushQueue, Producers, wakeup, Room)

\* The inductive invariant for WellFormed and NobodyStarves.  NobodyStarves
\* counts all the fibers that are woken; what a value or a slot wakes is taken
\* off the wait queue, and only those can be counted on.
QueueInv ==
    /\ TypeOK
    /\ ItemsReady
    /\ "misdelete" \notin faults => Orderly
    /\ faults = {} => Served
-----------------------------------------------------------------------------
\* The fibers on a wait queue, by their positions.
LEMMA OnQueue ==
  ASSUME NEW q \in Deques(Fibers)
  PROVE  /\ q.items \in Seq(Fibers) /\ Len(q.items) \in Nat /\ DOMAIN q.items = 1 .. Len(q.items)
         /\ \A f : f \in ItemsOf(q) <=> \E i \in DOMAIN q.items : q.items[i] = f
         /\ ItemsOf(q) \subseteq Fibers
<1>1. q.items \in Seq(Fibers)
  BY DEF Deques
<1>2. Len(q.items) \in Nat /\ DOMAIN q.items = 1 .. Len(q.items)
  BY <1>1
<1>3. \A f : f \in ItemsOf(q) <=> \E i \in DOMAIN q.items : q.items[i] = f
  BY DEF ItemsOf, Range
<1>4. ItemsOf(q) \subseteq Fibers
  BY <1>1, <1>3
<1>5. QED
  BY <1>1, <1>2, <1>3, <1>4

\* A fiber joins the wait queue.
LEMMA JoinQueue ==
  ASSUME NEW q \in Deques(Fibers), NEW f \in Fibers
  PROVE  /\ PushItem(q, f) \in Deques(Fibers)
         /\ ItemsOf(PushItem(q, f)) = ItemsOf(q) \cup {f}
         /\ Distinct(q) /\ f \notin ItemsOf(q) => Distinct(PushItem(q, f))
<1>1. /\ PushItem(q, f) \in Deques(Fibers)
      /\ ItemsOf(PushItem(q, f)) = ItemsOf(q) \cup {f}
  BY PushKeeps
<1>2. PushItem(q, f).items = Append(q.items, f)
  BY DEF PushItem
<1>3. ASSUME Distinct(q), f \notin ItemsOf(q)
      PROVE  Distinct(PushItem(q, f))
  <2> DEFINE s == Append(q.items, f)
  <2>1. /\ DOMAIN s = DOMAIN q.items \cup {Len(q.items) + 1} /\ s[Len(q.items) + 1] = f
        /\ \A i \in DOMAIN q.items : s[i] = q.items[i]
    BY OnQueue
  <2> HIDE DEF s
  <2>2. \A i \in DOMAIN q.items : s[i] # f
    BY <1>3, <2>1, OnQueue
  <2>3. \A i, j \in DOMAIN s : s[i] = s[j] => i = j
    BY <1>3, <2>1, <2>2, Zenon DEF Distinct
  <2>4. QED
    BY <1>2, <2>3, Zenon DEF Distinct, s
<1>4. QED
  BY <1>1, <1>3

\* ring_buffer_delete takes a fiber off the wait queue, and no other one unless
\* Misdelete says so.
LEMMA LeaveQueue ==
  ASSUME NEW q \in Deques(Fibers), NEW f \in Fibers
  PROVE  /\ DeleteFirst(q, Positions(q, f)) \in Deques(Fibers)
         /\ Distinct(q) /\ Misdelete(q, f) = {} =>
              /\ ItemsOf(DeleteFirst(q, Positions(q, f))) = ItemsOf(q) \ {f}
              /\ Distinct(DeleteFirst(q, Positions(q, f)))
<1> DEFINE at == Positions(q, f)
           r == DeleteFirst(q, at)
<1>1. CASE at = {}
  <2>1. r = q
    BY <1>1 DEF DeleteFirst
  <2>2. f \notin ItemsOf(q)
    BY <1>1, OnQueue DEF Positions
  <2> HIDE DEF at, r
  <2>3. QED
    BY <2>1, <2>2 DEF r, at
<1>2. CASE at # {}
  <2>1. PICK i \in at : i = Min(at)
    <3>1. at \in SUBSET Nat
      BY OnQueue DEF Positions
    <3> HIDE DEF at
    <3>2. QED
      BY <1>2, <3>1, MinOfNats
  <2>2. i \in 1 .. Len(q.items) /\ q.items[i] = f
    BY OnQueue DEF Positions
  <2>3. r = DeleteAt(q, i)
    BY <1>2, <2>1 DEF DeleteFirst
  <2>4. DeleteAt(q, i) \in Deques(Fibers)
    BY <2>2, DeleteAtKeeps
  <2>5. ASSUME Distinct(q), Misdelete(q, f) = {}
        PROVE  ItemsOf(r) = ItemsOf(q) \ {f} /\ Distinct(r)
    <3> DEFINE s == q.items
               t == RemoveAt(s, i)
    <3>1. r = [q EXCEPT !.items = t]
      BY <1>2, <2>1, <2>3, <2>5 DEF Misdelete, DeleteAt
    <3>2. /\ s \in Seq(Fibers) /\ Len(s) \in Nat /\ DOMAIN s = 1 .. Len(s) /\ i \in 1 .. Len(s)
      BY <2>2, OnQueue
    <3>3. /\ DOMAIN t = 1 .. Len(s) - 1
          /\ \A k \in 1 .. Len(s) - 1 : t[k] = IF k < i THEN s[k] ELSE s[k + 1]
      <4>1. /\ t \in Seq(Fibers) /\ Len(t) = Len(s) - 1
            /\ \A k \in 1 .. Len(s) - 1 : t[k] = IF i <= k THEN s[k + 1] ELSE s[k]
        BY <3>2, RemovedAt
      <4> HIDE DEF t, s
      <4>2. QED
        BY <3>2, <4>1
    <3>4. q \in [items : Seq(Fibers), size : Nat \ {0}]
      BY DEF Deques
    <3>5. r.items = t
      <4> HIDE DEF t, r
      <4>1. QED
        BY <3>1, <3>4
    <3> HIDE DEF t, r, at
    <3>6. \A k, m \in DOMAIN s : s[k] = s[m] => k = m
      BY <2>5 DEF Distinct
    <3> HIDE DEF s
    <3>7. \A k, m \in DOMAIN t : t[k] = t[m] => k = m
      BY <3>2, <3>3, <3>6
    <3>8. \A k \in DOMAIN t : t[k] # s[i] /\ \E m \in DOMAIN s : s[m] = t[k]
      BY <3>2, <3>3, <3>6
    <3>9. \A m \in DOMAIN s : s[m] # s[i] => \E k \in DOMAIN t : t[k] = s[m]
      <4> SUFFICES ASSUME NEW m \in DOMAIN s, s[m] # s[i] PROVE \E k \in DOMAIN t : t[k] = s[m]
        OBVIOUS
      <4>1. CASE m < i
        BY <3>2, <3>3, <4>1
      <4>2. CASE m > i
        <5>1. m - 1 \in DOMAIN t /\ t[m - 1] = s[m]
          BY <3>2, <3>3, <4>2
        <5>2. QED
          BY <5>1
      <4>3. QED
        BY <3>2, <4>1, <4>2
    <3>10. \A g : g \in ItemsOf(r) <=> \E k \in DOMAIN t : t[k] = g
      BY <2>3, <2>4, <3>5, OnQueue
    <3>11. \A g : g \in ItemsOf(q) <=> \E k \in DOMAIN s : s[k] = g
      BY OnQueue DEF s
    <3>12. s[i] = f
      BY <2>2 DEF s
    <3>13. ItemsOf(r) = ItemsOf(q) \ {f}
      BY <3>8, <3>9, <3>10, <3>11, <3>12
    <3>14. Distinct(r)
      BY <3>5, <3>7 DEF Distinct
    <3>15. QED
      BY <3>13, <3>14
  <2>6. QED
    BY <2>3, <2>4, <2>5
<1>3. QED
  BY <1>1, <1>2

\* The first n waiters are taken off the wait queue.
LEMMA TakeWaiters ==
  ASSUME NEW q \in Deques(Fibers), NEW n \in 0 .. Len(q.items)
  PROVE  /\ WithoutFirst(q, n) \in Deques(Fibers)
         /\ FirstWaiters(q, n) \subseteq ItemsOf(q)
         /\ ItemsOf(WithoutFirst(q, n)) \subseteq ItemsOf(q)
         /\ \A f \in ItemsOf(q) : f \in FirstWaiters(q, n) \/ f \in ItemsOf(WithoutFirst(q, n))
         /\ n = Len(q.items) => ItemsOf(WithoutFirst(q, n)) = {}
         /\ Distinct(q) => /\ Distinct(WithoutFirst(q, n))
                           /\ FirstWaiters(q, n) \cap ItemsOf(WithoutFirst(q, n)) = {}
                           /\ IsFiniteSet(FirstWaiters(q, n))
                           /\ Cardinality(FirstWaiters(q, n)) = n
<1> DEFINE s == q.items
           t == SubSeq(s, n + 1, Len(s))
           r == WithoutFirst(q, n)
<1>1. /\ s \in Seq(Fibers) /\ Len(s) \in Nat /\ DOMAIN s = 1 .. Len(s) /\ n \in 0 .. Len(s)
      /\ q \in [items : Seq(Fibers), size : Nat \ {0}] /\ Len(s) <= q.size
  BY OnQueue DEF Deques
<1>2. /\ t \in Seq(Fibers) /\ Len(t) = Len(s) - n /\ DOMAIN t = 1 .. Len(s) - n
      /\ \A k \in 1 .. Len(s) - n : t[k] = s[n + k]
  BY <1>1
<1>14. /\ \A k \in DOMAIN t : n + k \in DOMAIN s /\ n + k \notin 1 .. n /\ t[k] = s[n + k]
       /\ \A k, m \in DOMAIN t : n + k = n + m => k = m
       /\ 1 .. n \subseteq DOMAIN s
  BY <1>1, <1>2
<1>3. r = [q EXCEPT !.items = t]
  BY DEF WithoutFirst
<1>4. \A g : g \in ItemsOf(q) <=> \E k \in DOMAIN s : s[k] = g
  BY OnQueue
<1>5. \A g : g \in FirstWaiters(q, n) <=> \E k \in 1 .. n : s[k] = g
  BY DEF FirstWaiters
<1> HIDE DEF s, t, r
<1>6. r.items = t /\ r \in Deques(Fibers)
  BY <1>1, <1>2, <1>3 DEF Deques
<1>7. \A g : g \in ItemsOf(r) <=> \E k \in DOMAIN t : t[k] = g
  BY <1>6, OnQueue
<1>8. FirstWaiters(q, n) \subseteq ItemsOf(q)
  BY <1>1, <1>4, <1>5
<1>9. ItemsOf(r) \subseteq ItemsOf(q)
  BY <1>4, <1>7, <1>14, Zenon
<1>10. \A f \in ItemsOf(q) : f \in FirstWaiters(q, n) \/ f \in ItemsOf(r)
  <2>1. SUFFICES ASSUME NEW f \in ItemsOf(q), f \notin FirstWaiters(q, n)
                 PROVE  f \in ItemsOf(r)
    OBVIOUS
  <2>2. PICK k \in DOMAIN s : s[k] = f
    BY <1>4
  <2>3. k \notin 1 .. n
    BY <1>5, <2>1, <2>2
  <2>4. k - n \in DOMAIN t /\ t[k - n] = s[k]
    BY <1>1, <1>2, <2>3
  <2>5. QED
    BY <1>7, <2>2, <2>4
<1>11. n = Len(s) => ItemsOf(r) = {}
  BY <1>1, <1>2, <1>7
<1>12. ASSUME Distinct(q)
       PROVE  /\ Distinct(r) /\ FirstWaiters(q, n) \cap ItemsOf(r) = {}
              /\ IsFiniteSet(FirstWaiters(q, n)) /\ Cardinality(FirstWaiters(q, n)) = n
  <2>1. \A k, m \in DOMAIN s : s[k] = s[m] => k = m
    BY <1>12 DEF Distinct, s
  <2>2. Distinct(r)
    <3>1. \A k, m \in DOMAIN t : t[k] = t[m] => k = m
      BY <1>14, <2>1, Zenon
    <3>2. QED
      BY <1>6, <3>1, Zenon DEF Distinct
  <2>3. FirstWaiters(q, n) \cap ItemsOf(r) = {}
    <3> SUFFICES ASSUME NEW k \in 1 .. n, NEW m \in DOMAIN t, s[k] = t[m] PROVE FALSE
      BY <1>5, <1>7
    <3>1. QED
      BY <1>14, <2>1, Zenon
  <2>4. /\ IsFiniteSet(1 .. n) /\ Cardinality(1 .. n) = n
    BY <1>1, FS_Interval
  <2> DEFINE b == [k \in 1 .. n |-> s[k]]
  <2>5. b \in Bijection(1 .. n, FirstWaiters(q, n))
    <3>1. b \in [1 .. n -> FirstWaiters(q, n)]
      BY <1>5
    <3>2. \A k, m \in 1 .. n : b[k] = b[m] => k = m
      BY <1>14, <2>1
    <3>3. \A g \in FirstWaiters(q, n) : \E k \in 1 .. n : b[k] = g
      BY <1>5
    <3> HIDE DEF b
    <3>4. QED
      BY <3>1, <3>2, <3>3, Zenon DEF Bijection, Injection, Surjection, IsInjective
  <2> HIDE DEF b
  <2>6. IsFiniteSet(FirstWaiters(q, n)) /\ Cardinality(FirstWaiters(q, n)) = Cardinality(1 .. n)
    BY <2>4, <2>5, FS_Bijection, Zenon DEF ExistsBijection
  <2>7. QED
    BY <2>2, <2>3, <2>4, <2>6
<1>13. QED
  BY <1>6, <1>8, <1>9, <1>10, <1>11, <1>12 DEF r, s
-----------------------------------------------------------------------------
\* The fibers that can be counted on are finitely many.
LEMMA ReserveCount ==
  ASSUME NEW M \in SUBSET Fibers, NEW q, NEW w
  PROVE  /\ IsFiniteSet(Reserve(q, M, w)) /\ Cardinality(Reserve(q, M, w)) \in Nat
         /\ Reserve(q, M, w) \subseteq Fibers
<1>1. Reserve(q, M, w) \subseteq Fibers
  BY DEF Reserve
<1>2. QED
  BY <1>1, QueueAssumption, FS_Subset, FS_CardinalityType

\* A step that changes no wakeup of a side.
LEMMA SideKept ==
  ASSUME NEW M \in SUBSET Fibers, NEW q, NEW w, NEW u, \A f \in M : u[f] = w[f]
  PROVE  /\ Side(q, M, w) => Side(q, M, u)
         /\ \A k : Enough(q, M, w, k) => Enough(q, M, u, k)
<1>1. Reserve(q, M, u) = Reserve(q, M, w)
  BY DEF Reserve
<1>2. Side(q, M, w) => Side(q, M, u)
  BY DEF Side
<1>3. \A k : Enough(q, M, w, k) => Enough(q, M, u, k)
  BY <1>1, Zenon DEF Enough
<1>4. QED
  BY <1>2, <1>3

\* Enough for k is enough for less.
LEMMA EnoughForLess ==
  ASSUME NEW M \in SUBSET Fibers, NEW q, NEW w, NEW k \in Int, NEW j \in Int, j <= k,
         Enough(q, M, w, k)
  PROVE  Enough(q, M, w, j)
  BY ReserveCount DEF Enough

\* Nothing is always enough.
LEMMA EnoughForNone ==
  ASSUME NEW M \in SUBSET Fibers, NEW q, NEW w
  PROVE  Enough(q, M, w, 0)
  BY ReserveCount DEF Enough

\* A fiber begins to wait, and is scheduled unless there is nothing to get.
LEMMA SideJoined ==
  ASSUME NEW M \in SUBSET Fibers, NEW q \in Deques(Fibers), NEW w, NEW u, NEW f \in Fibers, f \notin M,
         \A g \in M : u[g] = w[g], Side(q, M, w)
  PROVE  /\ Side(PushItem(q, f), M \cup {f}, u)
         /\ \A k : Enough(q, M, w, k) /\ u[f] # "none" => Enough(PushItem(q, f), M \cup {f}, u, k)
<1> DEFINE r == PushItem(q, f)
           N == M \cup {f}
<1>1. f \notin ItemsOf(q)
  BY DEF Side
<1>2. ItemsOf(r) = ItemsOf(q) \cup {f} /\ Distinct(r)
  BY <1>1, JoinQueue DEF Side
<1> HIDE DEF r
<1>3. Side(r, N, u)
  BY <1>2 DEF Side
<1>4. Reserve(r, N, u) = Reserve(q, M, w)
  BY <1>2 DEF Reserve
<1>5. ASSUME NEW k, Enough(q, M, w, k), u[f] # "none" PROVE Enough(r, N, u, k)
  BY <1>4, <1>5 DEF Enough
<1>6. QED
  BY <1>3, <1>5 DEF r

\* A fiber that was scheduled stops to wait: with it goes one unit.
LEMMA SideLeft ==
  ASSUME NEW M \in SUBSET Fibers, NEW q \in Deques(Fibers), NEW w, NEW u, NEW f \in M,
         \A g \in M : g # f => u[g] = w[g], Side(q, M, w), Misdelete(q, f) = {}
  PROVE  /\ Side(DeleteFirst(q, Positions(q, f)), M \ {f}, u)
         /\ \A k \in Int : Enough(q, M, w, k) =>
              Enough(DeleteFirst(q, Positions(q, f)), M \ {f}, u, k - 1)
<1> DEFINE r == DeleteFirst(q, Positions(q, f))
           N == M \ {f}
<1>1. ItemsOf(r) = ItemsOf(q) \ {f} /\ Distinct(r)
  BY LeaveQueue DEF Side
<1> HIDE DEF r
<1>2. Side(r, N, u)
  BY <1>1 DEF Side
<1>3. Reserve(r, N, u) = Reserve(q, M, w) \ {f}
  BY <1>1 DEF Reserve
<1>4. Cardinality(Reserve(q, M, w)) - 1 <= Cardinality(Reserve(r, N, u))
  <2> DEFINE A == Reserve(q, M, w)
  <2>1. IsFiniteSet(A) /\ Cardinality(A) \in Nat
    BY ReserveCount
  <2>2. Reserve(r, N, u) = A \ {f}
    BY <1>3
  <2> HIDE DEF A
  <2>3. Cardinality(A \ {f}) = IF f \in A THEN Cardinality(A) - 1 ELSE Cardinality(A)
    BY <2>1, FS_RemoveElement, Zenon
  <2>4. Cardinality(A) - 1 <= Cardinality(A \ {f})
    BY <2>1, <2>3
  <2>5. QED
    BY <2>2, <2>4, Zenon DEF A
<1>5. ASSUME NEW k \in Int, Enough(q, M, w, k) PROVE Enough(r, N, u, k - 1)
  <2>1. (\E g \in N : u[g] = "none") => \E g \in M : w[g] = "none"
    OBVIOUS
  <2>2. Cardinality(Reserve(q, M, w)) \in Nat /\ Cardinality(Reserve(r, N, u)) \in Nat
    BY ReserveCount
  <2>3. QED
    BY <1>4, <1>5, <2>1, <2>2 DEF Enough
<1>6. QED
  BY <1>2, <1>5 DEF r

\* A fiber that was scheduled waits again.
LEMMA SideRejoined ==
  ASSUME NEW M \in SUBSET Fibers, NEW q \in Deques(Fibers), NEW w, NEW u, NEW f \in M,
         \A g \in M : g # f => u[g] = w[g], Side(q, M, w), Misdelete(q, f) = {}
  PROVE  Side(PushItem(DeleteFirst(q, Positions(q, f)), f), M, u)
<1> DEFINE r == DeleteFirst(q, Positions(q, f))
           N == M \ {f}
<1>1. Side(r, N, u)
  BY SideLeft
<1>2. r \in Deques(Fibers)
  BY LeaveQueue
<1>3. N \in SUBSET Fibers /\ f \notin N /\ f \in Fibers /\ N \cup {f} = M
  OBVIOUS
<1> HIDE DEF r, N
<1>4. Side(PushItem(r, f), N \cup {f}, u)
  BY <1>1, <1>2, <1>3, SideJoined
<1>5. QED
  BY <1>3, <1>4, Zenon DEF r

\* The first n waiters are woken: n more units are taken care of, unless there
\* was an exception for one of them; and if these were all, nobody sleeps.
LEMMA SideWoken ==
  ASSUME NEW M \in SUBSET Fibers, NEW q \in Deques(Fibers), NEW n \in 0 .. Len(q.items),
         NEW w, NEW u, Side(q, M, w),
         \A f \in M : u[f] = IF f \in FirstWaiters(q, n) /\ w[f] # "exception" THEN "nil" ELSE w[f]
  PROVE  /\ Side(WithoutFirst(q, n), M, u)
         /\ (\A f \in M : w[f] # "exception") =>
              /\ \A k \in Int : Enough(q, M, w, k) => Enough(WithoutFirst(q, n), M, u, k + n)
              /\ Enough(WithoutFirst(q, n), M, u, n)
              /\ n = Len(q.items) => \A k : Enough(WithoutFirst(q, n), M, u, k)
<1> DEFINE r == WithoutFirst(q, n)
           F == FirstWaiters(q, n)
<1>1. /\ Distinct(q) /\ ItemsOf(q) \subseteq M /\ Len(q.items) \in Nat
  BY OnQueue DEF Side
<1>2. /\ F \subseteq ItemsOf(q) /\ ItemsOf(r) \subseteq ItemsOf(q)
      /\ \A f \in ItemsOf(q) : f \in F \/ f \in ItemsOf(r)
      /\ n = Len(q.items) => ItemsOf(r) = {}
      /\ Distinct(r) /\ F \cap ItemsOf(r) = {}
      /\ IsFiniteSet(F) /\ Cardinality(F) = n
  BY <1>1, TakeWaiters
<1> HIDE DEF r, F
<1>3. \A f \in M : u[f] = IF f \in F /\ w[f] # "exception" THEN "nil" ELSE w[f]
  BY DEF F
<1>4. Side(r, M, u)
  BY <1>1, <1>2, <1>3 DEF Side
<1>5. ASSUME \A f \in M : w[f] # "exception"
      PROVE  /\ \A k \in Int : Enough(q, M, w, k) => Enough(r, M, u, k + n)
             /\ Enough(r, M, u, n)
             /\ n = Len(q.items) => \A k : Enough(r, M, u, k)
  <2> DEFINE A == Reserve(q, M, w)
             B == Reserve(r, M, u)
  <2>1. A \cup F \subseteq B /\ A \cap F = {}
    <3>1. \A f \in A : f \in M /\ w[f] = "nil" /\ f \notin ItemsOf(q)
      BY DEF Reserve
    <3>2. \A f \in M : u[f] = "nil" /\ f \notin ItemsOf(r) => f \in B
      BY DEF Reserve
    <3> HIDE DEF A, B
    <3>3. \A f \in A : f \notin F /\ f \in B
      BY <1>2, <1>3, <3>1, <3>2
    <3>4. \A f \in F : f \in B
      BY <1>1, <1>2, <1>3, <1>5, <3>2
    <3>5. QED
      BY <3>3, <3>4
  <2>2. /\ IsFiniteSet(A) /\ Cardinality(A) \in Nat /\ IsFiniteSet(B) /\ Cardinality(B) \in Nat
    BY ReserveCount
  <2> HIDE DEF A, B
  <2>3. Cardinality(A) + n <= Cardinality(B)
    <3>1. Cardinality(A \cup F) = Cardinality(A) + Cardinality(F) - Cardinality(A \cap F)
      BY <1>2, <2>2, FS_Union, Zenon
    <3>2. Cardinality(A \cap F) = 0
      BY <2>1, FS_EmptySet, Zenon
    <3>3. Cardinality(A \cup F) <= Cardinality(B)
      BY <2>1, <2>2, FS_Subset
    <3>4. QED
      BY <1>2, <2>2, <3>1, <3>2, <3>3
  <2>4. \A f \in M : u[f] = "none" => w[f] = "none" /\ f \in ItemsOf(r)
    BY <1>3, <1>4 DEF Side
  <2>5. \A k \in Int : Enough(q, M, w, k) => Enough(r, M, u, k + n)
    BY <2>2, <2>3, <2>4 DEF Enough, A, B
  <2>6. Enough(r, M, u, n)
    BY <2>2, <2>3 DEF Enough, B
  <2>7. n = Len(q.items) => \A k : Enough(r, M, u, k)
    BY <1>2, <2>4 DEF Enough
  <2>8. QED
    BY <2>5, <2>6, <2>7
<1>6. QED
  BY <1>4, <1>5 DEF r
-----------------------------------------------------------------------------
\* Fiber_make_runnable changes the wakeups of the given fibers, those that wait.
LEMMA ScheduledFibers ==
  ASSUME NEW w \in [Fibers -> Wakeups], NEW F
  PROVE  /\ Scheduled(w, F) \in [Fibers -> Wakeups]
         /\ \A f \in Fibers : doing[f] \in Blocking =>
              Scheduled(w, F)[f] = IF f \in F /\ w[f] # "exception" THEN "nil" ELSE w[f]
         /\ \A f \in Fibers : f \notin F => Scheduled(w, F)[f] = w[f]
         /\ \A f \in Fibers : doing[f] \notin Blocking => Scheduled(w, F)[f] = w[f]
         /\ (\A f \in Fibers : w[f] # "exception") => \A f \in Fibers : Scheduled(w, F)[f] # "exception"
  BY DEF Scheduled, Wakeups

\* Waking the first n waiters of a side, from wakeups w that are those of the
\* side.
LEMMA WakeSide ==
  ASSUME NEW M \in SUBSET Fibers, \A f \in M : doing[f] \in Blocking,
         NEW q \in Deques(Fibers), NEW n \in 0 .. Len(q.items), Side(q, M, wakeup),
         NEW w \in [Fibers -> Wakeups], \A f \in M : w[f] = wakeup[f],
         NEW u, u = Scheduled(w, FirstWaiters(q, n))
  PROVE  /\ Side(WithoutFirst(q, n), M, u)
         /\ (\A f \in M : wakeup[f] # "exception") =>
              /\ \A k \in Int : Enough(q, M, wakeup, k) => Enough(WithoutFirst(q, n), M, u, k + n)
              /\ Enough(WithoutFirst(q, n), M, u, n)
              /\ n = Len(q.items) => \A k : Enough(WithoutFirst(q, n), M, u, k)
<1>1. FirstWaiters(q, n) \subseteq M
  BY TakeWaiters DEF Side
<1>2. /\ \A f \in Fibers : doing[f] \in Blocking =>
              u[f] = IF f \in FirstWaiters(q, n) /\ w[f] # "exception" THEN "nil" ELSE w[f]
      /\ \A f \in Fibers : f \notin FirstWaiters(q, n) => u[f] = w[f]
  BY ScheduledFibers
<1>3. \A f \in M : u[f] = IF f \in FirstWaiters(q, n) /\ wakeup[f] # "exception" THEN "nil" ELSE wakeup[f]
  BY <1>2
<1>4. QED
  BY <1>3, SideWoken

\* The fibers of the other side, and those that do not wait, are not woken.
LEMMA WakeNoOther ==
  ASSUME NEW M \in SUBSET Fibers, NEW q \in Deques(Fibers), NEW n \in 0 .. Len(q.items),
         Side(q, M, wakeup), NEW w \in [Fibers -> Wakeups]
  PROVE  \A f \in Fibers : f \notin M => Scheduled(w, FirstWaiters(q, n))[f] = w[f]
<1>1. FirstWaiters(q, n) \subseteq M
  BY TakeWaiters DEF Side
<1>2. QED
  BY <1>1, ScheduledFibers

\* The fibers of the sides when one begins or ends a call.
LEMMA Members ==
  ASSUME NEW f \in Fibers, NEW call, doing \in [Fibers -> Blocking \cup {"ruby", "each"}],
         doing' = [doing EXCEPT ![f] = call]
  PROVE  /\ Consumers' = IF call = "shift" THEN Consumers \cup {f} ELSE Consumers \ {f}
         /\ Producers' = IF call \in {"push", "unshift"} THEN Producers \cup {f} ELSE Producers \ {f}
         /\ doing'[f] = call /\ \A g \in Fibers : g # f => doing'[g] = doing[g]
         /\ call \in Blocking \cup {"ruby", "each"} => doing' \in [Fibers -> Blocking \cup {"ruby", "each"}]
<1>1. /\ doing'[f] = call /\ \A g \in Fibers : g # f => doing'[g] = doing[g]
  OBVIOUS
<1>2. Consumers' = IF call = "shift" THEN Consumers \cup {f} ELSE Consumers \ {f}
  BY <1>1 DEF Consumers
<1>3. Producers' = IF call \in {"push", "unshift"} THEN Producers \cup {f} ELSE Producers \ {f}
  BY <1>1 DEF Producers
<1>4. call \in Blocking \cup {"ruby", "each"} => doing' \in [Fibers -> Blocking \cup {"ruby", "each"}]
  OBVIOUS
<1>5. QED
  BY <1>1, <1>2, <1>3, <1>4

LEMMA SidesAreFibers ==
  /\ Consumers \in SUBSET Fibers /\ Producers \in SUBSET Fibers /\ Consumers \cap Producers = {}
  /\ \A f \in Consumers \cup Producers : doing[f] \in Blocking
  /\ \A f \in Fibers : f \notin Consumers \cup Producers => doing[f] \notin Blocking
  BY DEF Consumers, Producers, Blocking

\* The numbers: values in the queue, slots, and how many waiters are woken.
LEMMA Numbers ==
  ASSUME TypeOK
  PROVE  /\ Count \in Nat /\ capacity \in Nat /\ Room \in Nat
         /\ \A q \in Deques(Fibers) : One(q) \in 0 .. Len(q.items)
                                      /\ (One(q) = Len(q.items) \/ One(q) = 1)
         /\ \A n \in Nat : AfterRemoval(n) \in 0 .. Len(pushQueue.items)
         /\ \A n \in Nat, c \in Nat : ToCapacity(n, c) \in 0 .. Len(pushQueue.items)
         /\ \A n \in Nat, c \in Nat : c > n => \/ ToCapacity(n, c) = c - n
                                               \/ ToCapacity(n, c) = Len(pushQueue.items)
<1>1. Count \in Nat /\ capacity \in Nat
  BY QueueAssumption DEF TypeOK, Count, Deques
<1>2. Room \in Nat
  BY <1>1 DEF Room, HasRoom
<1>3. ASSUME NEW q \in Deques(Fibers)
      PROVE  One(q) \in 0 .. Len(q.items) /\ (One(q) = Len(q.items) \/ One(q) = 1)
  BY OnQueue DEF One
<1>4. pushQueue \in Deques(Fibers) /\ Len(pushQueue.items) \in Nat
  BY OnQueue DEF TypeOK
<1>5. \A n \in Nat : AfterRemoval(n) \in 0 .. Len(pushQueue.items)
  BY <1>3, <1>4 DEF AfterRemoval
<1>6. ASSUME NEW n \in Nat, NEW c \in Nat
      PROVE  /\ ToCapacity(n, c) \in 0 .. Len(pushQueue.items)
             /\ c > n => ToCapacity(n, c) = c - n \/ ToCapacity(n, c) = Len(pushQueue.items)
  <2>1. CASE c <= n
    BY <1>4, <1>6, <2>1 DEF ToCapacity
  <2>2. CASE ~(c <= n)
    <3> DEFINE S == {c - n, Len(pushQueue.items)}
    <3>1. S \in SUBSET Nat /\ S # {}
      BY <1>4, <2>2
    <3>2. ToCapacity(n, c) = Min(S)
      BY <2>2 DEF ToCapacity
    <3>3. Min(S) \in S /\ \A y \in S : Min(S) <= y
      <4> HIDE DEF S
      <4>1. QED
        BY <3>1, MinOfNats
    <3>4. QED
      BY <1>4, <2>2, <3>2, <3>3
  <2>3. QED
    BY <2>1, <2>2
<1>7. QED
  BY <1>1, <1>2, <1>3, <1>5, <1>6
-----------------------------------------------------------------------------
\* The values of the queue after every way to change them.
LEMMA ValuesAfter ==
  ASSUME TypeOK
  PROVE  /\ \A x \in Items : /\ PushItem(values, x) \in Deques(Items)
                             /\ Len(PushItem(values, x).items) = Count + 1
                             /\ UnshiftItem(values, x) \in Deques(Items)
                             /\ Len(UnshiftItem(values, x).items) = Count + 1
         /\ Count > 0 => ShiftItem(values) \in Deques(Items) /\ Len(ShiftItem(values).items) = Count - 1
         /\ ClearItems(values) \in Deques(Items) /\ Len(ClearItems(values).items) = 0
         /\ \A x : /\ DeleteFirst(values, Positions(values, x)) \in Deques(Items)
                   /\ Len(DeleteFirst(values, Positions(values, x)).items) \in {Count, Count - 1}
                   /\ Len(DeleteFirst(values, Positions(values, x)).items) \in Nat
<1>1. /\ values \in Deques(Items) /\ values.items \in Seq(Items) /\ Count \in Nat
      /\ Count = Len(values.items) /\ values \in [items : Seq(Items), size : Nat \ {0}]
      /\ Count <= values.size
  BY Numbers DEF TypeOK, Deques, Count
<1>2. ASSUME NEW x \in Items
      PROVE  /\ PushItem(values, x) \in Deques(Items)
             /\ Len(PushItem(values, x).items) = Count + 1
             /\ UnshiftItem(values, x) \in Deques(Items)
             /\ Len(UnshiftItem(values, x).items) = Count + 1
  <2>1. PushItem(values, x) \in Deques(Items) /\ UnshiftItem(values, x) \in Deques(Items)
    BY <1>1, PushKeeps, UnshiftKeeps
  <2>2. PushItem(values, x).items = Append(values.items, x)
    BY DEF PushItem
  <2>3. UnshiftItem(values, x).items = <<x>> \o values.items
    BY DEF UnshiftItem
  <2>4. Len(Append(values.items, x)) = Count + 1 /\ Len(<<x>> \o values.items) = Count + 1
    BY <1>1
  <2>5. QED
    BY <2>1, <2>2, <2>3, <2>4
<1>3. ASSUME Count > 0
      PROVE  ShiftItem(values) \in Deques(Items) /\ Len(ShiftItem(values).items) = Count - 1
  <2>1. values.items # <<>> /\ Len(Tail(values.items)) = Count - 1
    BY <1>1, <1>3
  <2>2. ShiftItem(values).items = Tail(values.items)
    BY <1>1 DEF ShiftItem
  <2>3. QED
    BY <1>1, <2>1, <2>2, ShiftKeeps
<1>4. ClearItems(values) \in Deques(Items) /\ Len(ClearItems(values).items) = 0
  <2>1. <<>> \in Seq(Items) /\ Len(<<>>) = 0
    OBVIOUS
  <2> DEFINE e == <<>>
             r == ClearItems(values)
  <2>2. r = [values EXCEPT !.items = e] /\ e \in Seq(Items) /\ Len(e) = 0
    BY <2>1 DEF ClearItems
  <2> HIDE DEF e, r
  <2>4. r.items = e /\ r.size = values.size /\ r \in [items : Seq(Items), size : Nat \ {0}]
    BY <1>1, <2>2
  <2>5. r \in Deques(Items)
    BY <1>1, <2>2, <2>4 DEF Deques
  <2>3. QED
    BY <2>2, <2>4, <2>5, Zenon DEF r
<1>5. ASSUME NEW x
      PROVE  /\ DeleteFirst(values, Positions(values, x)) \in Deques(Items)
             /\ Len(DeleteFirst(values, Positions(values, x)).items) \in {Count, Count - 1}
             /\ Len(DeleteFirst(values, Positions(values, x)).items) \in Nat
  <2> DEFINE at == Positions(values, x)
             r == DeleteFirst(values, at)
  <2>1. CASE at = {}
    BY <1>1, <2>1 DEF DeleteFirst
  <2>2. CASE at # {}
    <3>1. at \in SUBSET Nat /\ at \subseteq 1 .. Len(values.items)
      BY <1>1 DEF Positions
    <3>2. r = DeleteAt(values, Min(at))
      BY <2>2 DEF DeleteFirst
    <3> HIDE DEF at, r
    <3>3. PICK i \in 1 .. Len(values.items) : i = Min(at)
      BY <2>2, <3>1, MinOfNats
    <3>4. r \in Deques(Items)
      BY <1>1, <3>2, <3>3, DeleteAtKeeps
    <3>5. Len(r.items) = Count - 1
      BY <1>1, <3>2, <3>3, DeleteAtKeeps
    <3>6. Count - 1 \in Nat
      BY <1>1, <3>3
    <3>7. QED
      BY <3>4, <3>5, <3>6 DEF r, at
  <2>3. QED
    BY <2>1, <2>2
<1>6. QED
  BY <1>2, <1>3, <1>4, <1>5

\* Queue_push and Queue_unshift add a value and wake a consumer.  The fiber that
\* adds it is none.
LEMMA AddStep ==
  ASSUME TypeOK, NEW f \in Fibers, f \notin Consumers, NEW kind, NEW x \in Items,
         NEW w \in [Fibers -> Wakeups], \A g \in Fibers : g # f => w[g] = wakeup[g],
         Add(f, kind, x, w)
  PROVE  /\ values' \in Deques(Items) /\ Count' = Count + 1 /\ shiftQueue' \in Deques(Fibers)
         /\ doing' \in [Fibers -> Blocking \cup {"ruby", "each"}]
         /\ item' \in [Fibers -> Items \cup {NoItem}] /\ wakeup' \in [Fibers -> Wakeups]
         /\ Consumers' = Consumers /\ Producers' = Producers \ {f}
         /\ doing'[f] = "ruby" /\ \A g \in Fibers : g # f => item'[g] = item[g] /\ doing'[g] = doing[g]
         /\ Side(shiftQueue, Consumers, wakeup) =>
              /\ Side(shiftQueue', Consumers', wakeup')
              /\ \A g \in Fibers : g \notin Consumers => wakeup'[g] = w[g]
              /\ (\A g \in Consumers : wakeup[g] # "exception")
                 /\ Enough(shiftQueue, Consumers, wakeup, Count)
                 => Enough(shiftQueue', Consumers', wakeup', Count')
         /\ (\A g \in Fibers : w[g] # "exception") => \A g \in Fibers : wakeup'[g] # "exception"
<1> DEFINE n == One(shiftQueue)
           u == Scheduled(w, FirstWaiters(shiftQueue, n))
<1>1. /\ wakeup' = u /\ shiftQueue' = WithoutFirst(shiftQueue, n)
      /\ values' = IF kind = "push" THEN PushItem(values, x) ELSE UnshiftItem(values, x)
      /\ doing' = [doing EXCEPT ![f] = "ruby"]
      /\ item' = [item EXCEPT ![f] = NoItem]
  BY DEF Add
<1>2. /\ shiftQueue \in Deques(Fibers) /\ doing \in [Fibers -> Blocking \cup {"ruby", "each"}]
      /\ item \in [Fibers -> Items \cup {NoItem}]
  BY DEF TypeOK
<1>3. n \in 0 .. Len(shiftQueue.items) /\ (n = Len(shiftQueue.items) \/ n = 1) /\ Count \in Nat
  BY <1>2, Numbers
<1>4. values' \in Deques(Items) /\ Count' = Count + 1
  BY <1>1, ValuesAfter DEF Count
<1>5. shiftQueue' \in Deques(Fibers)
  BY <1>1, <1>2, <1>3, TakeWaiters
<1>6. u = Scheduled(w, FirstWaiters(shiftQueue, n))
  OBVIOUS
<1> HIDE DEF n, u
<1>7. /\ wakeup' \in [Fibers -> Wakeups]
      /\ (\A g \in Fibers : w[g] # "exception") => \A g \in Fibers : wakeup'[g] # "exception"
  BY <1>1, <1>6, ScheduledFibers
<1>8. /\ Consumers' = Consumers /\ Producers' = Producers \ {f} /\ doing'[f] = "ruby"
      /\ \A g \in Fibers : g # f => doing'[g] = doing[g]
      /\ doing' \in [Fibers -> Blocking \cup {"ruby", "each"}]
  <2>1. /\ Consumers' = Consumers \ {f} /\ Producers' = Producers \ {f} /\ doing'[f] = "ruby"
        /\ \A g \in Fibers : g # f => doing'[g] = doing[g]
        /\ doing' \in [Fibers -> Blocking \cup {"ruby", "each"}]
    BY <1>1, <1>2, Members
  <2>2. QED
    BY <2>1
<1>9. /\ item' \in [Fibers -> Items \cup {NoItem}]
      /\ \A g \in Fibers : g # f => item'[g] = item[g]
  BY <1>1, <1>2
<1>10. ASSUME Side(shiftQueue, Consumers, wakeup)
       PROVE  /\ Side(shiftQueue', Consumers', wakeup')
              /\ \A g \in Fibers : g \notin Consumers => wakeup'[g] = w[g]
              /\ (\A g \in Consumers : wakeup[g] # "exception")
                 /\ Enough(shiftQueue, Consumers, wakeup, Count)
                 => Enough(shiftQueue', Consumers', wakeup', Count')
  <2>1. \A g \in Consumers : w[g] = wakeup[g]
    BY SidesAreFibers
  <2>2. /\ Side(WithoutFirst(shiftQueue, n), Consumers, u)
        /\ (\A g \in Consumers : wakeup[g] # "exception") =>
             /\ \A k \in Int : Enough(shiftQueue, Consumers, wakeup, k) =>
                                  Enough(WithoutFirst(shiftQueue, n), Consumers, u, k + n)
             /\ Enough(WithoutFirst(shiftQueue, n), Consumers, u, n)
             /\ n = Len(shiftQueue.items) => \A k : Enough(WithoutFirst(shiftQueue, n), Consumers, u, k)
    <3>1. Consumers \in SUBSET Fibers /\ \A g \in Consumers : doing[g] \in Blocking
      BY SidesAreFibers
    <3>2. shiftQueue \in Deques(Fibers) /\ n \in 0 .. Len(shiftQueue.items)
      BY <1>2, <1>3
    <3>3. QED
      BY <1>6, <1>10, <2>1, <3>1, <3>2, WakeSide
  <2>4. \A g \in Fibers : g \notin Consumers => u[g] = w[g]
    <3>1. Consumers \in SUBSET Fibers
      BY SidesAreFibers
    <3>2. QED
      BY <1>2, <1>3, <1>6, <1>10, <3>1, WakeNoOther
  <2>3. QED
    BY <1>1, <1>3, <1>4, <1>8, <2>2, <2>4
<1>11. QED
  BY <1>4, <1>5, <1>7, <1>8, <1>9, <1>10

\* The first n producers are woken.
LEMMA ProducersStep ==
  ASSUME TypeOK, NEW w \in [Fibers -> Wakeups], NEW n \in 0 .. Len(pushQueue.items),
         WakeProducers(w, n), \A g \in Producers : w[g] = wakeup[g], Producers' = Producers
  PROVE  /\ pushQueue' \in Deques(Fibers) /\ wakeup' \in [Fibers -> Wakeups]
         /\ (\A g \in Fibers : w[g] # "exception") => \A g \in Fibers : wakeup'[g] # "exception"
         /\ Side(pushQueue, Producers, wakeup) =>
              /\ Side(pushQueue', Producers', wakeup')
              /\ \A g \in Fibers : g \notin Producers => wakeup'[g] = w[g]
              /\ (\A g \in Producers : wakeup[g] # "exception") =>
                   /\ \A k \in Int : Enough(pushQueue, Producers, wakeup, k) =>
                                        Enough(pushQueue', Producers', wakeup', k + n)
                   /\ Enough(pushQueue', Producers', wakeup', n)
                   /\ n = Len(pushQueue.items) => \A k : Enough(pushQueue', Producers', wakeup', k)
<1> DEFINE u == Scheduled(w, FirstWaiters(pushQueue, n))
<1>1. wakeup' = u /\ pushQueue' = WithoutFirst(pushQueue, n)
  BY DEF WakeProducers
<1>2. pushQueue \in Deques(Fibers)
  BY DEF TypeOK
<1>3. Producers \in SUBSET Fibers /\ \A g \in Producers : doing[g] \in Blocking
  BY SidesAreFibers
<1>4. u = Scheduled(w, FirstWaiters(pushQueue, n))
  OBVIOUS
<1> HIDE DEF u
<1>5. pushQueue' \in Deques(Fibers)
  BY <1>1, <1>2, TakeWaiters
<1>6. /\ wakeup' \in [Fibers -> Wakeups]
      /\ (\A g \in Fibers : w[g] # "exception") => \A g \in Fibers : wakeup'[g] # "exception"
  BY <1>1, <1>4, ScheduledFibers
<1>7. ASSUME Side(pushQueue, Producers, wakeup)
      PROVE  /\ Side(pushQueue', Producers', wakeup')
             /\ \A g \in Fibers : g \notin Producers => wakeup'[g] = w[g]
             /\ (\A g \in Producers : wakeup[g] # "exception") =>
                  /\ \A k \in Int : Enough(pushQueue, Producers, wakeup, k) =>
                                       Enough(pushQueue', Producers', wakeup', k + n)
                  /\ Enough(pushQueue', Producers', wakeup', n)
                  /\ n = Len(pushQueue.items) => \A k : Enough(pushQueue', Producers', wakeup', k)
  <2>1. /\ Side(WithoutFirst(pushQueue, n), Producers, u)
        /\ (\A g \in Producers : wakeup[g] # "exception") =>
             /\ \A k \in Int : Enough(pushQueue, Producers, wakeup, k) =>
                                  Enough(WithoutFirst(pushQueue, n), Producers, u, k + n)
             /\ Enough(WithoutFirst(pushQueue, n), Producers, u, n)
             /\ n = Len(pushQueue.items) => \A k : Enough(WithoutFirst(pushQueue, n), Producers, u, k)
    BY <1>2, <1>3, <1>4, <1>7, WakeSide
  <2>2. \A g \in Fibers : g \notin Producers => u[g] = w[g]
    BY <1>2, <1>3, <1>4, <1>7, WakeNoOther
  <2>3. QED
    BY <1>1, <2>1, <2>2
<1>8. QED
  BY <1>5, <1>6, <1>7

\* What wakes the producers is enough: one for a value that is removed, and as
\* many as there are slots when the queue is emptied or its capacity changes.
LEMMA RoomServed ==
  ASSUME TypeOK, Count' \in Nat, capacity' \in Nat, NEW n \in 0 .. Len(pushQueue.items),
         Producers' \in SUBSET Fibers, Enough(pushQueue, Producers, wakeup, Room),
         \A k \in Int : Enough(pushQueue, Producers, wakeup, k) =>
                           Enough(pushQueue', Producers', wakeup', k + n),
         Enough(pushQueue', Producers', wakeup', n),
         n = Len(pushQueue.items) => \A k : Enough(pushQueue', Producers', wakeup', k),
         \/ capacity' = capacity /\ Count' \in {Count, Count - 1} /\ n = AfterRemoval(Count')
         \/ n = ToCapacity(Count', capacity')
         \/ capacity' = 0
  PROVE  Enough(pushQueue', Producers', wakeup', Room')
<1>1. /\ Count \in Nat /\ capacity \in Nat /\ Room \in Nat /\ Len(pushQueue.items) \in Nat
      /\ One(pushQueue) = Len(pushQueue.items) \/ One(pushQueue) = 1
      /\ capacity' > Count' => \/ ToCapacity(Count', capacity') = capacity' - Count'
                               \/ ToCapacity(Count', capacity') = Len(pushQueue.items)
  BY Numbers, OnQueue DEF TypeOK
<1>2. Room' = IF capacity' > Count' THEN capacity' - Count' ELSE 0
  BY DEF Room, HasRoom
<1>3. CASE ~(capacity' > Count')
  BY <1>2, <1>3, EnoughForNone
<1>4. CASE capacity' > Count' /\ n = Len(pushQueue.items)
  BY <1>4
<1>5. CASE capacity' > Count' /\ n # Len(pushQueue.items) /\ n = ToCapacity(Count', capacity')
  BY <1>1, <1>2, <1>5
<1>6. CASE /\ capacity' > Count' /\ n # Len(pushQueue.items)
           /\ capacity' = capacity /\ Count' \in {Count, Count - 1} /\ n = AfterRemoval(Count')
  <2>1. n = 1
    BY <1>1, <1>6 DEF AfterRemoval
  <2>2. Room' <= Room + 1 /\ Room + 1 \in Int /\ Room' \in Int
    <3>1. Room = IF capacity > Count THEN capacity - Count ELSE 0
      BY DEF Room, HasRoom
    <3>2. Room' = capacity - Count' /\ (Count' = Count \/ Count' = Count - 1) /\ capacity > Count'
      BY <1>2, <1>6
    <3> DEFINE a == Room
               b == Room'
               m == Count
               j == Count'
    <3>3. /\ a \in Nat /\ m \in Nat /\ j \in Nat /\ capacity \in Nat
          /\ a = IF capacity > m THEN capacity - m ELSE 0
          /\ b = capacity - j /\ (j = m \/ j = m - 1) /\ capacity > j
      BY <1>1, <3>1, <3>2
    <3> HIDE DEF a, b, m, j
    <3>4. b <= a + 1 /\ a + 1 \in Int /\ b \in Int
      BY <3>3
    <3>5. QED
      BY <3>4 DEF a, b
  <2>3. Enough(pushQueue', Producers', wakeup', Room + 1)
    BY <1>1, <2>1
  <2>4. QED
    BY <2>2, <2>3, EnoughForLess
<1>7. QED
  BY <1>3, <1>4, <1>5, <1>6
-----------------------------------------------------------------------------
\* A side that the step does not concern.
LEMMA ConsumersKept ==
  ASSUME shiftQueue' = shiftQueue, Consumers' = Consumers, \A g \in Consumers : wakeup'[g] = wakeup[g],
         Count \in Nat, Count' \in Nat, Count' <= Count
  PROVE  /\ Side(shiftQueue, Consumers, wakeup) => Side(shiftQueue', Consumers', wakeup')
         /\ Enough(shiftQueue, Consumers, wakeup, Count) => Enough(shiftQueue', Consumers', wakeup', Count')
<1>1. Consumers \in SUBSET Fibers
  BY SidesAreFibers
<1>2. /\ Side(shiftQueue, Consumers, wakeup) => Side(shiftQueue, Consumers, wakeup')
      /\ \A k : Enough(shiftQueue, Consumers, wakeup, k) => Enough(shiftQueue, Consumers, wakeup', k)
  BY <1>1, SideKept
<1>3. Enough(shiftQueue, Consumers, wakeup', Count) => Enough(shiftQueue, Consumers, wakeup', Count')
  BY <1>1, EnoughForLess
<1>4. QED
  BY <1>2, <1>3

LEMMA ProducersKept ==
  ASSUME pushQueue' = pushQueue, Producers' = Producers, \A g \in Producers : wakeup'[g] = wakeup[g]
  PROVE  /\ Side(pushQueue, Producers, wakeup) => Side(pushQueue', Producers', wakeup')
         /\ \A k : Enough(pushQueue, Producers, wakeup, k) => Enough(pushQueue', Producers', wakeup', k)
<1>1. Producers \in SUBSET Fibers
  BY SidesAreFibers
<1>2. QED
  BY <1>1, SideKept

\* What the invariant says, by its parts.
LEMMA InvParts ==
  ASSUME QueueInv
  PROVE  /\ TypeOK /\ ItemsReady /\ Count \in Nat /\ capacity \in Nat /\ Room \in Nat
         /\ Consumers \in SUBSET Fibers /\ Producers \in SUBSET Fibers
         /\ "misdelete" \notin faults => Orderly
         /\ faults = {} => Orderly /\ Served
  BY Numbers, SidesAreFibers DEF QueueInv

\* Fibers begin and end what is not a blocking call.
SameSides ==
    /\ doing' \in [Fibers -> Blocking \cup {"ruby", "each"}]
    /\ \A g \in Fibers : doing'[g] = doing[g] \/ (doing[g] \notin Blocking /\ doing'[g] \notin Blocking)

LEMMA SameMembers ==
  ASSUME SameSides
  PROVE  /\ Consumers' = Consumers /\ Producers' = Producers
         /\ \A g \in Fibers : doing'[g] \in Blocking <=> doing[g] \in Blocking
<1>1. \A g \in Fibers : /\ doing'[g] \in Blocking <=> doing[g] \in Blocking
                        /\ doing'[g] = "shift" <=> doing[g] = "shift"
                        /\ doing'[g] \in {"push", "unshift"} <=> doing[g] \in {"push", "unshift"}
  BY DEF SameSides, Blocking
<1>2. QED
  BY <1>1 DEF Consumers, Producers

\* A removal of values, or a change of the capacity.
LEMMA RemovalStep ==
  ASSUME QueueInv, NEW n \in 0 .. Len(pushQueue.items), WakeProducers(wakeup, n), SameSides,
         values' \in Deques(Items), Count' <= Count, capacity' \in Capacities,
         \/ capacity' = capacity /\ Count' \in {Count, Count - 1} /\ n = AfterRemoval(Count')
         \/ n = ToCapacity(Count', capacity')
         \/ capacity' = 0,
         UNCHANGED <<shiftQueue, closed, item, faults>>, position' \in [Fibers -> Nat]
  PROVE  QueueInv'
<1>1. /\ TypeOK /\ ItemsReady /\ Count \in Nat /\ Room \in Nat
      /\ "misdelete" \notin faults => Orderly
      /\ faults = {} => Orderly /\ Served
  BY InvParts
<1>2. /\ Consumers' = Consumers /\ Producers' = Producers
      /\ \A g \in Fibers : doing'[g] \in Blocking <=> doing[g] \in Blocking
      /\ Consumers \in SUBSET Fibers /\ Producers \in SUBSET Fibers /\ Consumers \cap Producers = {}
      /\ \A f \in Fibers : f \in Producers => doing[f] \in Blocking
  BY SameMembers, SidesAreFibers
<1>3. Count' \in Nat /\ capacity' \in Nat
  BY QueueAssumption DEF Count, Deques
<1>4. wakeup \in [Fibers -> Wakeups]
  BY <1>1 DEF TypeOK
<1>5. /\ pushQueue' \in Deques(Fibers) /\ wakeup' \in [Fibers -> Wakeups]
      /\ (\A g \in Fibers : wakeup[g] # "exception") => \A g \in Fibers : wakeup'[g] # "exception"
      /\ Side(pushQueue, Producers, wakeup) =>
           /\ Side(pushQueue', Producers', wakeup')
           /\ \A g \in Fibers : g \notin Producers => wakeup'[g] = wakeup[g]
           /\ (\A g \in Producers : wakeup[g] # "exception") =>
                /\ \A k \in Int : Enough(pushQueue, Producers, wakeup, k) =>
                                     Enough(pushQueue', Producers', wakeup', k + n)
                /\ Enough(pushQueue', Producers', wakeup', n)
                /\ n = Len(pushQueue.items) => \A k : Enough(pushQueue', Producers', wakeup', k)
  BY <1>1, <1>2, <1>4, ProducersStep
<1>6. TypeOK'
  BY <1>1, <1>5 DEF TypeOK, SameSides
<1>7. ItemsReady'
  BY <1>1, <1>2 DEF ItemsReady
<1>8. ASSUME Orderly
      PROVE  /\ \A g \in Fibers : g \notin Producers => wakeup'[g] = wakeup[g]
             /\ Orderly'
  <2>1. /\ Side(pushQueue', Producers', wakeup')
        /\ \A g \in Fibers : g \notin Producers => wakeup'[g] = wakeup[g]
    BY <1>5, <1>8 DEF Orderly
  <2>2. Side(shiftQueue', Consumers', wakeup')
    <3>1. \A g \in Consumers : wakeup'[g] = wakeup[g]
      BY <1>2, <2>1
    <3>2. QED
      BY <1>1, <1>2, <1>3, <1>8, <3>1, ConsumersKept DEF Orderly
  <2>3. \A g \in Fibers : doing'[g] \notin Blocking => wakeup'[g] = "none"
    BY <1>2, <1>8, <2>1 DEF Orderly
  <2>4. QED
    BY <2>1, <2>2, <2>3 DEF Orderly
<1>9. ASSUME Orderly, Served
      PROVE  Served'
  <2>1. \A g \in Fibers : wakeup[g] # "exception" /\ wakeup'[g] # "exception"
    BY <1>5, <1>9 DEF Served
  <2>2. Enough(shiftQueue', Consumers', wakeup', Count')
    <3>1. \A g \in Consumers : wakeup'[g] = wakeup[g]
      BY <1>2, <1>8, <1>9
    <3>2. QED
      BY <1>1, <1>2, <1>3, <1>9, <3>1, ConsumersKept DEF Served
  <2>3. Enough(pushQueue', Producers', wakeup', Room')
    <3>1. /\ \A k \in Int : Enough(pushQueue, Producers, wakeup, k) =>
                               Enough(pushQueue', Producers', wakeup', k + n)
          /\ Enough(pushQueue', Producers', wakeup', n)
          /\ n = Len(pushQueue.items) => \A k : Enough(pushQueue', Producers', wakeup', k)
      BY <1>2, <1>5, <1>9, <2>1 DEF Orderly
    <3>2. QED
      BY <1>1, <1>2, <1>3, <1>9, <3>1, RoomServed DEF Served
  <2>4. QED
    BY <2>1, <2>2, <2>3 DEF Served
<1>10. QED
  BY <1>1, <1>6, <1>7, <1>8, <1>9 DEF QueueInv

\* A step that leaves the queue alone.
LEMMA QuietStep ==
  ASSUME QueueInv, SameSides, position' \in [Fibers -> Nat],
         UNCHANGED <<values, shiftQueue, pushQueue, capacity, closed, item, wakeup, faults>>
  PROVE  QueueInv'
<1>1. /\ Consumers' = Consumers /\ Producers' = Producers
      /\ \A g \in Fibers : doing'[g] \in Blocking <=> doing[g] \in Blocking
  BY SameMembers
<1>2. Count' = Count /\ Room' = Room
  BY DEF Room, HasRoom, Count
<1>3. TypeOK' /\ ItemsReady'
  BY <1>1 DEF QueueInv, TypeOK, SameSides, ItemsReady
<1>4. (Orderly => Orderly') /\ (Served => Served')
  BY <1>1, <1>2 DEF Orderly, Served
<1>5. QED
  BY <1>3, <1>4 DEF QueueInv

\* shift_each: other fibers run between the values that it yields.
LEMMA EachSteps ==
  ASSUME QueueInv, NEW f \in Fibers, EachStart(f) \/ EachYield(f) \/ EachEnd(f)
  PROVE  QueueInv'
<1>1. /\ TypeOK /\ doing \in [Fibers -> Blocking \cup {"ruby", "each"}] /\ position \in [Fibers -> Nat]
      /\ Count \in Nat /\ capacity \in Nat /\ capacity \in Capacities /\ wakeup \in [Fibers -> Wakeups]
  BY InvParts DEF TypeOK
<1>2. position' \in [Fibers -> Nat]
  <2>1. \E p \in Nat : position' = [position EXCEPT ![f] = p]
    <3>1. position[f] + 1 \in Nat /\ 0 \in Nat
      BY <1>1
    <3>2. QED
      BY <3>1, Zenon DEF EachStart, EachYield, EachEnd
  <2>2. QED
    BY <1>1, <2>1
<1>3. SameSides
  BY <1>1 DEF EachStart, EachYield, EachEnd, SameSides, Blocking
<1>4. CASE EachStart(f) \/ EachYield(f) \/ (EachEnd(f) /\ UNCHANGED <<values, pushQueue, wakeup>>)
  BY <1>2, <1>3, <1>4, QuietStep DEF EachStart, EachYield, EachEnd
<1>5. CASE /\ EachEnd(f) /\ values' = ClearItems(values)
           /\ WakeProducers(wakeup, ToCapacity(0, capacity))
  <2>1. values' \in Deques(Items) /\ Count' = 0
    BY <1>1, <1>5, ValuesAfter DEF Count
  <2>2. ToCapacity(0, capacity) \in 0 .. Len(pushQueue.items)
    BY <1>1, Numbers
  <2>3. UNCHANGED <<shiftQueue, capacity, closed, item, faults>>
    BY <1>5 DEF EachEnd
  <2> DEFINE n == ToCapacity(0, capacity)
  <2>4. /\ n \in 0 .. Len(pushQueue.items) /\ WakeProducers(wakeup, n) /\ Count' <= Count
        /\ capacity' \in Capacities /\ n = ToCapacity(Count', capacity')
    BY <1>1, <1>5, <2>1, <2>2, <2>3
  <2> HIDE DEF n
  <2>5. QED
    BY <1>2, <1>3, <2>1, <2>3, <2>4, RemovalStep
<1>6. QED
  BY <1>4, <1>5 DEF EachEnd

\* shift_nonblock, delete, clear, shift_all and cap.
LEMMA RemovalSteps ==
  ASSUME QueueInv, NEW f \in Fibers,
         \/ ShiftNonblock(f) \/ Clear(f) \/ ShiftAll(f)
         \/ \E x \in Items : Delete(f, x)
         \/ \E c \in Capacities : Cap(f, c)
  PROVE  QueueInv'
<1>1. /\ TypeOK /\ doing \in [Fibers -> Blocking \cup {"ruby", "each"}] /\ position \in [Fibers -> Nat]
      /\ Count \in Nat /\ capacity \in Nat /\ capacity \in Capacities /\ values \in Deques(Items)
      /\ Len(pushQueue.items) \in Nat
  BY InvParts, OnQueue DEF TypeOK
<1>2. ASSUME doing' = doing, position' = position PROVE SameSides /\ position' \in [Fibers -> Nat]
  BY <1>1, <1>2 DEF SameSides
<1>3. CASE ShiftNonblock(f)
  <2> DEFINE n == AfterRemoval(Count - 1)
  <2>1. /\ Count > 0 /\ values' = ShiftItem(values) /\ WakeProducers(wakeup, n)
        /\ UNCHANGED <<shiftQueue, capacity, closed, doing, item, position, faults>>
    BY <1>3 DEF ShiftNonblock, TakeFirst
  <2>2. values' \in Deques(Items) /\ Count' = Count - 1
    BY <1>1, <2>1, ValuesAfter DEF Count
  <2>5. \A m \in Nat : AfterRemoval(m) \in 0 .. Len(pushQueue.items)
    BY <1>1, Numbers
  <2>6. Count - 1 \in Nat /\ Count' <= Count
    BY <1>1, <2>1, <2>2
  <2>7. n \in 0 .. Len(pushQueue.items)
    BY <2>5, <2>6, Zenon
  <2>8. n = AfterRemoval(Count')
    BY <2>2, Zenon
  <2>3. n \in 0 .. Len(pushQueue.items) /\ n = AfterRemoval(Count') /\ Count' <= Count
    BY <2>6, <2>7, <2>8, Zenon
  <2> HIDE DEF n
  <2>4. QED
    BY <1>1, <1>2, <2>1, <2>2, <2>3, RemovalStep
<1>4. CASE Clear(f) \/ ShiftAll(f)
  <2> DEFINE n == ToCapacity(0, capacity)
  <2>1. /\ values' = ClearItems(values) /\ WakeProducers(wakeup, n)
        /\ UNCHANGED <<shiftQueue, capacity, closed, doing, item, position, faults>>
    BY <1>4 DEF Clear, ShiftAll, Empties
  <2>2. values' \in Deques(Items) /\ Count' = 0
    BY <1>1, <2>1, ValuesAfter DEF Count
  <2>3. n \in 0 .. Len(pushQueue.items) /\ n = ToCapacity(Count', capacity') /\ Count' <= Count
    BY <1>1, <2>1, <2>2, Numbers
  <2> HIDE DEF n
  <2>4. QED
    BY <1>1, <1>2, <2>1, <2>2, <2>3, RemovalStep
<1>5. ASSUME NEW x \in Items, Delete(f, x) PROVE QueueInv'
  <2> DEFINE n == AfterRemoval(Count')
  <2>1. /\ values' = DeleteFirst(values, Positions(values, x)) /\ WakeProducers(wakeup, n)
        /\ UNCHANGED <<shiftQueue, capacity, closed, doing, item, position, faults>>
    BY <1>5 DEF Delete, Count
  <2>2. values' \in Deques(Items) /\ Count' \in {Count, Count - 1} /\ Count' \in Nat
    BY <1>1, <2>1, ValuesAfter DEF Count
  <2>5. \A m \in Nat : AfterRemoval(m) \in 0 .. Len(pushQueue.items)
    BY <1>1, Numbers
  <2>3. n \in 0 .. Len(pushQueue.items) /\ n = AfterRemoval(Count') /\ Count' <= Count
    BY <1>1, <2>1, <2>2, <2>5
  <2> HIDE DEF n
  <2>4. QED
    BY <1>1, <1>2, <2>1, <2>2, <2>3, RemovalStep
<1>6. ASSUME NEW c \in Capacities, Cap(f, c) PROVE QueueInv'
  <2> DEFINE n == IF c # 0 THEN ToCapacity(Count, c) ELSE Len(pushQueue.items)
  <2>1. /\ capacity' = c /\ WakeProducers(wakeup, n)
        /\ UNCHANGED <<values, shiftQueue, closed, doing, item, position, faults>>
    BY <1>6 DEF Cap
  <2>2. values' \in Deques(Items) /\ Count' = Count
    BY <1>1, <2>1 DEF Count
  <2>3. /\ n \in 0 .. Len(pushQueue.items) /\ Count' <= Count
        /\ n = ToCapacity(Count', capacity') \/ capacity' = 0
    <3>1. c \in Nat /\ ToCapacity(Count, c) \in 0 .. Len(pushQueue.items)
      BY <1>1, Numbers, QueueAssumption
    <3>2. n \in 0 .. Len(pushQueue.items) /\ (n = ToCapacity(Count, c) \/ c = 0)
      BY <1>1, <3>1
    <3>3. Count' <= Count
      BY <1>1, <2>2
    <3>4. ToCapacity(Count', capacity') = ToCapacity(Count, c)
      BY <2>1, <2>2, Zenon
    <3> HIDE DEF n
    <3>5. QED
      BY <2>1, <3>2, <3>3, <3>4, Zenon
  <2> HIDE DEF n
  <2>4. QED
    BY <1>1, <1>2, <2>1, <2>2, <2>3, RemovalStep
<1>7. QED
  BY <1>3, <1>4, <1>5, <1>6

\* Queue_push and Queue_unshift on an uncapped queue.
LEMMA PushStep ==
  ASSUME QueueInv, NEW f \in Fibers, NEW kind \in {"push", "unshift"}, NEW x \in Items,
         Push(f, kind, x)
  PROVE  QueueInv'
<1>1. /\ TypeOK /\ ItemsReady /\ wakeup \in [Fibers -> Wakeups]
      /\ "misdelete" \notin faults => Orderly
      /\ faults = {} => Orderly /\ Served
  BY InvParts DEF TypeOK
<1>2. /\ doing[f] = "ruby" /\ capacity = 0 /\ Add(f, kind, x, wakeup)
      /\ UNCHANGED <<pushQueue, capacity, closed, position, faults>>
  BY DEF Push
<1>3. f \notin Consumers /\ f \notin Producers
  BY <1>2 DEF Consumers, Producers
<1>4. /\ values' \in Deques(Items) /\ Count' = Count + 1 /\ shiftQueue' \in Deques(Fibers)
      /\ doing' \in [Fibers -> Blocking \cup {"ruby", "each"}]
      /\ item' \in [Fibers -> Items \cup {NoItem}] /\ wakeup' \in [Fibers -> Wakeups]
      /\ Consumers' = Consumers /\ Producers' = Producers \ {f}
      /\ doing'[f] = "ruby" /\ \A g \in Fibers : g # f => item'[g] = item[g] /\ doing'[g] = doing[g]
      /\ Side(shiftQueue, Consumers, wakeup) =>
           /\ Side(shiftQueue', Consumers', wakeup')
           /\ \A g \in Fibers : g \notin Consumers => wakeup'[g] = wakeup[g]
           /\ (\A g \in Consumers : wakeup[g] # "exception")
              /\ Enough(shiftQueue, Consumers, wakeup, Count)
              => Enough(shiftQueue', Consumers', wakeup', Count')
      /\ (\A g \in Fibers : wakeup[g] # "exception") => \A g \in Fibers : wakeup'[g] # "exception"
  BY <1>1, <1>2, <1>3, AddStep
<1>5. Producers' = Producers /\ Consumers \in SUBSET Fibers /\ Producers \in SUBSET Fibers
  BY <1>3, <1>4, SidesAreFibers
<1>6. TypeOK'
  BY <1>1, <1>2, <1>4 DEF TypeOK
<1>7. ItemsReady'
  BY <1>1, <1>3, <1>4, <1>5 DEF ItemsReady
<1>8. ASSUME Orderly
      PROVE  Orderly' /\ \A g \in Producers : wakeup'[g] = wakeup[g]
  <2>1. /\ Side(shiftQueue', Consumers', wakeup')
        /\ \A g \in Fibers : g \notin Consumers => wakeup'[g] = wakeup[g]
    BY <1>4, <1>8 DEF Orderly
  <2>2. \A g \in Producers : wakeup'[g] = wakeup[g]
    BY <2>1, SidesAreFibers
  <2>3. Side(pushQueue', Producers', wakeup')
    BY <1>2, <1>5, <1>8, <2>2, ProducersKept DEF Orderly
  <2>4. \A g \in Fibers : doing'[g] \notin Blocking => wakeup'[g] = "none"
    <3>1. \A g \in Fibers : doing'[g] \notin Blocking => g \notin Consumers /\ doing[g] \notin Blocking
      BY <1>2, <1>4, SidesAreFibers DEF Blocking
    <3>2. QED
      BY <1>8, <2>1, <3>1 DEF Orderly
  <2>5. QED
    BY <2>1, <2>2, <2>3, <2>4 DEF Orderly
<1>9. ASSUME Orderly, Served
      PROVE  Served'
  <2>1. \A g \in Fibers : wakeup'[g] # "exception"
    BY <1>4, <1>9 DEF Served
  <2>2. Enough(shiftQueue', Consumers', wakeup', Count')
    BY <1>4, <1>5, <1>9 DEF Orderly, Served
  <2>3. Enough(pushQueue', Producers', wakeup', Room')
    <3>1. Room' = 0
      <4>1. Count' \in Nat /\ capacity' = 0
        BY <1>2, <1>6, Numbers DEF TypeOK, Count, Deques
      <4>2. Room' = IF capacity' > Count' THEN capacity' - Count' ELSE 0
        BY DEF Room, HasRoom
      <4>3. ~(capacity' > Count')
        BY <4>1
      <4>4. QED
        BY <4>2, <4>3
    <3>2. QED
      BY <1>5, <3>1, EnoughForNone
  <2>4. QED
    BY <2>1, <2>2, <2>3 DEF Served
<1>10. QED
  BY <1>1, <1>2, <1>6, <1>7, <1>8, <1>9 DEF QueueInv

\* On a capped queue the producer waits.
LEMMA PushCappedStep ==
  ASSUME QueueInv, NEW f \in Fibers, NEW kind \in {"push", "unshift"}, NEW x \in Items,
         PushCapped(f, kind, x)
  PROVE  QueueInv'
<1>1. /\ TypeOK /\ ItemsReady /\ Count \in Nat /\ Room \in Nat
      /\ doing \in [Fibers -> Blocking \cup {"ruby", "each"}]
      /\ "misdelete" \notin faults => Orderly
      /\ faults = {} => Orderly /\ Served
  BY InvParts DEF TypeOK
<1>2. /\ doing[f] = "ruby" /\ doing' = [doing EXCEPT ![f] = kind]
      /\ item' = [item EXCEPT ![f] = x]
      /\ wakeup' = IF HasRoom THEN [wakeup EXCEPT ![f] = "nil"] ELSE wakeup
      /\ pushQueue' = PushItem(pushQueue, f)
      /\ UNCHANGED <<values, shiftQueue, capacity, closed, position, faults>>
  BY DEF PushCapped
<1>3. /\ f \notin Consumers /\ f \notin Producers
      /\ Consumers \in SUBSET Fibers /\ Producers \in SUBSET Fibers
  BY <1>2, SidesAreFibers DEF Consumers, Producers
<1>4. /\ Consumers' = Consumers /\ Producers' = Producers \cup {f} /\ doing'[f] = kind
      /\ \A g \in Fibers : g # f => doing'[g] = doing[g]
      /\ doing' \in [Fibers -> Blocking \cup {"ruby", "each"}]
  <2>1. kind # "shift" /\ kind \in Blocking
    BY DEF Blocking
  <2>2. /\ Consumers' = Consumers \ {f} /\ Producers' = Producers \cup {f} /\ doing'[f] = kind
        /\ \A g \in Fibers : g # f => doing'[g] = doing[g]
        /\ doing' \in [Fibers -> Blocking \cup {"ruby", "each"}]
    BY <1>1, <1>2, <2>1, Members
  <2>3. QED
    BY <1>3, <2>2
<1>5. /\ wakeup \in [Fibers -> Wakeups] /\ wakeup' \in [Fibers -> Wakeups]
      /\ \A g \in Fibers : g # f => wakeup'[g] = wakeup[g]
      /\ wakeup'[f] = IF HasRoom THEN "nil" ELSE wakeup[f]
  BY <1>1, <1>2 DEF TypeOK, Wakeups
<1>6. pushQueue \in Deques(Fibers) /\ pushQueue' \in Deques(Fibers)
  BY <1>1, <1>2, JoinQueue DEF TypeOK
<1>7. TypeOK' /\ item'[f] = x /\ \A g \in Fibers : g # f => item'[g] = item[g]
  BY <1>1, <1>2, <1>4, <1>5, <1>6 DEF TypeOK
<1>8. ItemsReady'
  BY <1>1, <1>3, <1>4, <1>7 DEF ItemsReady
<1>9. Count' = Count /\ Room' = Room
  BY <1>2 DEF Room, HasRoom, Count
<1>10. \A g \in Consumers : wakeup'[g] = wakeup[g]
  BY <1>3, <1>5
<1>11. \A g \in Producers : wakeup'[g] = wakeup[g]
  BY <1>3, <1>5
<1>12. Side(pushQueue, Producers, wakeup) =>
         /\ Side(pushQueue', Producers', wakeup')
         /\ \A k : Enough(pushQueue, Producers, wakeup, k) /\ wakeup'[f] # "none" =>
              Enough(pushQueue', Producers', wakeup', k)
  BY <1>2, <1>3, <1>4, <1>6, <1>11, SideJoined
<1>13. ASSUME Orderly
       PROVE  Orderly'
  <2>1. Side(shiftQueue', Consumers', wakeup')
    BY <1>1, <1>2, <1>4, <1>9, <1>10, <1>13, ConsumersKept DEF Orderly
  <2>2. \A g \in Fibers : doing'[g] \notin Blocking => wakeup'[g] = "none"
    BY <1>4, <1>5, <1>13 DEF Orderly, Blocking
  <2>3. QED
    BY <1>12, <1>13, <2>1, <2>2 DEF Orderly
<1>14. ASSUME Orderly, Served
       PROVE  Served'
  <2>1. \A g \in Fibers : wakeup'[g] # "exception"
    BY <1>5, <1>14 DEF Served
  <2>2. Enough(shiftQueue', Consumers', wakeup', Count')
    BY <1>1, <1>2, <1>4, <1>9, <1>10, <1>14, ConsumersKept DEF Served
  <2>3. Enough(pushQueue', Producers', wakeup', Room')
    <3>1. CASE HasRoom
      BY <1>5, <1>9, <1>12, <1>14, <3>1 DEF Orderly, Served
    <3>2. CASE ~HasRoom
      <4>1. Room' = 0 /\ Producers' \in SUBSET Fibers
        BY <1>3, <1>4, <1>9, <3>2 DEF Room
      <4>2. QED
        BY <4>1, EnoughForNone
    <3>3. QED
      BY <3>1, <3>2
  <2>4. QED
    BY <2>1, <2>2, <2>3 DEF Served
<1>15. QED
  BY <1>1, <1>2, <1>7, <1>8, <1>13, <1>14 DEF QueueInv

\* Queue_shift_block: the consumer waits.
LEMMA ShiftStep ==
  ASSUME QueueInv, NEW f \in Fibers, Shift(f)
  PROVE  QueueInv'
<1>1. /\ TypeOK /\ ItemsReady /\ Count \in Nat /\ Room \in Nat
      /\ doing \in [Fibers -> Blocking \cup {"ruby", "each"}]
      /\ "misdelete" \notin faults => Orderly
      /\ faults = {} => Orderly /\ Served
  BY InvParts DEF TypeOK
<1>2. /\ doing[f] = "ruby" /\ doing' = [doing EXCEPT ![f] = "shift"]
      /\ wakeup' = IF Count > 0 THEN [wakeup EXCEPT ![f] = "nil"] ELSE wakeup
      /\ shiftQueue' = PushItem(shiftQueue, f)
      /\ UNCHANGED <<values, pushQueue, capacity, closed, item, position, faults>>
  BY DEF Shift
<1>3. /\ f \notin Consumers /\ f \notin Producers
      /\ Consumers \in SUBSET Fibers /\ Producers \in SUBSET Fibers
  BY <1>2, SidesAreFibers DEF Consumers, Producers
<1>4. /\ Consumers' = Consumers \cup {f} /\ Producers' = Producers /\ doing'[f] = "shift"
      /\ \A g \in Fibers : g # f => doing'[g] = doing[g]
      /\ doing' \in [Fibers -> Blocking \cup {"ruby", "each"}]
  <2>1. /\ Consumers' = Consumers \cup {f} /\ Producers' = Producers \ {f} /\ doing'[f] = "shift"
        /\ \A g \in Fibers : g # f => doing'[g] = doing[g]
        /\ doing' \in [Fibers -> Blocking \cup {"ruby", "each"}]
    BY <1>1, <1>2, Members DEF Blocking
  <2>2. QED
    BY <1>3, <2>1
<1>5. /\ wakeup \in [Fibers -> Wakeups] /\ wakeup' \in [Fibers -> Wakeups]
      /\ \A g \in Fibers : g # f => wakeup'[g] = wakeup[g]
      /\ wakeup'[f] = IF Count > 0 THEN "nil" ELSE wakeup[f]
  BY <1>1, <1>2 DEF TypeOK, Wakeups
<1>6. shiftQueue \in Deques(Fibers) /\ shiftQueue' \in Deques(Fibers)
  BY <1>1, <1>2, JoinQueue DEF TypeOK
<1>7. TypeOK'
  BY <1>1, <1>2, <1>4, <1>5, <1>6 DEF TypeOK
<1>8. ItemsReady'
  BY <1>1, <1>2, <1>4 DEF ItemsReady
<1>9. Count' = Count /\ Room' = Room
  BY <1>2 DEF Room, HasRoom, Count
<1>10. \A g \in Consumers : wakeup'[g] = wakeup[g]
  BY <1>3, <1>5
<1>11. \A g \in Producers : wakeup'[g] = wakeup[g]
  BY <1>3, <1>5
<1>12. Side(shiftQueue, Consumers, wakeup) =>
         /\ Side(shiftQueue', Consumers', wakeup')
         /\ \A k : Enough(shiftQueue, Consumers, wakeup, k) /\ wakeup'[f] # "none" =>
              Enough(shiftQueue', Consumers', wakeup', k)
  BY <1>2, <1>3, <1>4, <1>6, <1>10, SideJoined
<1>13. ASSUME Orderly
       PROVE  Orderly'
  <2>1. Side(pushQueue', Producers', wakeup')
    BY <1>2, <1>4, <1>11, <1>13, ProducersKept DEF Orderly
  <2>2. \A g \in Fibers : doing'[g] \notin Blocking => wakeup'[g] = "none"
    BY <1>4, <1>5, <1>13 DEF Orderly, Blocking
  <2>3. QED
    BY <1>12, <1>13, <2>1, <2>2 DEF Orderly
<1>14. ASSUME Orderly, Served
       PROVE  Served'
  <2>1. \A g \in Fibers : wakeup'[g] # "exception"
    BY <1>5, <1>14 DEF Served
  <2>2. Enough(pushQueue', Producers', wakeup', Room')
    BY <1>2, <1>4, <1>9, <1>11, <1>14, ProducersKept DEF Served
  <2>3. Enough(shiftQueue', Consumers', wakeup', Count')
    <3>1. CASE Count > 0
      BY <1>5, <1>9, <1>12, <1>14, <3>1 DEF Orderly, Served
    <3>2. CASE ~(Count > 0)
      <4>1. Count' = 0 /\ Consumers' \in SUBSET Fibers
        BY <1>1, <1>3, <1>4, <1>9, <3>2
      <4>2. QED
        BY <4>1, EnoughForNone
    <3>3. QED
      BY <3>1, <3>2
  <2>4. QED
    BY <2>1, <2>2, <2>3 DEF Served
<1>15. QED
  BY <1>1, <1>2, <1>7, <1>8, <1>13, <1>14 DEF QueueInv

\* flush_waiters and close wake every consumer.
LEMMA ReleaseSteps ==
  ASSUME QueueInv, NEW f \in Fibers, FlushWaiters(f) \/ Close(f)
  PROVE  QueueInv'
<1> DEFINE n == Len(shiftQueue.items)
           u == Scheduled(wakeup, FirstWaiters(shiftQueue, n))
<1>1. /\ TypeOK /\ ItemsReady /\ shiftQueue \in Deques(Fibers) /\ wakeup \in [Fibers -> Wakeups]
      /\ "misdelete" \notin faults => Orderly
      /\ faults = {} => Orderly /\ Served
  BY InvParts DEF TypeOK
<1>2. /\ wakeup' = u /\ shiftQueue' = WithoutFirst(shiftQueue, n) /\ closed' \in BOOLEAN
      /\ UNCHANGED <<values, pushQueue, capacity, doing, item, position, faults>>
  BY <1>1 DEF FlushWaiters, Close, ReleaseConsumers, TypeOK
<1>3. n \in 0 .. Len(shiftQueue.items) /\ n = Len(shiftQueue.items)
  BY <1>1, OnQueue
<1>4. u = Scheduled(wakeup, FirstWaiters(shiftQueue, n))
  OBVIOUS
<1> HIDE DEF n, u
<1>5. /\ Consumers' = Consumers /\ Producers' = Producers /\ Count' = Count /\ Room' = Room
      /\ Consumers \in SUBSET Fibers /\ Producers \in SUBSET Fibers /\ Consumers \cap Producers = {}
      /\ \A g \in Consumers : doing[g] \in Blocking
  BY <1>2, SidesAreFibers DEF Consumers, Producers, Room, HasRoom, Count
<1>6. /\ u \in [Fibers -> Wakeups]
      /\ \A g \in Fibers : doing[g] \notin Blocking => u[g] = wakeup[g]
      /\ (\A g \in Fibers : wakeup[g] # "exception") => \A g \in Fibers : u[g] # "exception"
  BY <1>1, <1>4, ScheduledFibers
<1>7. shiftQueue' \in Deques(Fibers)
  BY <1>1, <1>2, <1>3, TakeWaiters
<1>8. TypeOK' /\ ItemsReady'
  BY <1>1, <1>2, <1>5, <1>6, <1>7 DEF TypeOK, ItemsReady
<1>9. ASSUME Orderly
      PROVE  /\ Orderly' /\ \A g \in Producers : wakeup'[g] = wakeup[g]
             /\ (\A g \in Consumers : wakeup[g] # "exception")
                   => \A k : Enough(shiftQueue', Consumers', wakeup', k)
  <2>1. Side(shiftQueue, Consumers, wakeup)
    BY <1>9 DEF Orderly
  <2>2. /\ Side(WithoutFirst(shiftQueue, n), Consumers, u)
        /\ (\A g \in Consumers : wakeup[g] # "exception")
              => \A k : Enough(WithoutFirst(shiftQueue, n), Consumers, u, k)
    BY <1>1, <1>3, <1>4, <1>5, <2>1, WakeSide
  <2>3. \A g \in Fibers : g \notin Consumers => u[g] = wakeup[g]
    <3>1. /\ Consumers \in SUBSET Fibers /\ shiftQueue \in Deques(Fibers) /\ wakeup \in [Fibers -> Wakeups]
          /\ n \in 0 .. Len(shiftQueue.items)
      BY <1>1, <1>3, <1>5
    <3>2. \A g \in Fibers : g \notin Consumers =>
             Scheduled(wakeup, FirstWaiters(shiftQueue, n))[g] = wakeup[g]
      BY <2>1, <3>1, WakeNoOther
    <3>3. QED
      BY <1>4, <3>2, Zenon
  <2>4. \A g \in Producers : wakeup'[g] = wakeup[g]
    BY <1>2, <1>5, <2>3
  <2>5. Side(pushQueue', Producers', wakeup')
    BY <1>2, <1>5, <1>9, <2>4, ProducersKept DEF Orderly
  <2>6. \A g \in Fibers : doing'[g] \notin Blocking => wakeup'[g] = "none"
    BY <1>2, <1>6, <1>9 DEF Orderly
  <2>7. QED
    BY <1>2, <1>5, <2>2, <2>4, <2>5, <2>6 DEF Orderly
<1>10. ASSUME Orderly, Served
       PROVE  Served'
  <2>1. \A g \in Fibers : wakeup'[g] # "exception"
    BY <1>2, <1>6, <1>10 DEF Served
  <2>2. Enough(shiftQueue', Consumers', wakeup', Count')
    BY <1>5, <1>9, <1>10 DEF Served
  <2>3. Enough(pushQueue', Producers', wakeup', Room')
    <3>1. \A k : Enough(pushQueue, Producers, wakeup, k) => Enough(pushQueue', Producers', wakeup', k)
      BY <1>2, <1>5, <1>9, <1>10, ProducersKept
    <3>2. QED
      BY <1>5, <1>10, <3>1, Zenon DEF Served
  <2>4. QED
    BY <2>1, <2>2, <2>3 DEF Served
<1>11. QED
  BY <1>1, <1>2, <1>8, <1>9, <1>10 DEF QueueInv

\* An exception for a fiber that waits: it stays on its wait queue until it runs.
LEMMA CancelStep ==
  ASSUME QueueInv, NEW f \in Fibers, Cancel(f)
  PROVE  QueueInv'
<1>1. /\ TypeOK /\ ItemsReady /\ wakeup \in [Fibers -> Wakeups]
      /\ "misdelete" \notin faults => Orderly
  BY InvParts DEF TypeOK
<1>2. /\ doing[f] \in Blocking /\ wakeup' = [wakeup EXCEPT ![f] = "exception"]
      /\ faults' = faults \cup {"cancel"}
      /\ UNCHANGED <<values, shiftQueue, pushQueue, capacity, closed, doing, item, position>>
  BY DEF Cancel
<1>3. /\ wakeup' \in [Fibers -> Wakeups] /\ wakeup'[f] = "exception"
      /\ \A g \in Fibers : g # f => wakeup'[g] = wakeup[g]
  BY <1>1, <1>2 DEF Wakeups
<1>4. Consumers' = Consumers /\ Producers' = Producers
  BY <1>2 DEF Consumers, Producers
<1>5. TypeOK' /\ ItemsReady'
  BY <1>1, <1>2, <1>3, <1>4 DEF TypeOK, ItemsReady, Faults
<1>6. faults' # {} /\ ("misdelete" \notin faults' => "misdelete" \notin faults)
  BY <1>2
<1>7. ASSUME Orderly
      PROVE  Orderly'
  <2>1. \A g \in Fibers : wakeup'[g] = "none" => wakeup[g] = "none"
    BY <1>3
  <2>2. \A g \in Consumers \cup Producers : g \in Fibers
    BY SidesAreFibers
  <2>3. Side(shiftQueue', Consumers', wakeup')
    BY <1>2, <1>4, <1>7, <2>1, <2>2 DEF Orderly, Side
  <2>4. Side(pushQueue', Producers', wakeup')
    BY <1>2, <1>4, <1>7, <2>1, <2>2 DEF Orderly, Side
  <2>5. \A g \in Fibers : doing'[g] \notin Blocking => wakeup'[g] = "none"
    BY <1>2, <1>3, <1>7 DEF Orderly
  <2>6. QED
    BY <2>3, <2>4, <2>5 DEF Orderly
<1>8. QED
  BY <1>1, <1>5, <1>6, <1>7 DEF QueueInv

\* One round of the loop of capped_queue_block_push.  In every case the fiber
\* leaves the wait queue first; if it waits again, there is no room.
LEMMA PushResumeStep ==
  ASSUME QueueInv, NEW f \in Fibers, PushResume(f)
  PROVE  QueueInv'
<1> DEFINE left == DeleteFirst(pushQueue, Positions(pushQueue, f))
           w == [wakeup EXCEPT ![f] = "none"]
<1>1. /\ TypeOK /\ ItemsReady /\ Count \in Nat /\ capacity \in Nat
      /\ "misdelete" \notin faults => Orderly
      /\ faults = {} => Orderly /\ Served
      /\ pushQueue \in Deques(Fibers) /\ wakeup \in [Fibers -> Wakeups]
      /\ doing \in [Fibers -> Blocking \cup {"ruby", "each"}]
  BY InvParts DEF TypeOK
<1>2. /\ doing[f] \in {"push", "unshift"} /\ faults' = faults \cup Misdelete(pushQueue, f)
      /\ UNCHANGED <<capacity, closed, position>>
  BY DEF PushResume
<1>3. \/ /\ wakeup[f] = "exception" /\ wakeup' = w /\ pushQueue' = left
         /\ doing' = [doing EXCEPT ![f] = "ruby"] /\ item' = [item EXCEPT ![f] = NoItem]
         /\ UNCHANGED <<values, shiftQueue>>
      \/ /\ wakeup[f] = "nil" /\ HasRoom /\ pushQueue' = left
         /\ Add(f, doing[f], item[f], w)
      \/ /\ wakeup[f] = "nil" /\ ~HasRoom /\ wakeup' = w /\ pushQueue' = PushItem(left, f)
         /\ UNCHANGED <<values, shiftQueue, doing, item>>
  BY Zenon DEF PushResume
<1>4. /\ f \in Producers /\ f \notin Consumers /\ item[f] \in Items
      /\ Consumers \in SUBSET Fibers /\ Producers \in SUBSET Fibers /\ Consumers \cap Producers = {}
  BY <1>1, <1>2, SidesAreFibers DEF Producers, Consumers, ItemsReady
<1>5. /\ w \in [Fibers -> Wakeups] /\ w[f] = "none" /\ \A g \in Fibers : g # f => w[g] = wakeup[g]
  BY <1>1 DEF Wakeups
<1>6. left \in Deques(Fibers) /\ PushItem(left, f) \in Deques(Fibers)
  <2>1. left \in Deques(Fibers)
    BY <1>1, LeaveQueue
  <2> HIDE DEF left
  <2>2. QED
    BY <2>1, JoinQueue
<1>7. faults' \subseteq Faults
  BY <1>1, <1>2 DEF TypeOK, Misdelete, Faults
<1>8. /\ "misdelete" \notin faults' => "misdelete" \notin faults /\ Misdelete(pushQueue, f) = {}
      /\ faults' = {} => faults = {} /\ Misdelete(pushQueue, f) = {}
  BY <1>2 DEF Misdelete
<1>9. ASSUME Orderly, Misdelete(pushQueue, f) = {}, NEW u, \A g \in Producers : g # f => u[g] = wakeup[g]
      PROVE  /\ Side(left, Producers \ {f}, u)
             /\ \A k \in Int : Enough(pushQueue, Producers, wakeup, k)
                                 => Enough(left, Producers \ {f}, u, k - 1)
             /\ Side(PushItem(left, f), Producers, u)
  <2>1. Side(pushQueue, Producers, wakeup)
    BY <1>9 DEF Orderly
  <2>2. QED
    BY <1>1, <1>4, <1>9, <2>1, SideLeft, SideRejoined
<1> HIDE DEF left, w
<1>10. CASE /\ wakeup[f] = "exception" /\ wakeup' = w /\ pushQueue' = left
            /\ doing' = [doing EXCEPT ![f] = "ruby"] /\ item' = [item EXCEPT ![f] = NoItem]
            /\ UNCHANGED <<values, shiftQueue>>
  <2>1. /\ Consumers' = Consumers \ {f} /\ Producers' = Producers \ {f} /\ doing'[f] = "ruby"
        /\ \A g \in Fibers : g # f => doing'[g] = doing[g]
        /\ doing' \in [Fibers -> Blocking \cup {"ruby", "each"}]
    BY <1>1, <1>10, Members
  <2>2. TypeOK' /\ \A g \in Fibers : g # f => item'[g] = item[g]
    BY <1>1, <1>2, <1>5, <1>6, <1>7, <1>10, <2>1 DEF TypeOK
  <2>3. ItemsReady'
    BY <1>1, <2>1, <2>2, <1>4 DEF ItemsReady
  <2>4. Consumers' = Consumers /\ Count' = Count
    BY <1>4, <1>10, <2>1 DEF Count
  <2>5. ASSUME Orderly, Misdelete(pushQueue, f) = {}
        PROVE  Orderly'
    <3>1. Side(pushQueue', Producers', wakeup')
      BY <1>5, <1>9, <1>10, <1>4, <2>1, <2>5
    <3>2. \A g \in Consumers : wakeup'[g] = wakeup[g]
      BY <1>4, <1>5, <1>10
    <3>3. Side(shiftQueue', Consumers', wakeup')
      BY <1>1, <1>10, <2>4, <2>5, <3>2, ConsumersKept DEF Orderly
    <3>4. \A g \in Fibers : doing'[g] \notin Blocking => wakeup'[g] = "none"
      BY <1>5, <1>10, <2>1, <2>5 DEF Orderly
    <3>5. QED
      BY <3>1, <3>3, <3>4 DEF Orderly
  <2>6. faults' # {}
    BY <1>1, <1>8, <1>10 DEF Served
  <2>7. QED
    BY <1>1, <1>8, <2>2, <2>3, <2>5, <2>6 DEF QueueInv
<1>11. CASE /\ wakeup[f] = "nil" /\ HasRoom /\ pushQueue' = left
            /\ Add(f, doing[f], item[f], w)
  <2>1. PICK x \in Items : x = item[f]
    BY <1>4
  <2>0. PICK kind : kind = doing[f]
    OBVIOUS
  <2>2. /\ values' \in Deques(Items) /\ Count' = Count + 1 /\ shiftQueue' \in Deques(Fibers)
        /\ doing' \in [Fibers -> Blocking \cup {"ruby", "each"}]
        /\ item' \in [Fibers -> Items \cup {NoItem}] /\ wakeup' \in [Fibers -> Wakeups]
        /\ Consumers' = Consumers /\ Producers' = Producers \ {f}
        /\ doing'[f] = "ruby" /\ \A g \in Fibers : g # f => item'[g] = item[g] /\ doing'[g] = doing[g]
        /\ Side(shiftQueue, Consumers, wakeup) =>
             /\ Side(shiftQueue', Consumers', wakeup')
             /\ \A g \in Fibers : g \notin Consumers => wakeup'[g] = w[g]
             /\ (\A g \in Consumers : wakeup[g] # "exception")
                /\ Enough(shiftQueue, Consumers, wakeup, Count)
                => Enough(shiftQueue', Consumers', wakeup', Count')
        /\ (\A g \in Fibers : w[g] # "exception") => \A g \in Fibers : wakeup'[g] # "exception"
    <3>1. Add(f, kind, x, w)
      BY <1>11, <2>0, <2>1, Zenon
    <3>2. TypeOK /\ f \notin Consumers /\ w \in [Fibers -> Wakeups]
      BY <1>1, <1>4, <1>5
    <3>3. \A g \in Fibers : g # f => w[g] = wakeup[g]
      BY <1>5
    <3>4. QED
      BY <3>1, <3>2, <3>3, AddStep
  <2>3. TypeOK'
    BY <1>1, <1>2, <1>6, <1>7, <1>11, <2>2 DEF TypeOK
  <2>4. ItemsReady'
    BY <1>1, <1>4, <2>2 DEF ItemsReady
  <2>5. ASSUME Orderly, Misdelete(pushQueue, f) = {}
        PROVE  /\ Orderly'
               /\ \A k \in Int : Enough(pushQueue, Producers, wakeup, k)
                                   => Enough(pushQueue', Producers', wakeup', k - 1)
    <3>1. /\ Side(shiftQueue', Consumers', wakeup')
          /\ \A g \in Fibers : g \notin Consumers => wakeup'[g] = w[g]
      BY <2>2, <2>5 DEF Orderly
    <3>2. \A g \in Producers : g # f => wakeup'[g] = wakeup[g]
      BY <1>4, <1>5, <3>1
    <3>3. /\ Side(pushQueue', Producers', wakeup')
          /\ \A k \in Int : Enough(pushQueue, Producers, wakeup, k)
                              => Enough(pushQueue', Producers', wakeup', k - 1)
      BY <1>9, <1>11, <2>2, <2>5, <3>2
    <3>4. \A g \in Fibers : doing'[g] \notin Blocking => wakeup'[g] = "none"
      <4>1. \A g \in Fibers : g # f /\ doing'[g] \notin Blocking => g \notin Consumers /\ w[g] = "none"
        BY <1>5, <2>2, <2>5, SidesAreFibers DEF Orderly
      <4>2. QED
        BY <1>4, <1>5, <3>1, <4>1
    <3>5. QED
      BY <3>1, <3>3, <3>4 DEF Orderly
  <2>6. ASSUME Orderly, Misdelete(pushQueue, f) = {}, Served
        PROVE  Served'
    <3>1. \A g \in Fibers : wakeup[g] # "exception" /\ wakeup'[g] # "exception"
      BY <1>5, <2>2, <2>6 DEF Served
    <3>2. Enough(shiftQueue', Consumers', wakeup', Count')
      BY <1>4, <2>2, <2>6, <3>1 DEF Orderly, Served
    <3>3. Room' = Room - 1 /\ Room \in Int
      <4> DEFINE m == Count
                 j == Count'
      <4>1. /\ Room = capacity - m /\ capacity > m /\ m \in Nat /\ j = m + 1 /\ capacity \in Nat
            /\ Room' = IF capacity > j THEN capacity - j ELSE 0
        BY <1>1, <1>2, <1>11, <2>2 DEF Room, HasRoom
      <4> HIDE DEF m, j
      <4>2. QED
        BY <4>1
    <3>4. Enough(pushQueue', Producers', wakeup', Room - 1)
      BY <2>5, <2>6, <3>3 DEF Served
    <3>5. QED
      BY <3>1, <3>2, <3>3, <3>4 DEF Served
  <2>7. QED
    BY <1>1, <1>8, <2>3, <2>4, <2>5, <2>6 DEF QueueInv
<1>12. CASE /\ wakeup[f] = "nil" /\ ~HasRoom /\ wakeup' = w /\ pushQueue' = PushItem(left, f)
            /\ UNCHANGED <<values, shiftQueue, doing, item>>
  <2>1. Consumers' = Consumers /\ Producers' = Producers /\ Count' = Count /\ Room' = 0
    BY <1>2, <1>12 DEF Consumers, Producers, Count, Room, HasRoom
  <2>2. TypeOK' /\ ItemsReady'
    BY <1>1, <1>2, <1>5, <1>6, <1>7, <1>12, <2>1 DEF TypeOK, ItemsReady
  <2>3. \A g \in Consumers : wakeup'[g] = wakeup[g]
    BY <1>4, <1>5, <1>12
  <2>4. ASSUME Orderly, Misdelete(pushQueue, f) = {}
        PROVE  Orderly'
    <3>1. Side(pushQueue', Producers', wakeup')
      BY <1>4, <1>5, <1>9, <1>12, <2>1, <2>4
    <3>2. Side(shiftQueue', Consumers', wakeup')
      BY <1>1, <1>12, <2>1, <2>3, <2>4, ConsumersKept DEF Orderly
    <3>3. \A g \in Fibers : doing'[g] \notin Blocking => wakeup'[g] = "none"
      BY <1>5, <1>12, <2>4 DEF Orderly
    <3>4. QED
      BY <3>1, <3>2, <3>3 DEF Orderly
  <2>5. ASSUME Served
        PROVE  Served'
    <3>1. \A g \in Fibers : wakeup'[g] # "exception"
      BY <1>5, <1>12, <2>5 DEF Served
    <3>2. Enough(shiftQueue', Consumers', wakeup', Count')
      BY <1>1, <1>12, <2>1, <2>3, <2>5, ConsumersKept DEF Served
    <3>3. Enough(pushQueue', Producers', wakeup', Room')
      BY <1>4, <2>1, EnoughForNone
    <3>4. QED
      BY <3>1, <3>2, <3>3 DEF Served
  <2>6. QED
    BY <1>1, <1>8, <2>2, <2>4, <2>5 DEF QueueInv
<1>13. QED
  BY <1>3, <1>10, <1>11, <1>12

\* One round of the loop of Queue_shift_block.  The values that the fiber did not
\* take are left to the others, and so is its place among the woken.
LEMMA ShiftResumeStep ==
  ASSUME QueueInv, NEW f \in Fibers, ShiftResume(f)
  PROVE  QueueInv'
<1> DEFINE left == DeleteFirst(shiftQueue, Positions(shiftQueue, f))
           w == [wakeup EXCEPT ![f] = "none"]
<1>1. /\ TypeOK /\ ItemsReady /\ Count \in Nat /\ capacity \in Nat /\ Room \in Nat
      /\ "misdelete" \notin faults => Orderly
      /\ faults = {} => Orderly /\ Served
      /\ shiftQueue \in Deques(Fibers) /\ wakeup \in [Fibers -> Wakeups]
      /\ doing \in [Fibers -> Blocking \cup {"ruby", "each"}]
  BY InvParts DEF TypeOK
<1>2. /\ doing[f] = "shift" /\ faults' = faults \cup Misdelete(shiftQueue, f)
      /\ UNCHANGED <<capacity, closed, item, position>>
  BY DEF ShiftResume
<1>3. \/ /\ wakeup[f] = "exception" \/ (Count = 0 /\ closed)
         /\ wakeup' = w /\ shiftQueue' = left
         /\ doing' = [doing EXCEPT ![f] = "ruby"] /\ UNCHANGED <<values, pushQueue>>
      \/ /\ wakeup[f] = "nil" /\ Count > 0 /\ shiftQueue' = left
         /\ doing' = [doing EXCEPT ![f] = "ruby"] /\ TakeFirst(w)
      \/ /\ wakeup[f] = "nil" /\ Count = 0 /\ wakeup' = w /\ shiftQueue' = PushItem(left, f)
         /\ UNCHANGED <<values, pushQueue, doing>>
  BY Zenon DEF ShiftResume
<1>4. /\ f \in Consumers /\ f \notin Producers
      /\ Consumers \in SUBSET Fibers /\ Producers \in SUBSET Fibers /\ Consumers \cap Producers = {}
  BY <1>2, SidesAreFibers DEF Producers, Consumers
<1>5. /\ w \in [Fibers -> Wakeups] /\ w[f] = "none" /\ \A g \in Fibers : g # f => w[g] = wakeup[g]
  BY <1>1 DEF Wakeups
<1>6. left \in Deques(Fibers) /\ PushItem(left, f) \in Deques(Fibers)
  <2>1. left \in Deques(Fibers)
    BY <1>1, LeaveQueue
  <2> HIDE DEF left
  <2>2. QED
    BY <2>1, JoinQueue
<1>7. faults' \subseteq Faults
  BY <1>1, <1>2 DEF TypeOK, Misdelete, Faults
<1>8. /\ "misdelete" \notin faults' => "misdelete" \notin faults /\ Misdelete(shiftQueue, f) = {}
      /\ faults' = {} => faults = {} /\ Misdelete(shiftQueue, f) = {}
  BY <1>2 DEF Misdelete
<1>9. ASSUME Orderly, Misdelete(shiftQueue, f) = {}, NEW u, \A g \in Consumers : g # f => u[g] = wakeup[g]
      PROVE  /\ Side(left, Consumers \ {f}, u)
             /\ \A k \in Int : Enough(shiftQueue, Consumers, wakeup, k)
                                 => Enough(left, Consumers \ {f}, u, k - 1)
             /\ Side(PushItem(left, f), Consumers, u)
  <2>1. Side(shiftQueue, Consumers, wakeup)
    BY <1>9 DEF Orderly
  <2>2. QED
    BY <1>1, <1>4, <1>9, <2>1, SideLeft, SideRejoined
<1>15. ASSUME doing' = [doing EXCEPT ![f] = "ruby"]
       PROVE  /\ Consumers' = Consumers \ {f} /\ Producers' = Producers /\ doing'[f] = "ruby"
              /\ \A g \in Fibers : g # f => doing'[g] = doing[g]
              /\ doing' \in [Fibers -> Blocking \cup {"ruby", "each"}]
  <2>1. /\ Consumers' = Consumers \ {f} /\ Producers' = Producers \ {f} /\ doing'[f] = "ruby"
        /\ \A g \in Fibers : g # f => doing'[g] = doing[g]
        /\ doing' \in [Fibers -> Blocking \cup {"ruby", "each"}]
    BY <1>1, <1>15, Members
  <2>2. QED
    BY <1>4, <2>1
<1> HIDE DEF left, w
<1>10. CASE /\ wakeup[f] = "exception" \/ (Count = 0 /\ closed)
            /\ wakeup' = w /\ shiftQueue' = left
            /\ doing' = [doing EXCEPT ![f] = "ruby"] /\ UNCHANGED <<values, pushQueue>>
  <2>1. /\ Consumers' = Consumers \ {f} /\ Producers' = Producers /\ doing'[f] = "ruby"
        /\ \A g \in Fibers : g # f => doing'[g] = doing[g]
        /\ doing' \in [Fibers -> Blocking \cup {"ruby", "each"}]
    BY <1>10, <1>15
  <2>2. TypeOK'
    BY <1>1, <1>2, <1>5, <1>6, <1>7, <1>10, <2>1 DEF TypeOK
  <2>3. ItemsReady' /\ Count' = Count /\ Room' = Room
    BY <1>1, <1>2, <1>10, <2>1 DEF ItemsReady, Count, Room, HasRoom
  <2>4. \A g \in Producers : wakeup'[g] = wakeup[g]
    BY <1>4, <1>5, <1>10
  <2>5. ASSUME Orderly, Misdelete(shiftQueue, f) = {}
        PROVE  Orderly'
    <3>1. Side(shiftQueue', Consumers', wakeup')
      BY <1>5, <1>9, <1>10, <1>4, <2>1, <2>5
    <3>2. Side(pushQueue', Producers', wakeup')
      BY <1>10, <2>1, <2>4, <2>5, ProducersKept DEF Orderly
    <3>3. \A g \in Fibers : doing'[g] \notin Blocking => wakeup'[g] = "none"
      BY <1>5, <1>10, <2>1, <2>5 DEF Orderly
    <3>4. QED
      BY <3>1, <3>2, <3>3 DEF Orderly
  <2>6. ASSUME Served
        PROVE  Served'
    <3>1. \A g \in Fibers : wakeup'[g] # "exception"
      BY <1>5, <1>10, <2>6 DEF Served
    <3>2. Count' = 0 /\ Consumers' \in SUBSET Fibers
      BY <1>4, <1>10, <2>1, <2>3, <2>6 DEF Served
    <3>3. Enough(shiftQueue', Consumers', wakeup', Count')
      BY <3>2, EnoughForNone
    <3>4. Enough(pushQueue', Producers', wakeup', Room')
      BY <1>10, <2>1, <2>3, <2>4, <2>6, ProducersKept DEF Served
    <3>5. QED
      BY <3>1, <3>3, <3>4 DEF Served
  <2>7. QED
    BY <1>1, <1>8, <2>2, <2>3, <2>5, <2>6 DEF QueueInv
<1>11. CASE /\ wakeup[f] = "nil" /\ Count > 0 /\ shiftQueue' = left
            /\ doing' = [doing EXCEPT ![f] = "ruby"] /\ TakeFirst(w)
  <2>1. /\ Consumers' = Consumers \ {f} /\ Producers' = Producers /\ doing'[f] = "ruby"
        /\ \A g \in Fibers : g # f => doing'[g] = doing[g]
        /\ doing' \in [Fibers -> Blocking \cup {"ruby", "each"}]
    BY <1>11, <1>15
  <2> DEFINE n == AfterRemoval(Count - 1)
  <2>2. values' = ShiftItem(values) /\ WakeProducers(w, n)
    BY <1>11 DEF TakeFirst
  <2>3. values' \in Deques(Items) /\ Count' = Count - 1 /\ Count' \in Nat
    <3>1. values' \in Deques(Items) /\ Count' = Count - 1
      BY <1>1, <1>11, <2>2, ValuesAfter DEF Count
    <3>2. QED
      BY <1>1, <1>11, <3>1
  <2>4. n \in 0 .. Len(pushQueue.items) /\ n = AfterRemoval(Count')
    <3>1. \A m \in Nat : AfterRemoval(m) \in 0 .. Len(pushQueue.items)
      BY <1>1, Numbers
    <3>2. n = AfterRemoval(Count')
      BY <2>3, Zenon
    <3> HIDE DEF n
    <3>3. QED
      BY <2>3, <3>1, <3>2, Zenon
  <2> HIDE DEF n
  <2>5. \A g \in Producers : w[g] = wakeup[g]
    BY <1>4, <1>5
  <2>6. /\ pushQueue' \in Deques(Fibers) /\ wakeup' \in [Fibers -> Wakeups]
        /\ (\A g \in Fibers : w[g] # "exception") => \A g \in Fibers : wakeup'[g] # "exception"
        /\ Side(pushQueue, Producers, wakeup) =>
             /\ Side(pushQueue', Producers', wakeup')
             /\ \A g \in Fibers : g \notin Producers => wakeup'[g] = w[g]
             /\ (\A g \in Producers : wakeup[g] # "exception") =>
                  /\ \A k \in Int : Enough(pushQueue, Producers, wakeup, k) =>
                                       Enough(pushQueue', Producers', wakeup', k + n)
                  /\ Enough(pushQueue', Producers', wakeup', n)
                  /\ n = Len(pushQueue.items) => \A k : Enough(pushQueue', Producers', wakeup', k)
    <3>1. TypeOK /\ w \in [Fibers -> Wakeups] /\ Producers' = Producers
      BY <1>1, <1>5, <2>1
    <3>2. QED
      BY <2>2, <2>4, <2>5, <3>1, ProducersStep
  <2>7. TypeOK'
    BY <1>1, <1>2, <1>6, <1>7, <1>11, <2>1, <2>3, <2>6 DEF TypeOK
  <2>8. ItemsReady'
    BY <1>1, <1>2, <2>1 DEF ItemsReady
  <2>9. ASSUME Orderly, Misdelete(shiftQueue, f) = {}
        PROVE  /\ Orderly'
               /\ \A k \in Int : Enough(shiftQueue, Consumers, wakeup, k)
                                   => Enough(shiftQueue', Consumers', wakeup', k - 1)
    <3>1. /\ Side(pushQueue', Producers', wakeup')
          /\ \A g \in Fibers : g \notin Producers => wakeup'[g] = w[g]
      BY <2>6, <2>9 DEF Orderly
    <3>2. \A g \in Consumers : g # f => wakeup'[g] = wakeup[g]
      BY <1>4, <1>5, <3>1
    <3>3. /\ Side(shiftQueue', Consumers', wakeup')
          /\ \A k \in Int : Enough(shiftQueue, Consumers, wakeup, k)
                              => Enough(shiftQueue', Consumers', wakeup', k - 1)
      BY <1>9, <1>11, <2>1, <2>9, <3>2
    <3>4. \A g \in Fibers : doing'[g] \notin Blocking => wakeup'[g] = "none"
      <4>1. \A g \in Fibers : g # f /\ doing'[g] \notin Blocking => g \notin Producers /\ w[g] = "none"
        BY <1>5, <2>1, <2>9, SidesAreFibers DEF Orderly
      <4>2. QED
        BY <1>4, <1>5, <3>1, <4>1
    <3>5. QED
      BY <3>1, <3>3, <3>4 DEF Orderly
  <2>10. ASSUME Orderly, Misdelete(shiftQueue, f) = {}, Served
         PROVE  Served'
    <3>1. \A g \in Fibers : wakeup[g] # "exception" /\ wakeup'[g] # "exception"
      BY <1>5, <2>6, <2>10 DEF Served
    <3>2. Enough(shiftQueue', Consumers', wakeup', Count')
      <4>1. Enough(shiftQueue', Consumers', wakeup', Count - 1)
        BY <1>1, <2>9, <2>10 DEF Served
      <4>2. QED
        BY <2>3, <4>1, Zenon
    <3>3. /\ \A k \in Int : Enough(pushQueue, Producers, wakeup, k) =>
                               Enough(pushQueue', Producers', wakeup', k + n)
          /\ Enough(pushQueue', Producers', wakeup', n)
          /\ n = Len(pushQueue.items) => \A k : Enough(pushQueue', Producers', wakeup', k)
      BY <1>4, <2>6, <2>10, <3>1 DEF Orderly
    <3>4. /\ TypeOK /\ Count' \in Nat /\ capacity' \in Nat /\ Producers' \in SUBSET Fibers
          /\ Enough(pushQueue, Producers, wakeup, Room)
          /\ capacity' = capacity /\ Count' \in {Count, Count - 1} /\ n = AfterRemoval(Count')
      BY <1>1, <1>2, <1>4, <2>1, <2>3, <2>4, <2>10 DEF Served
    <3>5. Enough(pushQueue', Producers', wakeup', Room')
      BY <2>4, <3>3, <3>4, RoomServed
    <3>6. QED
      BY <3>1, <3>2, <3>5 DEF Served
  <2>11. QED
    BY <1>1, <1>8, <2>7, <2>8, <2>9, <2>10 DEF QueueInv
<1>12. CASE /\ wakeup[f] = "nil" /\ Count = 0 /\ wakeup' = w /\ shiftQueue' = PushItem(left, f)
            /\ UNCHANGED <<values, pushQueue, doing>>
  <2>1. Consumers' = Consumers /\ Producers' = Producers /\ Count' = 0 /\ Room' = Room
    BY <1>2, <1>12 DEF Consumers, Producers, Count, Room, HasRoom
  <2>2. TypeOK' /\ ItemsReady'
    BY <1>1, <1>2, <1>5, <1>6, <1>7, <1>12, <2>1 DEF TypeOK, ItemsReady
  <2>3. \A g \in Producers : wakeup'[g] = wakeup[g]
    BY <1>4, <1>5, <1>12
  <2>4. ASSUME Orderly, Misdelete(shiftQueue, f) = {}
        PROVE  Orderly'
    <3>1. Side(shiftQueue', Consumers', wakeup')
      BY <1>4, <1>5, <1>9, <1>12, <2>1, <2>4
    <3>2. Side(pushQueue', Producers', wakeup')
      BY <1>12, <2>1, <2>3, <2>4, ProducersKept DEF Orderly
    <3>3. \A g \in Fibers : doing'[g] \notin Blocking => wakeup'[g] = "none"
      BY <1>5, <1>12, <2>4 DEF Orderly
    <3>4. QED
      BY <3>1, <3>2, <3>3 DEF Orderly
  <2>5. ASSUME Served
        PROVE  Served'
    <3>1. \A g \in Fibers : wakeup'[g] # "exception"
      BY <1>5, <1>12, <2>5 DEF Served
    <3>2. Enough(pushQueue', Producers', wakeup', Room')
      BY <1>12, <2>1, <2>3, <2>5, ProducersKept DEF Served
    <3>3. Enough(shiftQueue', Consumers', wakeup', Count')
      BY <1>4, <2>1, EnoughForNone
    <3>4. QED
      BY <3>1, <3>2, <3>3 DEF Served
  <2>6. QED
    BY <1>1, <1>8, <2>2, <2>4, <2>5 DEF QueueInv
<1>13. QED
  BY <1>3, <1>10, <1>11, <1>12
-----------------------------------------------------------------------------
\* In the initial state nobody waits.
LEMMA QueueInit ==
  Init => QueueInv
<1> SUFFICES ASSUME Init PROVE QueueInv
  OBVIOUS
<1>1. EmptyDeque.items = <<>> /\ \A S : EmptyDeque \in Deques(S)
  BY DEF EmptyDeque, Deques
<1>2. TypeOK
  BY <1>1 DEF Init, TypeOK, Wakeups, Blocking, Faults
<1>3. Consumers = {} /\ Producers = {}
  BY DEF Init, Consumers, Producers
<1>4. ItemsOf(shiftQueue) = {} /\ ItemsOf(pushQueue) = {} /\ Distinct(shiftQueue) /\ Distinct(pushQueue)
  <2>1. shiftQueue.items = <<>> /\ pushQueue.items = <<>> /\ DOMAIN shiftQueue.items = {} /\ DOMAIN pushQueue.items = {}
    BY <1>1 DEF Init
  <2>2. QED
    BY <1>2, <2>1, OnQueue DEF Distinct, TypeOK
<1>5. ItemsReady /\ Orderly
  BY <1>3, <1>4 DEF ItemsReady, Orderly, Side, Init
<1>6. Served
  BY <1>3 DEF Served, Enough, Init
<1>7. QED
  BY <1>2, <1>5, <1>6 DEF QueueInv

\* Every step preserves the invariant.
LEMMA QueueStep ==
  QueueInv /\ [Next]_vars => QueueInv'
<1> SUFFICES ASSUME QueueInv, [Next]_vars PROVE QueueInv'
  OBVIOUS
<1>1. CASE UNCHANGED vars
  <2>1. SameSides /\ position' \in [Fibers -> Nat]
    BY <1>1, InvParts DEF SameSides, vars, TypeOK
  <2>2. QED
    BY <1>1, <2>1, QuietStep DEF vars
<1>2. CASE Next
  <2>1. PICK f \in Fibers :
          \/ Resume(f)
          \/ \E kind \in {"push", "unshift"}, x \in Items : Push(f, kind, x) \/ PushCapped(f, kind, x)
          \/ Shift(f)
          \/ ShiftNonblock(f) \/ (\E x \in Items : Delete(f, x)) \/ Clear(f) \/ ShiftAll(f)
          \/ \E c \in Capacities : Cap(f, c)
          \/ EachStart(f) \/ EachYield(f) \/ EachEnd(f)
          \/ FlushWaiters(f) \/ Close(f) \/ Cancel(f)
    BY <1>2, Zenon DEF Next
  <2>2. CASE Resume(f)
    BY <2>2, PushResumeStep, ShiftResumeStep DEF Resume
  <2>3. CASE \E kind \in {"push", "unshift"}, x \in Items : Push(f, kind, x) \/ PushCapped(f, kind, x)
    BY <2>3, PushStep, PushCappedStep
  <2>4. CASE Shift(f) \/ FlushWaiters(f) \/ Close(f) \/ Cancel(f)
    BY <2>4, ShiftStep, ReleaseSteps, CancelStep
  <2>5. CASE \/ ShiftNonblock(f) \/ (\E x \in Items : Delete(f, x)) \/ Clear(f) \/ ShiftAll(f)
             \/ \E c \in Capacities : Cap(f, c)
    BY <2>5, RemovalSteps
  <2>6. CASE EachStart(f) \/ EachYield(f) \/ EachEnd(f)
    BY <2>6, EachSteps
  <2>7. QED
    BY <2>1, <2>2, <2>3, <2>4, <2>5, <2>6
<1>3. QED
  BY <1>1, <1>2

\* A fiber of a side that sleeps is at one position of its wait queue.
LEMMA OnePosition ==
  ASSUME NEW q \in Deques(Fibers), Distinct(q), NEW f \in ItemsOf(q)
  PROVE  Cardinality(Positions(q, f)) = 1
<1>1. PICK i \in DOMAIN q.items : q.items[i] = f
  BY OnQueue
<1>2. Positions(q, f) = {i}
  BY <1>1 DEF Positions, Distinct
<1>3. QED
  BY <1>2, FS_Singleton

\* Those that were taken off the wait queue are some of those that are woken.
LEMMA WokenAreMore ==
  ASSUME NEW M \in SUBSET Fibers, NEW q, NEW k \in Nat, Enough(q, M, wakeup, k), Asleep(M) # {}
  PROVE  k <= Cardinality(Woken(M))
<1>1. Reserve(q, M, wakeup) \subseteq Woken(M) /\ Woken(M) \subseteq Fibers
  BY DEF Reserve, Woken
<1>2. IsFiniteSet(Woken(M))
  BY <1>1, QueueAssumption, FS_Subset
<1>3. /\ Cardinality(Reserve(q, M, wakeup)) <= Cardinality(Woken(M))
      /\ Cardinality(Reserve(q, M, wakeup)) \in Nat /\ Cardinality(Woken(M)) \in Nat
  BY <1>1, <1>2, ReserveCount, FS_Subset, FS_CardinalityType
<1>4. k <= Cardinality(Reserve(q, M, wakeup))
  BY DEF Enough, Asleep
<1>5. QED
  BY <1>3, <1>4

LEMMA QueueInvImplies ==
  ASSUME QueueInv
  PROVE  WellFormed /\ NobodyStarves
<1>1. /\ TypeOK /\ Count \in Nat /\ capacity \in Nat /\ Room \in Nat
      /\ Consumers \in SUBSET Fibers /\ Producers \in SUBSET Fibers
      /\ "misdelete" \notin faults => Orderly
      /\ faults = {} => Orderly /\ Served
      /\ shiftQueue \in Deques(Fibers) /\ pushQueue \in Deques(Fibers)
  BY InvParts DEF TypeOK
<1>2. ASSUME NEW q \in Deques(Fibers), NEW M \in SUBSET Fibers, Side(q, M, wakeup)
      PROVE  /\ \A f \in Asleep(M) : Cardinality(Positions(q, f)) = 1
             /\ \A i \in DOMAIN q.items : q.items[i] \in M
  BY <1>2, OnePosition, OnQueue DEF Side, Asleep
<1>3. WaitersAreQueued
  BY <1>1, <1>2 DEF WaitersAreQueued, Orderly
<1>4. NoStarvedConsumer
  BY <1>1, WokenAreMore DEF NoStarvedConsumer, Served
<1>5. NoStarvedProducer
  <2> SUFFICES ASSUME faults = {}, Asleep(Producers) # {}, capacity > Count
               PROVE  capacity - Count <= Cardinality(Woken(Producers))
    BY DEF NoStarvedProducer
  <2>1. Room = capacity - Count /\ Enough(pushQueue, Producers, wakeup, Room)
    BY <1>1 DEF Room, HasRoom, Served
  <2>2. Room <= Cardinality(Woken(Producers))
    BY <1>1, <2>1, WokenAreMore
  <2>3. QED
    BY <2>1, <2>2
<1>6. QED
  BY <1>1, <1>3, <1>4, <1>5 DEF WellFormed, NobodyStarves
-----------------------------------------------------------------------------
\* The fields of the queue are typed, and as long as no delete has hit the first
\* waiter of a full wait queue, every fiber that sleeps is on its wait queue once
\* and every fiber on a wait queue waits (Queue_shift_block,
\* capped_queue_block_push and the functions that wake the waiters).
THEOREM QueueIsWellFormed ==
  Spec => []WellFormed
<1>1. QueueInv => WellFormed
  BY QueueInvImplies
<1>2. QED
  BY <1>1, QueueInit, QueueStep, PTL DEF Spec

\* As long as no waiter was cancelled or dropped: a consumer sleeps only if there
\* are as many woken ones as values, and a producer only if there are as many as
\* free slots, however the calls of the fibers interleave.
THEOREM NobodyStarvesAlways ==
  Spec => []NobodyStarves
<1>1. QueueInv => NobodyStarves
  BY QueueInvImplies
<1>2. QED
  BY <1>1, QueueInit, QueueStep, PTL DEF Spec

\* No call adds a value to a capped queue that is full: the producer that was
\* woken looks again (capped_queue_block_push).
THEOREM CapacityRespectedAlways ==
  Spec => CapacityIsRespected
<1> DEFINE A == Len(values'.items) > Count /\ capacity # 0 => Len(values'.items) <= capacity
<1>1. QueueInv /\ [Next]_vars => [A]_vars
  <2> SUFFICES ASSUME QueueInv, Next, Count' > Count, capacity # 0
               PROVE  Count' <= capacity
    BY DEF Count
  <2>1. TypeOK /\ ItemsReady /\ Count \in Nat /\ capacity \in Nat
    BY InvParts
  <2>2. PICK f \in Fibers : PushResume(f) /\ HasRoom /\ values' # values /\ Count' = Count + 1
    <3>1. values' # values
      BY <2>1 DEF Count
    <3>2. \A x : Len(DeleteFirst(values, Positions(values, x)).items) <= Count
      BY <2>1, ValuesAfter
    <3>3. Len(ClearItems(values).items) <= Count
      BY <2>1, ValuesAfter
    <3>4. Count > 0 => Len(ShiftItem(values).items) <= Count
      BY <2>1, ValuesAfter
    <3>5. /\ \A x : values' # DeleteFirst(values, Positions(values, x))
          /\ values' # ClearItems(values)
          /\ Count > 0 => values' # ShiftItem(values)
      BY <2>1, <3>2, <3>3, <3>4 DEF Count
    <3>6. PICK f \in Fibers : PushResume(f)
      BY <3>1, <3>5, Zenon DEF Next, Resume, Push, PushCapped, ShiftResume, TakeFirst, Shift,
           ShiftNonblock, Delete, Clear, ShiftAll, Empties, EachStart, EachYield, EachEnd, Cap,
           FlushWaiters, Close, Cancel
    <3>7. HasRoom /\ \E w, kind, x : x = item[f] /\ Add(f, kind, x, w)
      BY <3>1, <3>6, Zenon DEF PushResume
    <3>8. item[f] \in Items
      BY <2>1, <3>6 DEF PushResume, ItemsReady, Producers
    <3>9. \E x \in Items : values' = PushItem(values, x) \/ values' = UnshiftItem(values, x)
      BY <3>7, <3>8, Zenon DEF Add
    <3>10. Count' = Count + 1
      BY <2>1, <3>9, ValuesAfter DEF Count
    <3>11. QED
      BY <3>1, <3>6, <3>7, <3>10
  <2>3. QED
    BY <2>1, <2>2 DEF HasRoom
<1>2. QED
  BY <1>1, QueueInit, QueueStep, PTL DEF Spec, CapacityIsRespected

-----------------------------------------------------------------------------
(* The classes built on the queue.                                         *)

\* The run queue, the current fiber and the resume values.
Scheds == [current : Fibers \cup {NoFiber}, queue : Seq(Fibers), value : [Fibers -> Int]]

\* No fiber is on the run queue twice.
OneTurn(s) == \A i, j \in DOMAIN s.queue : s.queue[i] = s.queue[j] => i = j

\* ring_buffer_delete leaves a queue of what was on it.
LEMMA DeletedType ==
  ASSUME NEW S, NEW q \in Seq(S), NEW f
  PROVE  Deleted(q, f) \in Seq(S)
<1> DEFINE at == {i \in 1 .. Len(q) : q[i] = f}
<1>1. CASE \E i \in 1 .. Len(q) : q[i] = f
  <2>1. Deleted(q, f) = RemoveAt(q, Min(at))
    BY <1>1, Zenon DEF Deleted, RemoveFirst, SelectInSeq
  <2>2. Min(at) \in at
    <3>1. at \in SUBSET Nat /\ at # {}
      BY <1>1
    <3> HIDE DEF at
    <3>2. QED
      BY <3>1, MinOfNats
  <2>3. Min(at) \in 1 .. Len(q)
    BY <2>2
  <2> HIDE DEF at
  <2>4. RemoveAt(q, Min(at)) \in Seq(S)
    BY <2>3 DEF RemoveAt
  <2>5. QED
    BY <2>1, <2>4, Zenon
<1>2. CASE ~\E i \in 1 .. Len(q) : q[i] = f
  BY <1>2, Zenon DEF Deleted, RemoveFirst
<1>3. QED
  BY <1>1, <1>2

\* What is on a queue after ring_buffer_delete: the other values, and not the
\* deleted one if it was on it once.
LEMMA DeletedKeeps ==
  ASSUME NEW q \in Seq(Fibers), NEW f \in Fibers
  PROVE  /\ \A g : g # f => ((\E i \in DOMAIN Deleted(q, f) : Deleted(q, f)[i] = g) <=> \E i \in DOMAIN q : q[i] = g)
         /\ (\A i, j \in DOMAIN q : q[i] = q[j] => i = j) =>
               /\ \A i, j \in DOMAIN Deleted(q, f) : Deleted(q, f)[i] = Deleted(q, f)[j] => i = j
               /\ \A i \in DOMAIN Deleted(q, f) : Deleted(q, f)[i] # f
<1> DEFINE d == Deleted(q, f)
           at == {i \in 1 .. Len(q) : q[i] = f}
<1>0. Len(q) \in Nat /\ DOMAIN q = 1 .. Len(q)
  OBVIOUS
<1>1. CASE \E i \in 1 .. Len(q) : q[i] = f
  <2>1. d = RemoveAt(q, Min(at))
    BY <1>1, Zenon DEF Deleted, RemoveFirst, SelectInSeq
  <2>2. Min(at) \in at
    <3>1. at \in SUBSET Nat /\ at # {}
      BY <1>1
    <3> HIDE DEF at
    <3>2. QED
      BY <3>1, MinOfNats
  <2>3. PICK k \in 1 .. Len(q) : k = Min(at) /\ q[k] = f
    BY <2>2
  <2> HIDE DEF d, at
  <2>4. /\ d \in Seq(Fibers) /\ Len(d) = Len(q) - 1
        /\ \A i \in 1 .. Len(q) - 1 : d[i] = IF k <= i THEN q[i + 1] ELSE q[i]
    BY <2>1, <2>3, RemovedAt
  <2>5. DOMAIN d = 1 .. Len(q) - 1
    BY <2>4
  <2>6. ASSUME NEW g, g # f
        PROVE  (\E i \in DOMAIN d : d[i] = g) <=> \E i \in DOMAIN q : q[i] = g
    <3>1. ASSUME NEW i \in DOMAIN d, d[i] = g PROVE \E j \in DOMAIN q : q[j] = g
      <4>1. i \in DOMAIN q /\ i + 1 \in DOMAIN q
        BY <1>0, <2>5
      <4>2. d[i] = q[i + 1] \/ d[i] = q[i]
        BY <2>4, <2>5
      <4>3. QED
        BY <3>1, <4>1, <4>2
    <3>2. ASSUME NEW i \in DOMAIN q, q[i] = g PROVE \E j \in DOMAIN d : d[j] = g
      <4>1. i # k
        BY <2>3, <2>6, <3>2
      <4>2. CASE i < k
        <5>1. i \in DOMAIN d /\ ~(k <= i)
          BY <1>0, <2>3, <2>5, <4>2
        <5>2. QED
          BY <2>4, <2>5, <3>2, <5>1
      <4>3. CASE i > k
        <5>1. i - 1 \in DOMAIN d /\ k <= i - 1 /\ (i - 1) + 1 = i
          BY <1>0, <2>3, <2>5, <4>3
        <5>2. QED
          BY <2>4, <2>5, <3>2, <5>1
      <4>4. QED
        BY <1>0, <4>1, <4>2, <4>3
    <3>3. QED
      BY <3>1, <3>2
  <2>7. ASSUME \A i, j \in DOMAIN q : q[i] = q[j] => i = j
        PROVE  /\ \A i, j \in DOMAIN d : d[i] = d[j] => i = j
               /\ \A i \in DOMAIN d : d[i] # f
    <3>1. ASSUME NEW i \in DOMAIN d
          PROVE  \E m \in DOMAIN q : m # k /\ d[i] = q[m] /\ m = IF k <= i THEN i + 1 ELSE i
      <4>1. CASE k <= i
        BY <1>0, <2>3, <2>4, <2>5, <4>1
      <4>2. CASE ~(k <= i)
        BY <1>0, <2>3, <2>4, <2>5, <4>2
      <4>3. QED
        BY <4>1, <4>2
    <3>2. \A i \in DOMAIN d : d[i] # f
      BY <1>0, <2>3, <2>7, <3>1
    <3>3. ASSUME NEW i \in DOMAIN d, NEW j \in DOMAIN d, d[i] = d[j] PROVE i = j
      <4>1. PICK m \in DOMAIN q : d[i] = q[m] /\ m = IF k <= i THEN i + 1 ELSE i
        BY <3>1
      <4>2. PICK n \in DOMAIN q : d[j] = q[n] /\ n = IF k <= j THEN j + 1 ELSE j
        BY <3>1
      <4>3. m = n
        BY <2>7, <3>3, <4>1, <4>2
      <4>4. m # k /\ n # k
        BY <3>2, <4>1, <4>2, <2>3
      <4>5. QED
        BY <1>0, <2>5, <4>1, <4>2, <4>3, <4>4
    <3>4. QED
      BY <3>2, <3>3
  <2>8. QED
    BY <2>6, <2>7, Zenon DEF d
<1>2. CASE ~\E i \in 1 .. Len(q) : q[i] = f
  <2>1. d = q
    BY <1>2, Zenon DEF Deleted, RemoveFirst
  <2> HIDE DEF d
  <2>2. \A i \in DOMAIN d : d[i] # f
    BY <1>0, <1>2, <2>1
  <2>3. QED
    BY <2>1, <2>2, Zenon DEF d
<1>3. QED
  BY <1>1, <1>2

\* Fiber_make_runnable puts one fiber on the run queue, once, with the new value,
\* unless it has an exception on its way and the value is none; a dead fiber stays
\* dead.
LEMMA MadeRunnable ==
  ASSUME NEW s \in Scheds, NEW f \in Fibers, NEW v \in Int, NEW r,
         r = MakeRunnable(s, f, v)
  PROVE  /\ r \in Scheds /\ r.current = s.current
         /\ OneTurn(s) => OneTurn(r)
         /\ \A g \in Fibers : InQueue(r, g) <=> InQueue(s, g) \/ (g = f /\ pc[f] # "dead")
         /\ \A g \in Fibers : g # f => r.value[g] = s.value[g]
         /\ r.value[f] = s.value[f] \/ r.value[f] = v
         /\ pc[f] # "dead" => \/ r.value[f] = v
                              \/ /\ InQueue(s, f) /\ r.value[f] = s.value[f]
                                 /\ IS_EXCEPTION(s.value[f]) /\ ~IS_EXCEPTION(v)
<1> DEFINE late == InQueue(s, f) /\ IS_EXCEPTION(s.value[f]) /\ ~IS_EXCEPTION(v)
<1>1. s.queue \in Seq(Fibers) /\ s.value \in [Fibers -> Int] /\ s.current \in Fibers \cup {NoFiber}
  BY DEF Scheds
<1>2. CASE pc[f] = "dead"
  <2>1. r = s
    BY <1>2, Zenon DEF MakeRunnable
  <2>2. QED
    BY <1>2, <2>1
<1>3. CASE pc[f] # "dead" /\ late
  <2>1. r = s
    BY <1>3, Zenon DEF MakeRunnable
  <2>2. QED
    BY <1>3, <2>1
<1>4. CASE pc[f] # "dead" /\ ~late
  <2> DEFINE d == Deleted(s.queue, f)
  <2>1. r = [s EXCEPT !.queue = Append(d, f), !.value[f] = v]
    BY <1>4, Zenon DEF MakeRunnable, Deleted
  <2>0. /\ d \in Seq(Fibers)
        /\ \A g : g # f => ((\E i \in DOMAIN d : d[i] = g) <=> \E i \in DOMAIN s.queue : s.queue[i] = g)
        /\ (\A i, j \in DOMAIN s.queue : s.queue[i] = s.queue[j] => i = j) =>
              /\ \A i, j \in DOMAIN d : d[i] = d[j] => i = j
              /\ \A i \in DOMAIN d : d[i] # f
    BY <1>1, DeletedType, DeletedKeeps, Zenon
  <2> HIDE DEF d
  <2>2. r = [current |-> s.current, queue |-> Append(d, f), value |-> [s.value EXCEPT ![f] = v]]
    BY <2>1 DEF Scheds
  <2>3. r.queue = Append(d, f) /\ r.current = s.current /\ r.value = [s.value EXCEPT ![f] = v]
    BY <2>2
  <2>4. Append(d, f) \in Seq(Fibers) /\ [s.value EXCEPT ![f] = v] \in [Fibers -> Int]
    BY <1>1, <2>0
  <2>5. r \in Scheds
    BY <2>2, <2>4, <1>1 DEF Scheds
  <2>6. /\ DOMAIN r.queue = 1 .. Len(d) + 1 /\ DOMAIN d = 1 .. Len(d)
        /\ Len(d) \in Nat /\ r.queue[Len(d) + 1] = f
        /\ \A i \in 1 .. Len(d) : r.queue[i] = d[i]
    BY <2>0, <2>3
  <2>7. /\ \A i \in 1 .. Len(d) + 1 : i \in 1 .. Len(d) \/ i = Len(d) + 1
        /\ 1 .. Len(d) \subseteq 1 .. Len(d) + 1 /\ Len(d) + 1 \in 1 .. Len(d) + 1
    BY <2>6
  <2>8. \A g : InQueue(r, g) <=> InQueue(s, g) \/ g = f
    <3>1. \A g : InQueue(r, g) <=> (\E i \in DOMAIN d : d[i] = g) \/ g = f
      BY <2>6, <2>7, Zenon DEF InQueue
    <3>2. QED
      BY <2>0, <3>1, Zenon DEF InQueue
  <2>9. OneTurn(s) => OneTurn(r)
    BY <2>0, <2>6, <2>7 DEF OneTurn
  <2>10. r.value[f] = v /\ \A g \in Fibers : g # f => r.value[g] = s.value[g]
    BY <2>3, <1>1
  <2>11. QED
    BY <2>3, <2>5, <2>8, <2>9, <2>10, <1>4
<1>5. QED
  BY <1>2, <1>3, <1>4

\* From s to r fibers are scheduled, but no exception reaches one that had none.
Wakes(s, r) ==
    /\ r \in Scheds
    /\ OneTurn(s) => OneTurn(r)
    /\ \A g \in Fibers : InQueue(s, g) => InQueue(r, g)
    /\ \A g \in Fibers : s.value[g] # Exc => r.value[g] # Exc
    /\ \A g \in Fibers : (InQueue(s, g) => s.value[g] # Exc) => (InQueue(r, g) => r.value[g] # Exc)

\* Nobody is woken.
LEMMA WakesNobody ==
  ASSUME NEW s \in Scheds
  PROVE  Wakes(s, s)
  BY DEF Wakes

\* Plain wakeups one after the other are plain.
LEMMA WakesThenWakes ==
  ASSUME NEW s, NEW r, NEW u, Wakes(s, r), Wakes(r, u)
  PROVE  Wakes(s, u)
  BY Zenon DEF Wakes

\* Scheduling a fiber with nil or a result.
LEMMA WakesOne ==
  ASSUME NEW s \in Scheds, NEW f \in Fibers, NEW v \in Int, v # Exc
  PROVE  /\ Wakes(s, MakeRunnable(s, f, v))
         /\ MakeRunnable(s, f, v).current = s.current
         /\ pc[f] # "dead" => InQueue(MakeRunnable(s, f, v), f)
<1> DEFINE r == MakeRunnable(s, f, v)
<1>0. r = MakeRunnable(s, f, v)
  OBVIOUS
<1> HIDE DEF r
<1>1. /\ r \in Scheds /\ r.current = s.current
      /\ OneTurn(s) => OneTurn(r)
      /\ \A g \in Fibers : InQueue(r, g) <=> InQueue(s, g) \/ (g = f /\ pc[f] # "dead")
      /\ \A g \in Fibers : g # f => r.value[g] = s.value[g]
      /\ r.value[f] = s.value[f] \/ r.value[f] = v
      /\ pc[f] # "dead" => r.value[f] = v \/ (InQueue(s, f) /\ r.value[f] = s.value[f])
  BY <1>0, MadeRunnable
<1>2. Wakes(s, r)
  <2>1. ASSUME NEW g \in Fibers
        PROVE  /\ s.value[g] # Exc => r.value[g] # Exc
               /\ (InQueue(s, g) => s.value[g] # Exc) => (InQueue(r, g) => r.value[g] # Exc)
    <3>1. CASE g = f
      BY <1>1, <3>1, SMT
    <3>2. CASE g # f
      BY <1>1, <3>2, SMT
    <3>3. QED
      BY <3>1, <3>2
  <2>2. QED
    BY <1>1, <2>1, Zenon DEF Wakes
<1>3. QED
  BY <1>1, <1>2, Zenon DEF r

\* The current fiber gives up control.
LEMMA SwitchesAway ==
  ASSUME NEW s \in Scheds
  PROVE  Wakes(s, Away(s)) /\ Away(s).current = NoFiber
<1>1. /\ Away(s) \in Scheds /\ Away(s).current = NoFiber
      /\ Away(s).queue = s.queue /\ Away(s).value = s.value
  BY DEF Away, Scheds
<1>2. QED
  BY <1>1, Zenon DEF Wakes, OneTurn, InQueue

\* nil is not an exception.
LEMMA PlainValue == Nil \in Int /\ Nil # Exc
  BY DEF Nil, Exc

\* Queue_push resumes the first fiber that waits, if there is one.
LEMMA WakesFirst ==
  ASSUME NEW s \in Scheds, NEW w \in Seq(Fibers)
  PROVE  /\ Wakes(s, WakeFirst(s, w)) /\ WakeFirst(s, w).current = s.current
         /\ AfterFirst(w) \in Seq(Fibers)
<1>1. CASE w = <<>>
  BY <1>1, WakesNobody DEF WakeFirst, AfterFirst
<1>2. CASE w # <<>>
  <2>1. Head(w) \in Fibers /\ Tail(w) \in Seq(Fibers)
    BY <1>2
  <2>2. WakeFirst(s, w) = MakeRunnable(s, Head(w), Nil) /\ AfterFirst(w) = Tail(w)
    BY <1>2, Zenon DEF WakeFirst, AfterFirst
  <2>3. QED
    BY <2>1, <2>2, WakesOne, PlainValue, Zenon
<1>3. QED
  BY <1>1, <1>2

\* Queue_shift_block schedules the fiber itself when there is a value.
LEMMA WaitsForShift ==
  ASSUME NEW s \in Scheds, NEW f \in Fibers, NEW available
  PROVE  Wakes(s, ShiftWaits(s, f, available)) /\ ShiftWaits(s, f, available).current = NoFiber
<1> DEFINE r == IF available THEN MakeRunnable(s, f, Nil) ELSE s
<1>1. Wakes(s, r)
  BY WakesOne, WakesNobody, PlainValue, Zenon
<1>2. r \in Scheds /\ ShiftWaits(s, f, available) = Away(r)
  BY <1>1, Zenon DEF Wakes, ShiftWaits
<1> HIDE DEF r
<1>3. QED
  BY <1>1, <1>2, SwitchesAway, WakesThenWakes, Zenon
-----------------------------------------------------------------------------
\* The state of a mutex, a condition variable and a fiber's section, and what a
\* fiber that uses them can be in.
Mutexes == [store : Int, waiters : Seq(Fibers), holder : Fibers \cup {NoFiber}, count : Int]
Conds == [queue : Seq(Fibers), waiters : Seq(Fibers)]
Sections == [style : Styles \cup {"none"}, depth : Int, raising : BOOLEAN, back : {"free", "in"}]
SyncCalls == {"free", "lock", "in", "snooze", "wait", "reacquire", "signal", "broadcast", "dead"}

\* The types of Sync.  A fiber has one place on the run queue.
SyncTypes ==
    /\ sched \in Scheds /\ OneTurn(sched)
    /\ pc \in [Fibers -> SyncCalls]
    /\ mutex \in Mutexes
    /\ cond \in Conds
    /\ section \in [Fibers -> Sections]

\* unlock puts a token back and forgets the holder.
LEMMA ReleasedFields ==
  ASSUME NEW m \in Mutexes
  PROVE  /\ Released(m) \in Mutexes /\ Released(m).store = m.store + 1
         /\ Released(m).holder = NoFiber /\ Released(m).count = m.count
<1>1. /\ m.store + 1 \in Int /\ m.waiters \in Seq(Fibers) /\ m.count \in Int
      /\ AfterFirst(m.waiters) \in Seq(Fibers)
  BY DEF Mutexes, AfterFirst
<1>2. Released(m) = [store |-> m.store + 1, waiters |-> AfterFirst(m.waiters),
                     holder |-> NoFiber, count |-> m.count]
  <2> DEFINE n == m.store + 1
             w == AfterFirst(m.waiters)
  <2>1. Released(m) = [m EXCEPT !.store = n, !.waiters = w, !.holder = NoFiber]
    BY DEF Released
  <2> HIDE DEF n, w
  <2>2. Released(m) = [store |-> n, waiters |-> w, holder |-> NoFiber, count |-> m.count]
    BY <2>1 DEF Mutexes
  <2>3. QED
    BY <2>2 DEF n, w
<1>3. QED
  BY <1>1, <1>2 DEF Mutexes

\* What a step of the current fiber does to the scheduler.
Runs(f) == Wakes(sched, sched') /\ sched'.current \in {f, NoFiber}

\* The fiber queues up for the token and switches away.
LEMMA ShiftTokenTypes ==
  ASSUME NEW f \in Fibers, NEW s \in Scheds, NEW m \in Mutexes, NEW call \in SyncCalls,
         Wakes(sched, s), SyncTypes, ShiftToken(f, s, m, call)
  PROVE  /\ mutex' \in Mutexes /\ mutex'.store = m.store
         /\ mutex'.holder = m.holder /\ mutex'.count = m.count
         /\ pc' \in [Fibers -> SyncCalls]
         /\ sched' \in Scheds /\ OneTurn(sched') /\ Runs(f) /\ sched'.current = NoFiber
<1>1. /\ mutex' \in Mutexes /\ mutex'.store = m.store
      /\ mutex'.holder = m.holder /\ mutex'.count = m.count
  <2>1. mutex' = [store |-> m.store, waiters |-> Append(m.waiters, f),
                  holder |-> m.holder, count |-> m.count]
    BY DEF ShiftToken, Mutexes
  <2>2. Append(m.waiters, f) \in Seq(Fibers)
    BY DEF Mutexes
  <2>3. QED
    BY <2>1, <2>2 DEF Mutexes
<1>2. pc' \in [Fibers -> SyncCalls]
  BY DEF SyncTypes, ShiftToken
<1>3. Wakes(s, sched') /\ sched'.current = NoFiber
  BY WaitsForShift, Zenon DEF ShiftToken
<1>4. Wakes(sched, sched')
  BY <1>3, WakesThenWakes, Zenon
<1>5. QED
  BY <1>1, <1>2, <1>3, <1>4, Zenon DEF SyncTypes, Runs, Wakes

\* The fields of a section.
LEMMA SectionFields ==
  ASSUME NEW t, NEW f \in Fibers, NEW x, t = [section EXCEPT ![f] = x], x \in Sections,
         section \in [Fibers -> Sections]
  PROVE  /\ t \in [Fibers -> Sections] /\ t[f] = x
         /\ \A g \in Fibers : g # f => t[g] = section[g]
  OBVIOUS

\* What the operations assign to a section.
LEMMA SectionChanges ==
  ASSUME NEW s \in Sections, NEW style \in Styles \cup {"none"}, NEW depth \in Int,
         NEW raising \in BOOLEAN, NEW back \in {"free", "in"}
  PROVE  /\ [s EXCEPT !.style = style, !.depth = depth] \in Sections
         /\ [s EXCEPT !.style = style, !.depth = depth].style = style
         /\ [s EXCEPT !.style = style, !.depth = depth].depth = depth
         /\ [s EXCEPT !.depth = depth] \in Sections
         /\ [s EXCEPT !.depth = depth].style = s.style
         /\ [s EXCEPT !.depth = depth].depth = depth
         /\ [s EXCEPT !.raising = raising] \in Sections
         /\ [s EXCEPT !.raising = raising].style = s.style
         /\ [s EXCEPT !.raising = raising].depth = s.depth
         /\ [s EXCEPT !.raising = raising].back = s.back
         /\ [s EXCEPT !.back = back] \in Sections
         /\ [s EXCEPT !.back = back].style = s.style
         /\ [s EXCEPT !.back = back].depth = s.depth
         /\ [s EXCEPT !.back = back].back = back
<1>1. [s EXCEPT !.style = style, !.depth = depth] \in Sections
  BY DEF Sections
<1>2. [s EXCEPT !.depth = depth] \in Sections
  BY DEF Sections
<1>3. [s EXCEPT !.raising = raising] \in Sections
  BY DEF Sections
<1>4. [s EXCEPT !.back = back] \in Sections
  BY DEF Sections
<1>5. QED
  BY <1>1, <1>2, <1>3, <1>4 DEF Sections

\* A fiber outside of every section.
LEMMA OutsideFields ==
  /\ Outside \in Sections
  /\ "none" \in Styles \cup {"none"} /\ "none" \notin Styles
  /\ 1 \in Int
<1>1. Outside \in Sections
  BY DEF Outside, Sections
<1>2. QED
  BY <1>1, SyncAssumption

\* unlock wakes a fiber that waits for the token with nil.
LEMMA WakesALocker ==
  ASSUME NEW s \in Scheds, NEW m \in Mutexes
  PROVE  Wakes(s, WakesLocker(s, m)) /\ WakesLocker(s, m).current = s.current
<1>1. m.waiters \in Seq(Fibers)
  BY DEF Mutexes
<1>2. QED
  BY <1>1, WakesFirst, Zenon DEF WakesLocker

\* The operations of sync.rb keep the types.  Each lemma also says that the
\* fibers other than the current one are only woken: what is known of a fiber that
\* is switched out stays true of it.
LEMMA AcquireTypes ==
  ASSUME NEW f \in Fibers, NEW style \in Styles, SyncTypes, Acquire(f, style)
  PROVE  /\ SyncTypes' /\ Runs(f)
         /\ \E m \in {mutex, Released(mutex)} :
               /\ m # mutex => HolderIsDead
               /\ mutex'.store = m.store /\ mutex'.holder = m.holder /\ mutex'.count = m.count
         /\ pc' = [pc EXCEPT ![f] = "lock"]
         /\ section' = [section EXCEPT ![f] = [Outside EXCEPT !.style = style, !.depth = 1]]
<1> DEFINE dead == HolderIsDead /\ style \notin {"try", "sync"}
           m == IF dead THEN Released(mutex) ELSE mutex
           s == IF dead THEN WakesLocker(sched, mutex) ELSE sched
<1>1. sched \in Scheds /\ mutex \in Mutexes
  BY DEF SyncTypes
<1>2. m \in {mutex, Released(mutex)} /\ (m # mutex => HolderIsDead)
  OBVIOUS
<1>3. m \in Mutexes
  BY <1>1, ReleasedFields
<1>4. s \in Scheds /\ Wakes(sched, s)
  <2>1. Wakes(sched, s)
    BY <1>1, WakesALocker, WakesNobody, Zenon
  <2>2. QED
    BY <2>1, Zenon DEF Wakes
<1>5. ShiftToken(f, s, m, "lock") /\ cond' = cond
  BY Zenon DEF Acquire
<1>6. section' = [section EXCEPT ![f] = [Outside EXCEPT !.style = style, !.depth = 1]]
  BY Zenon DEF Acquire
<1> HIDE DEF dead, m, s
<1>7. /\ mutex' \in Mutexes /\ mutex'.store = m.store
      /\ mutex'.holder = m.holder /\ mutex'.count = m.count
      /\ pc' \in [Fibers -> SyncCalls]
      /\ sched' \in Scheds /\ OneTurn(sched') /\ Runs(f)
  <2>1. "lock" \in SyncCalls
    BY DEF SyncCalls
  <2>2. QED
    BY <1>3, <1>4, <1>5, <2>1, ShiftTokenTypes
<1>8. section' \in [Fibers -> Sections]
  <2>1. [Outside EXCEPT !.style = style, !.depth = 1] \in Sections
    BY OutsideFields, SectionChanges
  <2>2. QED
    BY <1>6, <2>1 DEF SyncTypes
<1>9. pc' = [pc EXCEPT ![f] = "lock"]
  BY <1>5, Zenon DEF ShiftToken
<1>10. QED
  BY <1>2, <1>5, <1>6, <1>7, <1>8, <1>9, Zenon DEF SyncTypes

LEMMA ReenterTypes ==
  ASSUME NEW f \in Fibers, f = sched.current, SyncTypes, Reenter(f)
  PROVE  SyncTypes' /\ Runs(f)
<1>1. sched' = sched /\ cond' = cond
  BY Zenon DEF Reenter
<1>2. mutex' \in Mutexes
  BY DEF Reenter, SyncTypes, Mutexes
<1>3. pc' \in [Fibers -> SyncCalls]
  BY DEF Reenter, SyncTypes, SyncCalls
<1>4. section' \in [Fibers -> Sections]
  <2>1. section' = [section EXCEPT ![f] = [section[f] EXCEPT !.style = "enter", !.depth = @ + 1]]
    BY DEF Reenter, SyncTypes
  <2>2. section[f] \in Sections /\ section[f].depth + 1 \in Int /\ "enter" \in Styles
    BY DEF SyncTypes, Sections, Reenter
  <2> DEFINE d == section[f].depth + 1
  <2>3. [section[f] EXCEPT !.style = "enter", !.depth = d] \in Sections
    <3> HIDE DEF d
    <3>1. d \in Int
      BY <2>2 DEF d
    <3>2. FALSE \in BOOLEAN /\ "in" \in {"free", "in"}
      OBVIOUS
    <3>3. QED
      BY <2>2, <3>1, <3>2, SectionChanges
  <2>4. QED
    BY <2>1, <2>3, SectionFields DEF SyncTypes
<1>5. Wakes(sched, sched')
  BY <1>1, WakesNobody DEF SyncTypes
<1>6. QED
  BY <1>1, <1>2, <1>3, <1>4, <1>5 DEF SyncTypes, Runs

\* A mutex without one of its waiters.
LEMMA DeletedWaiter ==
  ASSUME NEW m \in Mutexes, NEW f \in Fibers, NEW r, r = [m EXCEPT !.waiters = Deleted(@, f)]
  PROVE  r \in Mutexes /\ r.store = m.store /\ r.holder = m.holder /\ r.count = m.count
<1> DEFINE w == Deleted(m.waiters, f)
<1>1. m.waiters \in Seq(Fibers)
  BY DEF Mutexes
<1>2. w \in Seq(Fibers)
  BY <1>1, DeletedType, Zenon
<1>3. r = [m EXCEPT !.waiters = w]
  OBVIOUS
<1> HIDE DEF w
<1>4. QED
  BY <1>2, <1>3 DEF Mutexes

LEMMA TokenResumeTypes ==
  ASSUME NEW f \in Fibers, f = sched.current, SyncTypes, TokenResume(f)
  PROVE  /\ SyncTypes' /\ Runs(f)
         /\ \/ /\ sched.value[f] = Exc
               /\ mutex'.store = mutex.store + (IF pc[f] = "reacquire" /\ ReleasedAfterFailure(f) THEN 1 ELSE 0)
               /\ mutex'.holder = IF pc[f] = "reacquire" /\ ReleasedAfterFailure(f) THEN NoFiber ELSE mutex.holder
               /\ mutex'.count = mutex.count
               /\ pc' = [pc EXCEPT ![f] = "free"]
               /\ section' = [section EXCEPT ![f] = Outside]
            \/ /\ mutex.store > 0 /\ mutex'.store = mutex.store - 1 /\ mutex'.holder = f
               /\ mutex'.count = IF pc[f] = "lock" /\ section[f].style \in Monitors THEN 1 ELSE mutex.count
               /\ pc' = [pc EXCEPT ![f] = "in"] /\ section' = section
            \/ /\ mutex'.store = mutex.store /\ mutex'.holder = mutex.holder
               /\ mutex'.count = mutex.count /\ sched'.current = NoFiber
               /\ pc' = pc /\ section' = section
<1> DEFINE m == [mutex EXCEPT !.waiters = Deleted(@, f)]
           round == ShiftRound(f, mutex.store > 0)
           fails == pc[f] = "reacquire" /\ ReleasedAfterFailure(f)
<1>1. m \in Mutexes /\ m.store = mutex.store /\ m.holder = mutex.holder /\ m.count = mutex.count
  BY DeletedWaiter DEF SyncTypes
<1>2. /\ sched \in Scheds /\ OneTurn(sched) /\ pc \in [Fibers -> SyncCalls]
      /\ section \in [Fibers -> Sections] /\ cond \in Conds /\ mutex.store \in Int
      /\ cond' = cond /\ pc[f] \in SyncCalls
  BY DEF SyncTypes, TokenResume, Mutexes
<1>3. CASE /\ round = "raise"
           /\ mutex' = IF fails THEN Released(m) ELSE m
           /\ sched' = IF fails THEN WakesLocker(sched, m) ELSE sched
           /\ pc' = [pc EXCEPT ![f] = "free"]
           /\ section' = [section EXCEPT ![f] = Outside]
  <2>1. sched.value[f] = Exc
    BY <1>3 DEF ShiftRound
  <2> HIDE DEF m
  <2>2. Wakes(sched, sched') /\ sched'.current = f
    BY <1>1, <1>2, <1>3, WakesALocker, WakesNobody, Zenon
  <2>3. /\ mutex' \in Mutexes /\ mutex'.count = mutex.count
        /\ mutex'.store = mutex.store + (IF fails THEN 1 ELSE 0)
        /\ mutex'.holder = IF fails THEN NoFiber ELSE mutex.holder
    <3>1. CASE fails
      BY <1>1, <1>3, <3>1, ReleasedFields
    <3>2. CASE ~fails
      <4>1. mutex' = m
        BY <1>3, <3>2, Zenon
      <4> HIDE DEF fails
      <4>2. QED
        BY <1>1, <1>2, <4>1, <3>2
    <3>3. QED
      BY <3>1, <3>2
  <2>4. pc' \in [Fibers -> SyncCalls]
    BY <1>2, <1>3 DEF SyncCalls
  <2>5. section' \in [Fibers -> Sections]
    BY <1>2, <1>3, OutsideFields
  <2>6. SyncTypes' /\ Runs(f)
    BY <1>2, <2>2, <2>3, <2>4, <2>5, Zenon DEF SyncTypes, Runs, Wakes
  <2>7. QED
    BY <1>3, <2>1, <2>3, <2>6, Zenon
<1>4. CASE /\ round = "take"
           /\ mutex' = [m EXCEPT !.store = @ - 1, !.holder = f,
                           !.count = IF pc[f] = "lock" /\ section[f].style \in Monitors THEN 1 ELSE @]
           /\ pc' = [pc EXCEPT ![f] = "in"]
           /\ UNCHANGED <<sched, section>>
  <2>1. mutex.store > 0
    BY <1>4 DEF ShiftRound
  <2> DEFINE c == IF pc[f] = "lock" /\ section[f].style \in Monitors THEN 1 ELSE m.count
             n == m.store - 1
  <2>2. mutex' = [m EXCEPT !.store = n, !.holder = f, !.count = c]
    BY <1>4
  <2>3. c \in Int /\ n \in Int
    BY <1>1 DEF Mutexes
  <2> HIDE DEF m, c, n
  <2>4. mutex' \in Mutexes /\ mutex'.store = n /\ mutex'.holder = f /\ mutex'.count = c
    BY <1>1, <2>2, <2>3 DEF Mutexes
  <2>5. pc' \in [Fibers -> SyncCalls]
    BY <1>2, <1>4 DEF SyncCalls
  <2>6. Wakes(sched, sched')
    BY <1>2, <1>4, WakesNobody
  <2>7. SyncTypes' /\ Runs(f)
    BY <1>2, <1>4, <2>4, <2>5, <2>6 DEF SyncTypes, Runs
  <2>8. mutex'.count = IF pc[f] = "lock" /\ section[f].style \in Monitors THEN 1 ELSE mutex.count
    BY <1>1, <2>4 DEF c
  <2>9. mutex'.store = mutex.store - 1
    BY <1>1, <2>4 DEF n
  <2>10. QED
    BY <1>1, <1>4, <2>1, <2>4, <2>7, <2>8, <2>9
<1>5. CASE round = "again" /\ ShiftToken(f, sched, m, pc[f]) /\ UNCHANGED section
  <2>2. pc' = pc
    BY <1>2, <1>5 DEF ShiftToken
  <2> HIDE DEF m
  <2>3. /\ mutex' \in Mutexes /\ mutex'.store = m.store
        /\ mutex'.holder = m.holder /\ mutex'.count = m.count
        /\ sched' \in Scheds /\ OneTurn(sched') /\ Runs(f) /\ sched'.current = NoFiber
    BY <1>1, <1>2, <1>5, ShiftTokenTypes, WakesNobody, Zenon
  <2>4. QED
    BY <1>1, <1>2, <1>5, <2>2, <2>3, Zenon DEF SyncTypes
<1>6. \/ /\ round = "raise"
         /\ mutex' = IF fails THEN Released(m) ELSE m
         /\ sched' = IF fails THEN WakesLocker(sched, m) ELSE sched
         /\ pc' = [pc EXCEPT ![f] = "free"]
         /\ section' = [section EXCEPT ![f] = Outside]
      \/ /\ round = "take"
         /\ mutex' = [m EXCEPT !.store = @ - 1, !.holder = f,
                         !.count = IF pc[f] = "lock" /\ section[f].style \in Monitors THEN 1 ELSE @]
         /\ pc' = [pc EXCEPT ![f] = "in"]
         /\ UNCHANGED <<sched, section>>
      \/ round = "again" /\ ShiftToken(f, sched, m, pc[f]) /\ UNCHANGED section
  BY Zenon DEF TokenResume
<1> HIDE DEF m, round, fails
<1>7. QED
  BY <1>3, <1>4, <1>5, <1>6, Zenon

LEMMA LeaveTypes ==
  ASSUME NEW f \in Fibers, f = sched.current, SyncTypes, Leave(f)
  PROVE  /\ SyncTypes' /\ Runs(f)
         /\ mutex'.count = mutex.count - (IF section[f].style \in Monitors THEN 1 ELSE 0)
         /\ IF section[f].style \notin Monitors \/ mutex.count = 1
            THEN mutex'.store = mutex.store + 1 /\ mutex'.holder = NoFiber
            ELSE mutex'.store = mutex.store /\ mutex'.holder = mutex.holder
         /\ section[f].depth = 1 => section'[f] = Outside
         /\ section[f].depth # 1 => /\ section'[f].style = section[f].style
                                    /\ section'[f].depth = section[f].depth - 1
         /\ \A g \in Fibers : g # f => section'[g] = section[g]
<1> DEFINE monitor == section[f].style \in Monitors
           releases == ~monitor \/ mutex.count = 1
           m == IF monitor THEN [mutex EXCEPT !.count = @ - 1] ELSE mutex
<1>1. /\ sched \in Scheds /\ OneTurn(sched) /\ pc \in [Fibers -> SyncCalls] /\ mutex \in Mutexes
      /\ section \in [Fibers -> Sections] /\ cond \in Conds /\ mutex.store \in Int
      /\ cond' = cond /\ mutex.count \in Int /\ section[f] \in Sections
      /\ section[f].depth \in Int /\ section[f].depth - 1 \in Int
  BY DEF SyncTypes, Leave, Mutexes, Sections
<1>2. m \in Mutexes /\ m.store = mutex.store /\ m.holder = mutex.holder
      /\ m.count = mutex.count - (IF monitor THEN 1 ELSE 0)
  <2>1. CASE monitor
    <3> DEFINE c == mutex.count - 1
    <3>1. m = [mutex EXCEPT !.count = c] /\ c \in Int
      BY <1>1, <2>1
    <3> HIDE DEF c
    <3>2. m \in Mutexes /\ m.store = mutex.store /\ m.holder = mutex.holder /\ m.count = c
      BY <1>1, <3>1 DEF Mutexes
    <3>3. QED
      BY <2>1, <3>2 DEF c
  <2>2. CASE ~monitor
    BY <1>1, <2>2
  <2>3. QED
    BY <2>1, <2>2
<1>3. /\ mutex' = IF releases THEN Released(m) ELSE m
      /\ sched' = IF releases THEN WakesLocker(sched, m) ELSE sched
  BY Zenon DEF Leave
<1>4. IF section[f].depth = 1
      THEN pc' = [pc EXCEPT ![f] = "free"] /\ section' = [section EXCEPT ![f] = Outside]
      ELSE section' = [section EXCEPT ![f].depth = @ - 1] /\ UNCHANGED pc
  BY Zenon DEF Leave
<1>5. /\ section' \in [Fibers -> Sections]
      /\ section[f].depth = 1 => section'[f] = Outside
      /\ section[f].depth # 1 => /\ section'[f].style = section[f].style
                                 /\ section'[f].depth = section[f].depth - 1
      /\ \A g \in Fibers : g # f => section'[g] = section[g]
  <2>1. CASE section[f].depth = 1
    BY <1>1, <1>4, <2>1, OutsideFields
  <2>2. CASE section[f].depth # 1
    <3> DEFINE d == section[f].depth - 1
               x == [section[f] EXCEPT !.depth = d]
    <3>1. section' = [section EXCEPT ![f] = x] /\ d \in Int
      BY <1>1, <1>4, <2>2
    <3> HIDE DEF d
    <3>2. x \in Sections /\ x.style = section[f].style /\ x.depth = d
      BY <1>1, <3>1 DEF Sections
    <3> HIDE DEF x
    <3>3. QED
      BY <1>1, <2>2, <3>1, <3>2 DEF d
  <2>3. QED
    BY <2>1, <2>2
<1>6. pc' \in [Fibers -> SyncCalls]
  BY <1>1, <1>4 DEF SyncCalls
<1> HIDE DEF m
<1>7. Wakes(sched, sched') /\ sched'.current = f
  BY <1>1, <1>2, <1>3, WakesALocker, WakesNobody, Zenon
<1>8. /\ mutex' \in Mutexes /\ mutex'.count = m.count
      /\ releases => mutex'.store = m.store + 1 /\ mutex'.holder = NoFiber
      /\ ~releases => mutex'.store = m.store /\ mutex'.holder = m.holder
  <2>1. CASE releases
    <3>1. mutex' = Released(m)
      BY <1>3, <2>1, Zenon
    <3>2. QED
      BY <1>2, <2>1, <3>1, ReleasedFields, Zenon
  <2>2. CASE ~releases
    <3>1. mutex' = m
      BY <1>3, <2>2, Zenon
    <3>2. QED
      BY <1>2, <2>2, <3>1, Zenon
  <2>3. QED
    BY <2>1, <2>2
<1>9. SyncTypes' /\ Runs(f)
  BY <1>1, <1>5, <1>6, <1>7, <1>8, Zenon DEF SyncTypes, Runs, Wakes
<1>10. QED
  BY <1>2, <1>5, <1>8, <1>9

LEMMA PassTypes ==
  ASSUME NEW f \in Fibers, f = sched.current, SyncTypes,
         Die(f) \/ Snooze(f) \/ SnoozeResume(f)
  PROVE  /\ SyncTypes' /\ Runs(f) /\ mutex' = mutex
         /\ \A g \in Fibers : /\ section'[g].style = section[g].style
                              /\ section'[g].depth = section[g].depth
                              /\ section'[g].back = section[g].back
<1>1. /\ sched \in Scheds /\ OneTurn(sched) /\ pc \in [Fibers -> SyncCalls] /\ mutex \in Mutexes
      /\ section \in [Fibers -> Sections] /\ cond \in Conds /\ section[f] \in Sections
  BY DEF SyncTypes
<1>2. mutex' = mutex /\ cond' = cond
  BY Zenon DEF Die, Snooze, SnoozeResume
<1>3. pc' \in [Fibers -> SyncCalls]
  BY <1>1 DEF Die, Snooze, SnoozeResume, SyncCalls
<1>4. Wakes(sched, sched') /\ sched'.current \in {f, NoFiber}
  <2>1. CASE Die(f)
    BY <1>1, <2>1, SwitchesAway, Zenon DEF Die
  <2>2. CASE Snooze(f)
    <3>1. sched' = Away(MakeRunnable(sched, f, Nil))
      BY <2>2, Zenon DEF Snooze
    <3>2. Wakes(sched, MakeRunnable(sched, f, Nil)) /\ MakeRunnable(sched, f, Nil) \in Scheds
      BY <1>1, WakesOne, PlainValue, Zenon DEF Wakes
    <3>3. QED
      BY <3>1, <3>2, SwitchesAway, WakesThenWakes, Zenon
  <2>3. CASE SnoozeResume(f)
    BY <1>1, <2>3, WakesNobody DEF SnoozeResume
  <2>4. QED
    BY <2>1, <2>2, <2>3
<1>5. /\ section' \in [Fibers -> Sections]
      /\ \A g \in Fibers : /\ section'[g].style = section[g].style
                           /\ section'[g].depth = section[g].depth
                           /\ section'[g].back = section[g].back
  <2>1. CASE Die(f) \/ Snooze(f)
    BY <1>1, <2>1 DEF Die, Snooze
  <2>2. CASE SnoozeResume(f)
    <3> DEFINE r == sched.value[f] = Exc
               x == [section[f] EXCEPT !.raising = r]
    <3>1. section' = [section EXCEPT ![f] = x] /\ r \in BOOLEAN
      BY <1>1, <2>2 DEF SnoozeResume
    <3> HIDE DEF r
    <3>2. /\ x \in Sections /\ x.style = section[f].style
          /\ x.depth = section[f].depth /\ x.back = section[f].back
      BY <1>1, <3>1 DEF Sections
    <3> HIDE DEF x
    <3>3. QED
      BY <1>1, <2>2, <3>1, <3>2
  <2>3. QED
    BY <2>1, <2>2
<1>6. QED
  BY <1>1, <1>2, <1>3, <1>4, <1>5, Zenon DEF SyncTypes, Runs, Wakes

LEMMA WaitTypes ==
  ASSUME NEW f \in Fibers, f = sched.current, SyncTypes, Wait(f)
  PROVE  /\ SyncTypes' /\ Runs(f)
         /\ mutex'.store = mutex.store + 1 /\ mutex'.holder = NoFiber /\ mutex'.count = mutex.count
         /\ \E i \in DOMAIN cond'.queue : cond'.queue[i] = f
         /\ \A g : (\E i \in DOMAIN cond.queue : cond.queue[i] = g)
                     => \E i \in DOMAIN cond'.queue : cond'.queue[i] = g
<1>1. /\ sched \in Scheds /\ OneTurn(sched) /\ pc \in [Fibers -> SyncCalls] /\ mutex \in Mutexes
      /\ section \in [Fibers -> Sections] /\ cond \in Conds /\ section' = section
      /\ cond.queue \in Seq(Fibers) /\ cond.waiters \in Seq(Fibers)
  BY DEF SyncTypes, Wait, Conds
<1>2. /\ mutex' \in Mutexes /\ mutex'.store = mutex.store + 1
      /\ mutex'.holder = NoFiber /\ mutex'.count = mutex.count
  BY <1>1, ReleasedFields, Zenon DEF Wait
<1>3. /\ cond' \in Conds /\ cond'.queue = Append(cond.queue, f)
  <2>1. AfterFirst(cond.waiters) \in Seq(Fibers) /\ Append(cond.queue, f) \in Seq(Fibers)
    BY <1>1 DEF AfterFirst
  <2>2. cond' = [queue |-> Append(cond.queue, f), waiters |-> AfterFirst(cond.waiters)]
    BY Zenon DEF Wait
  <2>3. QED
    BY <2>1, <2>2 DEF Conds
<1>4. Wakes(sched, sched') /\ sched'.current = NoFiber
  <2> DEFINE s == WakesLocker(sched, mutex)
             r == WakeFirst(s, cond.waiters)
  <2>1. Wakes(sched, s) /\ s \in Scheds
    BY <1>1, WakesALocker, Zenon DEF Wakes
  <2>2. sched' = Away(r)
    BY Zenon DEF Wait
  <2> HIDE DEF s
  <2>3. Wakes(s, r) /\ r \in Scheds
    BY <1>1, <2>1, WakesFirst, Zenon DEF Wakes
  <2> HIDE DEF r
  <2>4. QED
    BY <2>1, <2>2, <2>3, SwitchesAway, WakesThenWakes, Zenon
<1>5. pc' \in [Fibers -> SyncCalls]
  BY <1>1 DEF Wait, SyncCalls
<1>6. /\ DOMAIN cond.queue \subseteq DOMAIN cond'.queue
      /\ \A i \in DOMAIN cond.queue : cond'.queue[i] = cond.queue[i]
      /\ Len(cond.queue) + 1 \in DOMAIN cond'.queue /\ cond'.queue[Len(cond.queue) + 1] = f
  BY <1>1, <1>3
<1>7. SyncTypes' /\ Runs(f)
  BY <1>1, <1>2, <1>3, <1>4, <1>5, Zenon DEF SyncTypes, Runs, Wakes
<1>8. QED
  BY <1>2, <1>6, <1>7, Zenon

LEMMA WaitResumeTypes ==
  ASSUME NEW f \in Fibers, f = sched.current, SyncTypes, WaitResume(f)
  PROVE  /\ SyncTypes' /\ Runs(f)
         /\ mutex'.store = mutex.store /\ mutex'.holder = mutex.holder /\ mutex'.count = mutex.count
         /\ pc' = [pc EXCEPT ![f] = "reacquire"] /\ sched'.current = NoFiber
         /\ \A g \in Fibers : /\ section'[g].style = section[g].style
                              /\ section'[g].depth = section[g].depth
                              /\ section'[g].back = section[g].back
<1>1. /\ sched \in Scheds /\ OneTurn(sched) /\ mutex \in Mutexes
      /\ section \in [Fibers -> Sections] /\ cond \in Conds /\ cond' = cond /\ section[f] \in Sections
  BY DEF SyncTypes, WaitResume
<1>2. ShiftToken(f, sched, mutex, "reacquire")
  BY Zenon DEF WaitResume
<1>3. "reacquire" \in SyncCalls
  BY DEF SyncCalls
<1>4. /\ mutex' \in Mutexes /\ mutex'.store = mutex.store
      /\ mutex'.holder = mutex.holder /\ mutex'.count = mutex.count
      /\ pc' \in [Fibers -> SyncCalls]
      /\ sched' \in Scheds /\ OneTurn(sched') /\ Runs(f) /\ sched'.current = NoFiber
  BY <1>1, <1>2, <1>3, ShiftTokenTypes, WakesNobody, Zenon
<1>5. pc' = [pc EXCEPT ![f] = "reacquire"]
  BY <1>2, Zenon DEF ShiftToken
<1>6. PICK r \in BOOLEAN : section' = [section EXCEPT ![f].raising = r]
  BY Zenon DEF WaitResume
<1>7. /\ section' \in [Fibers -> Sections]
      /\ \A g \in Fibers : /\ section'[g].style = section[g].style
                           /\ section'[g].depth = section[g].depth
                           /\ section'[g].back = section[g].back
  <2> DEFINE x == [section[f] EXCEPT !.raising = r]
  <2>1. section' = [section EXCEPT ![f] = x]
    BY <1>6
  <2>2. /\ x \in Sections /\ x.style = section[f].style
        /\ x.depth = section[f].depth /\ x.back = section[f].back
    BY <1>1 DEF Sections
  <2> HIDE DEF x
  <2>3. QED
    BY <1>1, <2>1, <2>2
<1>8. QED
  BY <1>1, <1>4, <1>5, <1>7, Zenon DEF SyncTypes

LEMMA ShiftCondTypes ==
  ASSUME NEW f \in Fibers, NEW s \in Scheds, NEW c \in Conds, NEW r, NEW d,
         r = ShiftWaits(s, f, c.queue # <<>>), d = [c EXCEPT !.waiters = Append(@, f)]
  PROVE  /\ Wakes(s, r) /\ r.current = NoFiber /\ r \in Scheds
         /\ d \in Conds /\ d.queue = c.queue
<1>1. Wakes(s, r) /\ r.current = NoFiber /\ r \in Scheds
  BY WaitsForShift, Zenon DEF Wakes
<1>2. Append(c.waiters, f) \in Seq(Fibers)
  BY DEF Conds
<1>3. d \in Conds /\ d.queue = c.queue
  BY <1>2 DEF Conds
<1>4. QED
  BY <1>1, <1>3

LEMMA NotifyTypes ==
  ASSUME NEW f \in Fibers, NEW call \in {"signal", "broadcast"},
         f = sched.current, SyncTypes, Notify(f, call)
  PROVE  /\ SyncTypes' /\ Runs(f) /\ mutex' = mutex /\ cond'.queue = cond.queue
         /\ pc' = [pc EXCEPT ![f] = call]
         /\ section'[f].back = pc[f]
         /\ \A g \in Fibers : /\ section'[g].style = section[g].style
                              /\ section'[g].depth = section[g].depth
                              /\ g # f => section'[g].back = section[g].back
<1>1. /\ sched \in Scheds /\ OneTurn(sched) /\ mutex \in Mutexes /\ mutex' = mutex
      /\ section \in [Fibers -> Sections] /\ cond \in Conds /\ section[f] \in Sections
      /\ pc \in [Fibers -> SyncCalls] /\ pc[f] \in {"free", "in"}
  BY DEF SyncTypes, Notify
<1>2. Wakes(sched, sched') /\ sched'.current = NoFiber /\ sched' \in Scheds
      /\ cond' \in Conds /\ cond'.queue = cond.queue
  <2>1. /\ sched' = ShiftWaits(sched, f, cond.queue # <<>>)
        /\ cond' = [cond EXCEPT !.waiters = Append(@, f)]
    BY Zenon DEF Notify, ShiftCond
  <2>2. QED
    BY <1>1, <2>1, ShiftCondTypes
<1>3. pc' = [pc EXCEPT ![f] = call] /\ pc' \in [Fibers -> SyncCalls]
  BY <1>1 DEF Notify, ShiftCond, SyncCalls
<1>4. /\ section' \in [Fibers -> Sections] /\ section'[f].back = pc[f]
      /\ \A g \in Fibers : /\ section'[g].style = section[g].style
                           /\ section'[g].depth = section[g].depth
                           /\ g # f => section'[g].back = section[g].back
  <2> DEFINE b == pc[f]
             x == [section[f] EXCEPT !.back = b]
  <2>1. section' = [section EXCEPT ![f] = x] /\ b \in {"free", "in"}
    BY <1>1 DEF Notify
  <2>2. b = pc[f]
    OBVIOUS
  <2> HIDE DEF b
  <2>3. /\ x \in Sections /\ x.style = section[f].style
        /\ x.depth = section[f].depth /\ x.back = b
    BY <1>1, <2>1 DEF Sections
  <2> HIDE DEF x
  <2>4. QED
    BY <1>1, <2>1, <2>2, <2>3
<1>5. QED
  BY <1>1, <1>2, <1>3, <1>4, Zenon DEF SyncTypes, Runs, Wakes

LEMMA NotifyResumeTypes ==
  ASSUME NEW f \in Fibers, f = sched.current, SyncTypes, NotifyResume(f)
  PROVE  /\ SyncTypes' /\ Runs(f) /\ mutex' = mutex
         /\ pc' = pc \/ pc' = [pc EXCEPT ![f] = section[f].back]
         /\ \A g \in Fibers : /\ section'[g].style = section[g].style
                              /\ section'[g].depth = section[g].depth
                              /\ section'[g].back = section[g].back
         /\ \A g \in Fibers : (\E i \in DOMAIN cond.queue : cond.queue[i] = g)
              => \/ \E i \in DOMAIN cond'.queue : cond'.queue[i] = g
                 \/ pc[g] = "dead" \/ InQueue(sched', g)
<1> DEFINE c == [cond EXCEPT !.waiters = Deleted(@, f)]
           round == ShiftRound(f, cond.queue # <<>>)
           taken == [c EXCEPT !.queue = Tail(@)]
           s == MakeRunnable(sched, Head(cond.queue), Nil)
<1>1. /\ sched \in Scheds /\ OneTurn(sched) /\ mutex \in Mutexes /\ mutex' = mutex
      /\ section \in [Fibers -> Sections] /\ cond \in Conds /\ section[f] \in Sections
      /\ pc \in [Fibers -> SyncCalls] /\ section[f].back \in {"free", "in"}
      /\ cond.queue \in Seq(Fibers) /\ cond.waiters \in Seq(Fibers)
  BY DEF SyncTypes, NotifyResume, Sections, Conds
<1>2. c \in Conds /\ c.queue = cond.queue
  <2> DEFINE w == Deleted(cond.waiters, f)
  <2>1. w \in Seq(Fibers) /\ c = [cond EXCEPT !.waiters = w]
    BY <1>1, DeletedType, Zenon
  <2> HIDE DEF w
  <2>2. QED
    BY <1>1, <2>1 DEF Conds
<1>3. ASSUME cond.queue # <<>>
      PROVE  /\ taken \in Conds /\ taken.queue = Tail(cond.queue)
             /\ Wakes(sched, s) /\ s \in Scheds /\ s.current = f
             /\ \A g \in Fibers : (\E i \in DOMAIN cond.queue : cond.queue[i] = g)
                  => \/ \E i \in DOMAIN taken.queue : taken.queue[i] = g
                     \/ pc[g] = "dead" \/ InQueue(s, g)
  <2> HIDE DEF c
  <2>1. /\ Head(cond.queue) \in Fibers /\ Tail(cond.queue) \in Seq(Fibers)
        /\ Len(cond.queue) \in Nat /\ DOMAIN cond.queue = 1 .. Len(cond.queue)
        /\ DOMAIN Tail(cond.queue) = 1 .. Len(cond.queue) - 1
        /\ \A i \in 1 .. Len(cond.queue) - 1 : Tail(cond.queue)[i] = cond.queue[i + 1]
        /\ Head(cond.queue) = cond.queue[1]
    BY <1>1, <1>3
  <2>2. taken \in Conds /\ taken.queue = Tail(cond.queue)
    BY <1>2, <2>1 DEF Conds
  <2>3. /\ Wakes(sched, s) /\ s.current = f
        /\ pc[Head(cond.queue)] # "dead" => InQueue(s, Head(cond.queue))
    BY <1>1, <2>1, WakesOne, PlainValue, Zenon
  <2> HIDE DEF taken, s
  <2>4. ASSUME NEW g \in Fibers, NEW i \in DOMAIN cond.queue, cond.queue[i] = g, g # Head(cond.queue)
        PROVE  \E j \in DOMAIN taken.queue : taken.queue[j] = g
    <3>1. i - 1 \in 1 .. Len(cond.queue) - 1 /\ Tail(cond.queue)[i - 1] = g
      BY <2>1, <2>4
    <3>2. QED
      BY <2>1, <2>2, <3>1, Zenon
  <2>5. QED
    BY <2>2, <2>3, <2>4, Zenon DEF Wakes
<1>4. CASE /\ round = "raise"
           /\ cond' = c /\ UNCHANGED sched
           /\ pc' = [pc EXCEPT ![f] = section[f].back]
           /\ section' = [section EXCEPT ![f].raising = section[f].back = "in"]
  <2> DEFINE b == section[f].back = "in"
             x == [section[f] EXCEPT !.raising = b]
  <2>1. section' = [section EXCEPT ![f] = x] /\ b \in BOOLEAN
    BY <1>1, <1>4
  <2> HIDE DEF b, c, taken, s
  <2>2. /\ x \in Sections /\ x.style = section[f].style
        /\ x.depth = section[f].depth /\ x.back = section[f].back
    BY <1>1, <2>1 DEF Sections
  <2> HIDE DEF x
  <2>3. /\ section' \in [Fibers -> Sections]
        /\ \A g \in Fibers : /\ section'[g].style = section[g].style
                             /\ section'[g].depth = section[g].depth
                             /\ section'[g].back = section[g].back
    BY <1>1, <2>1, <2>2
  <2>4. Wakes(sched, sched') /\ sched'.current = f
    BY <1>1, <1>4, WakesNobody
  <2>5. pc' \in [Fibers -> SyncCalls]
    BY <1>1, <1>4 DEF SyncCalls
  <2>6. QED
    BY <1>1, <1>2, <1>4, <2>3, <2>4, <2>5, Zenon DEF SyncTypes, Runs, Wakes
<1>5. CASE /\ round = "take" /\ pc[f] = "signal"
           /\ cond' = taken /\ sched' = s
           /\ pc' = [pc EXCEPT ![f] = section[f].back]
           /\ UNCHANGED section
  <2>1. cond.queue # <<>>
    BY <1>5 DEF ShiftRound
  <2>2. pc' \in [Fibers -> SyncCalls]
    BY <1>1, <1>5 DEF SyncCalls
  <2> HIDE DEF c, taken, s
  <2>3. QED
    BY <1>1, <1>3, <1>5, <2>1, <2>2, Zenon DEF SyncTypes, Runs, Wakes
<1>6. CASE /\ round = "take" /\ pc[f] = "broadcast"
           /\ cond' = [taken EXCEPT !.waiters = Append(@, f)]
           /\ sched' = ShiftWaits(s, f, taken.queue # <<>>)
           /\ UNCHANGED <<pc, section>>
  <2>1. cond.queue # <<>>
    BY <1>6 DEF ShiftRound
  <2> HIDE DEF c, taken, s
  <2>2. /\ Wakes(s, sched') /\ sched'.current = NoFiber /\ sched' \in Scheds
        /\ cond' \in Conds /\ cond'.queue = taken.queue
    BY <1>3, <1>6, <2>1, ShiftCondTypes
  <2>3. Wakes(sched, sched')
    BY <1>3, <2>1, <2>2, WakesThenWakes, Zenon
  <2>4. \A g \in Fibers : InQueue(s, g) => InQueue(sched', g)
    BY <2>2, Zenon DEF Wakes
  <2>5. pc' = pc /\ section' = section
    BY <1>6
  <2>6. SyncTypes' /\ Runs(f)
    BY <1>1, <2>2, <2>3, <2>5 DEF SyncTypes, Runs, Wakes
  <2>7. QED
    BY <1>1, <1>3, <2>1, <2>2, <2>4, <2>5, <2>6, Zenon
<1>7. CASE round = "again" /\ ShiftCond(f, c, pc[f]) /\ UNCHANGED section
  <2>1. pc' = pc
    BY <1>1, <1>7 DEF ShiftCond
  <2> HIDE DEF c, taken, s
  <2>2. /\ Wakes(sched, sched') /\ sched'.current = NoFiber /\ sched' \in Scheds
        /\ cond' \in Conds /\ cond'.queue = c.queue
    <3>1. /\ sched' = ShiftWaits(sched, f, c.queue # <<>>)
          /\ cond' = [c EXCEPT !.waiters = Append(@, f)]
      BY <1>7, Zenon DEF ShiftCond
    <3>2. sched \in Scheds /\ c \in Conds
      BY <1>1, <1>2
    <3>3. QED
      BY <3>1, <3>2, ShiftCondTypes
  <2>3. QED
    BY <1>1, <1>2, <1>7, <2>1, <2>2, Zenon DEF SyncTypes, Runs, Wakes
<1>8. \/ /\ round = "raise"
         /\ cond' = c /\ UNCHANGED sched
         /\ pc' = [pc EXCEPT ![f] = section[f].back]
         /\ section' = [section EXCEPT ![f].raising = section[f].back = "in"]
      \/ /\ round = "take" /\ pc[f] = "signal"
         /\ cond' = taken /\ sched' = s
         /\ pc' = [pc EXCEPT ![f] = section[f].back]
         /\ UNCHANGED section
      \/ /\ round = "take" /\ pc[f] = "broadcast"
         /\ cond' = [taken EXCEPT !.waiters = Append(@, f)]
         /\ sched' = ShiftWaits(s, f, taken.queue # <<>>)
         /\ UNCHANGED <<pc, section>>
      \/ round = "again" /\ ShiftCond(f, c, pc[f]) /\ UNCHANGED section
  BY Zenon DEF NotifyResume
<1> HIDE DEF c, round, taken, s
<1>9. QED
  BY <1>4, <1>5, <1>6, <1>7, <1>8, Zenon

\* The switch takes the first fiber off the run queue, and no other one.
LEMMA SwitchTypes ==
  ASSUME sched \in Scheds, OneTurn(sched), SwitchFiber
  PROVE  /\ sched' \in Scheds /\ OneTurn(sched') /\ pc' = pc
         /\ sched'.value = sched.value
         /\ sched'.current \in Fibers /\ ~InQueue(sched', sched'.current)
         /\ \A g \in Fibers : InQueue(sched, g) <=> InQueue(sched', g) \/ sched'.current = g
<1>1. /\ sched \in Scheds /\ OneTurn(sched) /\ sched.queue \in Seq(Fibers) /\ sched.queue # <<>>
      /\ pc' = pc
  BY DEF SwitchFiber, Scheds
<1>2. /\ Head(sched.queue) \in Fibers /\ Tail(sched.queue) \in Seq(Fibers)
      /\ Len(sched.queue) \in Nat /\ DOMAIN sched.queue = 1 .. Len(sched.queue)
      /\ Len(sched.queue) > 0
      /\ DOMAIN Tail(sched.queue) = 1 .. Len(sched.queue) - 1
      /\ \A i \in 1 .. Len(sched.queue) - 1 : Tail(sched.queue)[i] = sched.queue[i + 1]
      /\ Head(sched.queue) = sched.queue[1]
  BY <1>1
<1> DEFINE h == Head(sched.queue)
           t == Tail(sched.queue)
<1>3. sched' = [sched EXCEPT !.current = h, !.queue = t]
  BY DEF SwitchFiber
<1> HIDE DEF h, t
<1>4. h \in Fibers /\ t \in Seq(Fibers)
  BY <1>2 DEF h, t
<1>5. /\ sched' \in Scheds /\ sched'.current = h /\ sched'.queue = t /\ sched'.value = sched.value
  BY <1>1, <1>3, <1>4 DEF Scheds
<1>6. OneTurn(sched')
  <2> SUFFICES ASSUME NEW i \in DOMAIN t, NEW j \in DOMAIN t, t[i] = t[j]
               PROVE  i = j
    BY <1>5 DEF OneTurn
  <2>1. /\ i + 1 \in DOMAIN sched.queue /\ j + 1 \in DOMAIN sched.queue
        /\ sched.queue[i + 1] = sched.queue[j + 1] /\ i \in Nat /\ j \in Nat
    BY <1>2 DEF t
  <2>2. i + 1 = j + 1
    BY <1>1, <2>1 DEF OneTurn
  <2>3. QED
    BY <2>1, <2>2
<1>7. ~InQueue(sched', h)
  BY <1>1, <1>2, <1>5 DEF OneTurn, InQueue, h, t
<1>8. \A g \in Fibers : InQueue(sched, g) => InQueue(sched', g) \/ g = h
  <2> SUFFICES ASSUME NEW g \in Fibers, NEW i \in DOMAIN sched.queue, sched.queue[i] = g, g # h
               PROVE  InQueue(sched', g)
    BY DEF InQueue
  <2>1. i - 1 \in DOMAIN t /\ t[i - 1] = g
    BY <1>2 DEF h, t
  <2>2. QED
    BY <1>5, <2>1 DEF InQueue
<1>9. \A g \in Fibers : InQueue(sched', g) \/ g = h => InQueue(sched, g)
  <2>1. InQueue(sched, h)
    BY <1>2 DEF InQueue, h
  <2>2. ASSUME NEW g \in Fibers, NEW i \in DOMAIN t, t[i] = g
        PROVE  InQueue(sched, g)
    <3>1. i + 1 \in DOMAIN sched.queue /\ sched.queue[i + 1] = g
      BY <1>2, <2>2 DEF t
    <3>2. QED
      BY <3>1 DEF InQueue
  <2>3. QED
    BY <1>5, <2>1, <2>2 DEF InQueue
<1>10. QED
  BY <1>1, <1>4, <1>5, <1>6, <1>7, <1>8, <1>9

\* An exception changes the resume value of one fiber, which does not run.
LEMMA InterruptTypes ==
  ASSUME NEW f \in Fibers, NEW calls, sched \in Scheds, OneTurn(sched), Interrupt(f, calls)
  PROVE  /\ sched' \in Scheds /\ OneTurn(sched') /\ pc' = pc
         /\ sched'.current = sched.current /\ sched.current # f
         /\ pc[f] \in calls
         /\ \A g \in Fibers : InQueue(sched, g) => InQueue(sched', g)
         /\ \A g \in Fibers : g # f => /\ sched'.value[g] = sched.value[g]
                                       /\ InQueue(sched', g) <=> InQueue(sched, g)
<1>1. Exc \in Int
  BY DEF Exc
<1>2. /\ sched' = MakeRunnable(sched, f, Exc) /\ sched \in Scheds /\ OneTurn(sched)
      /\ pc' = pc /\ sched.current # f /\ pc[f] \in calls
  BY Zenon DEF Interrupt
<1>3. /\ sched' \in Scheds /\ sched'.current = sched.current
      /\ OneTurn(sched) => OneTurn(sched')
      /\ \A g \in Fibers : InQueue(sched', g) <=> InQueue(sched, g) \/ (g = f /\ pc[f] # "dead")
      /\ \A g \in Fibers : g # f => sched'.value[g] = sched.value[g]
  BY <1>1, <1>2, MadeRunnable
<1>4. QED
  BY <1>2, <1>3, Zenon
-----------------------------------------------------------------------------
\* A fiber in a section, or on its way into one, knows how it was entered; a fiber
\* that waits for a signal, or for the mutex after one, was in it once and not in a
\* monitor (which conditional_release would empty without counting); and a monitor
\* is left as often as it was entered.
SectionOK(f) ==
    /\ Holds(f) \/ pc[f] \in {"lock", "wait", "reacquire"} => section[f].style # "none"
    /\ pc[f] \in {"lock", "wait", "reacquire"} => section[f].depth = 1
    /\ pc[f] \in {"wait", "reacquire"} => section[f].style \notin Monitors
    /\ Holds(f) => section[f].depth = IF section[f].style \in Monitors THEN mutex.count ELSE 1

\* synchronize is not interrupted while it takes the mutex again after a wait.
NoException(f) ==
    /\ sched.current = f /\ InQueue(sched, f) => sched.value[f] # Exc
    /\ /\ pc[f] = "reacquire" /\ section[f].style = "sync"
       /\ InQueue(sched, f) \/ sched.current = f
       => sched.value[f] # Exc

\* The inductive invariant for MutualExclusion.  The sections are needed for Leave,
\* which gives the token back or not depending on the style and the counts, and the
\* resume values for TokenResume: if the exception reached synchronize then, its
\* ensure would put back a token that it has not taken.
LockInv ==
    /\ MutualExclusion
    /\ \A f \in Fibers : SectionOK(f)
    /\ \A f \in Fibers : NoException(f)

\* A step of the current fiber brings no exception to the others.
LEMMA ExceptionsStay ==
  ASSUME NEW f \in Fibers, f = sched.current, \A g \in Fibers : NoException(g), Runs(f),
         \A g \in Fibers : g # f => pc'[g] = pc[g] /\ section'[g].style = section[g].style,
         pc'[f] = "reacquire" => sched'.current = NoFiber
  PROVE  \A g \in Fibers : NoException(g)'
<1> SUFFICES ASSUME NEW g \in Fibers PROVE NoException(g)'
  OBVIOUS
<1>1. NoFiber \notin Fibers
  BY FibersAssumption
<1>2. CASE g = f
  BY <1>1, <1>2 DEF NoException, Runs, Wakes
<1>3. CASE g # f
  BY <1>1, <1>3 DEF NoException, Runs, Wakes
<1>4. QED
  BY <1>2, <1>3

\* The mutex as far as mutual exclusion is about it.
LEMMA HoldsFrame ==
  ASSUME NEW g \in Fibers, pc'[g] = pc[g], section'[g].style = section[g].style,
         section'[g].depth = section[g].depth, section'[g].back = section[g].back
  PROVE  /\ Holds(g)' <=> Holds(g)
         /\ SectionOK(g) /\ (Holds(g) => mutex'.count = mutex.count) => SectionOK(g)'
  BY DEF Holds, SectionOK

\* The operations of sync.rb keep the invariant.
LEMMA LockAcquire ==
  ASSUME NEW f \in Fibers, NEW style \in Styles, f = sched.current,
         SyncTypes, LockInv, Acquire(f, style)
  PROVE  LockInv'
<1>1. /\ Runs(f)
      /\ pc' = [pc EXCEPT ![f] = "lock"] /\ pc \in [Fibers -> SyncCalls]
      /\ section' = [section EXCEPT ![f] = [Outside EXCEPT !.style = style, !.depth = 1]]
      /\ pc[f] = "free" /\ mutex.holder # f /\ section \in [Fibers -> Sections]
  BY AcquireTypes, Zenon DEF Acquire, SyncTypes
<1>2. PICK m \in {mutex, Released(mutex)} :
        /\ m # mutex => HolderIsDead
        /\ mutex'.store = m.store /\ mutex'.holder = m.holder /\ mutex'.count = m.count
  BY AcquireTypes, Zenon
<1>3. section'[f].style = style /\ section'[f].depth = 1 /\ style # "none"
  <2> DEFINE x == [Outside EXCEPT !.style = style, !.depth = 1]
  <2>1. x.style = style /\ x.depth = 1
    BY DEF Outside
  <2>2. section'[f] = x
    BY <1>1
  <2> HIDE DEF x
  <2>3. QED
    BY <2>1, <2>2, OutsideFields
<1>4. \A g \in Fibers : g # f => pc'[g] = pc[g] /\ section'[g] = section[g]
  BY <1>1
<1>5. pc'[f] = "lock" /\ ~Holds(f)' /\ ~Holds(f)
  BY <1>1 DEF Holds
<1>6. \A g \in Fibers : Holds(g)' <=> Holds(g)
  BY <1>4, <1>5, HoldsFrame, Zenon
<1>7. mutex.store \in Int /\ mutex \in Mutexes /\ mutex.holder \in Fibers \cup {NoFiber}
  BY DEF SyncTypes, Mutexes
<1>8. MutualExclusion'
  <2>1. CASE m = mutex
    <3>1. mutex.holder # NoFiber => (Holds(mutex.holder) \/ HolderIsDead) /\ mutex.holder # f
      BY <1>1 DEF LockInv, MutualExclusion
    <3>2. HolderIsDead /\ mutex.holder # f => HolderIsDead'
      BY <1>2, <1>4, <1>7, <2>1 DEF HolderIsDead
    <3>3. QED
      BY <1>2, <1>6, <1>7, <2>1, <3>1, <3>2 DEF LockInv, MutualExclusion
  <2>2. CASE m # mutex
    <3>1. m = Released(mutex) /\ HolderIsDead
      BY <1>2, <2>2
    <3>2. mutex'.store = mutex.store + 1 /\ mutex'.holder = NoFiber
      BY <1>2, <1>7, <3>1, ReleasedFields
    <3>3. \A g \in Fibers : ~Holds(g)
      BY <3>1 DEF LockInv, MutualExclusion, Holds, HolderIsDead
    <3>4. mutex.store = 0
      BY <3>1 DEF LockInv, MutualExclusion, HolderIsDead
    <3>5. QED
      BY <1>6, <3>2, <3>3, <3>4 DEF MutualExclusion
  <2>3. QED
    BY <2>1, <2>2
<1>9. \A g \in Fibers : SectionOK(g)'
  <2>1. mutex'.count = mutex.count
    BY <1>2, <1>7, ReleasedFields
  <2>2. SectionOK(f)'
    BY <1>3, <1>5 DEF SectionOK
  <2>3. QED
    BY <1>4, <2>1, <2>2, HoldsFrame, Zenon DEF LockInv
<1>10. \A g \in Fibers : NoException(g)'
  <2>1. pc'[f] # "reacquire"
    BY <1>5
  <2>2. QED
    BY <1>1, <1>4, <2>1, ExceptionsStay, Zenon DEF LockInv
<1>11. QED
  BY <1>8, <1>9, <1>10, Zenon DEF LockInv

LEMMA LockReenter ==
  ASSUME NEW f \in Fibers, f = sched.current, SyncTypes, LockInv, Reenter(f)
  PROVE  LockInv'
<1>1. /\ Runs(f) /\ sched' = sched /\ pc \in [Fibers -> SyncCalls] /\ section \in [Fibers -> Sections]
      /\ pc' = [pc EXCEPT ![f] = "in"] /\ pc[f] \in {"free", "in"} /\ mutex.holder = f
      /\ section[f].style \in Monitors \cup {"none"} /\ mutex \in Mutexes
      /\ section' = [section EXCEPT ![f].style = "enter", ![f].depth = @ + 1]
      /\ mutex' = [mutex EXCEPT !.count = @ + 1]
  BY ReenterTypes, Zenon DEF Reenter, SyncTypes
<1>2. /\ mutex'.store = mutex.store /\ mutex'.holder = mutex.holder
      /\ mutex'.count = mutex.count + 1 /\ mutex.count \in Int
  BY <1>1 DEF Mutexes
<1>3. section'[f].style = "enter" /\ section'[f].depth = section[f].depth + 1
  BY <1>1 DEF Sections
<1>4. \A g \in Fibers : g # f => pc'[g] = pc[g] /\ section'[g] = section[g]
  BY <1>1
<1>5. f # NoFiber
  BY FibersAssumption
<1>6. Holds(f) /\ Holds(f)' /\ pc'[f] = "in"
  BY <1>1, <1>5 DEF LockInv, MutualExclusion, HolderIsDead, Holds
<1>7. \A g \in Fibers : Holds(g)' <=> Holds(g)
  BY <1>4, <1>6, HoldsFrame, Zenon
<1>8. MutualExclusion'
  BY <1>1, <1>2, <1>6, <1>7 DEF LockInv, MutualExclusion
<1>9. \A g \in Fibers : g # f => ~Holds(g)
  BY <1>1 DEF LockInv, MutualExclusion
<1>10. SectionOK(f)'
  <2>1. section[f].style \in Monitors /\ section[f].depth = mutex.count
    BY <1>1, <1>6 DEF LockInv, SectionOK
  <2>2. QED
    BY <1>2, <1>3, <1>6, <2>1 DEF SectionOK, Monitors
<1>11. \A g \in Fibers : SectionOK(g)'
  BY <1>4, <1>9, <1>10, HoldsFrame, Zenon DEF LockInv
<1>12. \A g \in Fibers : NoException(g)'
  <2>1. pc'[f] # "reacquire"
    BY <1>6
  <2>2. QED
    BY <1>1, <1>4, <2>1, ExceptionsStay, Zenon DEF LockInv
<1>13. QED
  BY <1>8, <1>11, <1>12, Zenon DEF LockInv

LEMMA LockTokenResume ==
  ASSUME NEW f \in Fibers, f = sched.current, SyncTypes, LockInv, TokenResume(f)
  PROVE  LockInv'
<1>1. /\ Runs(f) /\ pc \in [Fibers -> SyncCalls] /\ section \in [Fibers -> Sections]
      /\ pc[f] \in {"lock", "reacquire"} /\ mutex.store \in Int /\ f # NoFiber
      /\ mutex.holder \in Fibers \cup {NoFiber}
  BY TokenResumeTypes, FibersAssumption DEF TokenResume, SyncTypes, Mutexes
<1>2. ~Holds(f) /\ mutex.holder # f
  BY <1>1 DEF LockInv, MutualExclusion, HolderIsDead, Holds
<1>3. section[f].style # "none" /\ section[f].depth = 1
      /\ (pc[f] = "reacquire" => section[f].style \notin Monitors)
  BY <1>1 DEF LockInv, SectionOK
<1>4. CASE /\ sched.value[f] = Exc
           /\ mutex'.store = mutex.store + (IF pc[f] = "reacquire" /\ ReleasedAfterFailure(f) THEN 1 ELSE 0)
           /\ mutex'.holder = IF pc[f] = "reacquire" /\ ReleasedAfterFailure(f) THEN NoFiber ELSE mutex.holder
           /\ mutex'.count = mutex.count
           /\ pc' = [pc EXCEPT ![f] = "free"]
           /\ section' = [section EXCEPT ![f] = Outside]
  <2>1. ~(pc[f] = "reacquire" /\ ReleasedAfterFailure(f))
    BY <1>4 DEF LockInv, NoException, ReleasedAfterFailure
  <2>2. mutex'.store = mutex.store /\ mutex'.holder = mutex.holder
    BY <1>1, <1>4, <2>1
  <2>3. \A g \in Fibers : g # f => pc'[g] = pc[g] /\ section'[g] = section[g]
    BY <1>1, <1>4
  <2>4. pc'[f] = "free" /\ ~Holds(f)'
    BY <1>1, <1>4 DEF Holds
  <2>5. \A g \in Fibers : Holds(g)' <=> Holds(g)
    BY <1>2, <2>3, <2>4, HoldsFrame, Zenon
  <2>6. MutualExclusion'
    <3>1. HolderIsDead' <=> HolderIsDead
      BY <1>1, <1>2, <2>2, <2>3 DEF HolderIsDead
    <3>2. QED
      BY <1>1, <2>2, <2>5, <3>1 DEF LockInv, MutualExclusion
  <2>7. \A g \in Fibers : SectionOK(g)'
    <3>1. SectionOK(f)'
      BY <2>4 DEF SectionOK
    <3>2. QED
      BY <1>4, <2>3, <3>1, HoldsFrame, Zenon DEF LockInv
  <2>8. \A g \in Fibers : NoException(g)'
    <3>1. pc'[f] # "reacquire"
      BY <2>4
    <3>2. QED
      BY <1>1, <2>3, <3>1, ExceptionsStay, Zenon DEF LockInv
  <2>9. QED
    BY <2>6, <2>7, <2>8, Zenon DEF LockInv
<1>5. CASE /\ mutex.store > 0 /\ mutex'.store = mutex.store - 1 /\ mutex'.holder = f
           /\ mutex'.count = IF pc[f] = "lock" /\ section[f].style \in Monitors THEN 1 ELSE mutex.count
           /\ pc' = [pc EXCEPT ![f] = "in"] /\ section' = section
  <2>1. mutex.holder = NoFiber /\ mutex'.store = 0
    BY <1>5 DEF LockInv, MutualExclusion
  <2>2. \A g \in Fibers : ~Holds(g)
    BY <2>1, FibersAssumption DEF LockInv, MutualExclusion
  <2>3. \A g \in Fibers : g # f => pc'[g] = pc[g]
    BY <1>1, <1>5
  <2>4. Holds(f)' /\ pc'[f] = "in"
    BY <1>1, <1>5 DEF Holds
  <2>5. \A g \in Fibers : g # f => ~Holds(g)'
    BY <1>5, <2>2, <2>3, HoldsFrame
  <2>6. MutualExclusion'
    BY <1>1, <1>5, <2>1, <2>4, <2>5 DEF MutualExclusion
  <2>7. SectionOK(f)'
    BY <1>1, <1>3, <1>5, <2>4 DEF SectionOK
  <2>8. \A g \in Fibers : SectionOK(g)'
    BY <1>5, <2>2, <2>3, <2>7, HoldsFrame DEF LockInv
  <2>9. \A g \in Fibers : NoException(g)'
    <3>1. pc'[f] # "reacquire"
      BY <2>4
    <3>2. QED
      BY <1>1, <1>5, <2>3, <3>1, ExceptionsStay, Zenon DEF LockInv
  <2>10. QED
    BY <2>6, <2>8, <2>9, Zenon DEF LockInv
<1>6. CASE /\ mutex'.store = mutex.store /\ mutex'.holder = mutex.holder
           /\ mutex'.count = mutex.count /\ sched'.current = NoFiber
           /\ pc' = pc /\ section' = section
  <2>1. MutualExclusion'
    BY <1>6 DEF LockInv, MutualExclusion, HolderIsDead, Holds
  <2>2. \A g \in Fibers : SectionOK(g)'
    BY <1>6, HoldsFrame, Zenon DEF LockInv
  <2>3. \A g \in Fibers : NoException(g)'
    BY <1>1, <1>6, ExceptionsStay, Zenon DEF LockInv
  <2>4. QED
    BY <2>1, <2>2, <2>3, Zenon DEF LockInv
<1>7. QED
  BY <1>4, <1>5, <1>6, TokenResumeTypes, Zenon

LEMMA LockLeave ==
  ASSUME NEW f \in Fibers, f = sched.current, SyncTypes, LockInv, Leave(f)
  PROVE  LockInv'
<1>1. /\ Runs(f) /\ pc \in [Fibers -> SyncCalls] /\ section \in [Fibers -> Sections]
      /\ mutex.store \in Int /\ mutex.count \in Int /\ f # NoFiber
      /\ pc[f] = "in" /\ section[f].depth \in Int
  BY LeaveTypes, FibersAssumption DEF Leave, SyncTypes, Mutexes, Sections
<1>2. Holds(f) /\ mutex.holder = f
  BY <1>1 DEF LockInv, MutualExclusion, Holds
<1>3. section[f].depth = IF section[f].style \in Monitors THEN mutex.count ELSE 1
  BY <1>2 DEF LockInv, SectionOK
<1>4. \A g \in Fibers : g # f => ~Holds(g)
  BY <1>2 DEF LockInv, MutualExclusion
<1>5. /\ \A g \in Fibers : g # f => pc'[g] = pc[g] /\ section'[g] = section[g]
      /\ section[f].depth = 1 => pc'[f] = "free"
      /\ section[f].depth # 1 => pc'[f] = "in"
  <2>1. \A g \in Fibers : g # f => section'[g] = section[g]
    BY LeaveTypes
  <2>2. IF section[f].depth = 1 THEN pc' = [pc EXCEPT ![f] = "free"] ELSE pc' = pc
    BY Zenon DEF Leave
  <2>3. QED
    BY <1>1, <2>1, <2>2
<1>6. \A g \in Fibers : g # f => ~Holds(g)'
  BY <1>4, <1>5, HoldsFrame
<1>7. pc'[f] # "reacquire" /\ pc'[f] \notin {"lock", "wait"}
  BY <1>5
<1>8. mutex.store = 0
  BY <1>1, <1>2 DEF LockInv, MutualExclusion
<1>9. CASE section[f].depth = 1
  <2>1. mutex'.store = 1 /\ mutex'.holder = NoFiber /\ ~Holds(f)'
    BY <1>1, <1>3, <1>5, <1>8, <1>9, LeaveTypes DEF Holds
  <2>2. MutualExclusion'
    BY <1>6, <2>1 DEF MutualExclusion
  <2>3. SectionOK(f)'
    BY <1>7, <2>1 DEF SectionOK
  <2>4. QED
    <3>1. \A g \in Fibers : SectionOK(g)'
      BY <1>4, <1>5, <2>3, HoldsFrame DEF LockInv
    <3>2. \A g \in Fibers : NoException(g)'
      BY <1>1, <1>5, <1>7, ExceptionsStay DEF LockInv
    <3>3. QED
      BY <2>2, <3>1, <3>2, Zenon DEF LockInv
<1>10. CASE section[f].depth # 1
  <2>1. section[f].style \in Monitors /\ mutex.count # 1
    BY <1>3, <1>10
  <2>2. /\ mutex'.store = mutex.store /\ mutex'.holder = f /\ mutex'.count = mutex.count - 1
        /\ section'[f].style = section[f].style /\ section'[f].depth = section[f].depth - 1
    BY <1>2, <1>10, <2>1, LeaveTypes
  <2>3. Holds(f)'
    BY <1>5, <1>10 DEF Holds
  <2>4. MutualExclusion'
    BY <1>1, <1>6, <1>8, <2>2, <2>3 DEF MutualExclusion
  <2>5. SectionOK(f)'
    <3>1. section[f].style # "none"
      BY <1>2 DEF LockInv, SectionOK
    <3>2. QED
      BY <1>1, <1>3, <1>7, <2>1, <2>2, <2>3, <3>1 DEF SectionOK
  <2>6. QED
    <3>1. \A g \in Fibers : SectionOK(g)'
      BY <1>4, <1>5, <2>5, HoldsFrame DEF LockInv
    <3>2. \A g \in Fibers : NoException(g)'
      BY <1>1, <1>5, <1>7, ExceptionsStay DEF LockInv
    <3>3. QED
      BY <2>4, <3>1, <3>2, Zenon DEF LockInv
<1>11. QED
  BY <1>9, <1>10

\* A step after which the fiber holds the mutex or not as before.
LEMMA LockKept ==
  ASSUME NEW f \in Fibers, f = sched.current, SyncTypes, LockInv, Runs(f),
         mutex'.store = mutex.store, mutex'.holder = mutex.holder, mutex'.count = mutex.count,
         \A g \in Fibers : /\ section'[g].style = section[g].style
                           /\ section'[g].depth = section[g].depth
                           /\ g # f => pc'[g] = pc[g] /\ section'[g].back = section[g].back,
         Holds(f)' <=> Holds(f) /\ pc'[f] # "dead", pc[f] # "dead",
         pc'[f] = "dead" => ~Holds(f)',
         pc'[f] \notin {"lock", "wait"},
         pc'[f] = "reacquire" => pc[f] \in {"wait", "reacquire"} /\ sched'.current = NoFiber
  PROVE  LockInv'
<1>1. \A g \in Fibers : g # f => (Holds(g)' <=> Holds(g)) /\ (SectionOK(g) => SectionOK(g)')
  BY HoldsFrame
<1>2. MutualExclusion'
  <2>1. \A g \in Fibers : Holds(g)' => Holds(g)
    BY <1>1
  <2>2. mutex.holder # NoFiber => Holds(mutex.holder)' \/ HolderIsDead'
    <3>1. mutex.holder \in Fibers \cup {NoFiber}
      BY DEF SyncTypes, Mutexes
    <3>2. QED
      BY <1>1, <3>1 DEF LockInv, MutualExclusion, HolderIsDead
  <2>3. QED
    BY <2>1, <2>2 DEF LockInv, MutualExclusion
<1>3. SectionOK(f)'
  BY DEF LockInv, SectionOK
<1>4. \A g \in Fibers : SectionOK(g)'
  BY <1>1, <1>3, Zenon DEF LockInv
<1>5. \A g \in Fibers : NoException(g)'
  BY ExceptionsStay, Zenon DEF LockInv
<1>6. QED
  BY <1>2, <1>4, <1>5, Zenon DEF LockInv

LEMMA LockPass ==
  ASSUME NEW f \in Fibers, f = sched.current, SyncTypes, LockInv,
         Die(f) \/ Snooze(f) \/ SnoozeResume(f)
  PROVE  LockInv'
<1>1. /\ Runs(f) /\ mutex' = mutex /\ pc \in [Fibers -> SyncCalls]
      /\ \A g \in Fibers : /\ section'[g].style = section[g].style
                           /\ section'[g].depth = section[g].depth
                           /\ section'[g].back = section[g].back
  BY PassTypes, Zenon DEF SyncTypes
<1>2. /\ \A g \in Fibers : g # f => pc'[g] = pc[g]
      /\ Holds(f)' <=> Holds(f) /\ pc'[f] # "dead"
      /\ pc[f] # "dead" /\ pc'[f] \notin {"lock", "wait", "reacquire"}
      /\ pc'[f] = "dead" => ~Holds(f)'
  <2>1. CASE Die(f)
    BY <1>1, <2>1 DEF Die, Holds
  <2>2. CASE Snooze(f)
    BY <1>1, <2>2 DEF Snooze, Holds
  <2>3. CASE SnoozeResume(f)
    BY <1>1, <2>3 DEF SnoozeResume, Holds
  <2>4. QED
    BY <2>1, <2>2, <2>3
<1>3. QED
  BY <1>1, <1>2, LockKept

LEMMA LockWait ==
  ASSUME WaitStyles \cap Monitors = {},
         NEW f \in Fibers, f = sched.current, SyncTypes, LockInv, Wait(f)
  PROVE  LockInv'
<1>1. /\ Runs(f) /\ pc \in [Fibers -> SyncCalls] /\ section' = section
      /\ mutex'.store = mutex.store + 1 /\ mutex'.holder = NoFiber /\ mutex'.count = mutex.count
      /\ pc[f] = "in" /\ section[f].style \in WaitStyles /\ f # NoFiber
      /\ pc' = [pc EXCEPT ![f] = "wait"]
  BY WaitTypes, FibersAssumption DEF Wait, SyncTypes
<1>2. Holds(f) /\ mutex.holder = f /\ mutex.store = 0
  BY <1>1 DEF LockInv, MutualExclusion, Holds
<1>3. \A g \in Fibers : g # f => ~Holds(g) /\ pc'[g] = pc[g]
  BY <1>1, <1>2 DEF LockInv, MutualExclusion
<1>4. pc'[f] = "wait" /\ ~Holds(f)'
  BY <1>1 DEF Holds
<1>5. \A g \in Fibers : ~Holds(g)'
  BY <1>1, <1>3, <1>4, HoldsFrame
<1>6. MutualExclusion'
  BY <1>1, <1>2, <1>5 DEF MutualExclusion
<1>7. SectionOK(f)'
  BY <1>1, <1>2, <1>4 DEF LockInv, SectionOK
<1>8. \A g \in Fibers : SectionOK(g)'
  BY <1>1, <1>3, <1>7, HoldsFrame DEF LockInv
<1>9. \A g \in Fibers : NoException(g)'
  BY <1>1, <1>3, <1>4, ExceptionsStay DEF LockInv
<1>10. QED
  BY <1>6, <1>8, <1>9, Zenon DEF LockInv

LEMMA LockWaitResume ==
  ASSUME NEW f \in Fibers, f = sched.current, SyncTypes, LockInv, WaitResume(f)
  PROVE  LockInv'
<1>1. /\ Runs(f) /\ pc \in [Fibers -> SyncCalls] /\ pc[f] = "wait"
      /\ mutex'.store = mutex.store /\ mutex'.holder = mutex.holder /\ mutex'.count = mutex.count
      /\ pc' = [pc EXCEPT ![f] = "reacquire"] /\ sched'.current = NoFiber
      /\ \A g \in Fibers : /\ section'[g].style = section[g].style
                           /\ section'[g].depth = section[g].depth
                           /\ section'[g].back = section[g].back
  BY WaitResumeTypes, Zenon DEF WaitResume, SyncTypes
<1>2. /\ ~Holds(f) /\ ~Holds(f)' /\ pc'[f] = "reacquire"
      /\ \A g \in Fibers : g # f => pc'[g] = pc[g]
  BY <1>1 DEF Holds
<1>3. QED
  BY <1>1, <1>2, LockKept

LEMMA LockNotify ==
  ASSUME NEW f \in Fibers, f = sched.current, SyncTypes, LockInv,
         NotifyResume(f) \/ \E call \in {"signal", "broadcast"} : Notify(f, call)
  PROVE  LockInv'
<1>1. CASE NotifyResume(f)
  <2>1. /\ Runs(f) /\ mutex' = mutex /\ pc \in [Fibers -> SyncCalls]
        /\ pc' = pc \/ pc' = [pc EXCEPT ![f] = section[f].back]
        /\ pc[f] \in {"signal", "broadcast"}
        /\ \A g \in Fibers : /\ section'[g].style = section[g].style
                             /\ section'[g].depth = section[g].depth
                             /\ section'[g].back = section[g].back
    BY <1>1, NotifyResumeTypes, Zenon DEF NotifyResume, SyncTypes
  <2>2. section[f].back \in {"free", "in"}
    BY DEF SyncTypes, Sections
  <2>3. /\ Holds(f)' <=> Holds(f)
        /\ pc'[f] \in {"free", "in", "signal", "broadcast"}
        /\ \A g \in Fibers : g # f => pc'[g] = pc[g]
    BY <2>1, <2>2 DEF Holds
  <2>4. QED
    BY <2>1, <2>3, LockKept
<1>2. ASSUME NEW call \in {"signal", "broadcast"}, Notify(f, call)
      PROVE  LockInv'
  <2>1. /\ Runs(f) /\ mutex' = mutex /\ pc \in [Fibers -> SyncCalls]
        /\ pc' = [pc EXCEPT ![f] = call] /\ section'[f].back = pc[f]
        /\ pc[f] \in {"free", "in"}
        /\ \A g \in Fibers : /\ section'[g].style = section[g].style
                             /\ section'[g].depth = section[g].depth
                             /\ g # f => section'[g].back = section[g].back
    <3>1. pc \in [Fibers -> SyncCalls] /\ pc[f] \in {"free", "in"}
      BY <1>2, Zenon DEF Notify, SyncTypes
    <3>2. QED
      BY <1>2, <3>1, NotifyTypes
  <2>2. /\ Holds(f)' <=> Holds(f)
        /\ pc'[f] \in {"signal", "broadcast"}
        /\ \A g \in Fibers : g # f => pc'[g] = pc[g]
    BY <2>1 DEF Holds
  <2>3. QED
    BY <2>1, <2>2, LockKept
<1>3. QED
  BY <1>1, <1>2

LEMMA LockSwitch ==
  ASSUME SyncTypes, LockInv, SwitchFiber, UNCHANGED syncVars
  PROVE  LockInv'
<1>1. /\ pc' = pc /\ sched'.value = sched.value
      /\ sched'.current \in Fibers /\ ~InQueue(sched', sched'.current)
      /\ \A g \in Fibers : InQueue(sched, g) <=> InQueue(sched', g) \/ sched'.current = g
      /\ mutex' = mutex /\ section' = section
  BY SwitchTypes DEF SyncTypes, syncVars
<1>2. MutualExclusion' /\ \A g \in Fibers : SectionOK(g)'
  BY <1>1 DEF LockInv, MutualExclusion, HolderIsDead, Holds, SectionOK
<1>3. \A g \in Fibers : NoException(g)'
  BY <1>1 DEF LockInv, NoException
<1>4. QED
  BY <1>2, <1>3, Zenon DEF LockInv

LEMMA LockInterrupt ==
  ASSUME "sync" \notin FragileStyles, NEW f \in Fibers, SyncTypes, LockInv, SyncInterrupt(f)
  PROVE  LockInv'
<1>1. /\ pc' = pc /\ mutex' = mutex /\ section' = section
      /\ sched'.current = sched.current /\ sched.current # f
      /\ pc[f] = "reacquire" => section[f].style \in FragileStyles
      /\ \A g \in Fibers : g # f => /\ sched'.value[g] = sched.value[g]
                                    /\ InQueue(sched', g) <=> InQueue(sched, g)
  BY InterruptTypes DEF SyncTypes, SyncInterrupt, syncVars
<1>2. MutualExclusion' /\ \A g \in Fibers : SectionOK(g)'
  BY <1>1 DEF LockInv, MutualExclusion, HolderIsDead, Holds, SectionOK
<1>3. \A g \in Fibers : NoException(g)'
  BY <1>1 DEF LockInv, NoException
<1>4. QED
  BY <1>2, <1>3, Zenon DEF LockInv
-----------------------------------------------------------------------------
\* Every fiber is scheduled, once, and in no call.
LEMMA InitScheds ==
  ASSUME InitFibers
  PROVE  /\ sched \in Scheds /\ OneTurn(sched) /\ sched.current = NoFiber
         /\ \A f \in Fibers : sched.value[f] = Nil
         /\ pc = [f \in Fibers |-> "free"]
<1>1. PICK order \in SetToSeqs(Fibers) :
        sched = [current |-> NoFiber, queue |-> order, value |-> [f \in Fibers |-> Nil]]
  BY DEF InitFibers
<1>2. Cardinality(Fibers) \in Nat
  BY FibersAssumption, FS_CardinalityType
<1>3. /\ order \in Seq(Fibers) /\ DOMAIN order = 1 .. Cardinality(Fibers)
      /\ \A i, j \in 1 .. Cardinality(Fibers) : order[i] = order[j] => i = j
  BY <1>2 DEF SetToSeqs
<1>4. OneTurn(sched)
  BY <1>1, <1>3 DEF OneTurn
<1>5. sched \in Scheds
  BY <1>1, <1>3 DEF Scheds, Nil
<1>6. QED
  BY <1>1, <1>4, <1>5 DEF InitFibers

\* The types and the invariant hold initially and are kept by every step.
LEMMA SyncTypesInit == InitFibers /\ InitSync => SyncTypes
<1> SUFFICES ASSUME InitFibers, InitSync PROVE SyncTypes
  OBVIOUS
<1>1. mutex \in Mutexes
  BY DEF InitSync, Mutexes
<1>2. cond \in Conds
  BY DEF InitSync, Conds
<1>3. section \in [Fibers -> Sections]
  BY OutsideFields DEF InitSync
<1>4. pc \in [Fibers -> SyncCalls]
  BY InitScheds DEF SyncCalls
<1>5. QED
  BY <1>1, <1>2, <1>3, <1>4, InitScheds, Zenon DEF SyncTypes

\* Whoever is current is a fiber.
LEMMA CurrentFiber ==
  ASSUME SyncTypes, sched.current # NoFiber
  PROVE  sched.current \in Fibers
  BY DEF SyncTypes, Scheds

LEMMA SyncTypesStep ==
  ASSUME SyncTypes,
         (SwitchFiber /\ UNCHANGED syncVars) \/ SyncNext
  PROVE  SyncTypes'
<1>1. CASE SwitchFiber /\ UNCHANGED syncVars
  BY <1>1, SwitchTypes DEF SyncTypes, syncVars
<1>2. ASSUME NEW f \in Fibers, SyncInterrupt(f)
      PROVE  SyncTypes'
  BY <1>2, InterruptTypes DEF SyncInterrupt, SyncTypes, syncVars
<1>3. CASE sched.current # NoFiber /\ SyncStep(sched.current)
  <2> DEFINE f == sched.current
  <2>1. f \in Fibers
    BY <1>3, CurrentFiber
  <2>2. f = sched.current /\ SyncStep(f)
    BY <1>3
  <2> HIDE DEF f
  <2>3. ASSUME NEW style \in Styles, Acquire(f, style) PROVE SyncTypes'
    BY <2>1, <2>3, AcquireTypes, Zenon
  <2>4. CASE Reenter(f)
    BY <2>1, <2>2, <2>4, ReenterTypes, Zenon
  <2>5. CASE TokenResume(f)
    BY <2>1, <2>2, <2>5, TokenResumeTypes, Zenon
  <2>6. CASE Leave(f)
    BY <2>1, <2>2, <2>6, LeaveTypes, Zenon
  <2>7. CASE Die(f) \/ Snooze(f) \/ SnoozeResume(f)
    BY <2>1, <2>2, <2>7, PassTypes, Zenon
  <2>8. CASE Wait(f)
    BY <2>1, <2>2, <2>8, WaitTypes, Zenon
  <2>9. CASE WaitResume(f)
    BY <2>1, <2>2, <2>9, WaitResumeTypes, Zenon
  <2>10. CASE NotifyResume(f)
    BY <2>1, <2>2, <2>10, NotifyResumeTypes, Zenon
  <2>11. ASSUME NEW call \in {"signal", "broadcast"}, Notify(f, call) PROVE SyncTypes'
    BY <2>1, <2>2, <2>11, NotifyTypes, Zenon
  <2>12. QED
    BY <2>2, <2>3, <2>4, <2>5, <2>6, <2>7, <2>8, <2>9, <2>10, <2>11, Zenon DEF SyncStep
<1>4. QED
  BY <1>1, <1>2, <1>3 DEF SyncNext

LEMMA LockInvStep ==
  ASSUME "sync" \notin FragileStyles, WaitStyles \cap Monitors = {},
         SyncTypes, LockInv,
         (SwitchFiber /\ UNCHANGED syncVars) \/ SyncNext
  PROVE  LockInv'
<1>1. CASE SwitchFiber /\ UNCHANGED syncVars
  BY <1>1, LockSwitch
<1>2. ASSUME NEW f \in Fibers, SyncInterrupt(f)
      PROVE  LockInv'
  BY <1>2, LockInterrupt
<1>3. CASE sched.current # NoFiber /\ SyncStep(sched.current)
  <2> DEFINE f == sched.current
  <2>1. f \in Fibers
    BY <1>3, CurrentFiber
  <2>2. f = sched.current /\ SyncStep(f)
    BY <1>3
  <2> HIDE DEF f
  <2>3. ASSUME NEW style \in Styles, Acquire(f, style) PROVE LockInv'
    BY <2>1, <2>2, <2>3, LockAcquire, Zenon
  <2>4. CASE Reenter(f)
    BY <2>1, <2>2, <2>4, LockReenter, Zenon
  <2>5. CASE TokenResume(f)
    BY <2>1, <2>2, <2>5, LockTokenResume, Zenon
  <2>6. CASE Leave(f)
    BY <2>1, <2>2, <2>6, LockLeave, Zenon
  <2>7. CASE Die(f) \/ Snooze(f) \/ SnoozeResume(f)
    BY <2>1, <2>2, <2>7, LockPass, Zenon
  <2>8. CASE Wait(f)
    BY <2>1, <2>2, <2>8, LockWait, Zenon
  <2>9. CASE WaitResume(f)
    BY <2>1, <2>2, <2>9, LockWaitResume, Zenon
  <2>10. CASE NotifyResume(f) \/ \E call \in {"signal", "broadcast"} : Notify(f, call)
    BY <2>1, <2>2, <2>10, LockNotify, Zenon
  <2>11. QED
    BY <2>2, <2>3, <2>4, <2>5, <2>6, <2>7, <2>8, <2>9, <2>10, Zenon DEF SyncStep
<1>4. QED
  BY <1>1, <1>2, <1>3 DEF SyncNext

\* What the fibers are in when they use a thread pool or a resource pool.
OtherCalls == {"free", "pushed", "await", "allocate", "fill", "acquire", "use", "using"}

\* The mutex as it was created.
Untouched ==
    /\ pc \in [Fibers -> OtherCalls]
    /\ mutex.store = 1 /\ mutex.holder = NoFiber

LEMMA UntouchedStep ==
  ASSUME Untouched, UNCHANGED syncVars,
         SwitchFiber \/ PoolNext \/ ResourceNext
  PROVE  Untouched'
<1>1. mutex' = mutex
  BY DEF syncVars
<1>2. pc' \in [Fibers -> OtherCalls]
  <2>1. CASE SwitchFiber
    BY <2>1 DEF Untouched, SwitchFiber
  <2>2. CASE PoolNext
    BY <2>2 DEF Untouched, PoolNext, Process, AwaitSignaled, AwaitSwitch, AwaitResume, Cast,
                PoolSnooze, WorkerTake, WorkerDone, WorkerRaises, PoolInterrupt, Interrupt, OtherCalls
  <2>3. CASE ResourceNext
    <3>1. ASSUME NEW f \in Fibers, ResourceInterrupt(f) PROVE pc' = pc
      BY <3>1 DEF ResourceInterrupt, Interrupt
    <3>2. ASSUME NEW f \in Fibers,
                 AcquireResource(f) \/ Fill(f) \/ Allocated(f) \/ AcquireResume(f)
                 \/ Use(f) \/ UseResume(f) \/ Discard(f) \/ ReleaseResource(f) \/ ResourceSnooze(f)
          PROVE  pc' = pc \/ \E call \in OtherCalls : pc' = [pc EXCEPT ![f] = call]
      BY <3>2 DEF AcquireResource, Fill, Allocated, AcquireResume, Use, UseResume, Discard,
                  ReleaseResource, ResourceSnooze, ShiftResource, OtherCalls
    <3>3. QED
      BY <2>3, <3>1, <3>2 DEF ResourceNext, Untouched
  <2>4. QED
    BY <2>1, <2>2, <2>3
<1>3. QED
  BY <1>1, <1>2 DEF Untouched

\* The invariant, in behaviors about a mutex and in others.
MutexInv ==
    IF subject = "mutex" THEN SyncTypes /\ LockInv ELSE Untouched

\* At any time at most one fiber is between lock (or synchronize, enter, and their
\* variants) and unlock, across waits on the condition variable and deaths of the
\* holder, for any number of fibers and exceptions: whoever is in the section is
\* @holding_fiber and the token is not in @store (sync.rb).  Two uses are excluded
\* because the code breaks them: an exception in conditional_reacquire inside of
\* synchronize puts back a token that was not taken, and a wait inside of a monitor
\* leaves @holding_count as it was.
THEOREM MutualExclusionHolds ==
  ASSUME "sync" \notin FragileStyles, WaitStyles \cap Monitors = {}
  PROVE  PrimitivesSpec => []MutualExclusion
<1>1. PrimitivesInit => MutexInv
  <2> SUFFICES ASSUME PrimitivesInit PROVE MutexInv
    OBVIOUS
  <2>1. SyncTypes
    BY SyncTypesInit DEF PrimitivesInit
  <2>2. /\ mutex.store = 1 /\ mutex.holder = NoFiber /\ pc = [f \in Fibers |-> "free"]
        /\ sched.current = NoFiber
    BY InitScheds DEF PrimitivesInit, InitSync
  <2>3. \A f \in Fibers : pc[f] = "free" /\ ~Holds(f) /\ f # NoFiber
    BY <2>2, FibersAssumption DEF Holds
  <2>4. MutualExclusion
    BY <2>2, <2>3 DEF MutualExclusion
  <2>5. \A f \in Fibers : SectionOK(f) /\ NoException(f)
    BY <2>2, <2>3 DEF SectionOK, NoException
  <2>6. Untouched
    BY <2>2 DEF Untouched, OtherCalls
  <2>7. QED
    BY <2>1, <2>4, <2>5, <2>6 DEF MutexInv, LockInv
<1>2. MutexInv /\ [PrimitivesNext]_primitiveVars => MutexInv'
  <2> SUFFICES ASSUME MutexInv, [PrimitivesNext]_primitiveVars PROVE MutexInv'
    OBVIOUS
  <2>1. CASE UNCHANGED primitiveVars
    BY <2>1 DEF primitiveVars, syncVars, MutexInv, SyncTypes, LockInv, Untouched, SectionOK,
                NoException, MutualExclusion, HolderIsDead, Holds, InQueue, OneTurn
  <2>2. CASE PrimitivesNext /\ subject = "mutex"
    <3>1. subject' = "mutex" /\ ((SwitchFiber /\ UNCHANGED syncVars) \/ SyncNext)
      BY <2>2 DEF PrimitivesNext
    <3>2. SyncTypes /\ LockInv
      BY <2>2 DEF MutexInv
    <3>3. SyncTypes' /\ LockInv'
      BY <3>1, <3>2, SyncTypesStep, LockInvStep, Zenon
    <3>4. QED
      BY <3>1, <3>3 DEF MutexInv
  <2>3. CASE PrimitivesNext /\ subject # "mutex"
    <3>1. /\ subject' # "mutex" /\ UNCHANGED syncVars
          /\ SwitchFiber \/ PoolNext \/ ResourceNext
      BY <2>3 DEF PrimitivesNext
    <3>2. Untouched'
      BY <2>3, <3>1, UntouchedStep DEF MutexInv
    <3>3. QED
      BY <3>1, <3>2 DEF MutexInv
  <2>4. QED
    BY <2>1, <2>2, <2>3
<1>3. MutexInv => MutualExclusion
  <2>1. CASE subject = "mutex"
    BY <2>1 DEF MutexInv, LockInv
  <2>2. CASE subject # "mutex"
    <3>1. Untouched => \A f \in Fibers : ~Holds(f)
      BY DEF Untouched, OtherCalls, Holds
    <3>2. QED
      BY <2>2, <3>1 DEF MutexInv, Untouched, MutualExclusion
  <2>3. QED
    BY <2>1, <2>2
<1>4. QED
  BY <1>1, <1>2, <1>3, PTL DEF PrimitivesSpec
-----------------------------------------------------------------------------
\* f is on the queue of the condition variable.
Signallable(c, f) == \E i \in DOMAIN c.queue : c.queue[i] = f

\* A step of the current fiber f keeps the queue of the condition variable, up to
\* fibers that it schedules.
LEMMA SleepersStay ==
  ASSUME NEW f \in Fibers, f = sched.current, SleepersCanBeSignalled, Runs(f),
         \A g \in Fibers : g # f => pc'[g] = pc[g],
         pc'[f] = "wait" => Signallable(cond', f),
         \A g \in Fibers : Signallable(cond, g) =>
            Signallable(cond', g) \/ pc[g] = "dead" \/ InQueue(sched', g)
  PROVE  SleepersCanBeSignalled'
<1> SUFFICES ASSUME NEW g \in Fibers, pc'[g] = "wait", Sleeping(g)'
             PROVE  Signallable(cond', g)
  BY DEF SleepersCanBeSignalled, Signallable
<1>1. CASE g = f
  BY <1>1
<1>2. CASE g # f
  <2>1. pc[g] = "wait" /\ ~InQueue(sched', g)
    BY <1>2 DEF Sleeping
  <2>2. ~InQueue(sched, g)
    BY <2>1 DEF Runs, Wakes
  <2>3. Signallable(cond, g)
    BY <1>2, <2>1, <2>2 DEF SleepersCanBeSignalled, Sleeping, Signallable
  <2>4. QED
    BY <2>1, <2>3
<1>3. QED
  BY <1>1, <1>2

LEMMA SleepersStep ==
  ASSUME SyncTypes, SleepersCanBeSignalled,
         (SwitchFiber /\ UNCHANGED syncVars) \/ SyncNext
  PROVE  SleepersCanBeSignalled'
<1>1. CASE SwitchFiber /\ UNCHANGED syncVars
  <2>1. /\ pc' = pc /\ cond' = cond /\ sched.current = NoFiber
        /\ sched'.current \in Fibers
        /\ \A g \in Fibers : InQueue(sched, g) <=> InQueue(sched', g) \/ sched'.current = g
    BY <1>1, SwitchTypes DEF SyncTypes, syncVars, SwitchFiber
  <2>2. QED
    BY <2>1, FibersAssumption DEF SleepersCanBeSignalled, Sleeping
<1>2. ASSUME NEW f \in Fibers, SyncInterrupt(f)
      PROVE  SleepersCanBeSignalled'
  <2>1. /\ pc' = pc /\ cond' = cond /\ sched'.current = sched.current
        /\ \A g \in Fibers : InQueue(sched, g) => InQueue(sched', g)
    BY <1>2, InterruptTypes DEF SyncTypes, SyncInterrupt, syncVars
  <2>2. QED
    BY <2>1 DEF SleepersCanBeSignalled, Sleeping
<1>3. CASE sched.current # NoFiber /\ SyncStep(sched.current)
  <2> DEFINE f == sched.current
  <2>1. f \in Fibers
    BY <1>3, CurrentFiber
  <2>2. f = sched.current /\ SyncStep(f) /\ pc \in [Fibers -> SyncCalls]
    BY <1>3 DEF SyncTypes
  <2> HIDE DEF f
  <2>3. Runs(f)
    <3>1. ASSUME NEW style \in Styles, Acquire(f, style) PROVE Runs(f)
      BY <2>1, <3>1, AcquireTypes, Zenon
    <3>2. ASSUME NEW call \in {"signal", "broadcast"}, Notify(f, call) PROVE Runs(f)
      BY <2>1, <2>2, <3>2, NotifyTypes, Zenon
    <3>3. QED
      BY <2>1, <2>2, <3>1, <3>2, ReenterTypes, TokenResumeTypes, LeaveTypes, PassTypes,
         WaitTypes, WaitResumeTypes, NotifyResumeTypes, Zenon DEF SyncStep
  <2>4. CASE Wait(f)
    <3>1. pc' = [pc EXCEPT ![f] = "wait"]
      BY <2>4 DEF Wait
    <3>2. Signallable(cond', f) /\ \A g : Signallable(cond, g) => Signallable(cond', g)
      BY <2>1, <2>2, <2>4, WaitTypes, Zenon DEF Signallable
    <3>3. \A g \in Fibers : g # f => pc'[g] = pc[g]
      BY <2>1, <2>2, <3>1
    <3>4. QED
      BY <2>1, <2>2, <2>3, <3>2, <3>3, SleepersStay
  <2>5. CASE NotifyResume(f)
    <3>1. /\ pc' = pc \/ pc' = [pc EXCEPT ![f] = section[f].back]
          /\ pc[f] \in {"signal", "broadcast"} /\ section[f].back \in {"free", "in"}
      BY <2>1, <2>2, <2>5, NotifyResumeTypes DEF NotifyResume, SyncTypes, Sections
    <3>2. \A g \in Fibers : Signallable(cond, g) =>
            Signallable(cond', g) \/ pc[g] = "dead" \/ InQueue(sched', g)
      BY <2>1, <2>2, <2>5, NotifyResumeTypes, Zenon DEF Signallable
    <3>3. pc'[f] # "wait" /\ \A g \in Fibers : g # f => pc'[g] = pc[g]
      BY <2>1, <2>2, <3>1
    <3>4. QED
      BY <2>1, <2>2, <2>3, <3>2, <3>3, SleepersStay
  <2>6. ASSUME NEW call \in {"signal", "broadcast"}, Notify(f, call)
        PROVE  SleepersCanBeSignalled'
    <3>1. pc' = [pc EXCEPT ![f] = call] /\ cond'.queue = cond.queue
      BY <2>1, <2>2, <2>6, NotifyTypes
    <3>2. pc'[f] # "wait" /\ \A g \in Fibers : g # f => pc'[g] = pc[g]
      BY <2>1, <2>2, <3>1
    <3>3. \A g \in Fibers : Signallable(cond, g) => Signallable(cond', g)
      BY <3>1, Zenon DEF Signallable
    <3>4. QED
      BY <2>1, <2>2, <2>3, <3>2, <3>3, SleepersStay
  <2>7. CASE \/ \E style \in Styles : Acquire(f, style)
             \/ Reenter(f) \/ TokenResume(f) \/ Leave(f) \/ Die(f) \/ Snooze(f)
             \/ SnoozeResume(f) \/ WaitResume(f)
    <3>1. cond' = cond
      BY <2>7 DEF Acquire, Reenter, TokenResume, Leave, Die, Snooze, SnoozeResume, WaitResume
    <3>2. \/ pc' = pc /\ pc[f] # "wait"
          \/ \E call \in {"free", "lock", "in", "snooze", "reacquire", "dead"} :
                pc' = [pc EXCEPT ![f] = call]
      BY <2>1, <2>2, <2>7 DEF Acquire, Reenter, TokenResume, Leave, Die, Snooze, SnoozeResume,
                              WaitResume, ShiftToken
    <3>3. pc'[f] # "wait" /\ \A g \in Fibers : g # f => pc'[g] = pc[g]
      BY <2>1, <2>2, <3>2
    <3>4. QED
      BY <2>1, <2>2, <2>3, <3>1, <3>3, SleepersStay
  <2>8. QED
    BY <2>2, <2>4, <2>5, <2>6, <2>7, Zenon DEF SyncStep
<1>4. QED
  BY <1>1, <1>2, <1>3 DEF SyncNext

\* The property is inductive once the types are known.
SleepersInv ==
    IF subject = "mutex" THEN SyncTypes /\ SleepersCanBeSignalled ELSE Untouched

\* A fiber that sleeps in ConditionVariable#wait is on the queue from which signal
\* and broadcast take the fibers they schedule (sync.rb), for any mix of styles and
\* any exceptions.
THEOREM SleepersAreSignalled == PrimitivesSpec => []SleepersCanBeSignalled
<1>1. PrimitivesInit => SleepersInv
  <2> SUFFICES ASSUME PrimitivesInit PROVE SleepersInv
    OBVIOUS
  <2>1. SyncTypes
    BY SyncTypesInit DEF PrimitivesInit
  <2>2. mutex.store = 1 /\ mutex.holder = NoFiber /\ pc = [f \in Fibers |-> "free"]
    BY InitScheds DEF PrimitivesInit, InitSync
  <2>3. QED
    BY <2>1, <2>2 DEF SleepersInv, SleepersCanBeSignalled, Untouched, OtherCalls
<1>2. SleepersInv /\ [PrimitivesNext]_primitiveVars => SleepersInv'
  <2> SUFFICES ASSUME SleepersInv, [PrimitivesNext]_primitiveVars PROVE SleepersInv'
    OBVIOUS
  <2>1. CASE UNCHANGED primitiveVars
    BY <2>1 DEF primitiveVars, syncVars, SleepersInv, SyncTypes, Untouched,
                SleepersCanBeSignalled, Sleeping, InQueue, OneTurn
  <2>2. CASE PrimitivesNext /\ subject = "mutex"
    <3>1. subject' = "mutex" /\ ((SwitchFiber /\ UNCHANGED syncVars) \/ SyncNext)
      BY <2>2 DEF PrimitivesNext
    <3>2. SyncTypes /\ SleepersCanBeSignalled
      BY <2>2 DEF SleepersInv
    <3>3. SyncTypes' /\ SleepersCanBeSignalled'
      BY <3>1, <3>2, SyncTypesStep, SleepersStep, Zenon
    <3>4. QED
      BY <3>1, <3>3 DEF SleepersInv
  <2>3. CASE PrimitivesNext /\ subject # "mutex"
    <3>1. /\ subject' # "mutex" /\ UNCHANGED syncVars
          /\ SwitchFiber \/ PoolNext \/ ResourceNext
      BY <2>3 DEF PrimitivesNext
    <3>2. Untouched'
      BY <2>3, <3>1, UntouchedStep DEF SleepersInv
    <3>3. QED
      BY <3>1, <3>2 DEF SleepersInv
  <2>4. QED
    BY <2>1, <2>2, <2>3
<1>3. SleepersInv => SleepersCanBeSignalled
  BY DEF SleepersInv, Untouched, OtherCalls, SleepersCanBeSignalled
<1>4. QED
  BY <1>1, <1>2, <1>3, PTL DEF PrimitivesSpec
-----------------------------------------------------------------------------
\* The state of a resource pool, and what a fiber that uses it can be in.
Pools == [size : Int, stock : Nat, waiters : Seq(Fibers)]

ResourceCalls == {"free", "allocate", "fill", "acquire", "use", "using"}

\* The types of ResourcePool.  A fiber has a resource while it is in acquire's
\* block, and one at most.
ResourceTypes ==
    /\ pool \in Pools
    /\ pc \in [Fibers -> ResourceCalls]
    /\ acquired \subseteq {f \in Fibers : pc[f] \in {"use", "using"}}
    /\ failed \in Nat

\* The property is inductive once the types are known.
ResourceInv == ResourceTypes /\ SizeIsExact

\* The fields of the pool after an assignment.
LEMMA PoolFields ==
  ASSUME NEW p \in Pools, NEW f \in Fibers, NEW n \in Int, NEW k \in Nat, NEW r
  PROVE  /\ r = [p EXCEPT !.waiters = Append(@, f)]
              => r \in Pools /\ r.size = p.size /\ r.stock = p.stock
         /\ r = [p EXCEPT !.waiters = Deleted(@, f)]
              => r \in Pools /\ r.size = p.size /\ r.stock = p.stock
         /\ r = [p EXCEPT !.size = n]
              => r \in Pools /\ r.size = n /\ r.stock = p.stock
         /\ r = [p EXCEPT !.stock = k]
              => r \in Pools /\ r.size = p.size /\ r.stock = k
         /\ r = Stocked(p)
              => r \in Pools /\ r.size = p.size /\ r.stock = p.stock + 1
<1>1. p.waiters \in Seq(Fibers) /\ p.stock \in Nat
  BY DEF Pools
<1>2. ASSUME NEW w \in Seq(Fibers), r = [p EXCEPT !.waiters = w]
      PROVE  r \in Pools /\ r.size = p.size /\ r.stock = p.stock
  BY <1>2 DEF Pools
<1>3. /\ Append(p.waiters, f) \in Seq(Fibers) /\ Deleted(p.waiters, f) \in Seq(Fibers)
      /\ AfterFirst(p.waiters) \in Seq(Fibers)
  BY <1>1, DeletedType DEF AfterFirst
<1>4. r = [p EXCEPT !.size = n] => r \in Pools /\ r.size = n /\ r.stock = p.stock
  BY DEF Pools
<1>5. r = [p EXCEPT !.stock = k] => r \in Pools /\ r.size = p.size /\ r.stock = k
  BY DEF Pools
<1>6. ASSUME r = Stocked(p)
      PROVE  r \in Pools /\ r.size = p.size /\ r.stock = p.stock + 1
  <2> DEFINE w == AfterFirst(p.waiters)
             j == p.stock + 1
  <2>1. r = [p EXCEPT !.stock = j, !.waiters = w] /\ w \in Seq(Fibers) /\ j \in Nat
    BY <1>1, <1>3, <1>6 DEF Stocked
  <2> HIDE DEF w, j
  <2>2. r \in Pools /\ r.size = p.size /\ r.stock = j
    BY <2>1 DEF Pools
  <2>3. QED
    BY <2>2 DEF j
<1>7. QED
  BY <1>2, <1>3, <1>4, <1>5, <1>6

\* The numbers that SizeIsExact adds up.
LEMMA CountsOfPool ==
  ASSUME ResourceTypes
  PROVE  /\ IsFiniteSet(acquired) /\ Cardinality(acquired) \in Nat
         /\ IsFiniteSet(InAllocation) /\ Cardinality(InAllocation) \in Nat
         /\ pool.size \in Int /\ pool.stock \in Nat /\ failed \in Nat
<1>1. acquired \subseteq Fibers /\ InAllocation \subseteq Fibers
  BY DEF ResourceTypes, InAllocation
<1>2. IsFiniteSet(acquired) /\ IsFiniteSet(InAllocation)
  BY <1>1, FibersAssumption, FS_Subset
<1>3. QED
  BY <1>2, FS_CardinalityType DEF ResourceTypes, Pools

\* A fiber begins or ends an allocation; the others go on with theirs.
LEMMA AllocationCount ==
  ASSUME ResourceTypes, NEW f \in Fibers, NEW call \in ResourceCalls,
         pc' = [pc EXCEPT ![f] = call]
  PROVE  /\ pc' \in [Fibers -> ResourceCalls] /\ pc'[f] = call
         /\ \A g \in Fibers : g # f => pc'[g] = pc[g]
         /\ Cardinality(InAllocation') = Cardinality(InAllocation)
              + (IF call \in {"allocate", "fill"} THEN 1 ELSE 0)
              - (IF pc[f] \in {"allocate", "fill"} THEN 1 ELSE 0)
<1>1. /\ pc' \in [Fibers -> ResourceCalls] /\ pc'[f] = call
      /\ \A g \in Fibers : g # f => pc'[g] = pc[g]
  BY DEF ResourceTypes
<1>2. IsFiniteSet(InAllocation) /\ Cardinality(InAllocation) \in Nat
  BY CountsOfPool
<1>3. CASE call \in {"allocate", "fill"}
  <2>1. InAllocation' = InAllocation \cup {f}
    BY <1>1, <1>3 DEF InAllocation
  <2>2. f \in InAllocation <=> pc[f] \in {"allocate", "fill"}
    BY DEF InAllocation
  <2>3. Cardinality(InAllocation \cup {f}) =
          IF f \in InAllocation THEN Cardinality(InAllocation) ELSE Cardinality(InAllocation) + 1
    BY <1>2, FS_AddElement, Zenon
  <2>4. QED
    BY <1>1, <1>2, <1>3, <2>1, <2>2, <2>3
<1>4. CASE call \notin {"allocate", "fill"}
  <2>1. InAllocation' = InAllocation \ {f}
    BY <1>1, <1>4 DEF InAllocation
  <2>2. f \in InAllocation <=> pc[f] \in {"allocate", "fill"}
    BY DEF InAllocation
  <2>3. Cardinality(InAllocation \ {f}) =
          IF f \in InAllocation THEN Cardinality(InAllocation) - 1 ELSE Cardinality(InAllocation)
    BY <1>2, FS_RemoveElement, Zenon
  <2>4. QED
    BY <1>1, <1>2, <1>4, <2>1, <2>2, <2>3
<1>5. QED
  BY <1>3, <1>4

\* What is added on one side is added on the other.
LEMMA BalanceArithmetic ==
  ASSUME NEW z \in Int, NEW y \in Int, NEW k \in Int, NEW j \in Int, NEW a \in Int, NEW h \in Int,
         NEW b \in Int, NEW c \in Int, NEW d \in Int, NEW e \in Int, NEW x \in Int, NEW w \in Int,
         y - z = j - k + h - a + w - x + d - e, c = b + d - e, z = k + a + b + x
  PROVE  y = j + h + c + w
  OBVIOUS

\* The fiber queues up for a resource.
LEMMA ShiftResourceFields ==
  ASSUME NEW f \in Fibers, NEW s, NEW p \in Pools, ShiftResource(f, s, p)
  PROVE  pool' \in Pools /\ pool'.size = p.size /\ pool'.stock = p.stock
<1> DEFINE w == Append(p.waiters, f)
<1>1. pool' = [p EXCEPT !.waiters = w] /\ w \in Seq(Fibers)
  BY DEF ShiftResource, Pools
<1> HIDE DEF w
<1>2. QED
  BY <1>1 DEF Pools

\* How every step of a fiber changes the size, the stock, the fibers that have
\* a resource, and the history of failures.
LEMMA PoolBalance ==
  ASSUME ResourceInv, NEW f \in Fibers, NEW call \in ResourceCalls,
         pc' = [pc EXCEPT ![f] = call],
         pool' \in Pools, failed' \in Nat,
         acquired' \subseteq acquired \cup {f},
         f \in acquired' => call \in {"use", "using"},
         pool'.size <= Limit,
         pool'.size - pool.size =
              pool'.stock - pool.stock + Cardinality(acquired') - Cardinality(acquired)
              + failed' - failed
              + (IF call \in {"allocate", "fill"} THEN 1 ELSE 0)
              - (IF pc[f] \in {"allocate", "fill"} THEN 1 ELSE 0),
         Cardinality(acquired') \in Nat
  PROVE  ResourceInv'
<1>1. ResourceTypes /\ SizeIsExact
  BY DEF ResourceInv
<1>2. /\ pc' \in [Fibers -> ResourceCalls] /\ pc'[f] = call
      /\ \A g \in Fibers : g # f => pc'[g] = pc[g]
      /\ Cardinality(InAllocation') = Cardinality(InAllocation)
           + (IF call \in {"allocate", "fill"} THEN 1 ELSE 0)
           - (IF pc[f] \in {"allocate", "fill"} THEN 1 ELSE 0)
  BY <1>1, AllocationCount
<1>3. ResourceTypes'
  BY <1>1, <1>2 DEF ResourceTypes
<1>4. pool'.size = pool'.stock + Cardinality(acquired') + Cardinality(InAllocation') + failed'
  <2>1. pool'.size \in Int /\ pool'.stock \in Nat
    BY DEF Pools
  <2>2. pool.size = pool.stock + Cardinality(acquired) + Cardinality(InAllocation) + failed
    BY <1>1 DEF SizeIsExact
  <2> DEFINE d == IF call \in {"allocate", "fill"} THEN 1 ELSE 0
             e == IF pc[f] \in {"allocate", "fill"} THEN 1 ELSE 0
             b == Cardinality(InAllocation)
             c == Cardinality(InAllocation')
             a == Cardinality(acquired)
             h == Cardinality(acquired')
             z == pool.size
             y == pool'.size
             k == pool.stock
             j == pool'.stock
             x == failed
             w == failed'
  <2>3. /\ c = b + d - e /\ d \in Int /\ e \in Int
        /\ y - z = j - k + h - a + w - x + d - e
        /\ z = k + a + b + x
    BY <1>2, <2>2
  <2>4. /\ a \in Int /\ b \in Int /\ z \in Int /\ k \in Int /\ x \in Int
        /\ y \in Int /\ j \in Int /\ h \in Int /\ w \in Int
    BY <1>1, <2>1, CountsOfPool
  <2> HIDE DEF a, b, c, d, e, h, z, y, k, j, x, w
  <2>5. c \in Int
    BY <2>3, <2>4
  <2>6. y = j + h + c + w
    <3>1. y - z = (j - k) + (h - a) + (w - x) + (d - e)
      BY <2>3, <2>4
    <3>2. y = z + (j - k) + (h - a) + (w - x) + (d - e)
      BY <3>1, <2>3, <2>4
    <3>3. z + (j - k) + (h - a) + (w - x) + (d - e) = j + h + (b + d - e) + w
      BY <2>3, <2>4
    <3>4. QED
      BY <2>3, <3>2, <3>3
  <2>7. QED
    BY <2>6 DEF c, h, y, j, w
<1>5. SizeIsExact'
  BY <1>4, Zenon DEF SizeIsExact
<1>6. QED
  BY <1>3, <1>5 DEF ResourceInv

\* Every operation of resource_pool.rb changes both sides alike, and the size only
\* where it is below the limit.
LEMMA AcquireBalance ==
  ASSUME ResourceInv, NEW f \in Fibers, AcquireResource(f) \/ Fill(f)
  PROVE  ResourceInv'
<1>1. /\ pool \in Pools /\ pool.size \in Int /\ pool.stock \in Nat /\ failed \in Nat
      /\ Cardinality(acquired) \in Nat /\ pool.size <= Limit /\ Limit \in Nat /\ pc[f] = "free"
      /\ acquired' = acquired /\ failed' = failed /\ f \notin acquired
  BY CountsOfPool, LimitAssumption
     DEF ResourceInv, SizeIsExact, ResourceTypes, AcquireResource, Fill
<1>2. CASE /\ pool' = [pool EXCEPT !.size = @ + 1] /\ pool.size < Limit
           /\ \E call \in {"allocate", "fill"} : pc' = [pc EXCEPT ![f] = call]
  <2> DEFINE n == pool.size + 1
  <2>1. pool' = [pool EXCEPT !.size = n] /\ n \in Int
    BY <1>1, <1>2
  <2> HIDE DEF n
  <2>2. pool' \in Pools /\ pool'.size = n /\ pool'.stock = pool.stock
    BY <1>1, <2>1 DEF Pools
  <2>3. PICK call \in {"allocate", "fill"} : pc' = [pc EXCEPT ![f] = call]
    BY <1>2
  <2>4. call \in ResourceCalls /\ n <= Limit
    BY <1>1, <1>2 DEF ResourceCalls, n
  <2>5. pool'.size - pool.size = pool'.stock - pool.stock
          + Cardinality(acquired') - Cardinality(acquired) + failed' - failed
          + (IF call \in {"allocate", "fill"} THEN 1 ELSE 0)
          - (IF pc[f] \in {"allocate", "fill"} THEN 1 ELSE 0)
    BY <1>1, <2>2 DEF n
  <2>6. QED
    BY <1>1, <2>2, <2>3, <2>4, <2>5, PoolBalance
<1>3. CASE ShiftResource(f, sched, pool)
  <2>1. pool' \in Pools /\ pool'.size = pool.size /\ pool'.stock = pool.stock
    BY <1>1, <1>3, ShiftResourceFields
  <2>2. pc' = [pc EXCEPT ![f] = "acquire"] /\ "acquire" \in ResourceCalls
    BY <1>3 DEF ShiftResource, ResourceCalls
  <2>3. pool'.size - pool.size = pool'.stock - pool.stock
          + Cardinality(acquired') - Cardinality(acquired) + failed' - failed
          + (IF "acquire" \in {"allocate", "fill"} THEN 1 ELSE 0)
          - (IF pc[f] \in {"allocate", "fill"} THEN 1 ELSE 0)
    BY <1>1, <2>1
  <2>4. QED
    BY <1>1, <2>1, <2>2, <2>3, PoolBalance
<1>4. QED
  BY <1>2, <1>3 DEF AcquireResource, Fill, MayAllocate

LEMMA AllocatedBalance ==
  ASSUME ResourceInv, NEW f \in Fibers, Allocated(f)
  PROVE  ResourceInv'
<1> DEFINE p == Stocked(pool)
           s == WakeFirst(sched, pool.waiters)
<1>1. /\ pool \in Pools /\ pool.size \in Int /\ pool.stock \in Nat /\ failed \in Nat
      /\ Cardinality(acquired) \in Nat /\ pool.size <= Limit /\ Limit \in Nat
      /\ pc[f] \in {"allocate", "fill"} /\ acquired' = acquired /\ f \notin acquired
      /\ pc \in [Fibers -> ResourceCalls]
  BY CountsOfPool, LimitAssumption
     DEF ResourceInv, SizeIsExact, ResourceTypes, Allocated
<1>2. p \in Pools /\ p.size = pool.size /\ p.stock = pool.stock + 1
  BY <1>1, PoolFields
<1> HIDE DEF p, s
<1>3. CASE ShiftResource(f, s, p) /\ UNCHANGED failed
  <2>1. pool' \in Pools /\ pool'.size = p.size /\ pool'.stock = p.stock
    BY <1>2, <1>3, ShiftResourceFields
  <2>2. pc' = [pc EXCEPT ![f] = "acquire"] /\ "acquire" \in ResourceCalls
    BY <1>3 DEF ShiftResource, ResourceCalls
  <2>3. pool'.size - pool.size = pool'.stock - pool.stock
          + Cardinality(acquired') - Cardinality(acquired) + failed' - failed
          + (IF "acquire" \in {"allocate", "fill"} THEN 1 ELSE 0)
          - (IF pc[f] \in {"allocate", "fill"} THEN 1 ELSE 0)
    BY <1>1, <1>2, <1>3, <2>1
  <2>4. QED
    BY <1>1, <1>2, <1>3, <2>1, <2>2, <2>3, PoolBalance
<1>4. CASE /\ pc[f] = "fill" /\ p.size < Limit
           /\ pool' = [p EXCEPT !.size = @ + 1] /\ UNCHANGED pc /\ UNCHANGED failed
  <2> DEFINE n == p.size + 1
  <2>1. pool' = [p EXCEPT !.size = n] /\ n \in Int
    BY <1>1, <1>2, <1>4
  <2> HIDE DEF n
  <2>2. pool' \in Pools /\ pool'.size = n /\ pool'.stock = p.stock
    BY <1>2, <2>1 DEF Pools
  <2>3. pc' = [pc EXCEPT ![f] = "fill"] /\ "fill" \in ResourceCalls /\ n <= Limit
    BY <1>1, <1>2, <1>4 DEF ResourceCalls, n
  <2>4. pool'.size - pool.size = pool'.stock - pool.stock
          + Cardinality(acquired') - Cardinality(acquired) + failed' - failed
          + (IF "fill" \in {"allocate", "fill"} THEN 1 ELSE 0)
          - (IF pc[f] \in {"allocate", "fill"} THEN 1 ELSE 0)
    BY <1>1, <1>2, <1>4, <2>2 DEF n
  <2>5. QED
    BY <1>1, <1>4, <2>2, <2>3, <2>4, PoolBalance
<1>5. CASE pool' = p /\ pc' = [pc EXCEPT ![f] = "free"] /\ UNCHANGED failed
  <2>1. "free" \in ResourceCalls
    BY DEF ResourceCalls
  <2>2. pool'.size - pool.size = pool'.stock - pool.stock
          + Cardinality(acquired') - Cardinality(acquired) + failed' - failed
          + (IF "free" \in {"allocate", "fill"} THEN 1 ELSE 0)
          - (IF pc[f] \in {"allocate", "fill"} THEN 1 ELSE 0)
    BY <1>1, <1>2, <1>5
  <2>3. QED
    BY <1>1, <1>2, <1>5, <2>1, <2>2, PoolBalance
<1>6. CASE failed' = failed + 1 /\ pc' = [pc EXCEPT ![f] = "free"] /\ UNCHANGED pool
  <2>1. "free" \in ResourceCalls /\ failed' \in Nat
    BY <1>1, <1>6 DEF ResourceCalls
  <2>2. pool'.size - pool.size = pool'.stock - pool.stock
          + Cardinality(acquired') - Cardinality(acquired) + failed' - failed
          + (IF "free" \in {"allocate", "fill"} THEN 1 ELSE 0)
          - (IF pc[f] \in {"allocate", "fill"} THEN 1 ELSE 0)
    BY <1>1, <1>6
  <2>3. QED
    BY <1>1, <1>6, <2>1, <2>2, PoolBalance
<1>7. QED
  BY <1>3, <1>4, <1>5, <1>6 DEF Allocated, p, s

LEMMA AcquireResumeBalance ==
  ASSUME ResourceInv, NEW f \in Fibers, AcquireResume(f)
  PROVE  ResourceInv'
<1> DEFINE p == [pool EXCEPT !.waiters = Deleted(@, f)]
           round == ShiftRound(f, pool.stock > 0)
<1>1. /\ pool \in Pools /\ pool.size \in Int /\ pool.stock \in Nat /\ failed \in Nat
      /\ Cardinality(acquired) \in Nat /\ pool.size <= Limit /\ IsFiniteSet(acquired)
      /\ pc[f] = "acquire" /\ failed' = failed /\ f \notin acquired
      /\ pc \in [Fibers -> ResourceCalls]
  BY CountsOfPool DEF ResourceInv, SizeIsExact, ResourceTypes, AcquireResume
<1>2. p \in Pools /\ p.size = pool.size /\ p.stock = pool.stock
  BY <1>1, PoolFields
<1> HIDE DEF p
<1>3. CASE pool' = p /\ pc' = [pc EXCEPT ![f] = "free"] /\ acquired' = acquired
  <2>1. "free" \in ResourceCalls
    BY DEF ResourceCalls
  <2>2. pool'.size - pool.size = pool'.stock - pool.stock
          + Cardinality(acquired') - Cardinality(acquired) + failed' - failed
          + (IF "free" \in {"allocate", "fill"} THEN 1 ELSE 0)
          - (IF pc[f] \in {"allocate", "fill"} THEN 1 ELSE 0)
    BY <1>1, <1>2, <1>3
  <2>3. QED
    BY <1>1, <1>2, <1>3, <2>1, <2>2, PoolBalance
<1>4. CASE /\ round = "take" /\ pool' = [p EXCEPT !.stock = @ - 1]
           /\ acquired' = acquired \cup {f} /\ pc' = [pc EXCEPT ![f] = "use"]
  <2> DEFINE k == p.stock - 1
  <2>1. pool.stock > 0
    BY <1>4 DEF ShiftRound
  <2>2. pool' = [p EXCEPT !.stock = k] /\ k \in Nat
    BY <1>1, <1>2, <1>4, <2>1
  <2> HIDE DEF k
  <2>3. pool' \in Pools /\ pool'.size = p.size /\ pool'.stock = k
    BY <1>2, <2>2 DEF Pools
  <2>4. Cardinality(acquired') = Cardinality(acquired) + 1
    BY <1>1, <1>4, FS_AddElement
  <2>5. "use" \in ResourceCalls
    BY DEF ResourceCalls
  <2>6. pool'.size - pool.size = pool'.stock - pool.stock
          + Cardinality(acquired') - Cardinality(acquired) + failed' - failed
          + (IF "use" \in {"allocate", "fill"} THEN 1 ELSE 0)
          - (IF pc[f] \in {"allocate", "fill"} THEN 1 ELSE 0)
    BY <1>1, <1>2, <2>3, <2>4 DEF k
  <2>7. Cardinality(acquired') \in Nat
    BY <1>1, <2>4
  <2>8. QED
    BY <1>1, <1>2, <1>4, <2>3, <2>5, <2>6, <2>7, PoolBalance
<1>5. CASE ShiftResource(f, sched, p) /\ acquired' = acquired
  <2>1. pool' \in Pools /\ pool'.size = p.size /\ pool'.stock = p.stock
    BY <1>2, <1>5, ShiftResourceFields
  <2>2. pc' = [pc EXCEPT ![f] = "acquire"] /\ "acquire" \in ResourceCalls
    BY <1>5 DEF ShiftResource, ResourceCalls
  <2>3. pool'.size - pool.size = pool'.stock - pool.stock
          + Cardinality(acquired') - Cardinality(acquired) + failed' - failed
          + (IF "acquire" \in {"allocate", "fill"} THEN 1 ELSE 0)
          - (IF pc[f] \in {"allocate", "fill"} THEN 1 ELSE 0)
    BY <1>1, <1>2, <1>5, <2>1
  <2>4. QED
    BY <1>1, <1>2, <1>5, <2>1, <2>2, <2>3, PoolBalance
<1>6. QED
  BY <1>3, <1>4, <1>5 DEF AcquireResume, p, round

LEMMA UseBalance ==
  ASSUME ResourceInv, NEW f \in Fibers,
         Use(f) \/ UseResume(f) \/ Discard(f) \/ ReleaseResource(f) \/ ResourceSnooze(f)
  PROVE  ResourceInv'
<1>1. /\ pool \in Pools /\ pool.size \in Int /\ pool.stock \in Nat /\ failed \in Nat
      /\ Cardinality(acquired) \in Nat /\ pool.size <= Limit /\ IsFiniteSet(acquired)
      /\ Limit \in Nat /\ pc \in [Fibers -> ResourceCalls]
      /\ f \in acquired => pc[f] \in {"use", "using"}
  BY CountsOfPool, LimitAssumption DEF ResourceInv, SizeIsExact, ResourceTypes
<1>2. failed' = failed /\ pc[f] \in {"use", "using", "free"}
  BY DEF Use, UseResume, Discard, ReleaseResource, ResourceSnooze, resourceVars
<1>3. /\ IsFiniteSet(acquired \ {f}) /\ Cardinality(acquired \ {f}) \in Nat
      /\ Cardinality(acquired \ {f}) =
           IF f \in acquired THEN Cardinality(acquired) - 1 ELSE Cardinality(acquired)
  BY <1>1, FS_RemoveElement, FS_CardinalityType
<1>4. PICK call \in {"use", "using", "free"} :
        /\ pc' = [pc EXCEPT ![f] = call]
        /\ call = "free" => ReleaseResource(f) \/ ResourceSnooze(f)
  BY <1>1 DEF Use, UseResume, Discard, ReleaseResource, ResourceSnooze
<1>5. call \in ResourceCalls
  BY DEF ResourceCalls
<1>6. CASE pool' = pool /\ acquired' = acquired /\ (f \in acquired => call # "free")
  <2>1. pool'.size - pool.size = pool'.stock - pool.stock
          + Cardinality(acquired') - Cardinality(acquired) + failed' - failed
          + (IF call \in {"allocate", "fill"} THEN 1 ELSE 0)
          - (IF pc[f] \in {"allocate", "fill"} THEN 1 ELSE 0)
    BY <1>1, <1>2, <1>6
  <2>2. f \in acquired' => call \in {"use", "using"}
    BY <1>6
  <2>3. QED
    BY <1>1, <1>2, <1>4, <1>5, <1>6, <2>1, <2>2, PoolBalance
<1>7. CASE f \in acquired /\ acquired' = acquired \ {f} /\ pool' = [pool EXCEPT !.size = @ - 1]
  <2> DEFINE n == pool.size - 1
  <2>1. pool' = [pool EXCEPT !.size = n] /\ n \in Int /\ n <= Limit
    BY <1>1, <1>7
  <2> HIDE DEF n
  <2>2. pool' \in Pools /\ pool'.size = n /\ pool'.stock = pool.stock
    BY <1>1, <2>1 DEF Pools
  <2>3. pool'.size - pool.size = pool'.stock - pool.stock
          + Cardinality(acquired') - Cardinality(acquired) + failed' - failed
          + (IF call \in {"allocate", "fill"} THEN 1 ELSE 0)
          - (IF pc[f] \in {"allocate", "fill"} THEN 1 ELSE 0)
    BY <1>1, <1>2, <1>3, <1>7, <2>2 DEF n
  <2>4. QED
    BY <1>1, <1>2, <1>3, <1>4, <1>5, <1>7, <2>1, <2>2, <2>3, PoolBalance
<1>8. CASE f \in acquired /\ acquired' = acquired \ {f} /\ pool' = Stocked(pool)
  <2>1. pool' \in Pools /\ pool'.size = pool.size /\ pool'.stock = pool.stock + 1
    BY <1>1, <1>8, PoolFields
  <2>2. pool'.size - pool.size = pool'.stock - pool.stock
          + Cardinality(acquired') - Cardinality(acquired) + failed' - failed
          + (IF call \in {"allocate", "fill"} THEN 1 ELSE 0)
          - (IF pc[f] \in {"allocate", "fill"} THEN 1 ELSE 0)
    BY <1>1, <1>2, <1>3, <1>8, <2>1
  <2>3. QED
    BY <1>1, <1>2, <1>3, <1>4, <1>5, <1>8, <2>1, <2>2, PoolBalance
<1>9. QED
  <2>1. CASE Use(f) \/ UseResume(f)
    BY <1>1, <1>2, <1>4, <1>6, <2>1 DEF Use, UseResume, ReleaseResource, ResourceSnooze, resourceVars
  <2>2. CASE Discard(f)
    BY <1>7, <2>2 DEF Discard
  <2>3. CASE ReleaseResource(f)
    <3>1. CASE f \in acquired
      BY <1>8, <2>3, <3>1 DEF ReleaseResource
    <3>2. CASE f \notin acquired
      BY <1>6, <2>3, <3>2 DEF ReleaseResource
    <3>3. QED
      BY <3>1, <3>2
  <2>4. CASE ResourceSnooze(f)
    BY <1>1, <1>6, <2>4 DEF ResourceSnooze, resourceVars
  <2>5. QED
    BY <2>1, <2>2, <2>3, <2>4

\* The invariant holds initially and is kept by every step.
LEMMA ResourceInvInit == InitFibers /\ InitResources => ResourceInv
<1> SUFFICES ASSUME InitFibers, InitResources PROVE ResourceInv
  OBVIOUS
<1>1. /\ pool = [size |-> 0, stock |-> 0, waiters |-> <<>>] /\ acquired = {} /\ failed = 0
      /\ pc = [f \in Fibers |-> "free"]
  BY InitScheds DEF InitResources
<1>2. ResourceTypes
  BY <1>1 DEF ResourceTypes, Pools, ResourceCalls
<1>3. InAllocation = {}
  BY <1>1 DEF InAllocation
<1>4. SizeIsExact
  BY <1>1, <1>3, FS_EmptySet, LimitAssumption DEF SizeIsExact
<1>5. QED
  BY <1>2, <1>4 DEF ResourceInv

LEMMA ResourceInvStep ==
  ASSUME ResourceInv, (SwitchFiber /\ UNCHANGED resourceVars) \/ ResourceNext
  PROVE  ResourceInv'
<1>1. CASE pc' = pc /\ UNCHANGED resourceVars
  BY <1>1 DEF resourceVars, ResourceInv, ResourceTypes, SizeIsExact, InAllocation
<1>2. CASE SwitchFiber /\ UNCHANGED resourceVars
  BY <1>1, <1>2 DEF SwitchFiber
<1>3. ASSUME NEW f \in Fibers, ResourceInterrupt(f) PROVE ResourceInv'
  BY <1>1, <1>3 DEF ResourceInterrupt, Interrupt
<1>4. ASSUME NEW f \in Fibers,
             AcquireResource(f) \/ Fill(f) \/ Allocated(f) \/ AcquireResume(f)
             \/ Use(f) \/ UseResume(f) \/ Discard(f) \/ ReleaseResource(f) \/ ResourceSnooze(f)
      PROVE  ResourceInv'
  BY <1>4, AcquireBalance, AllocatedBalance, AcquireResumeBalance, UseBalance, Zenon
<1>5. QED
  BY <1>2, <1>3, <1>4, Zenon DEF ResourceNext

\* The resource pool as it was created, and fibers that are in other calls.
PoolUntouched ==
    /\ subject \in {"mutex", "threads"}
    /\ pool.size = 0 /\ pool.stock = 0 /\ acquired = {} /\ failed = 0
    /\ subject = "mutex" => SyncTypes
    /\ subject = "threads" => pc \in [Fibers -> {"free", "pushed", "await"}]

\* The invariant, in behaviors about a resource pool and in others.
PoolInv == IF subject = "resources" THEN ResourceInv ELSE PoolUntouched

\* ResourcePool's @size is the number of resources in stock, in use and being
\* allocated, plus those that failed allocations have lost, and never exceeds
\* @limit (resource_pool.rb), although allocations and waits are interrupted.
THEOREM PoolSizeIsExact == PrimitivesSpec => []SizeIsExact
<1>1. PrimitivesInit => PoolInv
  <2> SUFFICES ASSUME PrimitivesInit PROVE PoolInv
    OBVIOUS
  <2>1. /\ pool = [size |-> 0, stock |-> 0, waiters |-> <<>>] /\ acquired = {} /\ failed = 0
        /\ pc = [f \in Fibers |-> "free"] /\ subject \in {"mutex", "threads", "resources"}
        /\ SyncTypes
    BY InitScheds, SyncTypesInit DEF PrimitivesInit, InitResources
  <2>2. ResourceInv
    BY ResourceInvInit DEF PrimitivesInit
  <2>3. QED
    BY <2>1, <2>2 DEF PoolInv, PoolUntouched
<1>2. PoolInv /\ [PrimitivesNext]_primitiveVars => PoolInv'
  <2> SUFFICES ASSUME PoolInv, [PrimitivesNext]_primitiveVars PROVE PoolInv'
    OBVIOUS
  <2>1. CASE UNCHANGED primitiveVars
    BY <2>1 DEF primitiveVars, syncVars, resourceVars, PoolInv, ResourceInv, ResourceTypes,
                SizeIsExact, InAllocation, PoolUntouched, SyncTypes, OneTurn
  <2>2. CASE PrimitivesNext /\ subject = "resources"
    <3>1. subject' = "resources" /\ ((SwitchFiber /\ UNCHANGED resourceVars) \/ ResourceNext)
      BY <2>2 DEF PrimitivesNext
    <3>2. ResourceInv'
      BY <2>2, <3>1, ResourceInvStep, Zenon DEF PoolInv
    <3>3. QED
      BY <3>1, <3>2 DEF PoolInv
  <2>3. CASE PrimitivesNext /\ subject = "mutex"
    <3>1. /\ subject' = "mutex" /\ UNCHANGED resourceVars
          /\ (SwitchFiber /\ UNCHANGED syncVars) \/ SyncNext
      BY <2>3 DEF PrimitivesNext
    <3>2. SyncTypes'
      BY <2>3, <3>1, SyncTypesStep DEF PoolInv, PoolUntouched
    <3>3. QED
      BY <2>3, <3>1, <3>2 DEF PoolInv, PoolUntouched, resourceVars
  <2>4. CASE PrimitivesNext /\ subject \notin {"mutex", "resources"}
    <3>1. subject' = subject /\ UNCHANGED resourceVars /\ (SwitchFiber \/ PoolNext)
      BY <2>4 DEF PrimitivesNext
    <3>2. subject = "threads" /\ pc \in [Fibers -> {"free", "pushed", "await"}]
      BY <2>4 DEF PoolInv, PoolUntouched
    <3>3. pc' \in [Fibers -> {"free", "pushed", "await"}]
      <4>1. CASE SwitchFiber
        BY <3>2, <4>1 DEF SwitchFiber
      <4>2. CASE PoolNext
        BY <3>2, <4>2 DEF PoolNext, Process, AwaitSignaled, AwaitSwitch, AwaitResume, Cast,
                    PoolSnooze, WorkerTake, WorkerDone, WorkerRaises, PoolInterrupt, Interrupt
      <4>3. QED
        BY <3>1, <4>1, <4>2
    <3>4. QED
      BY <2>4, <3>1, <3>2, <3>3 DEF PoolInv, PoolUntouched, resourceVars
  <2>5. QED
    BY <2>1, <2>2, <2>3, <2>4
<1>3. PoolInv => SizeIsExact
  <2>1. CASE subject = "resources"
    BY <2>1 DEF PoolInv, ResourceInv
  <2>2. CASE subject # "resources"
    <3>1. PoolUntouched => InAllocation = {}
      BY DEF PoolUntouched, InAllocation, SyncTypes, SyncCalls
    <3>2. QED
      BY <2>2, <3>1, FS_EmptySet, LimitAssumption DEF PoolInv, PoolUntouched, SizeIsExact
  <2>3. QED
    BY <2>1, <2>2
<1>4. QED
  BY <1>1, <1>2, <1>3, PTL DEF PrimitivesSpec
-----------------------------------------------------------------------------
\* A task, an Event_t, and a fiber's calls of process.
Tasks == [fiber : Fibers \cup {NoFiber}, n : Nat]
Events == [waiting : BOOLEAN, signaled : BOOLEAN, result : Int]
Processes == [n : Nat, got : Int, raised : BOOLEAN, abandoned : BOOLEAN]

\* The types of ThreadPool.  The fiber that runs is not scheduled as well.
PoolTypes ==
    /\ sched \in Scheds /\ OneTurn(sched) /\ ~InQueue(sched, sched.current)
    /\ pc \in [Fibers -> {"free", "pushed", "await"}]
    /\ event \in [Fibers -> Events]
    /\ tasks \in Seq(Tasks)
    /\ worker \in [Workers -> Tasks]
    /\ process \in [Fibers -> Processes]

\* The tasks that are queued or running.
Unfinished == {tasks[i] : i \in DOMAIN tasks} \cup {worker[w] : w \in Workers}

\* A task with an event is queued once, or run by one thread.
OnePlace ==
    /\ \A i, j \in DOMAIN tasks : tasks[i] = tasks[j] /\ tasks[i].fiber # NoFiber => i = j
    /\ \A w, v \in Workers : worker[w] = worker[v] /\ worker[w].fiber # NoFiber => w = v
    /\ \A i \in DOMAIN tasks, w \in Workers : tasks[i] = worker[w] => tasks[i].fiber = NoFiber

\* The fiber runs or will run.
Up(f) == sched.current = f \/ InQueue(sched, f)

\* Only Event_await makes an event wait.
Waits(f) == event[f].waiting => pc[f] = "await"

\* A fiber that is about to await was signaled, or the task that this call queued has
\* not answered yet; one in Event_await was signaled and is scheduled, or its event
\* waits and the task has not answered.
Awaits(f) ==
    /\ pc[f] = "pushed" => event[f].signaled \/ [fiber |-> f, n |-> process[f].n] \in Unfinished
    /\ pc[f] = "await" => IF event[f].signaled THEN Up(f)
                          ELSE event[f].waiting /\ [fiber |-> f, n |-> process[f].n] \in Unfinished

\* A task is a call that was made.
Numbered(f) == \A t \in Unfinished : t.fiber = f => 1 <= t.n /\ t.n <= process[f].n

\* As long as the fiber has given up no call, no answer to an earlier one can come:
\* between calls there is no unfinished task and no unread signal; during a call
\* the one unfinished task is its own, until the signal that it sends, and then the
\* fiber reads the answer, or resumes with it or with an exception.
Loyal(f) ==
    \/ process[f].abandoned
    \/ /\ pc[f] = "free" /\ ~event[f].signaled /\ Answered(process[f].got) = process[f].n
       /\ \A t \in Unfinished : t.fiber # f
    \/ /\ pc[f] \in {"pushed", "await"} /\ ~event[f].signaled
       /\ pc[f] = "await" /\ Up(f) => sched.value[f] = Exc
       /\ \A t \in Unfinished : t.fiber = f => t.n = process[f].n
    \/ /\ pc[f] = "pushed" /\ event[f].signaled /\ Answered(event[f].result) = process[f].n
       /\ \A t \in Unfinished : t.fiber # f
    \/ /\ pc[f] = "await" /\ event[f].signaled
       /\ Answered(sched.value[f]) = process[f].n \/ sched.value[f] = Exc
       /\ \A t \in Unfinished : t.fiber # f

Answers(f) == Waits(f) /\ Awaits(f) /\ Numbered(f) /\ Loyal(f)

\* The inductive invariant for ProcessAnswers.
AnswersInv == PoolTypes /\ OnePlace /\ \A f \in Fibers : Answers(f)

\* The block that a result, or an exception, comes from.
LEMMA AnsweredBy ==
  ASSUME NEW n \in Nat, 1 <= n
  PROVE  /\ Answered(n) = n /\ Answered(Raised(n)) = n
         /\ n # Exc /\ Raised(n) # Exc /\ Raised(n) \in Int
  BY DEF Answered, Raised, Exc

\* The tasks after a push onto the task queue, a shift from it, and the end of a
\* block.
LEMMA TaskAdded ==
  ASSUME PoolTypes, OnePlace, NEW t \in Tasks, t \in Unfinished => t.fiber = NoFiber,
         tasks' = Append(tasks, t), worker' = worker
  PROVE  /\ tasks' \in Seq(Tasks) /\ OnePlace'
         /\ \A u : u \in Unfinished' <=> u \in Unfinished \/ u = t
<1>1. /\ tasks \in Seq(Tasks) /\ tasks' \in Seq(Tasks) /\ Len(tasks) \in Nat
      /\ DOMAIN tasks = 1 .. Len(tasks) /\ DOMAIN tasks' = 1 .. Len(tasks) + 1
      /\ \A i \in DOMAIN tasks : tasks'[i] = tasks[i]
      /\ tasks'[Len(tasks) + 1] = t
  BY DEF PoolTypes
<1>2. DOMAIN tasks' = DOMAIN tasks \cup {Len(tasks) + 1} /\ Len(tasks) + 1 \notin DOMAIN tasks
  BY <1>1
<1>3. \A i \in DOMAIN tasks : tasks[i] = t => t.fiber = NoFiber
  BY DEF Unfinished
<1>4. \A w \in Workers : worker[w] = t => t.fiber = NoFiber
  BY DEF Unfinished
<1>5. OnePlace'
  BY <1>1, <1>2, <1>3, <1>4 DEF OnePlace
<1>6. \A u : u \in Unfinished' <=> u \in Unfinished \/ u = t
  BY <1>1, <1>2, Zenon DEF Unfinished
<1>7. QED
  BY <1>1, <1>5, <1>6

LEMMA TaskTaken ==
  ASSUME PoolTypes, OnePlace, NEW w \in Workers, WorkerTake(w)
  PROVE  /\ tasks' \in Seq(Tasks) /\ worker' \in [Workers -> Tasks] /\ OnePlace'
         /\ \A u : u.fiber # NoFiber => (u \in Unfinished' <=> u \in Unfinished)
<1>1. /\ tasks \in Seq(Tasks) /\ tasks # <<>> /\ tasks' = Tail(tasks)
      /\ worker \in [Workers -> Tasks] /\ worker[w] = NoTask
      /\ worker' = [worker EXCEPT ![w] = Head(tasks)]
  BY DEF PoolTypes, WorkerTake
<1>2. /\ Head(tasks) \in Tasks /\ tasks' \in Seq(Tasks)
      /\ Len(tasks) \in Nat /\ DOMAIN tasks = 1 .. Len(tasks) /\ Len(tasks) > 0
      /\ DOMAIN tasks' = 1 .. Len(tasks) - 1
      /\ \A i \in 1 .. Len(tasks) - 1 : tasks'[i] = tasks[i + 1]
      /\ Head(tasks) = tasks[1]
  BY <1>1
<1>3. /\ worker' \in [Workers -> Tasks] /\ worker'[w] = tasks[1]
      /\ \A v \in Workers : v # w => worker'[v] = worker[v]
      /\ worker[w].fiber = NoFiber
  BY <1>1, <1>2 DEF NoTask
<1>4. /\ 1 \in DOMAIN tasks /\ \A i \in DOMAIN tasks' : i + 1 \in DOMAIN tasks /\ i + 1 # 1
      /\ \A i \in DOMAIN tasks : i # 1 => i - 1 \in DOMAIN tasks' /\ tasks'[i - 1] = tasks[i]
      /\ \A i \in DOMAIN tasks' : tasks'[i] = tasks[i + 1]
      /\ \A i, j \in DOMAIN tasks' : i + 1 = j + 1 => i = j
  BY <1>2
<1>5. OnePlace'
  <2>1. \A i, j \in DOMAIN tasks' : tasks'[i] = tasks'[j] /\ tasks'[i].fiber # NoFiber => i = j
    BY <1>4 DEF OnePlace
  <2>2. \A u, v \in Workers : worker'[u] = worker'[v] /\ worker'[u].fiber # NoFiber => u = v
    BY <1>3, <1>4 DEF OnePlace
  <2>3. \A i \in DOMAIN tasks', v \in Workers : tasks'[i] = worker'[v] => tasks'[i].fiber = NoFiber
    BY <1>3, <1>4 DEF OnePlace
  <2>4. QED
    BY <2>1, <2>2, <2>3, Zenon DEF OnePlace
<1>6. ASSUME NEW u, u.fiber # NoFiber
      PROVE  u \in Unfinished' <=> u \in Unfinished
  <2>1. u \in Unfinished' => u \in Unfinished
    BY <1>3, <1>4 DEF Unfinished
  <2>2. u \in Unfinished => u \in Unfinished'
    <3>1. CASE \E i \in DOMAIN tasks : u = tasks[i]
      BY <1>3, <1>4, <3>1 DEF Unfinished
    <3>2. CASE \E v \in Workers : u = worker[v]
      BY <1>3, <1>6, <3>2, Zenon DEF Unfinished
    <3>3. QED
      BY <3>1, <3>2, Zenon DEF Unfinished
  <2>3. QED
    BY <2>1, <2>2
<1>7. QED
  BY <1>2, <1>3, <1>5, <1>6

LEMMA TaskDone ==
  ASSUME PoolTypes, OnePlace, NEW w \in Workers, NEW idle \in {NoTask, Ended},
         tasks' = tasks, worker' = [worker EXCEPT ![w] = idle]
  PROVE  /\ worker' \in [Workers -> Tasks] /\ OnePlace'
         /\ \A u : u.fiber # NoFiber => (u \in Unfinished' <=> u \in Unfinished /\ u # worker[w])
<1>1. idle \in Tasks /\ idle.fiber = NoFiber
  BY DEF NoTask, Ended, Tasks
<1>2. /\ worker' \in [Workers -> Tasks] /\ worker'[w] = idle
      /\ \A v \in Workers : v # w => worker'[v] = worker[v]
  BY <1>1 DEF PoolTypes
<1>3. OnePlace'
  BY <1>1, <1>2, Zenon DEF OnePlace
<1>4. ASSUME NEW u, u.fiber # NoFiber
      PROVE  u \in Unfinished' <=> u \in Unfinished /\ u # worker[w]
  <2>1. u \in Unfinished' => u \in Unfinished /\ u # worker[w]
    BY <1>1, <1>2, <1>4 DEF Unfinished, OnePlace
  <2>2. u \in Unfinished /\ u # worker[w] => u \in Unfinished'
    BY <1>1, <1>2, <1>4, Zenon DEF Unfinished
  <2>3. QED
    BY <2>1, <2>2
<1>5. QED
  BY <1>2, <1>3, <1>4

\* A fiber that a step does not concern.
LEMMA AnswersKept ==
  ASSUME NEW g \in Fibers, Answers(g), pc'[g] = pc[g], event'[g] = event[g], process'[g] = process[g],
         pc[g] = "await" => sched'.value[g] = sched.value[g] /\ (Up(g)' <=> Up(g)),
         \A u : u.fiber = g => (u \in Unfinished' <=> u \in Unfinished)
  PROVE  Answers(g)'
<1>1. Awaits(g)' /\ Waits(g)'
  BY DEF Answers, Awaits, Waits
<1>2. Numbered(g)'
  BY Zenon DEF Answers, Numbered
<1>3. Loyal(g)'
  <2>0. Loyal(g)
    BY DEF Answers
  <2>1. CASE process[g].abandoned
    BY <2>1, Zenon DEF Loyal
  <2>2. CASE pc[g] = "free" /\ ~process[g].abandoned
    BY <2>0, <2>2, Zenon DEF Loyal
  <2>3. CASE pc[g] = "pushed" /\ ~process[g].abandoned
    <3>1. \/ /\ ~event[g].signaled
             /\ \A t \in Unfinished : t.fiber = g => t.n = process[g].n
          \/ /\ event[g].signaled /\ Answered(event[g].result) = process[g].n
             /\ \A t \in Unfinished : t.fiber # g
      BY <2>0, <2>3, Zenon DEF Loyal
    <3>2. \/ /\ ~event'[g].signaled
             /\ \A t \in Unfinished' : t.fiber = g => t.n = process'[g].n
          \/ /\ event'[g].signaled /\ Answered(event'[g].result) = process'[g].n
             /\ \A t \in Unfinished' : t.fiber # g
      BY <3>1, Zenon
    <3>3. pc'[g] = "pushed" /\ pc'[g] # "await" /\ pc'[g] \in {"pushed", "await"}
      BY <2>3
    <3>4. QED
      BY <3>2, <3>3, Zenon DEF Loyal
  <2>4. CASE pc[g] = "await" /\ ~process[g].abandoned
    BY <2>0, <2>4, Zenon DEF Loyal
  <2>5. QED
    BY <2>0, <2>1, <2>2, <2>3, <2>4, Zenon DEF Loyal
<1>4. QED
  BY <1>1, <1>2, <1>3 DEF Answers

\* The operations of thread_pool.rb and event.c keep the invariant.
LEMMA AnswersAwaitResume ==
  ASSUME AnswersInv, NEW f \in Fibers, sched.current = f, AwaitResume(f)
  PROVE  AnswersInv'
<1> DEFINE v == sched.value[f]
           given == process[f].abandoned \/ v = Exc
           raised == IS_EXCEPTION(v)
           p == [n |-> process[f].n, got |-> v, raised |-> raised, abandoned |-> given]
<1>1. /\ PoolTypes /\ OnePlace /\ \A g \in Fibers : Answers(g)
      /\ pc[f] = "await" /\ pc' = [pc EXCEPT ![f] = "free"] /\ event' = [event EXCEPT ![f] = NoEvent]
      /\ process' = [process EXCEPT ![f] = p]
      /\ sched' = sched /\ tasks' = tasks /\ worker' = worker
  BY Zenon DEF AnswersInv, AwaitResume, Awaited
<1>2. /\ v \in Int /\ given \in BOOLEAN /\ raised \in BOOLEAN
      /\ NoEvent \in Events /\ ~NoEvent.signaled /\ ~NoEvent.waiting
  <2>1. process[f] \in Processes /\ v \in Int
    BY <1>1 DEF PoolTypes, Scheds
  <2>2. NoEvent \in Events /\ ~NoEvent.signaled /\ ~NoEvent.waiting
    BY DEF NoEvent, Events, Nil
  <2>3. raised \in BOOLEAN
    BY <2>1 DEF IS_EXCEPTION
  <2>4. QED
    BY <2>1, <2>2, <2>3
<1>3. Loyal(f) /\ Up(f)
  BY <1>1 DEF Answers, Up
<1>4. ~given => Answered(v) = process[f].n /\ \A t \in Unfinished : t.fiber # f
  BY <1>1, <1>3, Zenon DEF Loyal
<1>n. process[f].n \in Nat /\ process \in [Fibers -> Processes]
  BY <1>1 DEF PoolTypes, Processes
<1> HIDE DEF v, given, raised
<1>p. p \in Processes /\ p.got = v /\ p.n = process[f].n /\ p.abandoned = given
  BY <1>2, <1>n DEF Processes
<1> HIDE DEF p
<1>5. /\ process' \in [Fibers -> Processes] /\ process'[f] = p
      /\ process'[f].got = v /\ process'[f].n = process[f].n
      /\ \A g \in Fibers : g # f => process'[g] = process[g]
  BY <1>1, <1>n, <1>p
<1>6. process'[f].abandoned = given
  BY <1>5, <1>p, Zenon
<1>7. PoolTypes'
  BY <1>1, <1>2, <1>5 DEF PoolTypes
<1>8. OnePlace' /\ Unfinished' = Unfinished
  BY <1>1 DEF OnePlace, Unfinished
<1>9. Answers(f)'
  <2>1. pc'[f] = "free" /\ event'[f] = NoEvent
    BY <1>1 DEF PoolTypes
  <2>2. Awaits(f)' /\ Waits(f)'
    BY <1>2, <2>1 DEF Awaits, Waits
  <2>3. Numbered(f)'
    BY <1>1, <1>5, <1>8 DEF Answers, Numbered
  <2>4. Loyal(f)'
    <3>1. CASE given
      BY <1>6, <3>1, Zenon DEF Loyal
    <3>2. CASE ~given
      <4>1. Answered(process'[f].got) = process'[f].n /\ ~event'[f].signaled
        BY <1>2, <1>4, <1>5, <2>1, <3>2
      <4>2. \A t \in Unfinished' : t.fiber # f
        BY <1>4, <1>8, <3>2
      <4>3. QED
        BY <2>1, <4>1, <4>2, Zenon DEF Loyal
    <3>3. QED
      BY <3>1, <3>2
  <2>5. QED
    BY <2>2, <2>3, <2>4 DEF Answers
<1>10. ASSUME NEW g \in Fibers, g # f PROVE Answers(g)'
  <2>1. pc'[g] = pc[g] /\ event'[g] = event[g] /\ process'[g] = process[g] /\ Answers(g)
    BY <1>1, <1>5, <1>10 DEF PoolTypes
  <2>2. sched'.value[g] = sched.value[g] /\ (Up(g)' <=> Up(g))
    BY <1>1 DEF Up
  <2>3. QED
    BY <1>8, <2>1, <2>2, AnswersKept
<1>11. QED
  BY <1>7, <1>8, <1>9, <1>10 DEF AnswersInv

\* What Event_await assigns to an event.
LEMMA EventFields ==
  ASSUME NEW e \in Events
  PROVE  /\ [e EXCEPT !.signaled = FALSE, !.result = Nil] \in Events
         /\ [e EXCEPT !.signaled = FALSE, !.result = Nil].waiting = e.waiting
         /\ ~[e EXCEPT !.signaled = FALSE, !.result = Nil].signaled
         /\ [e EXCEPT !.waiting = TRUE] \in Events
         /\ [e EXCEPT !.waiting = TRUE].waiting
         /\ [e EXCEPT !.waiting = TRUE].signaled = e.signaled
<1>1. Nil \in Int
  BY PlainValue
<1>2. [e EXCEPT !.signaled = FALSE, !.result = Nil] \in Events
  BY <1>1 DEF Events
<1>6. [e EXCEPT !.signaled = FALSE, !.result = Nil].waiting = e.waiting
  BY DEF Events
<1>7. ~[e EXCEPT !.signaled = FALSE, !.result = Nil].signaled
  BY DEF Events
<1>3. [e EXCEPT !.waiting = TRUE] \in Events /\ [e EXCEPT !.waiting = TRUE].waiting
  BY DEF Events
<1>4. [e EXCEPT !.waiting = TRUE].signaled = e.signaled
  BY DEF Events
<1>5. QED
  BY <1>2, <1>3, <1>4, <1>6, <1>7

LEMMA AnswersProcess ==
  ASSUME AnswersInv, NEW f \in Fibers, sched.current = f, Process(f)
  PROVE  AnswersInv'
<1> DEFINE n == process[f].n + 1
           t == [fiber |-> f, n |-> n]
           p == [n |-> n, got |-> Nil, raised |-> FALSE, abandoned |-> process[f].abandoned]
<1>1. /\ PoolTypes /\ OnePlace /\ \A g \in Fibers : Answers(g)
      /\ pc[f] = "free" /\ tasks' = Append(tasks, t) /\ worker' = worker
      /\ process' = [process EXCEPT ![f] = p] /\ event' = event /\ sched' = sched
      /\ pc' = [pc EXCEPT ![f] = "pushed"]
  BY Zenon DEF AnswersInv, Process
<1>2. /\ process[f] \in Processes /\ process[f].n \in Nat /\ n \in Nat /\ n = process[f].n + 1
      /\ f # NoFiber
  BY <1>1, FibersAssumption DEF PoolTypes, Processes
<1> HIDE DEF n
<1>3. t \in Tasks /\ t.fiber = f /\ t.n = n
  BY <1>2 DEF Tasks
<1>p. p \in Processes /\ p.n = n /\ p.abandoned = process[f].abandoned
  BY <1>2 DEF Processes, Nil
<1> HIDE DEF t, p
<1>4. t \notin Unfinished
  BY <1>1, <1>2, <1>3 DEF Answers, Numbered
<1>5. /\ tasks' \in Seq(Tasks) /\ OnePlace'
      /\ \A u : u \in Unfinished' <=> u \in Unfinished \/ u = t
  BY <1>1, <1>3, <1>4, TaskAdded
<1>6. /\ process' \in [Fibers -> Processes] /\ process'[f] = p
      /\ \A g \in Fibers : g # f => process'[g] = process[g]
  BY <1>1, <1>p DEF PoolTypes
<1>7. /\ pc' \in [Fibers -> {"free", "pushed", "await"}] /\ pc'[f] = "pushed"
      /\ \A g \in Fibers : g # f => pc'[g] = pc[g]
  BY <1>1 DEF PoolTypes
<1>8. PoolTypes'
  BY <1>1, <1>5, <1>6, <1>7 DEF PoolTypes
<1>9. Numbered(f)'
  <2>1. ASSUME NEW u \in Unfinished', u.fiber = f PROVE 1 <= u.n /\ u.n <= n
    <3>1. CASE u = t
      BY <1>2, <1>3, <3>1
    <3>2. CASE u \in Unfinished
      <4>1. 1 <= u.n /\ u.n <= process[f].n
        BY <1>1, <2>1, <3>2 DEF Answers, Numbered
      <4>2. u \in Tasks
        BY <1>1, <3>2 DEF PoolTypes, Unfinished
      <4>3. u.n \in Nat
        BY <4>2 DEF Tasks
      <4>4. QED
        BY <1>2, <4>1, <4>3
    <3>3. QED
      BY <1>5, <2>1, <3>1, <3>2
  <2>2. QED
    BY <1>6, <1>p, <2>1 DEF Numbered
<1>10. Waits(f)' /\ Awaits(f)'
  <2>1. Waits(f) /\ ~event[f].waiting
    BY <1>1 DEF Answers, Waits
  <2>2. [fiber |-> f, n |-> process'[f].n] = t
    BY <1>6, <1>p DEF t
  <2>3. QED
    BY <1>1, <1>5, <1>7, <2>1, <2>2, Zenon DEF Waits, Awaits
<1>11. Loyal(f)'
  <2>1. CASE process[f].abandoned
    BY <1>6, <1>p, <2>1, Zenon DEF Loyal
  <2>2. CASE ~process[f].abandoned
    <3>1. ~event[f].signaled /\ \A u \in Unfinished : u.fiber # f
      BY <1>1, <2>2, Zenon DEF Answers, Loyal
    <3>2. \A u \in Unfinished' : u.fiber = f => u.n = process'[f].n
      BY <1>3, <1>5, <1>6, <1>p, <3>1
    <3>3. QED
      BY <1>1, <1>7, <3>1, <3>2, Zenon DEF Loyal
  <2>3. QED
    BY <2>1, <2>2
<1>12. ASSUME NEW g \in Fibers, g # f PROVE Answers(g)'
  <2>1. Up(g)' <=> Up(g)
    BY <1>1 DEF Up
  <2>2. \A u : u.fiber = g => (u \in Unfinished' <=> u \in Unfinished)
    BY <1>3, <1>5, <1>12
  <2>3. QED
    BY <1>1, <1>6, <1>7, <1>12, <2>1, <2>2, AnswersKept
<1>13. QED
  BY <1>5, <1>8, <1>9, <1>10, <1>11, <1>12 DEF AnswersInv, Answers

LEMMA AnswersSignaled ==
  ASSUME AnswersInv, NEW f \in Fibers, sched.current = f, AwaitSignaled(f)
  PROVE  AnswersInv'
<1>1. /\ PoolTypes /\ OnePlace /\ \A g \in Fibers : Answers(g)
      /\ pc[f] = "pushed" /\ event[f].signaled
      /\ event' = [event EXCEPT ![f].signaled = FALSE, ![f].result = Nil]
      /\ process' = [process EXCEPT ![f].got = event[f].result]
      /\ pc' = [pc EXCEPT ![f] = "free"]
      /\ sched' = sched /\ tasks' = tasks /\ worker' = worker
  BY Zenon DEF AnswersInv, AwaitSignaled
<1>2. event[f] \in Events /\ event[f].result \in Int
  BY <1>1 DEF PoolTypes, Events
<1> DEFINE p == [process[f] EXCEPT !.got = event[f].result]
<1>n. process \in [Fibers -> Processes] /\ process[f] \in Processes
  BY <1>1 DEF PoolTypes
<1>p. p \in Processes /\ p.got = event[f].result /\ p.n = process[f].n
  BY <1>2, <1>n DEF Processes
<1>q. p.abandoned = process[f].abandoned
  BY <1>n DEF Processes
<1>r. process' = [process EXCEPT ![f] = p]
  BY <1>1, Zenon
<1> HIDE DEF p
<1>3. /\ process' \in [Fibers -> Processes] /\ process'[f] = p
      /\ process'[f].n = process[f].n /\ process'[f].got = event[f].result
      /\ \A g \in Fibers : g # f => process'[g] = process[g]
  BY <1>n, <1>p, <1>r
<1>4. process'[f].abandoned = process[f].abandoned
  BY <1>3, <1>q, Zenon
<1>5. /\ event' \in [Fibers -> Events]
      /\ event'[f].waiting = event[f].waiting /\ ~event'[f].signaled
      /\ \A g \in Fibers : g # f => event'[g] = event[g]
  <2> DEFINE e == [event[f] EXCEPT !.signaled = FALSE, !.result = Nil]
  <2>0. event \in [Fibers -> Events]
    BY <1>1 DEF PoolTypes
  <2>1. e \in Events /\ e.waiting = event[f].waiting /\ ~e.signaled
    BY <1>2, EventFields, Zenon
  <2>2. event' = [event EXCEPT ![f] = e]
    BY <1>1, Zenon
  <2> HIDE DEF e
  <2>3. event' \in [Fibers -> Events] /\ event'[f] = e /\ \A g \in Fibers : g # f => event'[g] = event[g]
    BY <2>0, <2>1, <2>2
  <2>4. QED
    BY <2>1, <2>3, Zenon
<1>6. /\ pc' \in [Fibers -> {"free", "pushed", "await"}] /\ pc'[f] = "free"
      /\ \A g \in Fibers : g # f => pc'[g] = pc[g]
  BY <1>1 DEF PoolTypes
<1>7. PoolTypes'
  BY <1>1, <1>3, <1>5, <1>6 DEF PoolTypes
<1>8. OnePlace' /\ Unfinished' = Unfinished
  BY <1>1 DEF OnePlace, Unfinished
<1>9. Answers(f)'
  <2>1. Waits(f)' /\ Awaits(f)' /\ Numbered(f)'
    BY <1>1, <1>3, <1>5, <1>6, <1>8 DEF Answers, Waits, Awaits, Numbered
  <2>2. Loyal(f)'
    <3>1. CASE process[f].abandoned
      BY <1>4, <3>1, Zenon DEF Loyal
    <3>2. CASE ~process[f].abandoned
      <4>1. Loyal(f)
        BY <1>1 DEF Answers
      <4>2. Answered(event[f].result) = process[f].n /\ \A u \in Unfinished : u.fiber # f
        BY <1>1, <3>2, <4>1, Zenon DEF Loyal
      <4>3. Answered(process'[f].got) = process'[f].n /\ \A u \in Unfinished' : u.fiber # f
        BY <1>3, <1>8, <4>2
      <4>4. QED
        BY <1>5, <1>6, <4>3, Zenon DEF Loyal
    <3>3. QED
      BY <3>1, <3>2
  <2>3. QED
    BY <2>1, <2>2 DEF Answers
<1>10. ASSUME NEW g \in Fibers, g # f PROVE Answers(g)'
  <2>1. Up(g)' <=> Up(g)
    BY <1>1 DEF Up
  <2>2. QED
    BY <1>1, <1>3, <1>5, <1>6, <1>8, <1>10, <2>1, AnswersKept
<1>11. QED
  BY <1>7, <1>8, <1>9, <1>10 DEF AnswersInv

LEMMA AnswersSwitchAway ==
  ASSUME AnswersInv, NEW f \in Fibers, sched.current = f, AwaitSwitch(f)
  PROVE  AnswersInv'
<1>1. /\ PoolTypes /\ OnePlace /\ \A g \in Fibers : Answers(g)
      /\ pc[f] = "pushed" /\ ~event[f].signaled
      /\ event' = [event EXCEPT ![f].waiting = TRUE] /\ sched' = Away(sched)
      /\ pc' = [pc EXCEPT ![f] = "await"]
      /\ process' = process /\ tasks' = tasks /\ worker' = worker
  BY Zenon DEF AnswersInv, AwaitSwitch
<1>2. /\ event' \in [Fibers -> Events] /\ event'[f].waiting /\ ~event'[f].signaled
      /\ \A g \in Fibers : g # f => event'[g] = event[g]
  <2> DEFINE e == [event[f] EXCEPT !.waiting = TRUE]
  <2>1. event \in [Fibers -> Events] /\ event[f] \in Events /\ ~event[f].signaled
    BY <1>1 DEF PoolTypes
  <2>2. e \in Events /\ e.waiting /\ ~e.signaled
    BY <2>1, EventFields, Zenon
  <2>3. event' = [event EXCEPT ![f] = e]
    BY <1>1, Zenon
  <2> HIDE DEF e
  <2>4. event' \in [Fibers -> Events] /\ event'[f] = e /\ \A g \in Fibers : g # f => event'[g] = event[g]
    BY <2>1, <2>2, <2>3
  <2>5. QED
    BY <2>2, <2>4, Zenon
<1>3. /\ pc' \in [Fibers -> {"free", "pushed", "await"}] /\ pc'[f] = "await"
      /\ \A g \in Fibers : g # f => pc'[g] = pc[g]
  BY <1>1 DEF PoolTypes
<1>4. /\ sched' \in Scheds /\ sched'.current = NoFiber
      /\ sched'.queue = sched.queue /\ sched'.value = sched.value
  BY <1>1 DEF PoolTypes, Away, Scheds
<1>5. \A g : InQueue(sched', g) <=> InQueue(sched, g)
  BY <1>4 DEF InQueue
<1>6. PoolTypes'
  <2>1. \A g : InQueue(sched, g) => g \in Fibers
    BY <1>1 DEF PoolTypes, Scheds, InQueue
  <2>2. ~InQueue(sched', sched'.current)
    BY <1>4, <1>5, <2>1, FibersAssumption, Zenon
  <2>3. OneTurn(sched')
    BY <1>1, <1>4 DEF PoolTypes, OneTurn
  <2>4. QED
    BY <1>1, <1>2, <1>3, <1>4, <2>2, <2>3 DEF PoolTypes
<1>7. OnePlace' /\ Unfinished' = Unfinished
  BY <1>1 DEF OnePlace, Unfinished
<1>8. Answers(f)'
  <2>1. [fiber |-> f, n |-> process[f].n] \in Unfinished
    BY <1>1 DEF Answers, Awaits
  <2>2. Waits(f)' /\ Awaits(f)'
    BY <1>1, <1>2, <1>3, <1>7, <2>1, Zenon DEF Waits, Awaits
  <2>3. Numbered(f)'
    BY <1>1, <1>7 DEF Answers, Numbered
  <2>4. ~Up(f)'
    BY <1>1, <1>4, <1>5, FibersAssumption DEF Up, PoolTypes
  <2>5. Loyal(f)'
    <3>1. CASE process[f].abandoned
      BY <1>1, <3>1, Zenon DEF Loyal
    <3>2. CASE ~process[f].abandoned
      <4>1. Loyal(f)
        BY <1>1 DEF Answers
      <4>2. \A u \in Unfinished : u.fiber = f => u.n = process[f].n
        BY <1>1, <3>2, <4>1, Zenon DEF Loyal
      <4>3. \A u \in Unfinished' : u.fiber = f => u.n = process'[f].n
        BY <1>1, <1>7, <4>2
      <4>4. QED
        BY <1>2, <1>3, <2>4, <4>3, Zenon DEF Loyal
    <3>3. QED
      BY <3>1, <3>2
  <2>6. QED
    BY <2>2, <2>3, <2>5 DEF Answers
<1>9. ASSUME NEW g \in Fibers, g # f PROVE Answers(g)'
  <2>1. Up(g)' <=> Up(g)
    BY <1>1, <1>4, <1>5, <1>9, FibersAssumption DEF Up
  <2>2. QED
    BY <1>1, <1>2, <1>3, <1>4, <1>7, <1>9, <2>1, AnswersKept
<1>10. QED
  BY <1>6, <1>7, <1>8, <1>9 DEF AnswersInv

LEMMA AnswersQuiet ==
  ASSUME AnswersInv, NEW f \in Fibers, sched.current = f, Cast(f) \/ PoolSnooze(f)
  PROVE  AnswersInv'
<1>1. PoolTypes /\ OnePlace /\ \A g \in Fibers : Answers(g)
  BY DEF AnswersInv
<1>2. CASE Cast(f)
  <2> DEFINE t == CastTask
  <2>1. /\ tasks' = Append(tasks, t) /\ worker' = worker
        /\ sched' = sched /\ pc' = pc /\ event' = event /\ process' = process
    BY <1>2 DEF Cast
  <2>2. t \in Tasks /\ t.fiber = NoFiber
    BY DEF Tasks, CastTask
  <2> HIDE DEF t
  <2>3. /\ tasks' \in Seq(Tasks) /\ OnePlace'
        /\ \A u : u \in Unfinished' <=> u \in Unfinished \/ u = t
    BY <1>1, <2>1, <2>2, TaskAdded
  <2>4. PoolTypes'
    BY <1>1, <2>1, <2>3 DEF PoolTypes
  <2>5. ASSUME NEW g \in Fibers PROVE Answers(g)'
    <3>1. \A u : u.fiber = g => (u \in Unfinished' <=> u \in Unfinished)
      BY <2>2, <2>3, FibersAssumption
    <3>2. Up(g)' <=> Up(g)
      BY <2>1 DEF Up
    <3>3. QED
      BY <1>1, <2>1, <3>1, <3>2, AnswersKept
  <2>6. QED
    BY <2>3, <2>4, <2>5 DEF AnswersInv
<1>3. CASE PoolSnooze(f)
  <2> DEFINE r == MakeRunnable(sched, f, Nil)
  <2>1. /\ pc[f] = "free" /\ sched' = Away(r) /\ pc' = pc
        /\ tasks' = tasks /\ worker' = worker /\ event' = event /\ process' = process
    BY <1>3 DEF PoolSnooze, poolVars
  <2>2. r = MakeRunnable(sched, f, Nil) /\ sched \in Scheds /\ OneTurn(sched)
    BY <1>1 DEF PoolTypes
  <2> HIDE DEF r
  <2>3. /\ r \in Scheds /\ OneTurn(r)
        /\ \A g \in Fibers : g # f => (InQueue(r, g) <=> InQueue(sched, g))
        /\ \A g \in Fibers : g # f => r.value[g] = sched.value[g]
    BY <2>2, MadeRunnable, PlainValue
  <2>4. /\ sched' \in Scheds /\ sched'.current = NoFiber
        /\ sched'.queue = r.queue /\ sched'.value = r.value
    BY <2>1, <2>3 DEF Away, Scheds
  <2>5. /\ OneTurn(sched') /\ \A g : InQueue(sched', g) <=> InQueue(r, g)
    BY <2>3, <2>4 DEF OneTurn, InQueue
  <2>6. ~InQueue(sched', sched'.current)
    BY <2>4, FibersAssumption DEF InQueue, Scheds
  <2>7. PoolTypes'
    BY <1>1, <2>1, <2>4, <2>5, <2>6 DEF PoolTypes
  <2>8. OnePlace' /\ Unfinished' = Unfinished
    BY <1>1, <2>1 DEF OnePlace, Unfinished
  <2>9. ASSUME NEW g \in Fibers PROVE Answers(g)'
    <3>1. CASE g = f
      BY <1>1, <2>1, <2>8, <3>1, AnswersKept
    <3>2. CASE g # f
      <4>1. (Up(g)' <=> Up(g)) /\ sched'.value[g] = sched.value[g]
        BY <2>3, <2>4, <2>5, <3>2, FibersAssumption DEF Up
      <4>2. QED
        BY <1>1, <2>1, <2>8, <4>1, AnswersKept
    <3>3. QED
      BY <3>1, <3>2
  <2>10. QED
    BY <2>7, <2>8, <2>9 DEF AnswersInv
<1>4. QED
  BY <1>2, <1>3

LEMMA AnswersTake ==
  ASSUME AnswersInv, NEW w \in Workers, WorkerTake(w)
  PROVE  AnswersInv'
<1>1. /\ PoolTypes /\ OnePlace /\ \A g \in Fibers : Answers(g)
      /\ sched' = sched /\ pc' = pc /\ event' = event /\ process' = process
  BY DEF AnswersInv, WorkerTake
<1>2. /\ tasks' \in Seq(Tasks) /\ worker' \in [Workers -> Tasks] /\ OnePlace'
      /\ \A u : u.fiber # NoFiber => (u \in Unfinished' <=> u \in Unfinished)
  BY <1>1, TaskTaken
<1>3. PoolTypes'
  BY <1>1, <1>2 DEF PoolTypes
<1>4. ASSUME NEW g \in Fibers PROVE Answers(g)'
  <2>1. \A u : u.fiber = g => (u \in Unfinished' <=> u \in Unfinished)
    BY <1>2, FibersAssumption
  <2>2. Up(g)' <=> Up(g)
    BY <1>1 DEF Up
  <2>3. QED
    BY <1>1, <2>1, <2>2, AnswersKept
<1>5. QED
  BY <1>2, <1>3, <1>4 DEF AnswersInv

LEMMA AnswersSwitch ==
  ASSUME AnswersInv, SwitchFiber, UNCHANGED poolVars
  PROVE  AnswersInv'
<1>1. /\ PoolTypes /\ OnePlace /\ \A g \in Fibers : Answers(g) /\ sched.current = NoFiber
      /\ tasks' = tasks /\ worker' = worker /\ event' = event /\ process' = process
  BY DEF AnswersInv, SwitchFiber, poolVars
<1>2. /\ sched' \in Scheds /\ OneTurn(sched') /\ pc' = pc
      /\ sched'.value = sched.value
      /\ sched'.current \in Fibers /\ ~InQueue(sched', sched'.current)
      /\ \A g \in Fibers : InQueue(sched, g) <=> InQueue(sched', g) \/ sched'.current = g
  BY <1>1, SwitchTypes DEF PoolTypes
<1>3. PoolTypes'
  BY <1>1, <1>2 DEF PoolTypes
<1>4. OnePlace' /\ Unfinished' = Unfinished
  BY <1>1 DEF OnePlace, Unfinished
<1>5. ASSUME NEW g \in Fibers PROVE Answers(g)'
  <2>1. Up(g)' <=> Up(g)
    BY <1>1, <1>2, FibersAssumption DEF Up
  <2>2. QED
    BY <1>1, <1>2, <1>4, <2>1, AnswersKept
<1>6. QED
  BY <1>3, <1>4, <1>5 DEF AnswersInv

LEMMA AnswersInterrupt ==
  ASSUME AnswersInv, NEW f \in Fibers, PoolInterrupt(f)
  PROVE  AnswersInv'
<1>1. /\ PoolTypes /\ OnePlace /\ \A g \in Fibers : Answers(g)
      /\ tasks' = tasks /\ worker' = worker /\ event' = event /\ process' = process
      /\ pc' = pc /\ pc[f] = "await" /\ sched.current # f
      /\ sched' = MakeRunnable(sched, f, Exc) /\ sched \in Scheds /\ OneTurn(sched) /\ Exc \in Int
  BY DEF AnswersInv, PoolInterrupt, Interrupt, poolVars, PoolTypes, Exc
<1>2. /\ sched' \in Scheds /\ sched'.current = sched.current /\ OneTurn(sched')
      /\ \A g \in Fibers : InQueue(sched', g) <=> InQueue(sched, g) \/ g = f
      /\ \A g \in Fibers : g # f => sched'.value[g] = sched.value[g]
      /\ sched'.value[f] = Exc
  <2>1. IS_EXCEPTION(Exc)
    BY DEF IS_EXCEPTION, Exc
  <2>2. QED
    BY <1>1, <2>1, MadeRunnable
<1>3. PoolTypes'
  <2>1. \A g : InQueue(sched', g) => g \in Fibers
    BY <1>2 DEF InQueue, Scheds
  <2>2. ~InQueue(sched', sched'.current)
    BY <1>1, <1>2, <2>1 DEF PoolTypes
  <2>3. QED
    BY <1>1, <1>2, <2>2 DEF PoolTypes
<1>4. OnePlace' /\ Unfinished' = Unfinished
  BY <1>1 DEF OnePlace, Unfinished
<1>5. Answers(f)'
  <2>1. Up(f)'
    BY <1>2 DEF Up
  <2>2. Waits(f)' /\ Awaits(f)' /\ Numbered(f)'
    BY <1>1, <1>4, <2>1 DEF Answers, Waits, Awaits, Numbered
  <2>3. Loyal(f)'
    BY <1>1, <1>2, <1>4 DEF Answers, Loyal
  <2>4. QED
    BY <2>2, <2>3 DEF Answers
<1>6. ASSUME NEW g \in Fibers, g # f PROVE Answers(g)'
  <2>1. Up(g)' <=> Up(g)
    BY <1>2, <1>6 DEF Up
  <2>2. QED
    BY <1>1, <1>2, <1>4, <1>6, <2>1, AnswersKept
<1>7. QED
  BY <1>3, <1>4, <1>5, <1>6 DEF AnswersInv

\* The end of a block, with the value that is signaled and what becomes of the thread.
LEMMA AnswersEnd ==
  ASSUME AnswersInv, NEW w \in Workers, NEW idle \in {NoTask, Ended}, NEW v,
         v = worker[w].n \/ v = Raised(worker[w].n),
         tasks' = tasks, worker' = [worker EXCEPT ![w] = idle], pc' = pc, process' = process,
         IF worker[w].fiber = NoFiber THEN UNCHANGED <<event, sched>> ELSE EventSignal(worker[w].fiber, v),
         \A g \in Fibers : sched.current = g => pc[g] # "await"
  PROVE  AnswersInv'
<1> DEFINE t == worker[w]
<1>1. /\ PoolTypes /\ OnePlace /\ \A g \in Fibers : Answers(g)
      /\ tasks' = tasks /\ worker' = [worker EXCEPT ![w] = idle]
      /\ pc' = pc /\ process' = process
      /\ IF t.fiber = NoFiber THEN UNCHANGED <<event, sched>> ELSE EventSignal(t.fiber, v)
      /\ \A g \in Fibers : sched.current = g => pc[g] # "await"
  BY Zenon DEF AnswersInv
<1>2. /\ worker' \in [Workers -> Tasks] /\ OnePlace'
      /\ \A u : u.fiber # NoFiber => (u \in Unfinished' <=> u \in Unfinished /\ u # t)
  BY <1>1, TaskDone
<1>3. /\ t \in Tasks /\ t \in Unfinished /\ t.n \in Nat /\ t.fiber \in Fibers \cup {NoFiber}
      /\ v = t.n \/ v = Raised(t.n)
  BY <1>1 DEF PoolTypes, Unfinished, Tasks
<1> HIDE DEF t
<1>4. \A g \in Fibers : g # t.fiber => \A u : u.fiber = g => (u \in Unfinished' <=> u \in Unfinished)
  BY <1>2, FibersAssumption
<1>5. CASE t.fiber = NoFiber
  <2>1. event' = event /\ sched' = sched
    BY <1>1, <1>5
  <2>2. PoolTypes'
    BY <1>1, <1>2, <2>1 DEF PoolTypes
  <2>3. ASSUME NEW g \in Fibers PROVE Answers(g)'
    <3>1. Up(g)' <=> Up(g)
      BY <2>1 DEF Up
    <3>2. g # t.fiber
      BY <1>5, FibersAssumption
    <3>3. QED
      BY <1>1, <1>4, <2>1, <3>1, <3>2, AnswersKept
  <2>4. QED
    BY <1>2, <2>2, <2>3 DEF AnswersInv
<1>6. CASE t.fiber # NoFiber /\ event[t.fiber].signaled
  <2>1. event' = event /\ sched' = sched /\ t.fiber \in Fibers
    BY <1>1, <1>3, <1>6 DEF EventSignal
  <2>2. PoolTypes'
    BY <1>1, <1>2, <2>1 DEF PoolTypes
  <2>3. ASSUME NEW g \in Fibers PROVE Answers(g)'
    <3>1. Up(g)' <=> Up(g)
      BY <2>1 DEF Up
    <3>2. CASE g # t.fiber
      BY <1>1, <1>4, <2>1, <3>1, <3>2, AnswersKept
    <3>3. CASE g = t.fiber
      <4>1. Waits(g)' /\ Awaits(g)'
        BY <1>1, <1>6, <2>1, <3>1, <3>3, Zenon DEF Answers, Waits, Awaits
      <4>2. \A u \in Unfinished' : u.fiber = g => u \in Unfinished
        BY <1>2, <1>6, <3>3
      <4>3. Numbered(g)'
        BY <1>1, <4>2 DEF Answers, Numbered
      <4>4. process[g].abandoned
        BY <1>1, <1>3, <1>6, <3>3, Zenon DEF Answers, Loyal
      <4>5. Loyal(g)'
        BY <1>1, <4>4, Zenon DEF Loyal
      <4>6. QED
        BY <4>1, <4>3, <4>5 DEF Answers
    <3>4. QED
      BY <3>2, <3>3
  <2>4. QED
    BY <1>2, <2>2, <2>3 DEF AnswersInv
<1>7. CASE t.fiber # NoFiber /\ ~event[t.fiber].signaled
  <2>0. PICK f \in Fibers : f = t.fiber
    BY <1>3, <1>7
  <2> DEFINE e == [waiting |-> FALSE, signaled |-> TRUE, result |-> v]
  <2>1. /\ f = t.fiber /\ f \in Fibers /\ f # NoFiber /\ ~event[f].signaled
        /\ event' = [event EXCEPT ![f] = e]
        /\ sched' = IF event[f].waiting THEN MakeRunnable(sched, f, v) ELSE sched
    BY <1>1, <1>3, <1>7, <2>0 DEF EventSignal
  <2>v. v \in Int /\ v # Exc /\ Answered(v) = t.n
    <3>1. 1 <= t.n
      BY <1>1, <1>3, <2>1 DEF Answers, Numbered
    <3>2. QED
      BY <1>3, <3>1, AnsweredBy
  <2>2. e \in Events /\ e.signaled /\ ~e.waiting /\ e.result = v
    BY <2>v DEF Events
  <2> HIDE DEF e
  <2>3. /\ event' \in [Fibers -> Events] /\ event'[f].signaled /\ ~event'[f].waiting
        /\ event'[f].result = v
        /\ \A g \in Fibers : g # f => event'[g] = event[g]
    BY <1>1, <2>1, <2>2 DEF PoolTypes
  <2>4. /\ sched' \in Scheds /\ sched'.current = sched.current /\ OneTurn(sched')
        /\ \A g \in Fibers : g # f => /\ InQueue(sched', g) <=> InQueue(sched, g)
                                      /\ sched'.value[g] = sched.value[g]
        /\ pc[f] = "await" => /\ InQueue(sched', f)
                              /\ sched'.value[f] = v \/ (Up(f) /\ sched'.value[f] = sched.value[f])
        /\ pc[f] # "await" => sched' = sched
    <3>1. sched \in Scheds /\ OneTurn(sched)
      BY <1>1 DEF PoolTypes
    <3>2. CASE event[f].waiting
      <4>1. sched' = MakeRunnable(sched, f, v) /\ pc[f] = "await"
        BY <1>1, <2>1, <3>2 DEF Answers, Waits
      <4>2. QED
        BY <2>1, <2>v, <3>1, <4>1, MadeRunnable DEF Up
    <3>3. CASE ~event[f].waiting
      <4>1. pc[f] # "await" /\ sched' = sched
        BY <1>1, <2>1, <3>3 DEF Answers, Awaits
      <4>2. QED
        BY <3>1, <4>1
    <3>4. QED
      BY <3>2, <3>3
  <2>5. PoolTypes'
    <3>1. \A g : InQueue(sched', g) => g \in Fibers
      BY <2>4 DEF InQueue, Scheds
    <3>2. ~InQueue(sched', sched'.current)
      <4>1. CASE pc[f] = "await"
        BY <1>1, <2>1, <2>4, <3>1, <4>1 DEF PoolTypes
      <4>2. CASE pc[f] # "await"
        BY <1>1, <2>4, <4>2 DEF PoolTypes
      <4>3. QED
        BY <4>1, <4>2
    <3>3. QED
      BY <1>1, <1>2, <2>3, <2>4, <3>2 DEF PoolTypes
  <2>6. ASSUME NEW g \in Fibers, g # f PROVE Answers(g)'
    <3>1. Up(g)' <=> Up(g)
      BY <2>4, <2>6 DEF Up
    <3>2. QED
      BY <1>1, <1>4, <2>1, <2>3, <2>4, <2>6, <3>1, AnswersKept
  <2>7. Answers(f)'
    <3>1. Waits(f)' /\ Awaits(f)'
      BY <1>1, <2>3, <2>4, Zenon DEF Waits, Awaits, Up
    <3>2. \A u \in Unfinished' : u.fiber = f => u \in Unfinished /\ u # t
      BY <1>2, <2>1
    <3>3. Numbered(f)'
      <4>1. Numbered(f)
        BY <1>1, <2>1 DEF Answers
      <4>2. QED
        BY <1>1, <3>2, <4>1 DEF Numbered
    <3>4. Loyal(f)'
      <4>1. CASE process[f].abandoned
        BY <1>1, <4>1, Zenon DEF Loyal
      <4>2. CASE ~process[f].abandoned
        <5>0. Loyal(f)
          BY <1>1, <2>1 DEF Answers
        <5>1. /\ pc[f] \in {"pushed", "await"} /\ t.n = process[f].n
              /\ pc[f] = "await" /\ Up(f) => sched.value[f] = Exc
              /\ \A u \in Unfinished : u.fiber = f => u.n = process[f].n
          BY <1>3, <2>1, <4>2, <5>0, Zenon DEF Loyal
        <5>2. \A u \in Unfinished' : u.fiber # f
          <6> SUFFICES ASSUME NEW u \in Unfinished', u.fiber = f PROVE FALSE
            OBVIOUS
          <6>1. u \in Unfinished /\ u # t /\ u.n = t.n
            BY <3>2, <5>1
          <6>2. u \in Tasks
            BY <1>1, <6>1 DEF PoolTypes, Unfinished
          <6>3. u = t
            BY <1>3, <2>1, <6>1, <6>2 DEF Tasks
          <6>4. QED
            BY <6>1, <6>3
        <5>3. CASE pc[f] = "await"
          <6>1. Answered(sched'.value[f]) = process'[f].n \/ sched'.value[f] = Exc
            BY <1>1, <2>4, <2>v, <5>1, <5>3
          <6>2. QED
            BY <1>1, <2>3, <5>2, <5>3, <6>1, Zenon DEF Loyal
        <5>4. CASE pc[f] = "pushed"
          <6>1. Answered(event'[f].result) = process'[f].n
            BY <1>1, <2>3, <2>v, <5>1
          <6>2. QED
            BY <1>1, <2>3, <5>2, <5>4, <6>1, Zenon DEF Loyal
        <5>5. QED
          BY <5>1, <5>3, <5>4
      <4>3. QED
        BY <4>1, <4>2
    <3>5. QED
      BY <3>1, <3>3, <3>4 DEF Answers
  <2>8. QED
    BY <1>2, <2>5, <2>6, <2>7 DEF AnswersInv
<1>8. QED
  BY <1>5, <1>6, <1>7

LEMMA AnswersDone ==
  ASSUME AnswersInv, NEW w \in Workers, WorkerDone(w) \/ WorkerRaises(w)
  PROVE  AnswersInv'
<1>1. CASE WorkerDone(w)
  BY <1>1, AnswersEnd, Zenon DEF WorkerDone, InBlock
<1>2. CASE WorkerRaises(w)
  <2> DEFINE idle == IF worker[w].fiber = NoFiber THEN Ended ELSE NoTask
  <2>1. /\ idle \in {NoTask, Ended} /\ worker' = [worker EXCEPT ![w] = idle]
        /\ IF worker[w].fiber = NoFiber THEN UNCHANGED <<event, sched>>
           ELSE EventSignal(worker[w].fiber, Raised(worker[w].n))
        /\ tasks' = tasks /\ pc' = pc /\ process' = process
        /\ \A g \in Fibers : sched.current = g => pc[g] # "await"
    BY <1>2, Zenon DEF WorkerRaises, InBlock
  <2> HIDE DEF idle
  <2>2. QED
    BY <2>1, AnswersEnd, Zenon
<1>3. QED
  BY <1>1, <1>2

\* Every step keeps the invariant, which implies the property and holds initially.
LEMMA AnswersStep ==
  ASSUME AnswersInv, (SwitchFiber /\ UNCHANGED poolVars) \/ PoolNext
  PROVE  AnswersInv'
<1>1. CASE SwitchFiber /\ UNCHANGED poolVars
  BY <1>1, AnswersSwitch
<1>2. ASSUME NEW f \in Fibers, sched.current = f,
             \/ Process(f) \/ AwaitSignaled(f) \/ AwaitSwitch(f) \/ AwaitResume(f)
             \/ Cast(f) \/ PoolSnooze(f)
      PROVE  AnswersInv'
  BY <1>2, AnswersProcess, AnswersSignaled, AnswersSwitchAway, AnswersAwaitResume, AnswersQuiet
<1>3. ASSUME NEW w \in Workers, WorkerTake(w) \/ WorkerDone(w) \/ WorkerRaises(w)
      PROVE  AnswersInv'
  BY <1>3, AnswersTake, AnswersDone
<1>4. ASSUME NEW f \in Fibers, PoolInterrupt(f)
      PROVE  AnswersInv'
  BY <1>4, AnswersInterrupt
<1>5. QED
  BY <1>1, <1>2, <1>3, <1>4, Zenon DEF PoolNext

LEMMA AnswersMean ==
  ASSUME AnswersInv
  PROVE  ProcessAnswers
<1>1. ASSUME NEW f \in Fibers
      PROVE  /\ pc[f] = "await" /\ Sleeping(f) => event[f].waiting /\ ~event[f].signaled /\ Pending(f)
             /\ pc[f] = "free" => Answered(process[f].got) = process[f].n \/ process[f].abandoned
  <2>1. Awaits(f) /\ Loyal(f)
    BY DEF AnswersInv, Answers
  <2>2. ASSUME pc[f] = "await", Sleeping(f)
        PROVE  event[f].waiting /\ ~event[f].signaled /\ Pending(f)
    <3>1. ~Up(f)
      BY <2>2 DEF Sleeping, Up
    <3>2. event[f].waiting /\ ~event[f].signaled /\ [fiber |-> f, n |-> process[f].n] \in Unfinished
      BY <2>1, <2>2, <3>1, Zenon DEF Awaits
    <3>3. [fiber |-> f, n |-> process[f].n].fiber = f
      OBVIOUS
    <3>4. QED
      BY <3>2, <3>3, Zenon DEF Pending, Unfinished
  <2>3. pc[f] = "free" => Answered(process[f].got) = process[f].n \/ process[f].abandoned
    BY <2>1 DEF Loyal
  <2>4. QED
    BY <2>2, <2>3
<1>2. QED
  BY <1>1, Zenon DEF ProcessAnswers, AwaitedIsAnswered, OwnResult

LEMMA AnswersInit ==
  ASSUME InitFibers, InitPool
  PROVE  AnswersInv /\ \A f \in Fibers : Answered(process[f].got) = process[f].n
<1>1. /\ sched \in Scheds /\ OneTurn(sched) /\ sched.current = NoFiber
      /\ pc = [f \in Fibers |-> "free"]
  BY InitScheds
<1>2. /\ event = [f \in Fibers |-> NoEvent] /\ tasks = <<>> /\ worker = [w \in Workers |-> NoTask]
      /\ process = [f \in Fibers |-> [n |-> 0, got |-> Nil, raised |-> FALSE, abandoned |-> FALSE]]
  BY DEF InitPool
<1>3. ~InQueue(sched, sched.current)
  BY <1>1, FibersAssumption DEF InQueue, Scheds
<1>4. NoEvent \in Events /\ ~NoEvent.signaled /\ ~NoEvent.waiting
  BY DEF NoEvent, Events, Nil
<1>5. /\ NoTask \in Tasks /\ NoTask.fiber = NoFiber
      /\ [n |-> 0, got |-> Nil, raised |-> FALSE, abandoned |-> FALSE] \in Processes
  BY DEF NoTask, Tasks, Processes, Nil
<1>6. PoolTypes
  BY <1>1, <1>2, <1>3, <1>4, <1>5 DEF PoolTypes
<1>7. \A t \in Unfinished : t.fiber = NoFiber
  BY <1>2, <1>5 DEF Unfinished
<1>8. OnePlace
  BY <1>2, <1>5 DEF OnePlace
<1>9. ASSUME NEW f \in Fibers PROVE Answers(f) /\ Answered(process[f].got) = process[f].n
  <2>1. pc[f] = "free" /\ event[f] = NoEvent /\ Answered(process[f].got) = process[f].n
    BY <1>1, <1>2 DEF Answered, Nil, Exc
  <2>2. \A t \in Unfinished : t.fiber # f
    BY <1>7, FibersAssumption
  <2>3. QED
    BY <1>4, <2>1, <2>2 DEF Answers, Waits, Awaits, Numbered, Loyal
<1>10. QED
  BY <1>6, <1>8, <1>9 DEF AnswersInv

\* The thread pool as it was created, and fibers that are in other calls.
PoolIdle ==
    /\ subject \in {"mutex", "resources"}
    /\ \A f \in Fibers : Answered(process[f].got) = process[f].n
    /\ subject = "mutex" => SyncTypes
    /\ subject = "resources" => ResourceInv

\* The invariant, in behaviors about a thread pool and in others.
ThreadsInv == IF subject = "threads" THEN AnswersInv ELSE PoolIdle

\* A fiber that sleeps in ThreadPool#process has an event that waits and is not
\* signaled, and a task that will signal it is queued or run by a thread; a call
\* answers with what its own block returned or raised unless the fiber has given up
\* an earlier one (thread_pool.rb, event.c): for any number of fibers, threads and
\* exceptions, any order of answers, blocks that are done before the fiber awaits,
\* and threads that blocks of cast have ended.  (If these have ended all threads, a
\* queued task stays queued: the theorem does not say that one is left.)
THEOREM ProcessIsAnswered == PrimitivesSpec => []ProcessAnswers
<1>1. PrimitivesInit => ThreadsInv
  <2> SUFFICES ASSUME PrimitivesInit PROVE ThreadsInv
    OBVIOUS
  <2>1. AnswersInv /\ \A f \in Fibers : Answered(process[f].got) = process[f].n
    BY AnswersInit DEF PrimitivesInit
  <2>2. SyncTypes /\ ResourceInv /\ subject \in {"mutex", "threads", "resources"}
    BY SyncTypesInit, ResourceInvInit DEF PrimitivesInit
  <2>3. QED
    BY <2>1, <2>2 DEF ThreadsInv, PoolIdle
<1>2. ThreadsInv /\ [PrimitivesNext]_primitiveVars => ThreadsInv'
  <2> SUFFICES ASSUME ThreadsInv, [PrimitivesNext]_primitiveVars PROVE ThreadsInv'
    OBVIOUS
  <2>1. CASE UNCHANGED primitiveVars
    <3>1. UNCHANGED <<subject, sched, pc, mutex, cond, section, event, tasks, worker, process,
                      pool, acquired, failed>>
      BY <2>1 DEF primitiveVars, syncVars, poolVars, resourceVars
    <3>2. AnswersInv => AnswersInv'
      BY <3>1 DEF AnswersInv, PoolTypes, OnePlace, Answers, Waits, Awaits, Numbered, Loyal,
                  Up, Unfinished, InQueue, OneTurn
    <3>3. PoolIdle => PoolIdle'
      BY <3>1 DEF PoolIdle, SyncTypes, OneTurn, ResourceInv, ResourceTypes, SizeIsExact, InAllocation
    <3>4. QED
      BY <3>1, <3>2, <3>3 DEF ThreadsInv
  <2>2. CASE PrimitivesNext /\ subject = "threads"
    <3>1. subject' = "threads" /\ ((SwitchFiber /\ UNCHANGED poolVars) \/ PoolNext)
      BY <2>2 DEF PrimitivesNext
    <3>2. AnswersInv'
      BY <2>2, <3>1, AnswersStep DEF ThreadsInv
    <3>3. QED
      BY <3>1, <3>2 DEF ThreadsInv
  <2>3. CASE PrimitivesNext /\ subject = "mutex"
    <3>1. /\ subject' = "mutex" /\ UNCHANGED poolVars
          /\ (SwitchFiber /\ UNCHANGED syncVars) \/ SyncNext
      BY <2>3 DEF PrimitivesNext
    <3>2. SyncTypes'
      BY <2>3, <3>1, SyncTypesStep DEF ThreadsInv, PoolIdle
    <3>3. QED
      BY <2>3, <3>1, <3>2 DEF ThreadsInv, PoolIdle, poolVars
  <2>4. CASE PrimitivesNext /\ subject = "resources"
    <3>1. /\ subject' = "resources" /\ UNCHANGED poolVars
          /\ (SwitchFiber /\ UNCHANGED resourceVars) \/ ResourceNext
      BY <2>4 DEF PrimitivesNext
    <3>2. ResourceInv'
      BY <2>4, <3>1, ResourceInvStep DEF ThreadsInv, PoolIdle
    <3>3. QED
      BY <2>4, <3>1, <3>2 DEF ThreadsInv, PoolIdle, poolVars
  <2>5. QED
    BY <2>1, <2>2, <2>3, <2>4 DEF ThreadsInv, PoolIdle
<1>3. ThreadsInv => ProcessAnswers
  <2>1. CASE subject = "threads"
    BY <2>1, AnswersMean DEF ThreadsInv
  <2>2. CASE subject # "threads"
    BY <2>2 DEF ThreadsInv, PoolIdle, SyncTypes, SyncCalls, ResourceInv, ResourceTypes, ResourceCalls,
                ProcessAnswers, AwaitedIsAnswered, OwnResult
  <2>3. QED
    BY <2>1, <2>2
<1>4. QED
  BY <1>1, <1>2, <1>3, PTL DEF PrimitivesSpec
=============================================================================
