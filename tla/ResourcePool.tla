---------------------------- MODULE ResourcePool ----------------------------
(***************************************************************************)
(* core/resource_pool.rb: resources are made up to a limit, kept in a      *)
(* queue (the stock) and handed to one fiber at a time.  The allocator may *)
(* switch fibers, and may raise; so does the wait for a resource.          *)
(***************************************************************************)
EXTENDS Fibers

CONSTANT Limit

ASSUME LimitAssumption == Limit \in Nat \ {0}

VARIABLES
    pool,       \* @size, the stock (a number of resources), who waits for one
    acquired,   \* the fibers in @acquired_resources
    failed      \* history: allocations that raised

resourceVars == <<pool, acquired, failed>>

InitResources ==
    /\ pool = [size |-> 0, stock |-> 0, waiters |-> <<>>]
    /\ acquired = {} /\ failed = 0

\* @stock.shift
ShiftResource(f, s, p) ==
    /\ pool' = [p EXCEPT !.waiters = Append(@, f)]
    /\ sched' = ShiftWaits(s, f, p.stock > 0)
    /\ pc' = [pc EXCEPT ![f] = "acquire"]

\* @stock.push
Stocked(p) == [p EXCEPT !.stock = @ + 1, !.waiters = AfterFirst(@)]

\* Mutant: the limit is not looked at.
MayAllocateMutant == pool.stock = 0 \/ pool.waiters # <<>>
\* add_to_stock if (@stock.empty? || @stock.pending?) && @size < @limit
MayAllocate == (pool.stock = 0 \/ pool.waiters # <<>>) /\ pool.size < Limit

\* acquire_from_stock up to the allocator or the wait.  The allocator's place
\* is taken before it is called.
AcquireResource(f) ==
    /\ pc[f] = "free" /\ UNCHANGED <<interrupts, acquired, failed>>
    /\ \/ /\ MayAllocate
          /\ pool' = [pool EXCEPT !.size = @ + 1]
          /\ sched' = Away(MakeRunnable(sched, f, Nil))
          /\ pc' = [pc EXCEPT ![f] = "allocate"]
       \/ ~MayAllocate /\ ShiftResource(f, sched, pool)

\* fill!: the same, without taking a resource.
Fill(f) ==
    /\ pc[f] = "free" /\ pool.size < Limit
    /\ pool' = [pool EXCEPT !.size = @ + 1]
    /\ sched' = Away(MakeRunnable(sched, f, Nil))
    /\ pc' = [pc EXCEPT ![f] = "fill"]
    /\ UNCHANGED <<interrupts, acquired, failed>>

\* The allocator returns, or raises.
Allocated(f) ==
    LET p == Stocked(pool)
        s == WakeFirst(sched, pool.waiters)
    IN
    /\ pc[f] \in {"allocate", "fill"} /\ UNCHANGED <<interrupts, acquired>>
    /\ \/ /\ sched.value[f] # Exc /\ pc[f] = "allocate"
          /\ ShiftResource(f, s, p) /\ UNCHANGED failed
       \/ /\ sched.value[f] # Exc /\ pc[f] = "fill"
          /\ UNCHANGED failed
          /\ IF p.size < Limit
             THEN /\ pool' = [p EXCEPT !.size = @ + 1]
                  /\ sched' = Away(MakeRunnable(s, f, Nil)) /\ UNCHANGED pc
             ELSE pool' = p /\ sched' = s /\ pc' = [pc EXCEPT ![f] = "free"]
       \/ /\ sched.value[f] = Exc
          /\ failed' = failed + 1
          /\ pc' = [pc EXCEPT ![f] = "free"]
          /\ UNCHANGED <<sched, pool>>

\* A round of the wait for a resource.
AcquireResume(f) ==
    LET p == [pool EXCEPT !.waiters = Deleted(@, f)]
        round == ShiftRound(f, pool.stock > 0)
    IN
    /\ pc[f] = "acquire" /\ UNCHANGED <<interrupts, failed>>
    /\ \/ /\ round = "raise" /\ pool' = p /\ pc' = [pc EXCEPT ![f] = "free"]
          /\ UNCHANGED <<sched, acquired>>
       \/ /\ round = "take" /\ pool' = [p EXCEPT !.stock = @ - 1]
          /\ acquired' = acquired \cup {f}
          /\ pc' = [pc EXCEPT ![f] = "use"] /\ UNCHANGED sched
       \/ round = "again" /\ ShiftResource(f, sched, p) /\ UNCHANGED acquired

\* The block does something that switches.
Use(f) ==
    /\ pc[f] = "use" /\ sched' = Away(MakeRunnable(sched, f, Nil))
    /\ pc' = [pc EXCEPT ![f] = "using"]
    /\ UNCHANGED <<interrupts, resourceVars>>

\* discard!
Discard(f) ==
    /\ pc[f] = "use" /\ f \in acquired
    /\ acquired' = acquired \ {f}
    /\ pool' = [pool EXCEPT !.size = @ - 1]
    /\ UNCHANGED <<sched, pc, interrupts, failed>>

\* The ensure: the resource goes back, unless it was discarded.
ReleaseResource(f) ==
    /\ pc[f] = "use" \/ (pc[f] = "using" /\ sched.value[f] = Exc)
    /\ acquired' = acquired \ {f}
    /\ pool' = IF f \in acquired THEN Stocked(pool) ELSE pool
    /\ sched' = IF f \in acquired THEN WakeFirst(sched, pool.waiters) ELSE sched
    /\ pc' = [pc EXCEPT ![f] = "free"]
    /\ UNCHANGED <<interrupts, failed>>

UseResume(f) ==
    /\ pc[f] = "using" /\ sched.value[f] # Exc
    /\ pc' = [pc EXCEPT ![f] = "use"]
    /\ UNCHANGED <<sched, interrupts, resourceVars>>

ResourceSnooze(f) ==
    /\ pc[f] = "free" /\ sched' = Away(MakeRunnable(sched, f, Nil))
    /\ UNCHANGED <<pc, interrupts, resourceVars>>

ResourceInterrupt(f) ==
    Interrupt(f, {"allocate", "fill", "acquire", "using"}) /\ UNCHANGED resourceVars

ResourceNext ==
    \/ \E f \in Fibers :
          /\ sched.current = f
          /\ \/ AcquireResource(f) \/ Fill(f) \/ Allocated(f) \/ AcquireResume(f)
             \/ Use(f) \/ UseResume(f) \/ Discard(f) \/ ReleaseResource(f) \/ ResourceSnooze(f)
    \/ \E f \in Fibers : ResourceInterrupt(f)

----------------------------------------------------------------------------
(* Properties *)

InAllocation == {f \in Fibers : pc[f] \in {"allocate", "fill"}}

\* The size is the number of resources in stock, in use and on their way, and
\* of those whose allocation failed; it never passes the limit, although fibers
\* are switched between the test of the size and the new resource.
SizeIsExact ==
    /\ pool.size = pool.stock + Cardinality(acquired) + Cardinality(InAllocation) + failed
    /\ pool.size <= Limit

\* The comment on acquire: a fiber that waits is waiting for a resource that
\* can become available.
WaitIsJustified ==
    \A f \in Fibers : pc[f] = "acquire" /\ Sleeping(f) =>
        acquired # {} \/ InAllocation # {} \/ pool.stock > 0
=============================================================================
