----------------------------- MODULE Primitives -----------------------------
(***************************************************************************)
(* The classes that fibers share state with: in every behavior the fibers  *)
(* use one of them, a mutex with its condition variable, a thread pool or  *)
(* a resource pool.                                                        *)
(***************************************************************************)
EXTENDS Sync, ThreadPool, ResourcePool

VARIABLE subject    \* the object the fibers use

primitiveVars == <<subject, sched, pc, interrupts, syncVars, poolVars, resourceVars>>

PrimitivesInit ==
    /\ subject \in {"mutex", "threads", "resources"}
    /\ InitFibers /\ InitSync /\ InitPool /\ InitResources

PrimitivesNext ==
    /\ UNCHANGED subject
    /\ \/ SwitchFiber /\ UNCHANGED <<syncVars, poolVars, resourceVars>>
       \/ subject = "mutex" /\ SyncNext /\ UNCHANGED <<poolVars, resourceVars>>
       \/ subject = "threads" /\ PoolNext /\ UNCHANGED <<syncVars, resourceVars>>
       \/ subject = "resources" /\ ResourceNext /\ UNCHANGED <<syncVars, poolVars>>

PrimitivesSpec == PrimitivesInit /\ [][PrimitivesNext]_primitiveVars
=============================================================================
