---------------------------- MODULE MCScheduler ----------------------------
(***************************************************************************)
(* Instances of Scheduler: fibers m1 and m2 are the main fibers of threads *)
(* t1 and t2; f1 and f2 are spun on t1.                                    *)
(***************************************************************************)
EXTENDS Scheduler

CONSTANTS t1, t2, m1, m2, f1, f2

MCThreadOf == [x \in Fibers |-> IF x = m2 THEN t2 ELSE t1]
MCMainFiber == [t \in Threads |-> IF t = t1 THEN m1 ELSE m2]
=============================================================================
