------------------------------ MODULE FiberSet ------------------------------
(***************************************************************************)
(* The fibers, declared once for the queue (FiberQueue) and for the        *)
(* classes that are built on it (Fibers).                                  *)
(***************************************************************************)
CONSTANT Fibers
=============================================================================
