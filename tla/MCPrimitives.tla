---------------------------- MODULE MCPrimitives ----------------------------
(* Fibers and workers of Primitives are interchangeable. *)
EXTENDS Primitives, TLC

Symmetry == Permutations(Fibers) \cup Permutations(Workers)
=============================================================================
