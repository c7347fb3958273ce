----------------------------- MODULE MCLibevOps -----------------------------
(* An instance of LibevOps: which fiber performs which operations. *)
EXTENDS LibevOps

CONSTANTS f1, f2

\* One fiber performs every operation, and one more then; the other waits
\* for an event, or yields.
Programs ==
    (f1 :> <<OpNames, {"read", "sleep"}>>)
    @@ (f2 :> <<{"wait_event", "snooze"}>>)
=============================================================================
