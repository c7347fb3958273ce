----------------------------- MODULE MCUringOps -----------------------------
(* Instances of UringOps: which fiber performs which operations. *)
EXTENDS UringOps

CONSTANTS f1, f2

\* One fiber performs every operation, and reads then;
\* the other one waits for an event or for a connection from the accept loop of the first.
Programs ==
    (f1 :> <<OpNames, {"read"}>>)
    @@ (f2 :> <<{"wait_event", "accept_queued"}>>)

\* One operation of every kind; splice_chunks goes on after a plain value, and
\* leaves a context behind each time.
Early == {"read", "write", "accept", "accept_loop", "accept_queued", "wait_event",
          "wait_io", "sleep", "timer_loop", "chain", "double_splice", "snooze"}
=============================================================================
