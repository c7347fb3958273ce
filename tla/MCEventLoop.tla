---------------------------- MODULE MCEventLoop ----------------------------
EXTENDS EventLoop

CONSTANTS r1, w1, r2, t1, t2, t3, t4, t5, a1, c1

MCFd == r1 :> 1 @@ w1 :> 1 @@ r2 :> 2
MCEvents == r1 :> {"R"} @@ w1 :> {"W"} @@ r2 :> {"R"}
MCDelay == t1 :> 0 @@ t2 :> 1 @@ t3 :> 2 @@ t4 :> 3 @@ t5 :> 1
\* Descriptors that come and go; a heap of three levels; and
\* everything that wakes the loop from outside.
MCPrograms == {{r1, w1}, {t1, t2, t3, t4, t5}, {a1, c1}}
=============================================================================
