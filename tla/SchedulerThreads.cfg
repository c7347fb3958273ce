\* Two threads that schedule each other's fibers while either may be polling;
\* fibers wait for operations that complete, are cancelled, and finish.
CONSTANTS
    t1 = t1 t2 = t2 m1 = m1 m2 = m2 f1 = f1 f2 = f2
    NoFiber = NoFiber NullCqe = NullCqe
    Threads = {t1, t2}
    Fibers = {m1, m2, f1}
    ThreadOf <- MCThreadOf
    MainFiber <- MCMainFiber
    Threshold = 2
    Calls = {"spin", "schedule", "raise", "await", "finish", "signal", "late", "priority"}
    PriorityValues = {"exception"}
    MaxEntries = 1
SPECIFICATION Spec
INVARIANTS NoStuckPoll PendingCountExact
CHECK_DEADLOCK FALSE
