\* One thread and three fibers that yield, wait for operations, are parked,
\* cancelled and finish, with an idle proc and with fibers that are scheduled
\* after they have finished.
CONSTANTS
    t1 = t1 t2 = t2 m1 = m1 m2 = m2 f1 = f1 f2 = f2
    NoFiber = NoFiber NullCqe = NullCqe
    Threads = {t1}
    Fibers = {m1, f1, f2}
    ThreadOf <- MCThreadOf
    MainFiber <- MCMainFiber
    Threshold = 2
    Calls = {"spin", "schedule", "raise", "priority", "snooze", "suspend", "await", "finish", "late", "idle", "park", "stats"}
    PriorityValues = {"exception"}
    MaxEntries = 0
SPECIFICATION Spec
INVARIANTS TypeOK RunnableIsKept
PROPERTY ExceptionIsKept
CHECK_DEADLOCK FALSE
