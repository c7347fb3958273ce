\* One thread, three fibers that yield, wait, finish and spin.  No fiber is
\* scheduled without bound and nobody asks for statistics.
CONSTANTS
    t1 = t1 t2 = t2 m1 = m1 m2 = m2 f1 = f1 f2 = f2
    NoFiber = NoFiber NullCqe = NullCqe
    Threads = {t1}
    Fibers = {m1, f1, f2}
    ThreadOf <- MCThreadOf
    MainFiber <- MCMainFiber
    Threshold = 2
    Calls = {"spin", "snooze", "await", "suspend", "finish", "signal"}
    PriorityValues = {"exception"}
    MaxEntries = 2
SPECIFICATION FairSpec
PROPERTIES RunnableRuns CompletionsAreHandled
CHECK_DEADLOCK FALSE
