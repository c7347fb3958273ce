\* Three fibers and every call, on a queue that is capped and uncapped: waiting
\* fibers are overtaken by others, and cancelled before and after they are woken.
CONSTANTS
    Fibers = {f1, f2, f3}
    Items = {a, b}
    Capacities = {0, 1, 2}
    Calls = {"push", "unshift", "shift", "shift_nonblock", "delete", "cap", "clear", "shift_all", "shift_each", "flush_waiters", "close", "cancel"}
    NoItem = NoItem
SPECIFICATION FairSpec
INVARIANTS WellFormed NobodyStarves
PROPERTIES CapacityIsRespected WaitersProgress
CHECK_DEADLOCK FALSE
