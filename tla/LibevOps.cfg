\* Two fibers run every operation; the kernel gives and takes a few bytes at a
\* time, and fibers are woken before their descriptor is ready.
SPECIFICATION Spec
CONSTANTS
    f1 = f1
    f2 = f2
    NoFiber = NoFiber
    Fibers = {f1, f2}
    OpsOf <- Programs
    WokenEarly = {"read", "write", "accept", "splice", "splice_chunks", "copy", "sleep", "snooze", "wait_event"}
    BufLen = 2
    MaxIn = 3
    MaxOut = 5
INVARIANTS
    WellFormed
    TransferAccounted
    DescriptorsClosed
    TimeoutIsExact
    NoStuckPoll
    NobodyForgotten
CHECK_DEADLOCK FALSE
