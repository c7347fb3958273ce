\* The timeout of a block elapses while a read of the block completes.
SPECIFICATION Spec
CONSTANTS
    f1 = f1
    f2 = f2
    NoFiber = NoFiber
    Fibers = {f1, f2}
    MaxContexts = 3
    PreparedLimit = 2
    BufLen = 2
    OpsOf <- Programs
    WokenEarly = {}
    ChunkStrings = {1}
    AcceptErrors = FALSE
    MaxMoved = 3
    MaxFds = 1
INVARIANTS
    TimeoutInterrupts
CHECK_DEADLOCK FALSE
