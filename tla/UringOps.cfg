\* Two fibers, three contexts, and every operation once or twice: completions are
\* short, late, cancelled and overtaken by timeouts and exceptions.
SPECIFICATION Spec
CONSTANTS
    f1 = f1
    f2 = f2
    NoFiber = NoFiber
    Fibers = {f1, f2}
    MaxContexts = 3
    PreparedLimit = 2
    BufLen = 2
    OpsOf <- Programs
    WokenEarly <- Early
    ChunkStrings = {1}
    AcceptErrors = FALSE
    MaxMoved = 3
    MaxFds = 1
INVARIANTS
    WellFormed
    NobodyForgotten
    BuffersAreKept
    WakesTheHolder
    TimeoutStaysInside
    TransferAccounted
CHECK_DEADLOCK FALSE
