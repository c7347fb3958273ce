\* Three fibers; one exception in a waiting fiber; two threads that run up to
\* two blocks for each fiber; two resources.  Fibers do not wait on the
\* condition variable in a monitor, and are not interrupted while synchronize
\* takes the mutex again after a wait.
SPECIFICATION PrimitivesSpec
SYMMETRY Symmetry
CONSTANTS
    Fibers = {f1, f2, f3}
    NoFiber = NoFiber
    MaxInterrupts = 1
    Styles = {"lock", "try", "sync", "enter", "try_enter"}
    WaitStyles = {"sync", "lock"}
    FragileStyles = {"lock"}
    Workers = {w1, w2}
    MaxTasks = 2
    MaxQueued = 2
    Limit = 2
INVARIANTS MutualExclusion SleepersCanBeSignalled ProcessAnswers SizeIsExact
CHECK_DEADLOCK FALSE
