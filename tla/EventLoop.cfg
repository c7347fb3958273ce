\* Three programs: two watchers on one descriptor that is closed and reused; five
\* timers in a heap of three levels; wakeups by an async and by a child.
SPECIFICATION Spec
CONSTANTS
    r1 = r1  w1 = w1  r2 = r2
    t1 = t1  t2 = t2  t3 = t3  t4 = t4  t5 = t5
    a1 = a1  c1 = c1
    Fds = {1, 2}
    WFd <- MCFd
    WEvents <- MCEvents
    Timers = {t1, t2, t3, t4, t5}
    Asyncs = {a1}
    Children = {c1}
    Programs <- MCPrograms
    Delay <- MCDelay
    DHEAP = 2
    MaxFile = 2
    MaxGen = 2
    MaxTime = 2
INVARIANTS WellFormed PendingIsExact KernelKnows TimersInOrder NoLostWakeup
