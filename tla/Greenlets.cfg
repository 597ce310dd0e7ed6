\* Greenlets of two threads switch while profiling is started, read and stopped.
SPECIFICATION SpecKeepingPauses
CONSTANTS
    t1 = t1
    t2 = t2
    a = a
    b = b
    c = c
    Thread = {t1, t2}
    Greenlet = {a, b, c}
    NoGreenlet = NoGreenlet
    ThreadOf <- MCThreadOf
    StartModes = {TRUE, FALSE}
    AllThreads = FALSE
    MaxTime = 2
    MaxDepth = 1
INVARIANTS
    AllPausedButLast
PROPERTIES
    ChargesOwnTime
