\* Threads are started while the profiler is started, stopped, paused and read.
SPECIFICATION Spec
CONSTANTS
    Thread = {main, w1}
    Initial = {main}
    Caller = {main}
    Calls = {"start", "stop", "clear_stats", "get_thread_stats"}
    Settings <- EveryCallback
    MaxCalls = 4
INVARIANTS
    TypeOK
    ChargedToOwnContext
    EveryThreadProfiled
\* The bound on calls ends every behaviour.
CHECK_DEADLOCK FALSE
