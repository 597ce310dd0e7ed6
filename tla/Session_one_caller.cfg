\* One thread controls the profiler; at most one callback is installed.
SPECIFICATION FairSpec
CONSTANTS
    Thread = {main, w1, w2}
    Initial = {main, w1, w2}
    Caller = {main}
    Calls = {"start", "stop", "clear_stats", "get_func_stats", "get_thread_stats"}
    Settings <- OneCallback
    MaxCalls = 4
INVARIANTS
    TablesOutliveTheirUsers
    RunsOnTables
    RunsAsAsked
    OnlyInvokingThread
PROPERTIES
    EnumerationUndisturbed
    WaitingEnds
\* The bound on calls ends every behaviour.
CHECK_DEADLOCK FALSE
