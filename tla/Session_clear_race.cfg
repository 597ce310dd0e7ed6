\* A tag callback and the default name callback: clear_stats frees live tables.
SPECIFICATION Spec
CONSTANTS
    Thread = {main, w1}
    Initial = {main, w1}
    Caller = {main}
    Calls = {"start", "clear_stats"}
    Settings <- NameAndTag
    MaxCalls = 2
INVARIANTS
    TablesOutliveTheirUsers
\* The bound on calls ends every behaviour.
CHECK_DEADLOCK FALSE
