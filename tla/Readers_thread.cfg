\* A program reads its thread statistics while it is profiled.
SPECIFICATION ThreadReaderSpec
CONSTANTS
    GetFuncStats = get_func_stats
    GetThreadStats = get_thread_stats
    Get = get
    Pause = _pause
    Resume = _resume
    Pit = {a, get_func_stats, get_thread_stats, get, _pause, _resume}
    Builtin = {_pause, _resume}
    Frame = {f}
    AsyncFrame = {}
    WallClock = FALSE
    MayFail = {}
    MaxCalls = 7
    MaxTime = 0
    MaxUnseen = 0
INVARIANTS
    OwnCallsCounted
\* The bounds on calls and on time end every behaviour.
CHECK_DEADLOCK FALSE
