\* A program reads its function statistics while it is profiled.
SPECIFICATION FuncReaderSpec
CONSTANTS
    GetFuncStats = get_func_stats
    GetThreadStats = get_thread_stats
    Get = get
    Pause = _pause
    Resume = _resume
    Pit = {a, b, get_func_stats, get_thread_stats, get, _pause, _resume}
    Builtin = {b, _pause, _resume}
    Frame = {f}
    AsyncFrame = {}
    WallClock = TRUE
    MayFail = {}
    MaxCalls = 9
    MaxTime = 1
    MaxUnseen = 1
INVARIANTS
    ProgramTypeOK
    ProfilingResumes
    ReadersBalance
\* The bounds on calls and on time end every behaviour.
CHECK_DEADLOCK FALSE
