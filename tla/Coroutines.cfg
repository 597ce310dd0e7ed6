\* Coroutines overlap, recurse and outlive sessions of the profiler.
SPECIFICATION FreshSpec
CONSTANTS
    Pit = {a, b, c}
    Builtin = {c}
    Frame = {f, g}
    AsyncFrame = {f, g}
    WallClock = TRUE
    MayFail = {}
    MaxCalls = 4
    MaxTime = 2
SYMMETRY CoSymmetry
PROPERTIES
    WallTimesAsPromised
\* The bounds on calls and on time end every behaviour.
CHECK_DEADLOCK FALSE
