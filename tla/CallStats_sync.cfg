\* Ordinary functions; statistics are read between profiled regions.
SPECIFICATION SpecAtRest
CONSTANTS
    Pit = {a, b, c}
    Frame = {f}
    AsyncFrame = {}
    WallClock = TRUE
    MayFail = {}
    MaxCalls = 5
    MaxTime = 3
SYMMETRY PitSymmetry
INVARIANTS
    NoDoubleCounting
    SettledAtRest
PROPERTIES
    ChargesAsPromised
\* The bounds on calls and on time end every behaviour.
CHECK_DEADLOCK FALSE
