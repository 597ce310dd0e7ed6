\* Coroutines yield and finish, and allocations fail.
SPECIFICATION SpecUnread
CONSTANTS
    Pit = {a, b}
    Frame = {f, g}
    AsyncFrame = {g}
    WallClock = TRUE
    MayFail = {"child", "slot"}
    MaxCalls = 4
    MaxTime = 3
SYMMETRY PitSymmetry
INVARIANTS
    TypeOK
    PitLevelsExact
    PairLevelsCover
    PairsRecorded
    SelfTimesAddUp
    CallCountsAddUp
\* The bounds on calls and on time end every behaviour.
CHECK_DEADLOCK FALSE
