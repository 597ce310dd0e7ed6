\* Sessions are read with two filters, saved, loaded and merged in every order.
SPECIFICATION Spec
CONSTANTS
    f = f
    g = g
    cpu = cpu
    wall = wall
    p = p
    Fn = {f, g}
    Session <- Sessions
    Filter <- Filters
    File = {p}
    NoClock = NoClock
    MaxIndex = 5
    MaxCalls = 4
INVARIANTS
    IndexNamesOneFunction
    FoundByIndex
    EveryCalleeHasItsCaller
PROPERTIES
    AddsUp
