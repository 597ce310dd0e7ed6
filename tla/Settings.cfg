\* Decorated calls nest, raise exceptions and are mixed with plain sessions.
SPECIFICATION Spec
CONSTANTS
    f = f
    g = g
    cpu = cpu
    wall = wall
    Thread = {main}
    Decorated = {f, g}
    ClockOf <- MCClockOf
    Clock = {cpu, wall}
    Backend = {native_thread, greenlet}
    MaxBlocks = 5
INVARIANTS
    OneClockOneBackend
    StopsAfterLastCall
PROPERTIES
    DecoratedLeavesNothing
