\* Four keys, every hash function of two bits, a table that starts with two
\* buckets; a stack of one slot that grows twice; a pool that grows twice.
SPECIFICATION ContainersSpec
CONSTANTS
    Key = {k1, k2, k3, k4}
    Val = {v1, v2}
    MaxHash = 3
    InitialSize = 2
    CKey = {f, g}
    Time = {0, 1}
    StackSize = 1
    MaxDepth = 4
    PoolSize = 2
    MaxPool = 8
SYMMETRY KeyValSymmetry
INVARIANTS
    TypeOK
    CountExact
    GrowthNeverGivesUp
    KeysOnce
    StackTypeOK
    FreeChunksUnowned
    DestroyFreesAll
PROPERTIES
    IsPartialMap
    IsStack
