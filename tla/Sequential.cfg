CONSTANTS
    \* CircArray: arrays of 0 to 4 slots, with resizing up to 4.
    Value = {a, b}
    Junk = junk
    InitCapacities = {0, 1, 2, 3}
    MaxCapacity = 4
    SizeMod = 256
    IndexWhenEmpty = FALSE
    \* AlgoSimple: 3 islands, costs that make some of them busy or slow; each has
    \* to be reconfigured.
    N = 3
    MaxWgs = 3
    WipCosts = {0, 3}
    WgCosts = {1, 2}
    ReconfCosts = {1}
    \* Startup: two files, up to two regions, the construction started twice.
    Names <- MCNames
    Lines <- MCLines
    X_LEN = 5
    PRs <- MCPRs
    MaxPRs = 2
    WgSizes = {0, 2}
    Costs = {0, 3}
    MaxAttempts = 2
    UnsignedMod = 65536
    \* Unimem: two memory objects and three kernel addresses, so that buffers are
    \* lost, given back and allocated again, until there is no more memory.
    Mems = {m1, m2}
    Addrs = {1, 2, 3}
    Sizes = {0, 1, 2}
    Data = {d1, d2}
    Null = null
    Unwritten = unwritten
SPECIFICATION Spec
INVARIANTS
    ContentsInitialised
    Optimal
    AcceptedIsKnown
    LoadedIsPrefix
    IdsNameRegions
    PointersValid
    ReadsSeeLastWrite
    BuffersAccountedFor
PROPERTIES
    ImplementsDeque
