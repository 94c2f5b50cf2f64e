\* Two NDRanges on 2 islands: an island executes 2 work groups in the quant, 1 in
\* the larger quant, or none, or has no cost. The ids are the indexes, exchanged,
\* or no indexes; so a queue is filled by one NDRange.
CONSTANTS
    N = 2
    NDRanges = {n1, n2}
    MaxWgs = 3
    QueueCapacity = 2
    UnsignedMod = 256
    RingCapacity = 2
    m_min_quant = 2
    m_max_idle_threshold = 2
    WgCosts = {0, 1, 3, 5}
    Ids = {0, 1, 3}
SPECIFICATION FairSpec
INVARIANTS
    FreeTimerIffFree
    GroupsAccountedFor
    WaitsIffMoreWork
    OverrunIsStart
PROPERTIES
    AffordableIsCarved
CHECK_DEADLOCK FALSE
