\* One NDRange of 2 work groups and one island, which executes 1 in the quant.
CONSTANTS
    N = 1
    NDRanges = {n1}
    MaxWgs = 2
    QueueCapacity = 2
    UnsignedMod = 256
    RingCapacity = 2
    m_min_quant = 2
    m_max_idle_threshold = 2
    WgCosts = {2}
    Ids = {0}
SPECIFICATION Spec
INVARIANT CompleteMeansNoneLeft
CHECK_DEADLOCK FALSE
