\* One NDRange of 2 work groups on 2 islands, each of which executes 1 in the
\* larger quant.
CONSTANTS
    N = 2
    NDRanges = {n1}
    MaxWgs = 2
    QueueCapacity = 2
    UnsignedMod = 256
    RingCapacity = 2
    m_min_quant = 2
    m_max_idle_threshold = 2
    WgCosts = {3}
    Ids = {0, 1}
SPECIFICATION Spec
INVARIANT SliceFitsQuant
CHECK_DEADLOCK FALSE
