\* Any interleaving of two threads that also use the queue after releasing it,
\* or release it while commands are queued or running; the ring is small enough
\* to overflow. Assumed fair: the loop thread and the woken threads.
CONSTANTS
    Threads = {t1, t2}
    MaxCmds = 3
    Capacity = 2
    Types = {"WRITE_BUFFER", "READ_BUFFER", "NDRANGE", "EMPTY"}
    CarefulClient = FALSE
SPECIFICATION FairSpec
INVARIANTS
    OneAtATime
    InductiveInv
    NoLostWakeup
    AccessesAfterDelete
PROPERTIES
    ImplementsInOrderQueue
    BlockingCallReturns
CHECK_DEADLOCK FALSE
