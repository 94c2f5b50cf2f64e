\* Two threads of a careful client and a queue of theirs; one NDRange of
\* another queue, of up to 2 work groups; two islands.
CONSTANTS
    Threads = {t1, t2}
    MaxCmds = 2
    Capacity = 2
    Types = {"WRITE_BUFFER", "NDRANGE"}
    CarefulClient = TRUE
    Foreign = {f1}
    N = 2
    MinWgs = 2
    MaxWgs = 2
    QueueCapacity = 3
    UnsignedMod = 256
SPECIFICATION RTSpec
INVARIANTS
    NDRangeFollowsCommand
PROPERTIES
    AcceptedCmdFinishes
    ImplementsCmdQueue
CHECK_DEADLOCK FALSE
