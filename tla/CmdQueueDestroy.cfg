\* A thread that releases the queue while commands of it are queued.
CONSTANTS
    Threads = {t1}
    MaxCmds = 2
    Capacity = 2
    Types = {"WRITE_BUFFER", "NDRANGE"}
    CarefulClient = FALSE
SPECIFICATION Spec
INVARIANT DestroyedOnlyWhenDrained
CHECK_DEADLOCK FALSE
