\* A client calls clFinish.
CONSTANTS
    Threads = {t1}
    MaxCmds = 2
    Capacity = 2
    Types = {"WRITE_BUFFER", "EMPTY"}
    CarefulClient = TRUE
SPECIFICATION FairSpec
PROPERTIES
    FinishReturns
CHECK_DEADLOCK FALSE
