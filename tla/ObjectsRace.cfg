SPECIFICATION Spec
CONSTANTS
    Threads = {t1}
    Loop = loop
    mem = mem
    kernel = kernel
    program = program
    Capacity = 1
    MaxCmds = 1
    Types = {"WRITE_BUFFER"}
INVARIANT LastEventAlive
CHECK_DEADLOCK FALSE
