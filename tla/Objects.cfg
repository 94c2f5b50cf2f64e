SPECIFICATION Spec
CONSTANTS
    Threads = {t1, t2}
    Loop = loop
    mem = mem
    kernel = kernel
    program = program
    Capacity = 1
    MaxCmds = 2
    Types = {"WRITE_BUFFER", "NDRANGE", "EMPTY"}
INVARIANTS
    CountsReferences
    NoUseAfterDelete
    OnlyTheseLeak
CHECK_DEADLOCK FALSE
SYMMETRY ThreadSymmetry
