\* Three NDRanges of up to 3 work groups (none included) on 2 islands.
CONSTANTS
    N = 2
    NDRanges = {n1, n2, n3}
    MaxWgs = 3
    QueueCapacity = 3
    UnsignedMod = 256
SPECIFICATION FairSpec
INVARIANTS
    TimerIffBusy
    FreeIffIdle
    NoFailure
    WildCountsQueued
    NoGroupLostOrRepeated
    CompleteMeansAllDone
PROPERTIES
    RoutedNDRangeCompletes
