SPECIFICATION Spec
CONSTANTS
    IntBytes = 2
    PageSize = 16
    NodeSize = 3
    AttrSize = 2
    Block = 1
    MaxEncoded = 17
    ReuseThreshold = 2
    MaxPages = 2
    bufcapacity = 8
    ExtraSize = 2
    MaxEdits = 2
    Loads <- MCLoads
    Edited <- MCEdited
    NewTypes <- MCNewTypes
    NewNames <- MCNewNames
    NewTexts <- MCNewTexts
    Numbers <- MCNumbers
    Fragments <- MCFragments
    SaveModes <- MCSaveModes
INVARIANTS
    MemoryAccounted
    TraversalsAgree
    ParsedByGrammar
    SavedComesBack
    NumbersKept
PROPERTIES
    ImplementsOrderedTree
CHECK_DEADLOCK FALSE
