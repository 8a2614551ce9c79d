\* Files with and without loops, in builds with longs of four and eight bytes.
SPECIFICATION FairSpec
CONSTANTS
    Groups = {1, 2, 3}
    RootGroup = 1
    Files <- MCFiles
    LongSizes = {4, 8}
    Pointer = 4096
    StackSize = 5
INVARIANTS
    TypeOK
    TreeIsFile
    FaultHasCause
PROPERTY
    WalkEnds
CHECK_DEADLOCK FALSE
