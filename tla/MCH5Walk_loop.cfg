\* A build with longs of eight bytes.
SPECIFICATION Spec
CONSTANTS
    Groups = {1, 2, 3}
    RootGroup = 1
    Files <- LoopFiles
    LongSizes = {8}
    Pointer = 4096
    StackSize = 5
INVARIANT
    LoopsBroken
CHECK_DEADLOCK FALSE
