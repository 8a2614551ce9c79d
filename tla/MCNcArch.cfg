\* One agent at a time, a source of up to eight steps.
SPECIFICATION FairSpec
CONSTANTS
    Agents = {a1}
    MaxLen = 8
    Time <- MCTime
    READ_TIME_SIZE = 3
    archFileSize = 2
    timeStepSize = 2
    Starts <- MCStarts
    NewWhenEmpty = TRUE
    NoFile = NoFile
    Torn = Torn
    NoAgg = NoAgg
    a1 = a1
    a2 = a2
INVARIANTS
    TypeOK
    LoopEndsAtEnd
    AggInfoFaithful
PROPERTIES
    OkArchives
    ImplementsArchive
    RunTerminates
