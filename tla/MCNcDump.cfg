CONSTANTS
    time = time
    lat = lat
    temp = temp
    crs = crs
    MaxStride = 2
    Sources <- MCSources
    Commands <- MCCommands
    NC_VAR_TRANS_SZ = 3
    None = None
    All = All
    Unlimited = Unlimited
    Garbage = Garbage
    INT_MAX = 127
SPECIFICATION FairSpec
INVARIANTS
    TypeOK
    CopyWhole
    ExtractExact
    LeakSawError
    FailedDumpRemoved
PROPERTIES
    ChunkBounded
    DumpEnds
