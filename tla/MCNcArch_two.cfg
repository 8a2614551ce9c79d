\* Two agents that archive into one collection at once.
SPECIFICATION Spec
CONSTANTS
    Agents = {a1, a2}
    MaxLen = 5
    Time <- MCTime
    READ_TIME_SIZE = 3
    archFileSize = 2
    timeStepSize = 2
    Starts <- MCStarts
    NewWhenEmpty = TRUE
    NoFile = NoFile
    Torn = Torn
    NoAgg = NoAgg
    a1 = a1
    a2 = a2
INVARIANT
    AggInfoFaithful
