SPECIFICATION MsSpec
CONSTANTS
    Names = {"time", "lon", "temp", "units", "long"}
    Values = {"v1", "v2"}
    NoName = ""
    NUM_L1_DESC = 6
    Worlds <- MCWorlds
    Requests <- MCRequests
    Agents <- MCAgents
    Literals <- MCLiterals
    Numbers = {1}
    Lists <- MCLists
    SubsetStrs <- MCSubsetStrs
    NC_MAX_DIMS = 2
    NAME_LEN = 4
    INT_MAX = 7
    ValueStr <- MCValueStr
INVARIANTS
    MsTypeOK
    InqExact
    IdLeadsToItem
    AnswerExact
    ReadsAsked
PROPERTIES
    CallReturns
