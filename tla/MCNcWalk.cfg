SPECIFICATION FairSpec
CONSTANTS
    Colls = {c1, c2, c3}
    Objects = {o1, o2, o3}
    Attrs = {title, units}
    Trees <- MCTrees
    Commands <- MCCommands
    Missing = Missing
    NumSlots = 2
    MAX_SQL_ROWS = 1
    c1 = c1
    c2 = c2
    c3 = c3
    o1 = o1
    o2 = o2
    o3 = o3
    title = title
    units = units
INVARIANTS
    TypeOK
    WalkComplete
    OkMeansAll
    AttrsAsAnswered
    FullTableExplained
    QueryExact
PROPERTY
    WalkEnds
