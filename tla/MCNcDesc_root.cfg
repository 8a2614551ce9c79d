\* Closing a file's ncid after a group of it was opened.
SPECIFICATION Spec
CONSTANTS
    NUM_L1_DESC = 5
    Slots <- MCSlots
    Objects <- MCObjects
    Place <- MCPlace
    Collections = {coll}
    Groups = {group}
    RootGroup = root
    FileIds = {id1, id2}
    ZoneIds = {zid1, zid2}
    None = None
    data1 = data1
    data2 = data2
    data3 = data3
    coll = coll
    group = group
    root = root
    id1 = id1
    id2 = id2
    zid1 = zid1
    zid2 = zid2
PROPERTY
    CloseReleasesFile
