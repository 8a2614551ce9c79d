\* Two entries per table and two file ids per library.
SPECIFICATION Spec
CONSTANTS
    Hosts <- MCHosts
    Here = here
    Slots <- MCSlots
    Objects <- MCObjects
    Replicas <- MCReplicas
    Fids = {1, 2}
    None = None
    here = here
    peer1 = peer1
    peer2 = peer2
    file1 = file1
    file2 = file2
SYMMETRY PeerSymmetry
INVARIANTS
    TypeOK
    EntriesLive
    HandlesServed
PROPERTIES
    FileLeakIsAnswered
