\* A file here and one on a peer under one file id.
SPECIFICATION Spec
CONSTANTS
    Hosts <- MCHosts
    Here = here
    Slots <- MCSlots
    Objects <- MCObjects
    Replicas <- MCReplicas
    Fids = {1, 2}
    None = None
    here = here
    peer1 = peer1
    peer2 = peer2
    file1 = file1
    file2 = file2
SYMMETRY PeerSymmetry
INVARIANT
    ReadsOwnFile
