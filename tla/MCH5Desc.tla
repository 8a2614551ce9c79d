------------------------------ MODULE MCH5Desc ------------------------------
(***************************************************************************)
(* A client of one server with two peers.  One object is on the client's   *)
(* server, one has a replica on each peer.                                 *)
(***************************************************************************)
EXTENDS H5Desc, TLC

CONSTANTS here, peer1, peer2, file1, file2

MCHosts == {here, peer1, peer2}
MCObjects == {file1, file2}
MCReplicas == {<<file1, here>>, <<file2, peer1>>, <<file2, peer2>>}
MCSlots == 3 .. 4

\* The peers are interchangeable.
PeerSymmetry == Permutations({peer1, peer2})
=============================================================================
