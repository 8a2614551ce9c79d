------------------------------ MODULE MCNcDesc ------------------------------
(***************************************************************************)
(* An agent with a table of three free entries, a data object on this      *)
(* host, one on a peer, one in another zone, and an aggregate collection.  *)
(***************************************************************************)
EXTENDS NcDesc, TLC

CONSTANTS data1, data2, data3, coll, group, root, id1, id2, zid1, zid2

MCSlots == 2 .. NUM_L1_DESC - 1
MCObjects == {data1, data2, data3}
\* The ncids of the other zone are only compared, and drawn from one set.
ZidSymmetry == Permutations({zid1, zid2})

MCPlace == (data1 :> "here") @@ (data2 :> "peer") @@ (data3 :> "zone")
=============================================================================
