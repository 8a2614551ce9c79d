------------------------------ MODULE MCNcWalk ------------------------------
(***************************************************************************)
(* Collections c1 > c2 > c3 with three objects, of which c3 may be linked  *)
(* or mounted, and every operation on one or two paths.                    *)
(***************************************************************************)
EXTENDS NcWalk, TLC

CONSTANTS c1, c2, c3, o1, o2, o3, title, units

Members3 == c1 :> <<o1, c2, o3>> @@ c2 :> <<c3>> @@ c3 :> <<o2>>

Atts == o1 :> <<title, units>> @@ o2 :> <<title>> @@ o3 :> <<>>

MCTrees ==
    {[members |-> Members3,
      collClass |-> (c1 :> k1 @@ c2 :> "NO_SPEC_COLL" @@ c3 :> k3),
      gatts |-> Atts,
      avus |-> m] :
        k1 \in {"NO_SPEC_COLL", "LINKED_COLL"},
        k3 \in {"NO_SPEC_COLL", "LINKED_COLL", "MOUNTED_COLL"},
        m \in {{}, {<<o1, title>>, <<o2, title>>, <<o2, units>>}}}

MCCommands ==
    {[kind |-> k, recursive |-> r, attrNameArray |-> n, srcPath |-> p] :
        k \in Kinds, r \in BOOLEAN, n \in {<<>>, <<title>>, <<units, title>>},
        p \in {<<c1>>, <<o1, c2>>, <<c3, Missing>>, <<c2, c3>>}}
=============================================================================
