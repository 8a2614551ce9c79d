------------------------------ MODULE MCH5Walk ------------------------------
(***************************************************************************)
(* Files of three groups: the root with up to two members, the second      *)
(* group with up to two and the third with one, of which some cannot be    *)
(* opened or listed.  Groups may be linked twice and form loops.           *)
(***************************************************************************)
EXTENDS H5Walk, SequencesExt

Group(g) == [type |-> "H5G_GROUP", objno |-> g]
Member1(t) == [type |-> t, objno |-> 1]

\* The members each group may have, which may be links to each other.
Members1 == {Group(2), Group(3), Member1("H5G_DATASET")}
Members2 == {Group(1), Group(3), Member1("H5G_DATASET"), Member1("other")}
Members3 == {Group(1), Group(2), Group(3), Member1("H5G_DATASET"), Member1("noInfo")}

MCFiles ==
    {[members |-> (1 :> m1 @@ 2 :> m2 @@ 3 :> m3), unreadable |-> u, uniterable |-> n] :
        m1 \in SeqOf(Members1, 2), m2 \in SeqOf(Members2, 2), m3 \in SeqOf(Members3, 1),
        u \in {{}, {2}}, n \in {{}, {3}}}

\* Two groups below the root that are linked to each other.
LoopFiles ==
    {f \in MCFiles : f.members[2] = <<Group(3)>> /\ f.members[3] = <<Group(2)>>}
=============================================================================
