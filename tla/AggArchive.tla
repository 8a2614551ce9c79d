----------------------------- MODULE AggArchive -----------------------------
(***************************************************************************)
(* What an aggregate collection promises its readers, "multiple NETCDF     *)
(* files in a time series tied together by the 'time' dimension"           *)
(* (incarch.cpp:116-117): its pieces tile one interval of the source's     *)
(* time steps, none of them ever changes, and new ones come after them.    *)
(***************************************************************************)
EXTENDS Integers

VARIABLES length,  \* of the source's time dimension
          pieces   \* what a reader sees, intervals [first, last]

Covered(ps) == UNION {p.first .. p.last : p \in ps}

Tiles(ps, len) ==
    /\ \A p \in ps : p.first <= p.last /\ p.first \in 0 .. len - 1 /\ p.last \in 0 .. len - 1
    /\ \A p, q \in ps : p = q \/ p.last < q.first \/ q.last < p.first
    /\ \A i, j \in Covered(ps) : i .. j \subseteq Covered(ps)

Init == length \in Nat \ {0} /\ pieces = {}

Grow == length' = length + 1 /\ UNCHANGED pieces

Publish ==
    /\ pieces \subseteq pieces'
    /\ Tiles(pieces', length)
    /\ \A p \in pieces, q \in pieces' \ pieces : p.last < q.first
    /\ UNCHANGED length

Next == Grow \/ Publish

Spec == Init /\ [][Next]_<<length, pieces>>
=============================================================================
