------------------------------- MODULE NcSlab -------------------------------
(***************************************************************************)
(* The part of a variable that rsNcGetVarsByType reads.  A cell of a       *)
(* variable is the tuple of its indices; arrays go over the wire in row    *)
(* order.                                                                  *)
(***************************************************************************)
EXTENDS Integers, Sequences, FiniteSets, SequencesExt

Volume(count) == FoldLeft(LAMBDA a, b : a * b, 1, count)

\* The k-th index of an array, from 0.
Index(k, count) ==
    [j \in DOMAIN count |->
        (k \div Volume(SubSeq(count, j + 1, Len(count)))) % count[j]]

Plus(x, y) == [j \in DOMAIN x |-> x[j] + y[j]]

\* x comes before y in row order.
Before(x, y) ==
    \E j \in DOMAIN x : x[j] < y[j] /\ \A i \in 1 .. j - 1 : x[i] = y[i]

\* The cells of a hyperslab.
Slab(start, count) ==
    [k \in 1 .. Volume(count) |-> Plus(start, Index(k - 1, count))]

\* getSizeForGetVars: a stride of zero counts as one.
Size(count, stride) ==
    LET step(j) == IF stride[j] <= 0 THEN 1 ELSE stride[j]
    IN  Volume([j \in DOMAIN count |-> (count[j] - 1) \div step(j) + 1])

\* _rsNcGetVarsByType: hasStride is never set, so the slab is read as it is,
\* into a buffer of Size cells.  What does not fit in overruns the buffer; the
\* answer has Size cells.  (An agent that ends of it is a read that fails.)
GetVarsByType(start, count, stride) ==
    SubSeq(Slab(start, count), 1, Size(count, stride))
=============================================================================
