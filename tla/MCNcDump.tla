------------------------------ MODULE MCNcDump ------------------------------
(***************************************************************************)
(* Six sources: a grid with records, a series with a scalar, one whose     *)
(* records are still to come, one of text, one without dimensions and one  *)
(* without variables; and subsets of one or two dimensions by index or by  *)
(* value.                                                                  *)
(***************************************************************************)
EXTENDS NcDump

CONSTANTS time, lat, temp, crs, MaxStride

Series(n) == [k \in 1 .. n |-> 10 * k]

Grid == [dims |-> <<time, lat>>,
         len |-> [d \in {time, lat} |-> IF d = time THEN 3 ELSE 2],
         unlimdim |-> time,
         vars |-> <<time, lat, temp>>,
         shape |-> [v \in {time, lat, temp} |->
                        IF v = temp THEN <<time, lat>> ELSE <<v>>],
         axis |-> [v \in {time, lat} |-> Series(IF v = time THEN 3 ELSE 2)],
         nul |-> <<>>]

Fixed == [dims |-> <<time>>, len |-> [d \in {time} |-> 5], unlimdim |-> None,
          vars |-> <<crs, time>>,
          shape |-> [v \in {crs, time} |-> IF v = crs THEN <<>> ELSE <<time>>],
          axis |-> [v \in {time} |-> Series(5)], nul |-> <<>>]

\* Text without dimensions, a line and a page, of which the second row is short.
Text == [Grid EXCEPT !.len[time] = 2, !.vars = <<crs, time, temp>>,
            !.shape = [v \in {crs, time, temp} |->
                        CASE v = crs -> <<>> [] v = time -> <<lat>> [] v = temp -> <<time, lat>>],
            !.axis = <<>>,
            !.nul = [v \in {crs, time, temp} |-> IF v = temp THEN {<<1, 1>>} ELSE {}]]

NoRecords == [Grid EXCEPT !.len[time] = 0, !.axis[time] = <<>>,
                          !.shape[temp] = <<lat, time>>]

NoDims == [dims |-> <<>>, len |-> <<>>, unlimdim |-> None, vars |-> <<crs>>,
           shape |-> [v \in {crs} |-> <<>>], axis |-> <<>>, nul |-> <<>>]

NoVars == [dims |-> <<lat>>, len |-> [d \in {lat} |-> 2], unlimdim |-> None,
           vars |-> <<>>, shape |-> <<>>, axis |-> <<>>, nul |-> <<>>]

MCSources == {Grid, Fixed, NoRecords, Text, NoDims, NoVars}

Conditions(nums, d) == {[dim |-> d, start |-> s, stride |-> k, end |-> e] :
                        s \in nums, k \in 0 .. MaxStride, e \in nums}

\* Indices in and past the dimensions, and values on, between and past those of
\* an axis.
Subsets(nums) ==
    {<<>>} \union {<<c>> : c \in Conditions(nums, time)}
    \union {<<c, e>> : c \in Conditions(nums, time),
                       e \in {[dim |-> lat, start |-> 1, stride |-> 1, end |-> 1],
                              [dim |-> lat, start |-> 15, stride |-> 1, end |-> 20]}}

MCCommands ==
    {[option |-> o, noattr |-> n, vars |-> v, conds |-> s, subsetByVal |-> FALSE] :
        o \in BOOLEAN, n \in {FALSE}, v \in {{}, {All}, {temp, crs}},
        s \in Subsets({0, 1, 2, 4, 5})}
    \union
    {[option |-> o, noattr |-> n, vars |-> v, conds |-> s, subsetByVal |-> TRUE] :
        o \in BOOLEAN, n \in {TRUE}, v \in {{}, {temp, crs}},
        s \in Subsets({5, 10, 15, 30, 60}) \ {<<>>}}
=============================================================================
