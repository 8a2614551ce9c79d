------------------------------- MODULE MCNcMs -------------------------------
(***************************************************************************)
(* A program with an ncid for a file here, one for a file of a peer and    *)
(* one for a file of another zone, whose libraries use the same numbers,   *)
(* and every inquiry; and rules that open such files and look into them.   *)
(***************************************************************************)
EXTENDS NcMs

Dim(n, l) == [name |-> n, arrayLen |-> l]
Att(n, t, v) == [name |-> n, dataType |-> t, value |-> v]
Var(n, t, d, shape, a, data) ==
    [name |-> n, dataType |-> t, dimId |-> d, shape |-> shape, att |-> a, data |-> data]

NC_SHORT == 3
NC_INT == 4
NC_FLOAT == 5

\* Text with more characters than NAME_LEN has room for.
Units == Att("units", NC_CHAR, <<"v1", "v2", "v2">>)
Long == Att("long", NC_FLOAT, <<"v2", "v1">>)
Title == Att("units", NC_CHAR, <<"v1">>)
History == Att("long", NC_STRING, <<"v1">>)

\* Of a float the second value is shown as the first.
MCValueStr == [t \in NcTypes, v \in Values |-> IF t = NC_FLOAT THEN "v1" ELSE v]

\* Two values for each index of time.
Line(n, t, d, a) == Var(n, t, d, <<2>>, a, <<0>> :> 1 @@ <<1>> :> 2)

\* A file has the dimensions own of dim itself.
Dims(dim, own) == [dim |-> dim, own |-> own,
    dimid |-> [n \in {dim[id + 1].name : id \in own} |->
                CHOOSE id \in own : dim[id + 1].name = n]]

\* Two dimensions have a length that does not fit; the last two are the group's.
GridDim == <<Dim("time", 2), Dim("lon", 3), Dim("temp", 15), Dim("lon", 2), Dim("long", 9)>>

\* More attributes of a variable than of the file, more dimensions than
\* variables, one of which is unlimited, and a group.
Grid == Dims(GridDim, 0 .. 2) @@
        [unlimdim |-> 0, format |-> 3,
         var |-> <<Line("time", NC_INT, <<0>>, <<Units, Long>>),
                   Var("temp", NC_FLOAT, <<0, 1>>, <<2, 3>>, <<Long>>,
                       [c \in {<<i, j>> : i \in 0 .. 1, j \in 0 .. 2} |-> 10 * c[1] + c[2] + 3])>>,
         gatt |-> <<Title>>,
         grpName |-> <<"temp">>, grpNcid |-> <<7>>]

\* Its group: one variable has the dimension of the file, one the group's own, and
\* there are two dimensions of one name, of which the group's is found.
Inner == [Dims(GridDim, 3 .. 4) EXCEPT !.dimid = @ @@ ("time" :> 0 @@ "temp" :> 2)] @@
         [unlimdim |-> 4, format |-> 3,
          var |-> <<Line("temp", NC_SHORT, <<0>>, <<>>), Line("lon", NC_INT, <<3>>, <<>>)>>,
          gatt |-> <<>>, grpName |-> <<>>, grpNcid |-> <<>>]

\* A group without dimensions.
Bare == [Inner EXCEPT !.own = {}, !.dimid = "time" :> 0 @@ "lon" :> 1 @@ "temp" :> 2,
                      !.unlimdim = -1, !.var = <<Head(@)>>]

\* More attributes of the file than of a variable, and more variables than
\* dimensions, of which one has none.
Series == Dims(<<Dim("time", 2)>>, {0}) @@
          [unlimdim |-> -1, format |-> 1,
           var |-> <<Line("temp", NC_DOUBLE, <<0>>, <<Units>>),
                     Var("lon", NC_CHAR, <<>>, <<>>, <<>>, <<>> :> 7)>>,
           gatt |-> <<Title, History>>,
           grpName |-> <<>>, grpNcid |-> <<>>]

\* A variable that has the one dimension of the file twice.
Square == Dims(<<Dim("lon", 1)>>, {0}) @@
          [unlimdim |-> -1, format |-> 1,
           var |-> <<Var("temp", NC_INT, <<0, 0>>, <<1, 1>>, <<>>, <<0, 0>> :> 4)>>,
           gatt |-> <<>>, grpName |-> <<>>, grpNcid |-> <<>>]

Empty == Dims(<<>>, {}) @@
         [unlimdim |-> -1, format |-> 1, var |-> <<>>, gatt |-> <<>>,
          grpName |-> <<>>, grpNcid |-> <<>>]

Entry_(h, n) == [inuse |-> TRUE, host |-> h, ncid |-> n]
Free == [inuse |-> FALSE, host |-> "here", ncid |-> 7]

\* A file has one number here and another one in the other zone.
MCWorlds ==
    {[l1desc |-> 2 :> Entry_("here", 1) @@ 3 :> Entry_("peer", 7) @@ 4 :> Entry_("zone", 2)
                 @@ 5 :> Free,
      lib |-> "here" :> (1 :> f @@ 7 :> Inner) @@ "peer" :> (1 :> Grid @@ 7 :> g)
              @@ "zone" :> (1 :> Inner @@ 2 :> g @@ 7 :> Inner)] :
        <<f, g>> \in {<<Grid, Inner>>, <<Series, Bare>>, <<Grid, Empty>>}}

MCRequests ==
    {[op |-> op, ncid |-> n, paramType |-> p, myid |-> i, name |-> m, all |-> a] :
        op \in {"inq"}, n \in 1 .. 6, p \in SUBSET ParamTypes, i \in {0, 1},
        m \in {NoName, "temp", "units"}, a \in BOOLEAN}
    \union
    {[op |-> op, ncid |-> n, paramType |-> p, myid |-> i, name |-> m, all |-> FALSE] :
        op \in Ops \ {"inq"}, n \in 1 .. 6, p \in {{"dim"}, {"var"}, {"att"}}, i \in {1},
        m \in {NoName, "lon", "temp"}}

\* What the microservices that look into an NcInqOut find does not depend on the
\* one before, so that no rule needs all of them.
Accessors ==
    {{"msiNcGetDimNameInInqOut", "msiNcGetDimLenInInqOut"},
     {"msiNcGetAttNameInInqOut", "msiNcGetAttValStrInInqOut"},
     {"msiNcGetVarIdInInqOut", "msiNcGetVarNameInInqOut", "msiNcGetVarTypeInInqOut",
      "msiNcGetNdimsInInqOut", "msiNcGetNattsInInqOut", "msiNcGetNvarsInInqOut",
      "msiNcGetFormatInInqOut"}}

\* In the table of the agent of a rule there are some entries, and hosts have files.
World(free, here, peer, zone) ==
    [l1desc |-> [x \in 2 .. 5 |-> IF x < 2 + free THEN Free ELSE Entry_("here", 7)],
     lib |-> "here" :> (here @@ 7 :> Inner) @@ "peer" :> peer @@ "zone" :> zone]

MCAgents ==
    {[rule |-> a \union {"msiNcOpen", "msiNcOpenGroup", "msiNcInq"},
      world |-> World(2, 1 :> Grid, <<>>, <<>>)] : a \in Accessors}
    \union
    {[rule |-> a \union {"msiNcOpen", "msiNcInq"},
      world |-> World(1, <<>>, <<>>, 1 :> Series)] : a \in Accessors}
    \union
    {[rule |-> {"msiNcOpen", "msiNcInqGrps", "msiNcGetNGrpsInInqOut", "msiNcGetGrpInInqOut",
                "msiNcOpenGroup"},
      world |-> World(2, 1 :> Grid, 1 :> Empty, 1 :> Series)],
     [rule |-> {"msiNcOpen", "msiNcInqId", "msiNcInqWithId", "msiNcGetNumDim", "msiNcGetDataType",
                "msiNcGetArrayLen", "msiNcGetElementInArray"},
      world |-> World(1, 1 :> Grid, <<>>, 1 :> Series)],
     [rule |-> {"msiNcOpen", "msiNcClose", "msiNcInqId", "msiNcInqWithId"},
      world |-> World(1, <<>>, 1 :> Grid @@ 7 :> Inner, 1 :> Series)],
     [rule |-> {"msiNcOpen", "msiNcInq", "msiAddToNcArray", "msiNcGetVarsByType", "msiFreeNcStruct"},
      world |-> World(1, 1 :> Grid, <<>>, <<>>)],
     [rule |-> {"msiNcOpen", "msiNcInq", "msiNcGetVarsByType", "msiNcClose", "n%n"},
      world |-> World(1, 1 :> Grid, <<>>, 1 :> Series)],
     [rule |-> {"msiNcOpen", "msiNcOpenGroup", "msiNcInq", "msiNcSubsetVar"},
      world |-> World(2, <<>>, 1 :> Grid @@ 7 :> Inner, <<>>)],
     [rule |-> {"msiNcOpen", "msiNcInq", "msiNcSubsetVar", "msiNcVarStat", "msiNcGetElementInArray",
                "msiFloatToString"},
      world |-> World(1, <<>>, 1 :> Grid @@ 7 :> Inner, <<>>)],
     [rule |-> {"msiNcOpen", "msiNcInq", "msiNcSubsetVar", "msiNcGetArrayLen", "msiNcGetDataType",
                "msiNcGetElementInArray", "msiNcIntDataTypeToStr"},
      world |-> World(1, <<>>, <<>>, 1 :> Series)],
     [rule |-> {"msiNcOpen", "msiNcInq", "msiNcGetDimNameInInqOut"},
      world |-> World(1, 1 :> Square, <<>>, <<>>)],
     [rule |-> {"msiNcCreate", "msiNcRegGlobalAttr", "msiNcClose"},
      world |-> World(1, 1 :> Grid, 1 :> Empty, <<>>)]}

MCLiterals == -1 .. 2

MCLists == {<<1>>, <<0, 1>>, <<1, 2>>}

Cond_(n, s, e) == [ok |-> TRUE, name |-> n, start |-> s, stride |-> 1, end |-> e]

MCSubsetStrs ==
    {<<>>, <<Cond_("lon", 1, 2)>>, <<Cond_("time", 0, 0), Cond_("lon", 1, 1)>>,
     <<Cond_("time", 1, 1), Cond_("time", 0, 0)>>, <<Cond_("time", 1, 2)>>,
     <<[Cond_("lon", 0, 2) EXCEPT !.stride = 2]>>, <<[Cond_("lon", 0, 1) EXCEPT !.ok = FALSE]>>}
=============================================================================
