------------------------------- MODULE NcDump -------------------------------
(***************************************************************************)
(* What inc does with one data object (ncOperDataObjUtil): open it, ask    *)
(* what it holds, print variables or dump them into a local netCDF file,   *)
(* whole or a subset of them, and close it.                                *)
(*                                                                         *)
(* The data of a variable in the output says, for each of its cells (see   *)
(* NcSlab), which cell of the source is in it.                             *)
(***************************************************************************)
EXTENDS Integers, Sequences, FiniteSets, SequencesExt, NcSlab

CONSTANTS
    Sources,         \* the data objects
    Commands,        \* the options the command is given
    NC_VAR_TRANS_SZ, \* cells that are transferred at once
    None,            \* no unlimited dimension; an unset number
    All,             \* the name "all"
    Unlimited,       \* NC_UNLIMITED as the length of a dimension
    Garbage,         \* what is past the end of a buffer
    INT_MAX          \* of an int

\* A source has named dimensions with their lengths, and variables with their
\* dimensions; axis has the values of the numeric ones a subset may name, and nul
\* those of type NC_CHAR, with their cells that are '\0'.  The cells of a row are
\* counted in an int (stepSize, dataArray->len).
IsSource(s) ==
    LET dims == ToSet(s.dims)
        names == ToSet(s.vars)
    IN  /\ s.dims \in Seq(dims) /\ s.vars \in Seq(names)
        /\ s.len \in [dims -> Nat]
        /\ s.unlimdim \in dims \union {None}
        /\ s.shape \in [names -> Seq(dims)]
        /\ \A v \in DOMAIN s.axis : v \in names /\ s.axis[v] \in Seq(Int)
        /\ DOMAIN s.nul \subseteq names \ DOMAIN s.axis
        /\ \A v \in names :
            Volume([j \in 1 .. Len(s.shape[v]) - 1 |-> s.len[s.shape[v][j + 1]]]) <= INT_MAX

\* vars are the names of --var; conds are the conditions of --subset or, byVal,
\* of --SUBSET, ahead of the first that cannot be read: ncUtil does not look at
\* what the parser returns.
IsCommand(c) ==
    LET names == {c.conds[k].dim : k \in DOMAIN c.conds}
    IN  /\ {c.option, c.noattr, c.subsetByVal} \subseteq BOOLEAN
        /\ c.conds \in Seq([dim : names, start : Nat, stride : Nat, end : Nat])

ASSUME DumpAssumption ==
    /\ NC_VAR_TRANS_SZ \in Nat \ {0}
    /\ Unlimited \notin Int
    /\ \A s \in Sources : IsSource(s)
    /\ \A c \in Commands : IsCommand(c)

VARIABLES
    src, cmd,
    pc,
    ncid,      \* the agent's descriptor: "none", "open" or "closed"
    conds,     \* ncVarSubset->ncSubset
    todo,      \* the variables that are still to be copied or printed
    lcount,    \* lcount[0] of the copy, which is set for each variable that
               \* has dimensions
    curCount,
    file,      \* outFileName: its state, dimensions and data
    printed,   \* what was printed of each variable: its numbers, or strings
    status,    \* what the operation answered; "" while it runs
    status1    \* what rcNcClose answered

vars == <<src, cmd, pc, ncid, conds, todo, lcount, curCount, file, printed,
          status, status1>>

NoFile == [state |-> "absent", dims |-> <<>>, data |-> <<>>]

TypeOK ==
    /\ src \in Sources /\ IsCommand(cmd)
    /\ pc \in {"open", "inq", "resolve", "create", "dims", "vars", "copy",
               "chunk", "subset", "print", "looping", "close", "done", "faulted"}
    /\ ncid \in {"none", "open", "closed"}
    /\ \A k \in DOMAIN conds : {conds[k].start, conds[k].end} \subseteq Int
    /\ \A k \in DOMAIN todo : todo[k] \in ToSet(src.vars)
    /\ lcount \in Nat \union {None} /\ curCount \in Nat
    /\ pc = "chunk" => curCount < lcount
    /\ file.state \in {"absent", "define", "data", "closed", "unclosed", "left"}
    /\ DOMAIN file.dims \subseteq ToSet(src.dims)
    /\ \A d \in DOMAIN file.dims : file.dims[d] \in Nat \union {Unlimited}
    /\ DOMAIN file.data \subseteq ToSet(src.vars)
    /\ status \in {"", "ok", "error"} /\ status1 \in {"", "ok", "error"}

Init ==
    /\ src \in Sources /\ cmd \in Commands
    /\ pc = "open" /\ ncid = "none"
    /\ conds = cmd.conds /\ todo = src.vars
    /\ lcount = None /\ curCount = 0
    /\ file = NoFile /\ printed = <<>>
    /\ status = "" /\ status1 = ""
-----------------------------------------------------------------------------
(* The source *)

Shape(v) == src.shape[v]
Lens(v) == [j \in DOMAIN Shape(v) |-> src.len[Shape(v)[j]]]
Zeros(v) == [j \in DOMAIN Shape(v) |-> 0]

\* The library takes a slab that lies in a variable of these lengths.
Readable(lens, start, count) ==
    \A j \in DOMAIN count :
        /\ count[j] > 0
        /\ start[j] >= 0 /\ start[j] + count[j] <= lens[j]

\* nc_put_vars refuses a slab that passes a dimension which is not unlimited.
Writable(v, start, count) ==
    \A j \in DOMAIN count :
        LET len == file.dims[Shape(v)[j]]
        IN  len # Unlimited => start[j] + count[j] <= len

\* Also if nc_enddef has failed, when nc_put_vars ends the define mode.
PutVars(v, start, count, buf) ==
    LET slab == Slab(start, count)
        new == [c \in ToSet(slab) |->
                    LET k == CHOOSE n \in DOMAIN slab : slab[n] = c
                    IN  IF k <= Len(buf) THEN buf[k] ELSE Garbage]
        old == file.data[v]
    IN  [file EXCEPT !.state = "data", !.data[v] =
            [c \in DOMAIN old \union DOMAIN new |->
                IF c \in DOMAIN new THEN new[c] ELSE old[c]]]
-----------------------------------------------------------------------------
(* ncOperDataObjUtil *)

Answer(s) == pc' = "close" /\ status' = s

\* The ways out ahead of the close.
Return(s) == pc' = "done" /\ status' = s

Job ==
    LET some == cmd.vars # {} \/ cmd.conds # <<>>
    IN  IF cmd.option THEN IF some THEN "subset" ELSE "copy"
        ELSE IF some THEN "print" ELSE "header"

NcOpen ==
    /\ pc = "open"
    /\ \/ pc' = "inq" /\ ncid' = "open" /\ UNCHANGED status
       \/ Return("error") /\ UNCHANGED ncid
    /\ UNCHANGED <<src, cmd, conds, todo, lcount, curCount, file, printed, status1>>

\* Where the operation goes once it knows the subset; printing the header or
\* the dimensions ends with it.
Begin ==
    \/ Job = "print" /\ pc' = "print" /\ UNCHANGED status
    \/ Job = "header" /\ pc' = "close" /\ status' \in {"ok", "error"}
    \/ Job \in {"copy", "subset"} /\ pc' = "create" /\ UNCHANGED status

\* rcNcInq; an error returns and leaves the ncid open.
NcInq ==
    /\ pc = "inq"
    /\ \/ cmd.subsetByVal /\ pc' = "resolve" /\ UNCHANGED status
       \/ ~ cmd.subsetByVal /\ Begin
       \/ Return("error")
    /\ UNCHANGED <<src, cmd, ncid, conds, todo, lcount, curCount, file, printed, status1>>
-----------------------------------------------------------------------------
(* resolveSubsetVar: the indices of the values asked for *)

\* Mutant: the first value past the end is taken too.
IntervalPast(axis, lo, hi) ==
    LET n == Len(axis)
        past == {k \in 0 .. n - 1 : axis[k + 1] > hi}
        last == IF past = {} THEN n - 1 ELSE Min(past)
        from == {k \in 0 .. last : axis[k + 1] >= lo}
    IN  [start |-> IF from = {} THEN -1 ELSE Min(from), end |-> last]

\* The loop ends at the first value above hi.  Up to there, the first value of
\* at least lo is the start; the end is the one ahead of where the loop ends.
Interval(axis, lo, hi) ==
    LET n == Len(axis)
        past == {k \in 0 .. n - 1 : axis[k + 1] > hi}
        stop == IF past = {} THEN n ELSE Min(past)
        from == {k \in 0 .. n - 1 : k <= stop /\ axis[k + 1] >= lo}
    IN  [start |-> IF from = {} THEN -1 ELSE Min(from), end |-> stop - 1]

\* The conditions are resolved in turn; the first j - 1 are.  The variable of
\* that name is read whole.
Resolved(j) ==
    LET c == conds[j]
        r == Interval(src.axis[c.dim], c.start, c.end)
    IN  [conds EXCEPT ![j].start = r.start, ![j].end = r.end]

\* Every condition names a numeric variable that has values.
Resolvable == \A j \in DOMAIN conds :
    conds[j].dim \in DOMAIN src.axis /\ src.axis[conds[j].dim] # <<>>

ResolveSubsetVar ==
    /\ pc = "resolve"
    /\ Resolvable
    /\ conds' = [j \in DOMAIN conds |-> Resolved(j)[j]]
    /\ Begin
    /\ UNCHANGED <<src, cmd, ncid, todo, lcount, curCount, file, printed, status1>>

\* A name is not known, a type is not a number, or a read fails.
ResolveError ==
    /\ pc = "resolve"
    /\ conds # <<>>
    /\ Return("error")
    /\ UNCHANGED <<src, cmd, ncid, conds, todo, lcount, curCount, file, printed, status1>>
-----------------------------------------------------------------------------
(* dumpNcInqOutToNcFile ("copy") and dumpSubsetToFile ("subset") *)

NcCreate ==
    /\ pc = "create"
    /\ \/ /\ pc' = "dims"
          /\ file' = [NoFile EXCEPT !.state = "define"]
          /\ UNCHANGED status
       \/ Answer("error") /\ UNCHANGED file
    /\ UNCHANGED <<src, cmd, ncid, conds, todo, lcount, curCount, printed, status1>>

\* closeAndRmNeFile, which does not look at what nc_close and unlink return: the
\* file may be left.
RemoveFile == file' \in {NoFile, [file EXCEPT !.state = "left"]} /\ Answer("error")

\* nc_close, whose status is not looked at.  If it fails it is not known what the
\* file holds.
CloseFile == file' \in {[file EXCEPT !.state = s] : s \in {"closed", "unclosed"}} /\ Answer("ok")

\* Integer division of C.
Quotient(a, b) == IF a >= 0 THEN a \div b ELSE -((-a) \div b)

\* The condition on a dimension, 0 if there is none.
CondOf(d) ==
    LET k == {j \in DOMAIN conds : conds[j].dim = d}
    IN  IF k = {} THEN 0 ELSE Min(k)

SubsetLen(c) == Quotient(c.end - c.start, c.stride) + 1

\* The length a dimension is defined with; 0 is NC_UNLIMITED.
DefLen(d) ==
    LET len == IF Job = "subset" /\ CondOf(d) # 0 THEN SubsetLen(conds[CondOf(d)])
               ELSE src.len[d]
    IN  IF d = src.unlimdim \/ len = 0 THEN Unlimited ELSE len

\* A stride of zero divides by zero, unless the dimension is unlimited.
ZeroStride == \E d \in ToSet(src.dims) :
    /\ Job = "subset" /\ d # src.unlimdim /\ CondOf(d) # 0
    /\ conds[CondOf(d)].stride = 0

\* The attributes and dimensions; without dimensions it returns and leaves the
\* file as it is.
DefineDims ==
    /\ pc = "dims"
    /\ \/ src.dims = <<>> /\ Answer("error") /\ UNCHANGED file
       \/ /\ src.dims # <<>> /\ ~ ZeroStride
          /\ \A d \in ToSet(src.dims) : DefLen(d) \in (Nat \ {0}) \union {Unlimited}
          /\ file' = [file EXCEPT !.dims = [d \in ToSet(src.dims) |-> DefLen(d)]]
          /\ pc' = "vars"
          /\ UNCHANGED status
    /\ UNCHANGED <<src, cmd, ncid, conds, todo, lcount, curCount, printed, status1>>

DivideByZero ==
    /\ pc = "dims" /\ ZeroStride
    /\ pc' = "faulted"
    /\ UNCHANGED <<src, cmd, ncid, conds, todo, lcount, curCount, file, printed,
                   status, status1>>

\* The library refuses an attribute, a dimension or a variable.
DefineError ==
    /\ pc \in {"dims", "vars"}
    /\ pc = "dims" => src.dims # <<>> \/ ~ cmd.noattr
    /\ pc = "vars" => src.vars # <<>>
    /\ RemoveFile
    /\ UNCHANGED <<src, cmd, ncid, conds, todo, lcount, curCount, printed, status1>>

\* The names of --var; the dump compares "all" with a name that is never set.
Screened ==
    LET taken(v) == Job = "subset" /\ cmd.vars # {} => v \in cmd.vars
    IN  FlattenSeq([k \in DOMAIN src.vars |->
            IF taken(src.vars[k]) THEN <<src.vars[k]>> ELSE <<>>])

\* The variables and their attributes, and nc_enddef, whose status is not looked
\* at: the file may still be in define mode.
DefineVars ==
    /\ pc = "vars"
    /\ todo' = Screened
    /\ \/ src.vars = <<>> /\ CloseFile
       \/ /\ src.vars # <<>>
          /\ file' \in {[file EXCEPT !.state = s, !.data = [v \in ToSet(Screened) |-> <<>>]] :
                            s \in {"define", "data"}}
          /\ pc' = Job
          /\ UNCHANGED status
    /\ UNCHANGED <<src, cmd, ncid, conds, lcount, curCount, printed, status1>>

\* The last variable is done.
Finish ==
    /\ pc \in {"copy", "subset"} /\ todo = <<>>
    /\ CloseFile
    /\ UNCHANGED <<src, cmd, ncid, conds, todo, lcount, curCount, printed, status1>>
-----------------------------------------------------------------------------
(* getAndPutVarToFile: a variable in chunks of its first dimension *)

Var == Head(todo)

\* Mutant: as many rows as there may be cells.
ChunkRowsOfCells(v, rows) ==
    IF Volume(Lens(v)) > NC_VAR_TRANS_SZ THEN NC_VAR_TRANS_SZ ELSE rows

\* dimStep: the rows of a chunk.
ChunkRows(v, rows) ==
    IF Volume(Lens(v)) > NC_VAR_TRANS_SZ
    THEN NC_VAR_TRANS_SZ \div (Volume(Lens(v)) \div rows) + 1
    ELSE rows

\* Mutant: a variable without rows is copied too.
CopyVarEmpty ==
    /\ pc = "copy" /\ todo # <<>>
    /\ lcount' = IF Shape(Var) # <<>> THEN Lens(Var)[1] ELSE 1
    /\ curCount' = 0
    /\ pc' = "chunk"
    /\ UNCHANGED <<src, cmd, ncid, conds, todo, file, printed, status, status1>>

\* The next variable.  One without dimensions takes the lcount[0] that the one
\* ahead of it left, or, as the first one, whatever it is.
CopyVar ==
    /\ pc = "copy" /\ todo # <<>>
    /\ lcount' \in IF Shape(Var) # <<>> THEN {Lens(Var)[1]}
                   ELSE IF lcount # None THEN {lcount} ELSE {0, 1}
    /\ curCount' = 0
    /\ IF lcount' = 0 THEN todo' = Tail(todo) /\ UNCHANGED pc
       ELSE pc' = "chunk" /\ UNCHANGED todo
    /\ UNCHANGED <<src, cmd, ncid, conds, file, printed, status, status1>>

\* The rows of the chunk at hand.
Rows ==
    LET step == ChunkRows(Var, lcount)
    IN  IF curCount + step > lcount THEN lcount - curCount ELSE step

\* x with n in its first place, if it has one.
First(x, n) == IF x = <<>> THEN x ELSE [x EXCEPT ![1] = n]

ChunkDone == curCount + Rows >= lcount

\* Mutant: the place in the file does not move on.
CopyChunkInPlace ==
    LET count == First(Lens(Var), Rows)
    IN  /\ pc = "chunk"
        /\ file' = PutVars(Var, Zeros(Var), count, Slab(First(Zeros(Var), curCount), count))
        /\ curCount' = curCount + Rows
        /\ IF ChunkDone THEN pc' = "copy" /\ todo' = Tail(todo)
           ELSE UNCHANGED <<pc, todo>>
        /\ UNCHANGED <<src, cmd, ncid, conds, lcount, printed, status, status1>>

\* Mutant: the last chunk takes the count back to the start.
CopyChunkRestarts ==
    LET start == First(Zeros(Var), curCount)
        count == First(Lens(Var), Rows)
    IN  /\ pc = "chunk"
        /\ file' = PutVars(Var, start, count, Slab(start, count))
        /\ curCount' = IF ChunkDone THEN 0 ELSE curCount + Rows
        /\ UNCHANGED <<pc, todo>>
        /\ UNCHANGED <<src, cmd, ncid, conds, lcount, printed, status, status1>>

\* The strides are one, so a chunk is read as it is.
CopyChunk ==
    LET start == First(Zeros(Var), curCount)
        count == First(Lens(Var), Rows)
    IN  /\ pc = "chunk"
        /\ Readable(Lens(Var), start, count) /\ Writable(Var, start, count)
        /\ file' = PutVars(Var, start, count, Slab(start, count))
        /\ curCount' = curCount + Rows
        /\ IF ChunkDone THEN pc' = "copy" /\ todo' = Tail(todo)
           ELSE UNCHANGED <<pc, todo>>
        /\ UNCHANGED <<src, cmd, ncid, conds, lcount, printed, status, status1>>

\* The read or the write of a chunk fails.
ChunkError ==
    /\ pc = "chunk"
    /\ RemoveFile
    /\ UNCHANGED <<src, cmd, ncid, conds, todo, lcount, curCount, printed, status1>>
-----------------------------------------------------------------------------
(* getSingleNcVarData, with its callers' loops *)

HasCond(v, j) == CondOf(Shape(v)[j]) # 0
Cond(v, j) == conds[CondOf(Shape(v)[j])]

\* A condition has to lie in its dimension.
InRange(v) == \A j \in DOMAIN Shape(v) :
    HasCond(v, j) =>
        /\ Cond(v, j).start < Lens(v)[j] /\ Cond(v, j).end < Lens(v)[j]
        /\ Cond(v, j).start <= Cond(v, j).end

\* start, count and stride of the request, by dimension.
Start(v) == [j \in DOMAIN Shape(v) |-> IF HasCond(v, j) THEN Cond(v, j).start ELSE 0]

Count(v) == [j \in DOMAIN Shape(v) |->
    IF HasCond(v, j) THEN Cond(v, j).end - Cond(v, j).start + 1 ELSE Lens(v)[j]]

Stride(v) == [j \in DOMAIN Shape(v) |-> IF HasCond(v, j) THEN Cond(v, j).stride ELSE 1]

CanGet(v) == InRange(v) /\ Readable(Lens(v), Start(v), Count(v))

SingleNcVarData(v) == GetVarsByType(Start(v), Count(v), Stride(v))

\* A variable is read and put at the front of the file's.
SubsetVar ==
    /\ pc = "subset" /\ todo # <<>>
    /\ CanGet(Var) /\ Writable(Var, Zeros(Var), Count(Var))
    /\ file' = PutVars(Var, Zeros(Var), Count(Var), SingleNcVarData(Var))
    /\ todo' = Tail(todo)
    /\ UNCHANGED <<src, cmd, pc, ncid, conds, lcount, curCount, printed, status, status1>>

\* Mutant: the file is left as it is.
SubsetErrorLeaves ==
    /\ pc = "subset" /\ todo # <<>>
    /\ Answer("error")
    /\ UNCHANGED <<src, cmd, ncid, conds, todo, lcount, curCount, file, printed, status1>>

SubsetError ==
    /\ pc = "subset" /\ todo # <<>>
    /\ RemoveFile
    /\ UNCHANGED <<src, cmd, ncid, conds, todo, lcount, curCount, printed, status1>>

\* prNcVarData takes all the variables for --var all.
Printed(v) == cmd.vars \in {{}, {All}} \/ v \in cmd.vars

IsText(v) == v \in DOMAIN src.nul

\* %s: up to the first '\0', or over the end of the buffer.
TextAt(v, buf) ==
    LET nul == {k \in DOMAIN buf : buf[k] \in src.nul[v]}
    IN  IF nul = {} THEN Append(buf, Garbage) ELSE SubSeq(buf, 1, Min(nul) - 1)

\* j goes on by lastDimLen, and bufPtr does not: each row shows what is at the
\* front of the buffer.
TextRows(v, buf, n) == [k \in 1 .. n |-> TextAt(v, buf)]

RowsOf(n, last) == (n + last - 1) \div last

\* Without dimensions lastDimLen is count[-1].  Above zero the text is printed
\* once, and below zero until j wraps around (here, twice).
Shown(v) ==
    LET buf == SingleNcVarData(v)
    IN  IF ~ IsText(v) THEN {buf}
        ELSE IF Shape(v) = <<>> THEN {TextRows(v, buf, n) : n \in 1 .. 2}
        ELSE {TextRows(v, buf, RowsOf(Len(buf), Count(v)[Len(Count(v))]))}

\* A variable is printed.  If it cannot be read the loop goes on.
PrintVar ==
    /\ pc = "print" /\ todo # <<>>
    /\ \/ /\ Printed(Var) /\ CanGet(Var)
          /\ \E s \in Shown(Var) :
                printed' = [v \in DOMAIN printed \union {Var} |->
                                IF v = Var THEN s ELSE printed[v]]
       \/ UNCHANGED printed
    /\ todo' = Tail(todo)
    /\ UNCHANGED <<src, cmd, pc, ncid, conds, lcount, curCount, file, status, status1>>

\* With a count[-1] of zero it prints the text without end.
PrintLoops ==
    /\ pc = "print" /\ todo # <<>>
    /\ Printed(Var) /\ CanGet(Var) /\ IsText(Var) /\ Shape(Var) = <<>>
    /\ pc' = "looping"
    /\ UNCHANGED <<src, cmd, ncid, conds, todo, lcount, curCount, file, printed,
                   status, status1>>

\* Mutant: it returns ahead of the close.
PrintEndReturns ==
    /\ pc = "print" /\ todo = <<>>
    /\ Return("ok")
    /\ UNCHANGED <<src, cmd, ncid, conds, todo, lcount, curCount, file, printed, status1>>

\* It answers 0 whatever was read.
PrintEnd ==
    /\ pc = "print" /\ todo = <<>>
    /\ Answer("ok")
    /\ UNCHANGED <<src, cmd, ncid, conds, todo, lcount, curCount, file, printed, status1>>
-----------------------------------------------------------------------------
\* A close that fails answers 0; the descriptor may be freed or not.
NcClose ==
    /\ pc = "close"
    /\ \/ status1' = "ok" /\ ncid' = "closed" /\ UNCHANGED status
       \/ status1' = "error" /\ ncid' \in {"open", "closed"} /\ status' = "ok"
    /\ pc' = "done"
    /\ UNCHANGED <<src, cmd, conds, todo, lcount, curCount, file, printed>>

Terminated == pc \in {"looping", "done", "faulted"} /\ UNCHANGED vars

Step ==
    \/ NcOpen \/ NcInq \/ ResolveSubsetVar \/ ResolveError
    \/ NcCreate \/ DefineDims \/ DivideByZero \/ DefineError \/ DefineVars
    \/ CopyVar \/ CopyChunk \/ ChunkError \/ SubsetVar \/ SubsetError
    \/ Finish \/ PrintVar \/ PrintLoops \/ PrintEnd \/ NcClose

Next == Step \/ Terminated

Spec == Init /\ [][Next]_vars

\* The command is one process: it goes on to its end.
FairSpec == Spec /\ WF_vars(Step)
-----------------------------------------------------------------------------
(* Properties *)

\* The command ended without an error.
Done == pc = "done" /\ status = "ok" /\ status1 = "ok"

\* The indices from lo to hi: by number, or those of the values between.
Asked(c) ==
    IF ~ cmd.subsetByVal THEN c.start .. c.end
    ELSE {k \in 0 .. Len(src.axis[c.dim]) - 1 :
            src.axis[c.dim][k + 1] >= c.start /\ src.axis[c.dim][k + 1] <= c.end}

\* The first index, the step and the number of indices asked for of d.
Axis(d) ==
    LET k == CondOf(d)
        c == cmd.conds[k]
        s == IF c.stride = 0 THEN 1 ELSE c.stride
    IN  IF k = 0 THEN [from |-> 0, step |-> 1, n |-> src.len[d]]
        ELSE IF Asked(c) = {} THEN [from |-> 0, step |-> s, n |-> 0]
        ELSE [from |-> Min(Asked(c)), step |-> s,
              n |-> (Max(Asked(c)) - Min(Asked(c))) \div s + 1]

Extent(v) == [j \in DOMAIN Shape(v) |-> Axis(Shape(v)[j]).n]

\* The source's cell that belongs in place c.
Place(v, c) ==
    [j \in DOMAIN c |-> Axis(Shape(v)[j]).from + c[j] * Axis(Shape(v)[j]).step]

\* The variable in the file is what was asked for, no more and no less.
Exact(v) == file.data[v] =
    [c \in ToSet(Slab(Zeros(v), Extent(v))) |-> Place(v, c)]

\* The cells that were asked for, in row order.
AskedCells(v) == [k \in 1 .. Volume(Extent(v)) |-> Place(v, Index(k - 1, Extent(v)))]

\* A number is printed for each of the cells.  Of text each row is printed as what
\* all the cells begin with, up to a '\0' or, if there is none, over their end;
\* without dimensions, once or more often.
PrintedExactly(v) ==
    IF ~ IsText(v) THEN printed[v] = AskedCells(v)
    ELSE /\ \A k \in DOMAIN printed[v] : printed[v][k] = TextAt(v, AskedCells(v))
         /\ Shape(v) # <<>> => DOMAIN printed[v] =
                1 .. RowsOf(Volume(Extent(v)), Extent(v)[Len(Extent(v))])

Unstrided == \A j \in DOMAIN cmd.conds : cmd.conds[j].stride \in {0, 1}

\* resolveSubsetVar takes the values to ascend.
Ascending == cmd.subsetByVal => \A d \in DOMAIN src.axis :
    \A a, b \in DOMAIN src.axis[d] : a < b => src.axis[d][a] < src.axis[d][b]

\* A copy answers ok only if its file was written and closed, or nc_close failed
\* (which it does not tell).  A copy that was closed holds every variable that has
\* dimensions, each cell once and in its place, whatever chunks it was transferred
\* in, and whether nc_enddef went well or not.
CopyWhole == Job = "copy" =>
    /\ Done => file.state \in {"closed", "unclosed"}
    /\ file.state = "closed" =>
        /\ DOMAIN file.data = ToSet(src.vars)
        /\ \A v \in DOMAIN file.data : Shape(v) # <<>> => Exact(v)

\* Likewise of a subset, which holds the variables of the list and of each the
\* cells whose indices, or values, lie in the intervals asked for.
SubsetExact == Job = "subset" =>
    /\ Done => file.state \in {"closed", "unclosed"}
    /\ file.state = "closed" /\ Unstrided /\ Ascending /\ cmd.vars # {All} =>
        /\ DOMAIN file.data = {v \in ToSet(src.vars) : cmd.vars = {} \/ v \in cmd.vars}
        /\ \A v \in DOMAIN file.data : Exact(v)

\* What is printed of a variable is what was asked for, as PrintedExactly says.
PrintExact == Unstrided /\ Ascending =>
    \A v \in DOMAIN printed : PrintedExactly(v)

\* A subset, by index or by value, is exactly the cells that were asked for,
\* whether it goes to a file or is printed, and on a print also if the command
\* fails after it.
ExtractExact == SubsetExact /\ PrintExact

\* The stride is "the interval between selected indices"
\* (rcNcGetVarsByType.cpp:44): what is printed is every stride-th value.
StrideHonoured == ~ cmd.subsetByVal =>
    \A v \in DOMAIN printed : PrintedExactly(v)

\* A descriptor is left open only by a command that saw an error: the
\* operation's, or the close's.
LeakSawError == pc = "done" /\ ncid = "open" => "error" \in {status, status1}

\* A dump that failed leaves no file, except when there are no dimensions or the
\* file cannot be removed; and a file that was written whole was answered ok.
FailedDumpRemoved == pc = "done" =>
    /\ file = NoFile \/ file.state \in {"closed", "unclosed", "left"} \/ src.dims = <<>>
    /\ status = "error" => file.state \notin {"closed", "unclosed"}

\* A transfer of a chunk passes NC_VAR_TRANS_SZ by at most a row.
ChunkBounded ==
    [][pc = "chunk" =>
        \A v \in DOMAIN file'.data :
            Cardinality(DOMAIN file'.data[v]) - Cardinality(DOMAIN file.data[v])
                <= NC_VAR_TRANS_SZ + Volume(First(Lens(v), 1))]_vars

\* The command ends for every source and limit, unless it prints text that has no
\* dimensions.
DumpEnds == <>( \/ pc \in {"done", "faulted"}
                \/ pc = "looping" /\ IsText(Var) /\ Shape(Var) = <<>>)
=============================================================================
