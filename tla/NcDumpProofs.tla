---------------------------- MODULE NcDumpProofs ----------------------------
(***************************************************************************)
(* Proofs about NcDump, for every source, command and limit: what leaks or *)
(* is removed goes with the answer, a chunk is bounded, a copy is whole,   *)
(* and a subset, by index or by value, in a file or printed, is exactly    *)
(* what was asked for.                                                     *)
(*                                                                         *)
(* They rest on what a slab has in row order (CommonLemmas): each choice   *)
(* of indices in the lengths is that of one cell.                          *)
(***************************************************************************)
EXTENDS NcDump, CommonLemmas
-----------------------------------------------------------------------------
(* The interval of a subset by value *)

\* resolveSubsetVar: on an axis that ascends and has a value between lo and
\* hi, the interval it finds has exactly the indices of those values.
THEOREM IntervalExact ==
    ASSUME NEW axis \in Seq(Int), NEW lo \in Int, NEW hi \in Int,
           \A a, b \in 1 .. Len(axis) : a < b => axis[a] < axis[b],
           \E k \in 0 .. Len(axis) - 1 : lo <= axis[k + 1] /\ axis[k + 1] <= hi
    PROVE  Interval(axis, lo, hi).start .. Interval(axis, lo, hi).end =
               {k \in 0 .. Len(axis) - 1 : lo <= axis[k + 1] /\ axis[k + 1] <= hi}
<1> DEFINE n == Len(axis)
           past == {k \in 0 .. n - 1 : axis[k + 1] > hi}
           stop == IF past = {} THEN n ELSE Min(past)
           from == {k \in 0 .. n - 1 : k <= stop /\ axis[k + 1] >= lo}
<1>1. n \in Nat /\ \A k \in 0 .. n - 1 : axis[k + 1] \in Int
    OBVIOUS
<1>2. PICK w \in 0 .. n - 1 : lo <= axis[w + 1] /\ axis[w + 1] <= hi
    OBVIOUS
<1>3. \A a, b \in 0 .. n - 1 : a <= b => axis[a + 1] <= axis[b + 1]
    <2> TAKE a, b \in 0 .. n - 1
    <2> HAVE a <= b
    <2>1. CASE a = b
        BY <2>1, <1>1
    <2>2. CASE a < b
        <3>1. a + 1 \in 1 .. Len(axis) /\ b + 1 \in 1 .. Len(axis) /\ a + 1 < b + 1
            BY <2>2, <1>1
        <3> QED
            BY <3>1, <1>1
    <2> QED
        BY <2>1, <2>2
<1> HIDE DEF n
<1>4. /\ stop \in 0 .. n
      /\ \A k \in 0 .. n - 1 : k < stop <=> axis[k + 1] <= hi
    <2>1. CASE past = {}
        <3>1. stop = n
            BY <2>1
        <3>2. \A k \in 0 .. n - 1 : axis[k + 1] <= hi
            BY <2>1, <1>1
        <3> HIDE DEF stop
        <3> QED
            BY <3>1, <3>2, <1>1
    <2>2. CASE past # {}
        <3>1. past \subseteq Nat
            OBVIOUS
        <3> DEFINE s == past
        <3> HIDE DEF s
        <3>2. s \subseteq Nat /\ s # {}
            BY <3>1, <2>2 DEF s
        <3>3. Min(s) \in s /\ \A y \in s : Min(s) <= y
            BY <3>2, MinOf
        <3>4. stop = Min(s)
            BY <2>2 DEF s
        <3>5. stop \in past /\ \A y \in past : stop <= y
            BY <3>3, <3>4 DEF s
        <3>6. stop \in 0 .. n - 1 /\ axis[stop + 1] > hi
            BY <3>5
        <3>7. \A k \in 0 .. n - 1 : axis[k + 1] > hi => stop <= k
            BY <3>5
        <3> HIDE DEF stop
        <3>8. \A k \in 0 .. n - 1 : k >= stop => axis[k + 1] > hi
            <4>1. SUFFICES ASSUME NEW k \in 0 .. n - 1, k >= stop
                           PROVE  axis[k + 1] > hi
                OBVIOUS
            <4>2. stop <= k
                BY <4>1, <3>6, <1>1
            <4>3. axis[stop + 1] <= axis[k + 1]
                BY <4>2, <3>6, <1>3
            <4> QED
                BY <4>3, <3>6, <1>1
        <3> QED
            BY <3>6, <3>7, <3>8, <1>1
    <2> QED
        BY <2>1, <2>2
<1> HIDE DEF stop
<1>5. w \in from
    BY <1>1, <1>2, <1>4
<1>6. /\ Min(from) \in from
      /\ \A k \in from : Min(from) <= k
    <2> DEFINE s == from
    <2> HIDE DEF s
    <2>1. s \subseteq Nat /\ s # {}
        BY <1>1, <1>5, SMTT(30) DEF s
    <2>2. Min(s) \in s /\ \A y \in s : Min(s) <= y
        BY <2>1, MinOf
    <2> QED
        BY <2>2 DEF s
<1>7. PICK m : m = Min(from)
    OBVIOUS
<1>8. /\ m \in 0 .. n - 1 /\ m <= stop /\ axis[m + 1] >= lo
      /\ \A k \in 0 .. n - 1 : k <= stop /\ axis[k + 1] >= lo => m <= k
    BY <1>6, <1>7
<1>9. m .. (stop - 1) = {k \in 0 .. n - 1 : lo <= axis[k + 1] /\ axis[k + 1] <= hi}
    <2>1. ASSUME NEW k \in m .. (stop - 1)
          PROVE  k \in 0 .. n - 1 /\ lo <= axis[k + 1] /\ axis[k + 1] <= hi
        <3>1. k \in 0 .. n - 1 /\ k < stop /\ m <= k
            BY <1>1, <1>4, <1>8
        <3>2. axis[m + 1] <= axis[k + 1]
            BY <3>1, <1>8, <1>3
        <3> QED
            BY <3>1, <3>2, <1>1, <1>4, <1>8
    <2>2. ASSUME NEW k \in 0 .. n - 1, lo <= axis[k + 1], axis[k + 1] <= hi
          PROVE  k \in m .. (stop - 1)
        BY <2>2, <1>1, <1>4, <1>8
    <2> QED
        BY <2>1, <2>2
<1>10. Interval(axis, lo, hi) = [start |-> m, end |-> stop - 1]
    <2>1. from # {}
        BY <1>5
    <2> QED
        BY <2>1, <1>7 DEF Interval, stop, n
<1> QED
    BY <1>9, <1>10 DEF n
-----------------------------------------------------------------------------
(* The descriptor and the file at the command's end *)

\* The states of a file that is written, and of one that was written whole.
Begun == {"define", "data"}
Ended == {"closed", "unclosed"}

\* The output file that goes with a place in the command.  An answer is set
\* where the operation ends, and the file is then gone, left or complete, except
\* that a dump without dimensions leaves it open.
FileAt ==
    /\ "state" \in DOMAIN file
    /\ pc \in {"create", "dims", "vars"} => Job \in {"copy", "subset"}
    /\ pc \in {"open", "inq", "resolve", "create", "print"} =>
        status = "" /\ file = NoFile
    /\ pc \in {"dims", "vars", "copy", "chunk", "subset"} =>
        status = "" /\ file.state \in Begun
    /\ pc \in {"looping", "faulted"} => file.state \notin Ended
    /\ pc \in {"close", "done"} =>
        /\ file = NoFile \/ file.state \in Ended \union {"left"} \/ src.dims = <<>>
        /\ status = "error" => file.state \notin Ended

\* A file in a state.
InState(f, s) == "state" \in DOMAIN f /\ f.state = s

\* Where a file is closed it is in one of the two states it may end in; where it
\* is removed there is none, or it is left.
LEMMA LeftOrClosed ==
    ASSUME "state" \in DOMAIN file
    PROVE  /\ RemoveFile => /\ pc' = "close" /\ status' = "error"
                            /\ file' = NoFile \/ InState(file', "left")
           /\ CloseFile => /\ pc' = "close" /\ status' = "ok"
                           /\ InState(file', "closed") \/ InState(file', "unclosed")
<1>1. ASSUME NEW s PROVE InState([file EXCEPT !.state = s], s)
    BY DEF InState
<1>2. ASSUME RemoveFile
      PROVE  /\ pc' = "close" /\ status' = "error"
             /\ file' = NoFile \/ InState(file', "left")
    <2>1. file' = NoFile \/ file' = [file EXCEPT !.state = "left"]
        BY <1>2 DEF RemoveFile
    <2>2. InState([file EXCEPT !.state = "left"], "left")
        BY <1>1
    <2> QED
        BY <2>1, <2>2, <1>2, Zenon DEF RemoveFile, Answer
<1>3. ASSUME CloseFile
      PROVE  /\ pc' = "close" /\ status' = "ok"
             /\ InState(file', "closed") \/ InState(file', "unclosed")
    <2>1. PICK s \in Ended : file' = [file EXCEPT !.state = s]
        BY <1>3 DEF CloseFile, Ended
    <2>2. InState(file', s)
        BY <2>1, <1>1, Zenon
    <2> QED
        BY <2>1, <2>2, <1>3 DEF CloseFile, Answer, Ended
<1> QED
    BY <1>2, <1>3

\* A command that is at its end saw an error or has no descriptor open.
NcidAt ==
    /\ pc = "open" => ncid = "none"
    /\ pc = "done" /\ ncid = "open" => "error" \in {status, status1}

EndInv == FileAt /\ NcidAt

\* The command starts without a file or a descriptor.
LEMMA EndInit == Init => EndInv
    BY DEF Init, EndInv, FileAt, NcidAt, NoFile

\* Each step keeps the file and the descriptor with the answer.
LEMMA EndStep == EndInv /\ [Next]_vars => EndInv'
<1> USE DEF EndInv, FileAt, NcidAt, Begun, Ended
<1> SUFFICES ASSUME EndInv, [Next]_vars PROVE EndInv'
    OBVIOUS
<1>0. NoFile.state = "absent" /\ "state" \in DOMAIN NoFile
    BY DEF NoFile
<1>j. ASSUME UNCHANGED cmd PROVE Job' = Job
    BY <1>j DEF Job
<1>1. CASE NcOpen
    BY <1>0, <1>1, <1>j DEF NcOpen, Return
<1>2. CASE NcInq
    BY <1>0, <1>2, <1>j DEF NcInq, Begin, Answer, Return
<1>3. CASE ResolveSubsetVar \/ ResolveError
    BY <1>0, <1>3, <1>j DEF ResolveSubsetVar, ResolveError, Begin, Answer, Return
<1>4. CASE NcCreate
    <2>1. "state" \in DOMAIN [NoFile EXCEPT !.state = "define"]
        BY <1>0
    <2>2. [NoFile EXCEPT !.state = "define"].state = "define"
        BY <1>0
    <2>3. CASE file' = [NoFile EXCEPT !.state = "define"] /\ pc' = "dims" /\ UNCHANGED status
        BY <2>1, <2>2, <2>3, <1>4, <1>j DEF NcCreate
    <2>4. CASE UNCHANGED file /\ Answer("error")
        BY <2>4, <1>0, <1>4, <1>j DEF NcCreate, Answer
    <2> QED
        BY <2>3, <2>4, <1>4, <1>j DEF NcCreate
<1>5. CASE DefineDims
    <2>1. CASE src.dims = <<>> /\ Answer("error") /\ UNCHANGED file
        BY <2>1, <1>5, <1>j DEF DefineDims, Answer
    <2>2. CASE /\ file' = [file EXCEPT !.dims = [d \in ToSet(src.dims) |-> DefLen(d)]]
               /\ pc' = "vars" /\ UNCHANGED status
        <3>1. PICK ds : file' = [file EXCEPT !.dims = ds]
            BY <2>2
        <3>2. "state" \in DOMAIN file' /\ file'.state = file.state
            BY <3>1
        <3> QED
            BY <3>2, <2>2, <1>5, <1>j DEF DefineDims
    <2> QED
        BY <2>1, <2>2, <1>5, <1>j DEF DefineDims
<1>6. CASE DefineError \/ ChunkError \/ SubsetError \/ DivideByZero
    <2>1. CASE RemoveFile
        BY <2>1, <1>0, <1>6, <1>j, LeftOrClosed
           DEF DefineError, ChunkError, SubsetError, DivideByZero, InState
    <2>2. CASE DivideByZero
        BY <2>2, <1>j DEF DivideByZero
    <2> QED
        BY <2>1, <2>2, <1>6 DEF DefineError, ChunkError, SubsetError
<1>7. CASE DefineVars
    <2>1. CASE CloseFile
        BY <2>1, <1>0, <1>7, <1>j, LeftOrClosed DEF DefineVars, InState
    <2>2. CASE ~ CloseFile
        <3>1. PICK s, d : /\ s \in Begun /\ file' = [file EXCEPT !.state = s, !.data = d]
                          /\ pc' = Job /\ UNCHANGED status
            BY <2>2, <1>7 DEF DefineVars
        <3>2. "state" \in DOMAIN file' /\ file'.state = s
            BY <3>1
        <3>3. Job \in {"copy", "subset"}
            BY <1>7, <1>j DEF DefineVars
        <3> QED
            BY <3>1, <3>2, <3>3, <1>7, <1>j DEF DefineVars
    <2> QED
        BY <2>1, <2>2
<1>8. CASE CopyVar
    BY <1>8, <1>j DEF CopyVar
<1>9. CASE CopyChunk \/ SubsetVar
    <2>1. PICK d, v : file' = [file EXCEPT !.state = "data", !.data[v] = d]
        BY <1>9, <1>j DEF CopyChunk, SubsetVar, PutVars
    <2>2. "state" \in DOMAIN file' /\ file'.state = "data"
        BY <2>1
    <2> QED
        BY <2>2, <1>9, <1>j DEF CopyChunk, SubsetVar
<1>10. CASE Finish
    BY <1>0, <1>10, <1>j, LeftOrClosed DEF Finish, InState
<1>11. CASE PrintVar \/ PrintLoops \/ PrintEnd
    BY <1>0, <1>11, <1>j DEF PrintVar, PrintLoops, PrintEnd, Answer
<1>12. CASE NcClose
    BY <1>12, <1>j DEF NcClose
<1>13. CASE Terminated \/ UNCHANGED vars
    BY <1>13, <1>j DEF Terminated, vars
<1> QED
    BY <1>1, <1>2, <1>3, <1>4, <1>5, <1>6, <1>7, <1>8, <1>9, <1>10, <1>11,
       <1>12, <1>13, Zenon DEF Next, Step

\* For every source and command: a file that could not be written whole is
\* removed, but for the dump that has no dimensions to define.
THEOREM DumpFailedRemoved == Spec => []FailedDumpRemoved
<1>1. EndInv => FailedDumpRemoved
    BY DEF EndInv, FileAt, FailedDumpRemoved, Ended
<1> QED
    BY <1>1, EndInit, EndStep, PTL DEF Spec

\* For every source and command: a descriptor is left open only where an error
\* was seen.
THEOREM DumpLeakSawError == Spec => []LeakSawError
<1>1. EndInv => LeakSawError
    BY DEF EndInv, NcidAt, LeakSawError
<1> QED
    BY <1>1, EndInit, EndStep, PTL DEF Spec
-----------------------------------------------------------------------------
(* Sources and commands *)

\* Neither changes.
Given == src \in Sources /\ cmd \in Commands

\* What a source is.
LEMMA GivenIs ==
    Given => /\ src.dims \in Seq(ToSet(src.dims)) /\ src.vars \in Seq(ToSet(src.vars))
             /\ src.len \in [ToSet(src.dims) -> Nat]
             /\ src.shape \in [ToSet(src.vars) -> Seq(ToSet(src.dims))]
             /\ \A d \in DOMAIN src.axis : src.axis[d] \in Seq(Int)
    BY DumpAssumption DEF Given, IsSource

\* What a command asks for.
LEMMA CommandIs ==
    Given => /\ cmd.subsetByVal \in BOOLEAN
             /\ DOMAIN cmd.conds = 1 .. Len(cmd.conds) /\ Len(cmd.conds) \in Nat
             /\ cmd.conds = [j \in DOMAIN cmd.conds |-> cmd.conds[j]]
             /\ \A j \in DOMAIN cmd.conds :
                    /\ cmd.conds[j].start \in Nat /\ cmd.conds[j].stride \in Nat
                    /\ cmd.conds[j].end \in Nat
                    /\ DOMAIN cmd.conds[j] = {"dim", "start", "stride", "end"}
                    /\ cmd.conds[j] = [k \in DOMAIN cmd.conds[j] |-> cmd.conds[j][k]]
<1> SUFFICES ASSUME Given
             PROVE  /\ cmd.subsetByVal \in BOOLEAN
                    /\ DOMAIN cmd.conds = 1 .. Len(cmd.conds) /\ Len(cmd.conds) \in Nat
                    /\ cmd.conds = [j \in DOMAIN cmd.conds |-> cmd.conds[j]]
                    /\ \A j \in DOMAIN cmd.conds :
                        /\ cmd.conds[j].start \in Nat /\ cmd.conds[j].stride \in Nat
                        /\ cmd.conds[j].end \in Nat
                        /\ DOMAIN cmd.conds[j] = {"dim", "start", "stride", "end"}
                        /\ cmd.conds[j] = [k \in DOMAIN cmd.conds[j] |-> cmd.conds[j][k]]
    OBVIOUS
<1> DEFINE F == [dim : {cmd.conds[k].dim : k \in DOMAIN cmd.conds},
                 start : Nat, stride : Nat, end : Nat]
<1>1. cmd.subsetByVal \in BOOLEAN /\ cmd.conds \in Seq(F)
    BY DumpAssumption DEF Given, IsCommand
<1>2. \A c \in F : /\ c.start \in Nat /\ c.stride \in Nat /\ c.end \in Nat
                   /\ DOMAIN c = {"dim", "start", "stride", "end"}
                   /\ c = [k \in DOMAIN c |-> c[k]]
    OBVIOUS
<1> HIDE DEF F
<1>3. /\ DOMAIN cmd.conds = 1 .. Len(cmd.conds) /\ Len(cmd.conds) \in Nat
      /\ cmd.conds = [j \in DOMAIN cmd.conds |-> cmd.conds[j]]
      /\ \A j \in DOMAIN cmd.conds : cmd.conds[j] \in F
    BY <1>1
<1> QED
    BY <1>1, <1>2, <1>3

\* A variable has a length, and a first index, for each of its dimensions.
LEMMA LensIs ==
    Given => \A v \in ToSet(src.vars) :
        /\ Lens(v) \in Seq(Nat) /\ Zeros(v) \in Seq(Nat)
        /\ Len(Lens(v)) = Len(Shape(v)) /\ Len(Zeros(v)) = Len(Shape(v))
        /\ Len(Shape(v)) \in Nat /\ DOMAIN Shape(v) = 1 .. Len(Shape(v))
        /\ \A j \in DOMAIN Shape(v) : Zeros(v)[j] = 0
        /\ Shape(v) = <<>> <=> Len(Shape(v)) = 0
<1> SUFFICES ASSUME Given, NEW v \in ToSet(src.vars)
             PROVE  /\ Lens(v) \in Seq(Nat) /\ Zeros(v) \in Seq(Nat)
                    /\ Len(Lens(v)) = Len(Shape(v)) /\ Len(Zeros(v)) = Len(Shape(v))
                    /\ Len(Shape(v)) \in Nat /\ DOMAIN Shape(v) = 1 .. Len(Shape(v))
                    /\ \A j \in DOMAIN Shape(v) : Zeros(v)[j] = 0
                    /\ Shape(v) = <<>> <=> Len(Shape(v)) = 0
    OBVIOUS
<1> DEFINE D == ToSet(src.dims)
<1>1. \A d \in D : src.len[d] \in Nat
    BY GivenIs
<1>2. Shape(v) \in Seq(D)
    BY GivenIs DEF Shape
<1> HIDE DEF D
<1>3. PICK s \in Seq(D) : s = Shape(v)
    BY <1>2
<1>4. PICK n \in Nat : n = Len(s) /\ DOMAIN s = 1 .. n /\ \A j \in 1 .. n : s[j] \in D
    OBVIOUS
<1>5. Lens(v) = [j \in 1 .. n |-> src.len[s[j]]] /\ Zeros(v) = [j \in 1 .. n |-> 0]
    BY <1>3, <1>4 DEF Lens, Zeros
<1>6. Lens(v) \in Seq(Nat) /\ Len(Lens(v)) = n
    BY <1>1, <1>4, <1>5
<1>7. Zeros(v) \in Seq(Nat) /\ Len(Zeros(v)) = n /\ \A j \in 1 .. n : Zeros(v)[j] = 0
    BY <1>4, <1>5
<1>8. s = <<>> <=> Len(s) = 0
    BY EmptySeq
<1> QED
    BY <1>3, <1>4, <1>6, <1>7, <1>8

\* What is left of a list without its head.
LEMMA TailIs ==
    \A S : \A s \in Seq(S) : s # <<>> =>
        /\ Head(s) \in ToSet(s) /\ Tail(s) \in Seq(S)
        /\ \A x \in ToSet(s) : x = Head(s) \/ x \in ToSet(Tail(s))
<1> SUFFICES ASSUME NEW S, NEW s \in Seq(S), s # <<>>
             PROVE  /\ Head(s) \in ToSet(s) /\ Tail(s) \in Seq(S)
                    /\ \A x \in ToSet(s) : x = Head(s) \/ x \in ToSet(Tail(s))
    OBVIOUS
<1>1. PICK n \in Nat \ {0} : n = Len(s) /\ DOMAIN s = 1 .. n
    BY EmptySeq
<1>2. /\ Tail(s) \in Seq(S) /\ Len(Tail(s)) = n - 1 /\ DOMAIN Tail(s) = 1 .. n - 1
      /\ \A j \in 1 .. n - 1 : Tail(s)[j] = s[j + 1]
    BY <1>1
<1>3. Head(s) = s[1] /\ 1 \in 1 .. n
    BY <1>1
<1>4. ASSUME NEW x \in ToSet(s)
      PROVE  x = Head(s) \/ x \in ToSet(Tail(s))
    <2>1. PICK i \in 1 .. n : x = s[i]
        BY <1>1 DEF ToSet
    <2>2. CASE i = 1
        BY <1>3, <2>1, <2>2
    <2>3. CASE i # 1
        <3>1. PICK j \in 1 .. n - 1 : j + 1 = i
            <4>1. i - 1 \in 1 .. n - 1 /\ (i - 1) + 1 = i
                BY <2>3
            <4> QED
                BY <4>1
        <3>2. Tail(s)[j] = x
            BY <1>2, <2>1, <3>1
        <3> QED
            BY <1>2, <3>2 DEF ToSet
    <2> QED
        BY <2>2, <2>3
<1> QED
    BY <1>1, <1>2, <1>3, <1>4 DEF ToSet

\* No step changes the source or the command.
LEMMA GivenStays == [Next]_vars => UNCHANGED <<src, cmd>>
    BY DEF Next, Step, NcOpen, NcInq, ResolveSubsetVar, ResolveError, NcCreate, DefineDims,
           DivideByZero, DefineError, DefineVars, CopyVar, CopyChunk, ChunkError, SubsetVar,
           SubsetError, Finish, PrintVar, PrintLoops, PrintEnd, NcClose, Terminated, vars
-----------------------------------------------------------------------------
(* The conditions *)

\* What resolveSubsetVar finds for the j-th condition.
Found(j) == Interval(src.axis[cmd.conds[j].dim], cmd.conds[j].start, cmd.conds[j].end)

Working == pc \in {"create", "dims", "vars", "copy", "chunk", "subset", "print"}

\* The conditions stay the command's, except that those by value have the
\* indices that were found once they are resolved.
CondsAt ==
    /\ DOMAIN conds = DOMAIN cmd.conds
    /\ \A j \in DOMAIN cmd.conds :
        /\ conds[j].dim = cmd.conds[j].dim /\ conds[j].stride = cmd.conds[j].stride
        /\ conds[j].start \in Int /\ conds[j].end \in Int
    /\ ~ cmd.subsetByVal \/ pc \in {"open", "inq", "resolve"} => conds = cmd.conds
    /\ pc = "resolve" => cmd.subsetByVal
    /\ cmd.subsetByVal /\ Working => \A j \in DOMAIN cmd.conds :
        /\ cmd.conds[j].dim \in DOMAIN src.axis
        /\ conds[j].start = Found(j).start /\ conds[j].end = Found(j).end

\* An interval that is found goes from a number to a number.
LEMMA IntervalInt ==
    \A axis \in Seq(Int), lo, hi \in Nat :
        Interval(axis, lo, hi).start \in Int /\ Interval(axis, lo, hi).end \in Int
<1> SUFFICES ASSUME NEW axis \in Seq(Int), NEW lo \in Nat, NEW hi \in Nat
             PROVE  Interval(axis, lo, hi).start \in Int /\ Interval(axis, lo, hi).end \in Int
    OBVIOUS
<1> DEFINE n == Len(axis)
           past == {k \in 0 .. n - 1 : axis[k + 1] > hi}
           stop == IF past = {} THEN n ELSE Min(past)
           from == {k \in 0 .. n - 1 : k <= stop /\ axis[k + 1] >= lo}
<1>1. n \in Nat
    OBVIOUS
<1>2. past \subseteq Nat /\ from \subseteq Nat
    OBVIOUS
<1>3. Interval(axis, lo, hi) = [start |-> IF from = {} THEN -1 ELSE Min(from), end |-> stop - 1]
    BY DEF Interval
<1> HIDE DEF n, past, from
<1>4. past # {} => Min(past) \in Nat
    BY <1>2, MinOf
<1>5. from # {} => Min(from) \in Nat
    BY <1>2, MinOf
<1> QED
    BY <1>1, <1>3, <1>4, <1>5

\* So does what is found for a condition.
LEMMA FoundInt ==
    Given => \A j \in DOMAIN cmd.conds :
        cmd.conds[j].dim \in DOMAIN src.axis => Found(j).start \in Int /\ Found(j).end \in Int
<1> SUFFICES ASSUME Given, NEW j \in DOMAIN cmd.conds, cmd.conds[j].dim \in DOMAIN src.axis
             PROVE  Found(j).start \in Int /\ Found(j).end \in Int
    OBVIOUS
<1>1. src.axis[cmd.conds[j].dim] \in Seq(Int)
    BY GivenIs
<1>2. cmd.conds[j].start \in Nat /\ cmd.conds[j].end \in Nat
    BY CommandIs
<1> QED
    BY <1>1, <1>2, IntervalInt DEF Found

\* The conditions start as the command's.
LEMMA CondsInit == Init => CondsAt
<1> SUFFICES ASSUME Init PROVE CondsAt
    OBVIOUS
<1>1. Given /\ conds = cmd.conds /\ pc = "open"
    BY DEF Init, Given
<1>2. \A j \in DOMAIN cmd.conds : conds[j].start \in Int /\ conds[j].end \in Int
    <2>1. \A j \in DOMAIN cmd.conds : cmd.conds[j].start \in Nat /\ cmd.conds[j].end \in Nat
        BY <1>1, CommandIs, Zenon
    <2> QED
        BY <1>1, <2>1
<1> QED
    BY <1>1, <1>2 DEF CondsAt, Working

\* Each step keeps the conditions; those by value are resolved once.
LEMMA CondsStep == Given /\ CondsAt /\ [Next]_vars => CondsAt'
<1> SUFFICES ASSUME Given, CondsAt, [Next]_vars PROVE CondsAt'
    OBVIOUS
<1>1. UNCHANGED <<src, cmd>> /\ \A j : Found(j)' = Found(j)
    BY GivenStays DEF Found
<1>2. CASE ResolveSubsetVar
    <2>1. /\ pc = "resolve" /\ conds = cmd.conds
          /\ \A j \in DOMAIN cmd.conds : cmd.conds[j].dim \in DOMAIN src.axis
          /\ conds' = [j \in DOMAIN conds |-> Resolved(j)[j]]
          /\ pc' \notin {"open", "inq", "resolve"}
        BY <1>2 DEF ResolveSubsetVar, CondsAt, Resolvable, Begin
    <2>2. ASSUME NEW j \in DOMAIN cmd.conds
          PROVE  /\ conds'[j].dim = cmd.conds[j].dim /\ conds'[j].stride = cmd.conds[j].stride
                 /\ conds'[j].start = Found(j).start /\ conds'[j].end = Found(j).end
        <3>1. PICK r : r = Found(j)
            OBVIOUS
        <3>2. conds'[j] = [cmd.conds[j] EXCEPT !.start = r.start, !.end = r.end]
            <4>1. conds'[j] = [cmd.conds EXCEPT ![j].start = r.start, ![j].end = r.end][j]
                BY <2>1, <3>1 DEF Resolved, Found
            <4> QED
                BY <4>1
        <3>3. DOMAIN cmd.conds[j] = {"dim", "start", "stride", "end"}
            BY CommandIs
        <3> QED
            BY <3>1, <3>2, <3>3
    <2>3. \A j \in DOMAIN cmd.conds : conds'[j].start \in Int /\ conds'[j].end \in Int
        BY <2>1, <2>2, FoundInt
    <2>4. DOMAIN conds' = DOMAIN cmd.conds
        BY <2>1
    <2>5. cmd.subsetByVal
        BY <2>1 DEF CondsAt
    <2> QED
        BY <1>1, <2>1, <2>2, <2>3, <2>4, <2>5 DEF CondsAt
<1>3. ASSUME UNCHANGED conds, pc' \in {"open", "inq", "resolve"} => pc \in {"open", "inq", "resolve"},
             cmd.subsetByVal /\ Working' => Working, pc' = "resolve" => pc = "resolve" \/ cmd.subsetByVal
      PROVE  CondsAt'
    BY <1>1, <1>3 DEF CondsAt
<1>4. CASE NcOpen \/ NcInq \/ ResolveError
    BY <1>3, <1>4 DEF NcOpen, NcInq, ResolveError, Begin, Return, Working
<1>5. CASE NcCreate \/ DefineDims \/ DivideByZero \/ DefineError
    BY <1>3, <1>5 DEF NcCreate, DefineDims, DivideByZero, DefineError, RemoveFile, Answer, Working
<1>6. CASE DefineVars
    BY <1>3, <1>6 DEF DefineVars, CloseFile, Answer, Working, Job
<1>7. CASE CopyVar \/ CopyChunk \/ ChunkError \/ SubsetVar \/ SubsetError \/ Finish
    BY <1>3, <1>7 DEF CopyVar, CopyChunk, ChunkError, SubsetVar, SubsetError, Finish, CloseFile, RemoveFile,
                      Answer, Working
<1>8. CASE PrintVar \/ PrintLoops \/ PrintEnd \/ NcClose \/ Terminated \/ UNCHANGED vars
    BY <1>3, <1>8 DEF PrintVar, PrintLoops, PrintEnd, NcClose, Terminated, vars, Answer, Working
<1> QED
    BY <1>2, <1>4, <1>5, <1>6, <1>7, <1>8 DEF Next, Step
-----------------------------------------------------------------------------
(* The chunks of a copy *)

\* The cells in r rows.
LEMMA VolumeFirst ==
    \A c \in Seq(Nat), r \in Nat :
        /\ First(c, r) \in Seq(Nat) /\ Len(First(c, r)) = Len(c)
        /\ \A j \in 1 .. Len(c) : First(c, r)[j] = IF j = 1 THEN r ELSE c[j]
        /\ From(c, 2) \in Nat
        /\ c # <<>> => Volume(First(c, r)) = r * From(c, 2)
<1> SUFFICES ASSUME NEW c \in Seq(Nat), NEW r \in Nat
             PROVE  /\ First(c, r) \in Seq(Nat) /\ Len(First(c, r)) = Len(c)
                    /\ \A j \in 1 .. Len(c) : First(c, r)[j] = IF j = 1 THEN r ELSE c[j]
                    /\ From(c, 2) \in Nat
                    /\ c # <<>> => Volume(First(c, r)) = r * From(c, 2)
    OBVIOUS
<1>1. CASE c = <<>>
    <2>1. SubSeq(c, 2, Len(c)) = <<>>
        BY <1>1
    <2>2. From(c, 2) = 1
        BY <2>1, VolumeEmpty DEF From
    <2>3. First(c, r) = c /\ 1 .. Len(c) = {}
        BY <1>1 DEF First
    <2>4. First(c, r) \in Seq(Nat) /\ Len(First(c, r)) = Len(c)
        BY <2>3, Zenon
    <2>5. \A j \in 1 .. Len(c) : First(c, r)[j] = IF j = 1 THEN r ELSE c[j]
        BY <2>3, Zenon
    <2>6. From(c, 2) \in Nat
        BY <2>2
    <2> QED
        BY <1>1, <2>4, <2>5, <2>6
<1>2. CASE c # <<>>
    <2>1. PICK n \in Nat \ {0} : n = Len(c) /\ DOMAIN c = 1 .. n /\ \A j \in 1 .. n : c[j] \in Nat
        BY <1>2, EmptySeq
    <2>2. PICK d : d = First(c, r)
        OBVIOUS
    <2>3. d = [j \in 1 .. n |-> IF j = 1 THEN r ELSE c[j]]
        BY <1>2, <2>1, <2>2 DEF First
    <2>4. d \in Seq(Nat) /\ Len(d) = n /\ \A j \in 1 .. n : d[j] = IF j = 1 THEN r ELSE c[j]
        BY <2>1, <2>3
    <2>5. From(d, 2) = From(c, 2)
        <3>1. PICK s : s = SubSeq(c, 2, n)
            OBVIOUS
        <3>2. PICK t : t = SubSeq(d, 2, n)
            OBVIOUS
        <3>3. /\ s \in Seq(Nat) /\ t \in Seq(Nat) /\ Len(s) = n - 1 /\ Len(t) = n - 1
              /\ \A j \in 1 .. n - 1 : s[j] = c[j + 1] /\ t[j] = d[j + 1]
            BY <2>1, <2>4, <3>1, <3>2
        <3>4. \A j \in 1 .. n - 1 : d[j + 1] = c[j + 1]
            BY <2>4
        <3>5. s = t
            BY <3>3, <3>4, SeqEqual
        <3> QED
            BY <2>1, <2>4, <3>1, <3>2, <3>5 DEF From
    <2>6. Volume(d) = From(d, 1)
        BY <2>4, SlabVolumes
    <2>7. From(d, 1) = d[1] * From(d, 1 + 1)
        <3>1. 1 \in 1 .. Len(d)
            BY <2>4
        <3> QED
            BY <2>4, <3>1, VolumeFrom
    <2>8. From(c, 2) \in Nat
        <3>1. 2 \in 1 .. Len(c) + 1
            BY <2>1
        <3> QED
            BY <3>1, SlabVolumes
    <2>9. d[1] = r
        BY <2>4
    <2> QED
        BY <2>1, <2>2, <2>4, <2>5, <2>6, <2>7, <2>8, <2>9
<1> QED
    BY <1>1, <1>2

\* A step of SZ \div w + 1 rows of w cells passes SZ by at most a row.
LEMMA StepBound ==
    \A sz, w, r \in Nat : w # 0 /\ r <= sz \div w + 1 => r * w <= sz + w
<1> SUFFICES ASSUME NEW sz \in Nat, NEW w \in Nat \ {0}, NEW r \in Nat, r <= sz \div w + 1
             PROVE  r * w <= sz + w
    OBVIOUS
<1>1. PICK q \in Nat : q = sz \div w
    BY DivMod
<1>2. PICK m \in Nat : m = sz % w
    BY DivMod
<1>3. sz = w * q + m
    BY <1>1, <1>2, DivSum
<1>4. PICK z \in Nat : q + 1 = r + z
    <2>1. q + 1 - r \in Nat /\ q + 1 = r + (q + 1 - r)
        BY <1>1
    <2> QED
        BY <2>1
<1>5. w * (q + 1) = r * w + z * w
    BY <1>4
<1>6. w * (q + 1) = w * q + w
    OBVIOUS
<1>7. r * w \in Nat /\ z * w \in Nat /\ w * q \in Nat
    OBVIOUS
<1> QED
    BY <1>3, <1>5, <1>6, <1>7

\* Where the copy is.  While a variable is copied, lcount has its rows.
ChunkAt ==
    /\ todo \in Seq(ToSet(src.vars))
    /\ lcount \in Nat \union {None} /\ curCount \in Nat
    /\ pc = "chunk" =>
        /\ todo # <<>> /\ lcount \in Nat /\ curCount < lcount
        /\ Shape(Var) # <<>> => lcount = Lens(Var)[1]

\* The variable at hand is one of the source's.
LEMMA VarIs ==
    ChunkAt /\ todo # <<>> => Var \in ToSet(src.vars)
<1> DEFINE S == ToSet(src.vars)
<1> HIDE DEF S
<1>1. ChunkAt => todo \in Seq(S)
    BY DEF ChunkAt, S
<1>2. todo \in Seq(S) /\ todo # <<>> => Head(todo) \in S
    OBVIOUS
<1> QED
    BY <1>1, <1>2 DEF S, Var

\* A chunk has a row or more, no more than are left, and passes
\* NC_VAR_TRANS_SZ by at most a row.
LEMMA RowsAre ==
    Given /\ ChunkAt /\ pc = "chunk" =>
        /\ Var \in ToSet(src.vars)
        /\ Rows \in Nat \ {0} /\ curCount + Rows <= lcount
        /\ Volume(First(Lens(Var), Rows)) <= NC_VAR_TRANS_SZ + Volume(First(Lens(Var), 1))
<1> SUFFICES ASSUME Given, ChunkAt, pc = "chunk"
             PROVE  /\ Var \in ToSet(src.vars)
                    /\ Rows \in Nat \ {0} /\ curCount + Rows <= lcount
                    /\ Volume(First(Lens(Var), Rows)) <=
                        NC_VAR_TRANS_SZ + Volume(First(Lens(Var), 1))
    OBVIOUS
<1>1. Var \in ToSet(src.vars)
    BY VarIs DEF ChunkAt
<1>2. PICK lens \in Seq(Nat) : lens = Lens(Var) /\ (lens = <<>> <=> Shape(Var) = <<>>)
    <2>1. Lens(Var) \in Seq(Nat) /\ (Lens(Var) = <<>> <=> Shape(Var) = <<>>)
        BY <1>1, LensIs, EmptySeq
    <2> QED
        BY <2>1
<1>3. PICK sz \in Nat \ {0} : sz = NC_VAR_TRANS_SZ
    BY DumpAssumption
<1>4. PICK l, cur \in Nat : l = lcount /\ cur = curCount /\ cur < l
    BY DEF ChunkAt
<1>5. lens # <<>> => l = lens[1]
    BY <1>2, <1>4 DEF ChunkAt
<1>6. PICK w \in Nat : w = From(lens, 2)
    BY VolumeFirst
<1>7. \A r \in Nat : lens # <<>> => Volume(First(lens, r)) = r * w
    BY <1>6, VolumeFirst
<1>8. lens # <<>> => Volume(lens) = l * w
    <2>1. ASSUME lens # <<>>
          PROVE  Volume(lens) = l * w
        <3>1. 1 \in 1 .. Len(lens)
            BY <2>1, EmptySeq
        <3>2. From(lens, 1) = lens[1] * From(lens, 1 + 1)
            BY <3>1, VolumeFrom
        <3>3. From(lens, 1) = Volume(lens)
            BY SlabVolumes
        <3> QED
            BY <1>5, <1>6, <2>1, <3>2, <3>3
    <2> QED
        BY <2>1
<1>9. PICK vol \in Nat : vol = Volume(lens)
    BY VolumeNat
<1>10. PICK step : step = ChunkRows(Var, lcount)
    OBVIOUS
<1>11. step = IF vol > sz THEN sz \div (vol \div l) + 1 ELSE l
    BY <1>2, <1>3, <1>4, <1>9, <1>10 DEF ChunkRows
<1>12. Rows = IF cur + step > l THEN l - cur ELSE step
    BY <1>4, <1>10 DEF Rows
<1>13. CASE vol > sz
    <2>1. lens # <<>>
        BY <1>3, <1>9, <1>13, VolumeEmpty
    <2>2. vol = l * w
        BY <1>8, <1>9, <2>1
    <2>3. w # 0
        <3>1. l * 0 = 0
            OBVIOUS
        <3> QED
            BY <1>13, <2>2, <3>1
    <2>4. vol \div l = w
        <3>1. (w * l + 0) \div l = w
            <4>1. l \in Nat \ {0} /\ 0 \in Nat /\ 0 < l
                BY <1>4
            <4> QED
                BY <4>1, DivIs
        <3>2. w * l + 0 = l * w
            OBVIOUS
        <3> QED
            BY <2>2, <3>1, <3>2
    <2>5. PICK q \in Nat : q = sz \div w
        BY <2>3, DivMod
    <2>6. step = q + 1
        BY <1>11, <1>13, <2>4, <2>5
    <2>7. PICK r \in Nat \ {0} : r = Rows /\ cur + r <= l /\ r <= q + 1
        <3>1. Rows \in Nat \ {0} /\ cur + Rows <= l /\ Rows <= q + 1
            BY <1>4, <1>12, <2>6
        <3> QED
            BY <3>1
    <2>8. r * w <= sz + w
        BY <2>3, <2>5, <2>7, StepBound
    <2>9. Volume(First(lens, r)) = r * w /\ Volume(First(lens, 1)) = w
        <3>1. Volume(First(lens, 1)) = 1 * w
            BY <1>7, <2>1
        <3> QED
            BY <1>7, <2>1, <3>1
    <2> QED
        BY <1>1, <1>2, <1>3, <1>4, <2>7, <2>8, <2>9
<1>14. CASE ~ (vol > sz)
    <2>1. PICK r \in Nat \ {0} : r = Rows /\ cur + r <= l /\ r <= l
        <3>1. Rows \in Nat \ {0} /\ cur + Rows <= l /\ Rows <= l
            BY <1>4, <1>11, <1>12, <1>14
        <3> QED
            BY <3>1
    <2>2. CASE lens = <<>>
        <3>1. First(lens, r) = <<>> /\ First(lens, 1) = <<>>
            BY <2>2 DEF First
        <3> QED
            BY <1>1, <1>2, <1>3, <1>4, <2>1, <3>1, VolumeEmpty
    <2>3. CASE lens # <<>>
        <3>1. r * w <= l * w
            <4>1. PICK z \in Nat : l = r + z
                <5>1. l - r \in Nat /\ l = r + (l - r)
                    BY <2>1
                <5> QED
                    BY <5>1
            <4>2. l * w = r * w + z * w
                BY <4>1
            <4>3. r * w \in Nat /\ z * w \in Nat
                OBVIOUS
            <4> QED
                BY <4>2, <4>3
        <3>2. l * w <= sz
            BY <1>8, <1>9, <1>14, <2>3
        <3>3. Volume(First(lens, r)) = r * w /\ Volume(First(lens, 1)) = w
            <4>1. Volume(First(lens, 1)) = 1 * w
                BY <1>7, <2>3
            <4> QED
                BY <1>7, <2>3, <4>1
        <3>4. PICK a, b \in Nat : a = r * w /\ b = l * w
            OBVIOUS
        <3>5. a <= sz + w
            BY <3>1, <3>2, <3>4
        <3> QED
            BY <1>1, <1>2, <1>3, <1>4, <2>1, <3>3, <3>4, <3>5
    <2> QED
        BY <2>2, <2>3
<1> QED
    BY <1>13, <1>14

\* The variables of --var, or all.
LEMMA ScreenedIs ==
    Given => /\ Screened \in Seq(ToSet(src.vars))
             /\ \A v : v \in ToSet(Screened) <=>
                    /\ v \in ToSet(src.vars)
                    /\ Job = "subset" /\ cmd.vars # {} => v \in cmd.vars
<1> SUFFICES ASSUME Given
             PROVE  /\ Screened \in Seq(ToSet(src.vars))
                    /\ \A v : v \in ToSet(Screened) <=>
                            /\ v \in ToSet(src.vars)
                            /\ Job = "subset" /\ cmd.vars # {} => v \in cmd.vars
    OBVIOUS
<1> DEFINE Taken(v) == Job = "subset" /\ cmd.vars # {} => v \in cmd.vars
           S == ToSet(src.vars)
<1> HIDE DEF S
<1>1. PICK s \in Seq(S) : s = src.vars
    BY GivenIs DEF S
<1>2. PICK n \in Nat : n = Len(s) /\ DOMAIN s = 1 .. n /\ \A k \in 1 .. n : s[k] \in S
    OBVIOUS
<1> DEFINE r == [k \in 1 .. n |-> IF Taken(s[k]) THEN <<s[k]>> ELSE <<>>]
<1>3. Screened = FlattenSeq(r)
    BY <1>1, <1>2 DEF Screened
<1>4. \A x \in S : <<x>> \in Seq(S) /\ ToSet(<<x>>) = {x}
    BY DEF ToSet
<1>5. <<>> \in Seq(S) /\ ToSet(<<>>) = {}
    BY DEF ToSet
<1> HIDE DEF Taken
<1>6. /\ DOMAIN r = 1 .. n
      /\ \A k \in 1 .. n : r[k] = IF Taken(s[k]) THEN <<s[k]>> ELSE <<>>
    OBVIOUS
<1>7. r \in Seq(Seq(S))
    <2> DEFINE U == Seq(S)
    <2>1. \A k \in 1 .. n : (IF Taken(s[k]) THEN <<s[k]>> ELSE <<>>) \in U
        BY <1>2, <1>4, <1>5
    <2> HIDE DEF U
    <2>2. r \in [1 .. n -> U]
        BY <2>1
    <2>3. r \in Seq(U)
        BY <2>2
    <2> QED
        BY <2>3 DEF U
<1> HIDE DEF r
<1>8. Screened \in Seq(S)
    BY <1>3, <1>7, FlattenOfSeq
<1>9. ASSUME NEW v
      PROVE  v \in ToSet(Screened) <=> v \in S /\ Taken(v)
    <2>1. v \in ToSet(FlattenSeq(r)) <=> \E i \in DOMAIN r : v \in ToSet(r[i])
        BY <1>7, FlattenElements
    <2>2. \A i \in 1 .. n : v \in ToSet(r[i]) <=> v = s[i] /\ Taken(s[i])
        BY <1>2, <1>4, <1>5, <1>6
    <2>3. v \in S <=> \E i \in 1 .. n : v = s[i]
        BY <1>1, <1>2 DEF S, ToSet
    <2> QED
        BY <1>3, <1>6, <2>1, <2>2, <2>3
<1> QED
    BY <1>8, <1>9 DEF S, Taken

\* No variable is copied at the start.
LEMMA ChunkInit == Init => ChunkAt
<1> SUFFICES ASSUME Init PROVE ChunkAt
    OBVIOUS
<1>1. Given /\ todo = src.vars /\ lcount = None /\ curCount = 0 /\ pc = "open"
    BY DEF Init, Given
<1>2. src.vars \in Seq(ToSet(src.vars))
    BY <1>1, GivenIs, Zenon
<1> QED
    BY <1>1, <1>2 DEF ChunkAt

\* Each step keeps where the copy is.
LEMMA ChunkStep == Given /\ ChunkAt /\ [Next]_vars => ChunkAt'
<1> SUFFICES ASSUME Given, ChunkAt, [Next]_vars PROVE ChunkAt'
    OBVIOUS
<1> DEFINE S == ToSet(src.vars)
<1>1. src' = src /\ ToSet(src.vars)' = S
    BY GivenStays
<1>2. todo \in Seq(S) /\ \A v \in S : Lens(v) \in Seq(Nat) /\ (Shape(v) # <<>> => Len(Lens(v)) # 0)
    BY LensIs DEF ChunkAt
<1> HIDE DEF S
<1>3. ASSUME todo # <<>>
      PROVE  /\ Tail(todo) \in Seq(S) /\ Var \in S
             /\ Shape(Var) # <<>> => Lens(Var)[1] \in Nat
    <2>1. Tail(todo) \in Seq(S) /\ Var \in S
        BY <1>2, <1>3 DEF Var
    <2>2. PICK c \in Seq(Nat) : c = Lens(Var) /\ (Shape(Var) # <<>> => Len(c) # 0)
        BY <1>2, <2>1
    <2>3. Len(c) # 0 => c[1] \in Nat
        OBVIOUS
    <2> QED
        BY <2>1, <2>2, <2>3
<1>4. CASE CopyVar
    <2>1. todo # <<>> /\ pc = "copy"
        BY <1>4 DEF CopyVar
    <2>2. lcount' \in Nat /\ (Shape(Var) # <<>> => lcount' = Lens(Var)[1])
        BY <1>3, <1>4, <2>1 DEF CopyVar, ChunkAt
    <2>3. curCount' = 0
        BY <1>4 DEF CopyVar
    <2>4. CASE lcount' = 0
        BY <1>1, <1>3, <1>4, <2>1, <2>2, <2>3, <2>4 DEF CopyVar, ChunkAt, S
    <2>5. CASE lcount' # 0
        <3>1. pc' = "chunk" /\ todo' = todo
            BY <1>4, <2>5 DEF CopyVar
        <3>2. Shape(Var)' = Shape(Var) /\ Lens(Var)' = Lens(Var)
            BY <1>1, <3>1 DEF Shape, Lens, Var
        <3> QED
            BY <1>1, <1>2, <2>1, <2>2, <2>3, <2>5, <3>1, <3>2 DEF ChunkAt, S
    <2> QED
        BY <2>4, <2>5
<1>5. CASE CopyChunk
    <2>1. pc = "chunk" /\ todo # <<>> /\ lcount \in Nat /\ curCount \in Nat
        BY <1>5 DEF CopyChunk, ChunkAt
    <2>2. Rows \in Nat \ {0} /\ curCount + Rows <= lcount
        BY <2>1, RowsAre
    <2>3. curCount' = curCount + Rows /\ lcount' = lcount
        BY <1>5 DEF CopyChunk
    <2>4. CASE ChunkDone
        <3>1. pc' = "copy" /\ todo' = Tail(todo)
            BY <1>5, <2>4 DEF CopyChunk
        <3> QED
            BY <1>1, <1>3, <2>1, <2>2, <2>3, <3>1 DEF ChunkAt, S
    <2>5. CASE ~ ChunkDone
        <3>1. pc' = pc /\ todo' = todo
            BY <1>5, <2>5 DEF CopyChunk
        <3>2. Shape(Var)' = Shape(Var) /\ Lens(Var)' = Lens(Var)
            BY <1>1, <3>1 DEF Shape, Lens, Var
        <3>3. curCount + Rows < lcount
            BY <2>1, <2>2, <2>5 DEF ChunkDone
        <3> QED
            BY <1>1, <1>2, <2>1, <2>2, <2>3, <3>1, <3>2, <3>3 DEF ChunkAt, S
    <2> QED
        BY <2>4, <2>5
<1>6. ASSUME UNCHANGED <<lcount, curCount>>, todo' \in Seq(S), pc' # "chunk"
      PROVE  ChunkAt'
    BY <1>1, <1>6 DEF ChunkAt, S
<1>7. CASE SubsetVar \/ PrintVar
    BY <1>2, <1>3, <1>6, <1>7 DEF SubsetVar, PrintVar
<1>8. CASE DefineVars
    BY <1>6, <1>8, ScreenedIs DEF DefineVars, CloseFile, Answer, Job, S
<1>9. CASE NcOpen \/ NcInq \/ ResolveSubsetVar \/ ResolveError
    BY <1>2, <1>6, <1>9 DEF NcOpen, NcInq, ResolveSubsetVar, ResolveError, Begin, Return
<1>10. CASE NcCreate \/ DefineDims \/ DivideByZero \/ DefineError
    BY <1>2, <1>6, <1>10 DEF NcCreate, DefineDims, DivideByZero, DefineError, RemoveFile, Answer
<1>11. CASE ChunkError \/ SubsetError \/ Finish \/ PrintLoops \/ PrintEnd \/ NcClose
    BY <1>2, <1>6, <1>11 DEF ChunkError, SubsetError, Finish, CloseFile, PrintLoops, PrintEnd, NcClose,
                             RemoveFile, Answer
<1>12. CASE UNCHANGED vars
    BY <1>12 DEF vars, ChunkAt, Var, Shape, Lens
<1> QED
    BY <1>4, <1>5, <1>7, <1>8, <1>9, <1>10, <1>11, <1>12 DEF Next, Step, Terminated
-----------------------------------------------------------------------------
(* What is written *)

\* What is in a variable once buf was put in the cells of slab.
Filled(old, slab, buf) ==
    [c \in DOMAIN old \union ToSet(slab) |->
        IF c \in ToSet(slab)
        THEN LET k == CHOOSE n \in DOMAIN slab : slab[n] = c
             IN  IF k <= Len(buf) THEN buf[k] ELSE Garbage
        ELSE old[c]]

\* The file is a record.
IsRecord == file = [state |-> file.state, dims |-> file.dims, data |-> file.data]

\* A record stays one where its state or its data change.
LEMMA RecordStays ==
    IsRecord => \A s, d :
        /\ [file EXCEPT !.state = s, !.data = d] = [state |-> s, dims |-> file.dims, data |-> d]
        /\ [file EXCEPT !.state = s] = [state |-> s, dims |-> file.dims, data |-> file.data]
<1> SUFFICES ASSUME IsRecord, NEW s, NEW d
             PROVE  /\ [file EXCEPT !.state = s, !.data = d] =
                            [state |-> s, dims |-> file.dims, data |-> d]
                    /\ [file EXCEPT !.state = s] =
                            [state |-> s, dims |-> file.dims, data |-> file.data]
    OBVIOUS
<1>1. PICK a, b, c : a = file.state /\ b = file.dims /\ c = file.data
    OBVIOUS
<1>2. file = [state |-> a, dims |-> b, data |-> c]
    BY <1>1 DEF IsRecord
<1>3. [file EXCEPT !.state = s] = [state |-> s, dims |-> b, data |-> c]
    BY <1>2
<1>4. [file EXCEPT !.state = s, !.data = d] = [state |-> s, dims |-> b, data |-> d]
    <2>1. PICK g : g = [file EXCEPT !.state = s]
        OBVIOUS
    <2>2. g = [state |-> s, dims |-> b, data |-> c]
        BY <1>3, <2>1
    <2>3. [g EXCEPT !.data = d] = [state |-> s, dims |-> b, data |-> d]
        BY <2>2
    <2> QED
        BY <2>1, <2>3, Zenon
<1> QED
    BY <1>1, <1>3, <1>4

\* A write to a variable fills in its cells and leaves the rest of the file.
LEMMA PutIs ==
    IsRecord => \A v, start, count, buf :
        PutVars(v, start, count, buf) =
            [state |-> "data", dims |-> file.dims, data |->
                [file.data EXCEPT ![v] = Filled(file.data[v], Slab(start, count), buf)]]
<1> SUFFICES ASSUME IsRecord, NEW v, NEW start, NEW count, NEW buf
             PROVE  PutVars(v, start, count, buf) =
                        [state |-> "data", dims |-> file.dims, data |->
                            [file.data EXCEPT ![v] =
                                Filled(file.data[v], Slab(start, count), buf)]]
    OBVIOUS
<1> DEFINE slab == Slab(start, count)
           new == [c \in ToSet(slab) |->
                    LET k == CHOOSE n \in DOMAIN slab : slab[n] = c
                    IN  IF k <= Len(buf) THEN buf[k] ELSE Garbage]
           old == file.data[v]
           x == [c \in DOMAIN old \union DOMAIN new |->
                    IF c \in DOMAIN new THEN new[c] ELSE old[c]]
<1>1. PutVars(v, start, count, buf) = [file EXCEPT !.state = "data", !.data[v] = x]
    BY DEF PutVars
<1>2. x = Filled(old, slab, buf)
    <2>1. DOMAIN new = ToSet(slab)
        OBVIOUS
    <2>2. \A c \in ToSet(slab) : new[c] =
            LET k == CHOOSE n \in DOMAIN slab : slab[n] = c
            IN  IF k <= Len(buf) THEN buf[k] ELSE Garbage
        OBVIOUS
    <2> HIDE DEF new, slab, old
    <2> QED
        BY <2>1, <2>2 DEF Filled
<1> HIDE DEF x
<1>3. [file EXCEPT !.state = "data", !.data[v] = x] =
        [state |-> "data", dims |-> file.dims, data |-> [file.data EXCEPT ![v] = x]]
    <2>1. PICK a, b, c : a = file.state /\ b = file.dims /\ c = file.data
        OBVIOUS
    <2>2. file = [state |-> a, dims |-> b, data |-> c]
        BY <2>1 DEF IsRecord
    <2>3. [file EXCEPT !.state = "data", !.data[v] = x] =
            [state |-> "data", dims |-> b, data |-> [c EXCEPT ![v] = x]]
        <3>1. PICK g : g = [file EXCEPT !.state = "data"]
            OBVIOUS
        <3>2. g = [state |-> "data", dims |-> b, data |-> c]
            BY <2>2, <3>1
        <3>3. [g EXCEPT !.data[v] = x] =
                [state |-> "data", dims |-> b, data |-> [c EXCEPT ![v] = x]]
            BY <3>2
        <3> QED
            BY <3>1, <3>3, Zenon
    <2> QED
        BY <2>1, <2>3
<1> QED
    BY <1>1, <1>2, <1>3
-----------------------------------------------------------------------------
(* What is asked for *)

\* The condition on a dimension is one of its own.
LEMMA CondOfIs ==
    Given /\ CondsAt => \A d : CondOf(d) # 0 =>
        CondOf(d) \in DOMAIN cmd.conds /\ cmd.conds[CondOf(d)].dim = d
<1> SUFFICES ASSUME Given, CondsAt, NEW d, CondOf(d) # 0
             PROVE  CondOf(d) \in DOMAIN cmd.conds /\ cmd.conds[CondOf(d)].dim = d
    OBVIOUS
<1> DEFINE s == {j \in DOMAIN conds : conds[j].dim = d}
<1>1. DOMAIN conds = DOMAIN cmd.conds /\ DOMAIN cmd.conds = 1 .. Len(cmd.conds)
      /\ Len(cmd.conds) \in Nat
    BY CommandIs DEF CondsAt
<1>2. s \subseteq Nat
    BY <1>1
<1>3. s # {} /\ CondOf(d) = Min(s)
    BY DEF CondOf
<1> HIDE DEF s
<1>4. Min(s) \in s
    BY <1>2, <1>3, MinOf
<1> QED
    BY <1>1, <1>3, <1>4 DEF CondsAt, s

\* The slab of a variable that can be read.
LEMMA CountIs ==
    Given /\ CondsAt => \A v \in ToSet(src.vars) : CanGet(v) =>
        /\ Start(v) \in Seq(Nat) /\ Count(v) \in Seq(Nat)
        /\ Len(Start(v)) = Len(Shape(v)) /\ Len(Count(v)) = Len(Shape(v))
        /\ \A j \in 1 .. Len(Shape(v)) : Count(v)[j] # 0
<1> SUFFICES ASSUME Given, CondsAt, NEW v \in ToSet(src.vars), CanGet(v)
             PROVE  /\ Start(v) \in Seq(Nat) /\ Count(v) \in Seq(Nat)
                    /\ Len(Start(v)) = Len(Shape(v)) /\ Len(Count(v)) = Len(Shape(v))
                    /\ \A j \in 1 .. Len(Shape(v)) : Count(v)[j] # 0
    OBVIOUS
<1>1. PICK n \in Nat : n = Len(Shape(v)) /\ DOMAIN Shape(v) = 1 .. n
    BY LensIs
<1>2. Lens(v) \in Seq(Nat) /\ Len(Lens(v)) = n
    BY <1>1, LensIs
<1>3. ASSUME NEW j \in 1 .. n
      PROVE  Start(v)[j] \in Int /\ Count(v)[j] \in Int
    <2>1. /\ Start(v)[j] = IF HasCond(v, j) THEN Cond(v, j).start ELSE 0
          /\ Count(v)[j] = IF HasCond(v, j) THEN Cond(v, j).end - Cond(v, j).start + 1
                           ELSE Lens(v)[j]
        BY <1>1 DEF Start, Count
    <2>2. HasCond(v, j) => Cond(v, j).start \in Int /\ Cond(v, j).end \in Int
        BY CondOfIs DEF HasCond, Cond, CondsAt
    <2>3. Lens(v)[j] \in Nat
        BY <1>2
    <2> QED
        BY <2>1, <2>2, <2>3
<1>4. DOMAIN Start(v) = 1 .. n /\ DOMAIN Count(v) = 1 .. n
    BY <1>1 DEF Start, Count
<1>5. \A j \in 1 .. n : Count(v)[j] > 0 /\ Start(v)[j] >= 0
    BY <1>4 DEF CanGet, Readable
<1>6. \A j \in 1 .. n : Start(v)[j] \in Nat /\ Count(v)[j] \in Nat \ {0}
    BY <1>3, <1>5
<1>7. Start(v) = [j \in 1 .. n |-> Start(v)[j]] /\ Count(v) = [j \in 1 .. n |-> Count(v)[j]]
    BY <1>1 DEF Start, Count
<1>8. Start(v) \in Seq(Nat) /\ Len(Start(v)) = n
    BY <1>6, <1>7
<1>9. Count(v) \in Seq(Nat) /\ Len(Count(v)) = n
    BY <1>6, <1>7
<1> QED
    BY <1>1, <1>6, <1>8, <1>9
-----------------------------------------------------------------------------
(* The output file *)

FileIs ==
    /\ IsRecord
    /\ file.state \in {"absent", "left"} \union Begun \union Ended
    /\ DOMAIN file.dims \subseteq ToSet(src.dims)
    /\ \A d \in DOMAIN file.dims : file.dims[d] \in Nat \union {Unlimited}
    /\ DOMAIN file.data \subseteq ToSet(src.vars)
    /\ \A v \in DOMAIN file.data : IsFiniteSet(DOMAIN file.data[v])

\* No file has no dimensions and no data.
LEMMA NoFileIs == /\ NoFile = [state |-> NoFile.state, dims |-> NoFile.dims, data |-> NoFile.data]
                  /\ NoFile.state = "absent"
                  /\ DOMAIN NoFile.dims = {} /\ DOMAIN NoFile.data = {}
    BY DEF NoFile

\* A file that is closed has what was written; one that is removed is not complete.
LEMMA CloseIs ==
    FileIs => /\ CloseFile => /\ file'.state \in Ended /\ file'.data = file.data
                              /\ pc' = "close" /\ status' = "ok"
              /\ RemoveFile => /\ file'.state \notin Ended
                               /\ pc' = "close" /\ status' = "error"
<1> SUFFICES ASSUME FileIs
             PROVE  /\ CloseFile => /\ file'.state \in Ended /\ file'.data = file.data
                                    /\ pc' = "close" /\ status' = "ok"
                    /\ RemoveFile => /\ file'.state \notin Ended
                                     /\ pc' = "close" /\ status' = "error"
    OBVIOUS
<1>1. \A s : [file EXCEPT !.state = s].state = s /\ [file EXCEPT !.state = s].data = file.data
    BY RecordStays DEF FileIs
<1>2. ASSUME CloseFile
      PROVE  file'.state \in Ended /\ file'.data = file.data
    <2>1. PICK s \in Ended : file' = [file EXCEPT !.state = s]
        BY <1>2 DEF CloseFile, Ended
    <2> QED
        BY <1>1, <2>1
<1>3. ASSUME RemoveFile
      PROVE  file'.state \notin Ended
    <2>1. file' = NoFile \/ file' = [file EXCEPT !.state = "left"]
        BY <1>3 DEF RemoveFile
    <2>2. file'.state \in {"absent", "left"}
        BY <1>1, <2>1, NoFileIs
    <2> QED
        BY <2>2 DEF Ended
<1> QED
    BY <1>2, <1>3 DEF CloseFile, RemoveFile, Answer

\* There is no file at the start.
LEMMA FileInit == Init => FileIs
    BY NoFileIs DEF Init, FileIs, IsRecord

\* f is the file with no more than vol cells put in a variable, which has x then.
IsPut(f, v, x, vol) ==
    /\ f = [state |-> f.state, dims |-> f.dims, data |-> f.data]
    /\ f.state = "data" /\ f.dims = file.dims
    /\ DOMAIN f.data = DOMAIN file.data
    /\ \A u \in DOMAIN file.data : f.data[u] = IF u = v THEN x ELSE file.data[u]
    /\ \A u \in DOMAIN file.data :
        /\ IsFiniteSet(DOMAIN f.data[u])
        /\ Cardinality(DOMAIN f.data[u]) \in Int /\ Cardinality(DOMAIN file.data[u]) \in Int
        /\ Cardinality(DOMAIN f.data[u]) - Cardinality(DOMAIN file.data[u]) <= vol
        /\ u # v => Cardinality(DOMAIN f.data[u]) - Cardinality(DOMAIN file.data[u]) <= 0

\* A put fills in cells of one variable, no more than there are in the slab.
LEMMA PutSlab ==
    FileIs => \A v, buf, f : \A start, count \in Seq(Nat) :
        Len(start) = Len(count) /\ f = PutVars(v, start, count, buf) =>
            IsPut(f, v, Filled(file.data[v], Slab(start, count), buf), Volume(count))
<1> SUFFICES ASSUME FileIs, NEW v, NEW buf, NEW f, NEW start \in Seq(Nat), NEW count \in Seq(Nat),
                    Len(start) = Len(count), f = PutVars(v, start, count, buf)
             PROVE  IsPut(f, v, Filled(file.data[v], Slab(start, count), buf), Volume(count))
    OBVIOUS
<1>1. PICK x : x = Filled(file.data[v], Slab(start, count), buf)
    OBVIOUS
<1>2. f = [state |-> "data", dims |-> file.dims, data |-> [file.data EXCEPT ![v] = x]]
    BY <1>1, PutIs DEF FileIs
<1>3. /\ f = [state |-> f.state, dims |-> f.dims, data |-> f.data]
      /\ f.state = "data" /\ f.dims = file.dims
      /\ f.data = [file.data EXCEPT ![v] = x]
    BY <1>2
<1>4. /\ DOMAIN f.data = DOMAIN file.data
      /\ \A u \in DOMAIN file.data : f.data[u] = IF u = v THEN x ELSE file.data[u]
    BY <1>3
<1>5. PICK vol \in Nat : vol = Volume(count) /\ DOMAIN Slab(start, count) = 1 .. vol
    BY SlabIs
<1>6. PICK s : s = ToSet(Slab(start, count)) /\ IsFiniteSet(s) /\ Cardinality(s) <= vol
    BY <1>5, ToSetFinite
<1>7. DOMAIN x = DOMAIN file.data[v] \union s
    BY <1>1, <1>6 DEF Filled
<1>8. ASSUME NEW u \in DOMAIN file.data
      PROVE  /\ IsFiniteSet(DOMAIN f.data[u])
             /\ Cardinality(DOMAIN f.data[u]) \in Int /\ Cardinality(DOMAIN file.data[u]) \in Int
             /\ Cardinality(DOMAIN f.data[u]) - Cardinality(DOMAIN file.data[u]) <= vol
             /\ u # v => Cardinality(DOMAIN f.data[u]) - Cardinality(DOMAIN file.data[u]) <= 0
    <2>1. PICK o : o = DOMAIN file.data[u] /\ IsFiniteSet(o) /\ Cardinality(o) \in Nat
        BY FS_CardinalityType DEF FileIs
    <2>2. CASE u = v
        <3>1. DOMAIN f.data[u] = o \union s
            BY <1>4, <1>7, <2>1, <2>2
        <3>2. /\ IsFiniteSet(o \union s)
              /\ Cardinality(o \union s) = Cardinality(o) + Cardinality(s) - Cardinality(o \cap s)
            BY <1>6, <2>1, FS_Union
        <3>3. IsFiniteSet(o \cap s)
            <4>1. o \cap s \in SUBSET o
                OBVIOUS
            <4> QED
                BY <2>1, <4>1, FS_Subset
        <3>4. Cardinality(o \cap s) \in Nat /\ Cardinality(s) \in Nat /\ Cardinality(o \union s) \in Nat
            BY <1>6, <3>2, <3>3, FS_CardinalityType
        <3>5. Cardinality(o \union s) - Cardinality(o) <= vol
            BY <1>6, <2>1, <3>2, <3>4
        <3> QED
            BY <2>1, <2>2, <3>1, <3>2, <3>4, <3>5
    <2>3. CASE u # v
        <3>1. f.data[u] = file.data[u]
            BY <1>4, <2>3
        <3>2. Cardinality(o) - Cardinality(o) = 0
            BY <2>1
        <3> QED
            BY <2>1, <3>1, <3>2
    <2> QED
        BY <2>2, <2>3
<1> QED
    BY <1>1, <1>3, <1>4, <1>5, <1>8 DEF IsPut

\* The slab of a chunk.
LEMMA ChunkSlab ==
    Given /\ ChunkAt /\ pc = "chunk" =>
        /\ First(Zeros(Var), curCount) \in Seq(Nat) /\ First(Lens(Var), Rows) \in Seq(Nat)
        /\ Len(First(Zeros(Var), curCount)) = Len(Shape(Var))
        /\ Len(First(Lens(Var), Rows)) = Len(Shape(Var))
<1> SUFFICES ASSUME Given, ChunkAt, pc = "chunk"
             PROVE  /\ First(Zeros(Var), curCount) \in Seq(Nat)
                    /\ First(Lens(Var), Rows) \in Seq(Nat)
                    /\ Len(First(Zeros(Var), curCount)) = Len(Shape(Var))
                    /\ Len(First(Lens(Var), Rows)) = Len(Shape(Var))
    OBVIOUS
<1>1. Var \in ToSet(src.vars) /\ Rows \in Nat /\ curCount \in Nat
    BY RowsAre DEF ChunkAt
<1>2. /\ Lens(Var) \in Seq(Nat) /\ Zeros(Var) \in Seq(Nat)
      /\ Len(Lens(Var)) = Len(Shape(Var)) /\ Len(Zeros(Var)) = Len(Shape(Var))
    BY <1>1, LensIs
<1>3. First(Lens(Var), Rows) \in Seq(Nat) /\ Len(First(Lens(Var), Rows)) = Len(Lens(Var))
    BY <1>1, <1>2, VolumeFirst
<1>4. /\ First(Zeros(Var), curCount) \in Seq(Nat)
      /\ Len(First(Zeros(Var), curCount)) = Len(Zeros(Var))
    BY <1>1, <1>2, VolumeFirst
<1> QED
    BY <1>2, <1>3, <1>4

\* Each step keeps the file one.
LEMMA FileStep == Given /\ CondsAt /\ ChunkAt /\ FileIs /\ [Next]_vars => FileIs'
<1> SUFFICES ASSUME Given, CondsAt, ChunkAt, FileIs, [Next]_vars PROVE FileIs'
    OBVIOUS
<1>1. src' = src /\ cmd' = cmd
    BY GivenStays
<1>2. ASSUME UNCHANGED file PROVE FileIs'
    BY <1>1, <1>2 DEF FileIs, IsRecord
<1>3. ASSUME file' = NoFile PROVE FileIs'
    BY <1>1, <1>3, NoFileIs DEF FileIs, IsRecord
<1>4. ASSUME NEW s \in {"left"} \union Begun \union Ended, NEW f \in {file, NoFile}, file' = [f EXCEPT !.state = s]
      PROVE  FileIs'
    <2>1. /\ f = [state |-> f.state, dims |-> f.dims, data |-> f.data]
          /\ DOMAIN f.dims \subseteq ToSet(src.dims)
          /\ \A d \in DOMAIN f.dims : f.dims[d] \in Nat \union {Unlimited}
          /\ DOMAIN f.data \subseteq ToSet(src.vars)
          /\ \A v \in DOMAIN f.data : IsFiniteSet(DOMAIN f.data[v])
        BY NoFileIs DEF FileIs, IsRecord
    <2>2. /\ file' = [state |-> file'.state, dims |-> file'.dims, data |-> file'.data]
          /\ file'.state = s /\ file'.dims = f.dims /\ file'.data = f.data
        BY <1>4, <2>1
    <2> QED
        BY <1>1, <2>1, <2>2 DEF FileIs, IsRecord
<1>5. CASE DefineDims
    <2>1. CASE UNCHANGED file
        BY <1>2, <2>1
    <2>2. CASE file' = [file EXCEPT !.dims = [d \in ToSet(src.dims) |-> DefLen(d)]]
               /\ \A d \in ToSet(src.dims) : DefLen(d) \in (Nat \ {0}) \union {Unlimited}
        <3>0. PICK g : g = [d \in ToSet(src.dims) |-> DefLen(d)]
            OBVIOUS
        <3>1. DOMAIN g = ToSet(src.dims) /\ \A d \in DOMAIN g : g[d] \in Nat \union {Unlimited}
            BY <2>2, <3>0
        <3>2. /\ file' = [state |-> file'.state, dims |-> file'.dims, data |-> file'.data]
              /\ file'.state = file.state /\ file'.dims = g /\ file'.data = file.data
            BY <2>2, <3>0 DEF FileIs, IsRecord
        <3> QED
            BY <1>1, <3>1, <3>2 DEF FileIs, IsRecord
    <2> QED
        BY <1>5, <2>1, <2>2 DEF DefineDims
<1>6. CASE DefineVars
    <2>1. CASE CloseFile
        BY <1>4, <2>1 DEF CloseFile, Ended
    <2>2. ASSUME NEW s \in Begun, file' = [file EXCEPT !.state = s, !.data = [v \in ToSet(Screened) |-> <<>>]]
          PROVE  FileIs'
        <3>0. PICK g : g = [v \in ToSet(Screened) |-> <<>>]
            OBVIOUS
        <3>1. DOMAIN g = ToSet(Screened) /\ \A v \in DOMAIN g : g[v] = <<>>
            BY <3>0
        <3>2. /\ file' = [state |-> file'.state, dims |-> file'.dims, data |-> file'.data]
              /\ file'.state = s /\ file'.dims = file.dims /\ file'.data = g
            BY <2>2, <3>0, RecordStays DEF FileIs
        <3>3. DOMAIN g \subseteq ToSet(src.vars)
            BY <3>1, ScreenedIs
        <3>4. IsFiniteSet(DOMAIN <<>>)
            <4>1. DOMAIN <<>> = {}
                OBVIOUS
            <4> QED
                BY <4>1, FS_EmptySet
        <3> QED
            BY <1>1, <3>1, <3>2, <3>3, <3>4 DEF FileIs, IsRecord
    <2> QED
        BY <1>6, <2>1, <2>2 DEF DefineVars, Begun
<1>7. ASSUME NEW v, NEW start \in Seq(Nat), NEW count \in Seq(Nat), NEW buf,
             Len(start) = Len(count), file' = PutVars(v, start, count, buf)
      PROVE  FileIs'
    <2>1. /\ file' = [state |-> file'.state, dims |-> file'.dims, data |-> file'.data]
          /\ file'.state = "data" /\ file'.dims = file.dims
          /\ DOMAIN file'.data = DOMAIN file.data
          /\ \A u \in DOMAIN file.data : IsFiniteSet(DOMAIN file'.data[u])
        <3>0. IsPut(file', v, Filled(file.data[v], Slab(start, count), buf), Volume(count))
            BY <1>7, PutSlab
        <3>1. PICK x, vol : IsPut(file', v, x, vol)
            BY <3>0
        <3> QED
            BY <3>1 DEF IsPut
    <2> QED
        BY <1>1, <2>1 DEF FileIs, IsRecord, Begun
<1>8. CASE CopyChunk
    <2>1. pc = "chunk"
        BY <1>8 DEF CopyChunk
    <2>2. PICK start, count \in Seq(Nat) :
            /\ start = First(Zeros(Var), curCount) /\ count = First(Lens(Var), Rows)
            /\ Len(start) = Len(count)
        BY <2>1, ChunkSlab
    <2>3. file' = PutVars(Var, start, count, Slab(start, count))
        BY <1>8, <2>2 DEF CopyChunk
    <2> QED
        BY <1>7, <2>2, <2>3
<1>9. CASE SubsetVar
    <2>1. Var \in ToSet(src.vars) /\ CanGet(Var)
        BY <1>9, VarIs DEF SubsetVar
    <2>2. PICK start, count \in Seq(Nat) :
            start = Zeros(Var) /\ count = Count(Var) /\ Len(start) = Len(count)
        BY <2>1, CountIs, LensIs
    <2>3. file' = PutVars(Var, start, count, SingleNcVarData(Var))
        BY <1>9, <2>2 DEF SubsetVar
    <2> QED
        BY <1>7, <2>2, <2>3
<1>10. CASE NcCreate
    BY <1>2, <1>4, <1>10 DEF NcCreate, Begun
<1>11. CASE Finish
    BY <1>4, <1>11 DEF Finish, CloseFile, Ended
<1>12. CASE DefineError \/ ChunkError \/ SubsetError
    BY <1>3, <1>4, <1>12 DEF DefineError, ChunkError, SubsetError, RemoveFile
<1>13. CASE NcOpen \/ NcInq \/ ResolveSubsetVar \/ ResolveError \/ DivideByZero \/ CopyVar
    BY <1>2, <1>13 DEF NcOpen, NcInq, ResolveSubsetVar, ResolveError, DivideByZero, CopyVar
<1>14. CASE PrintVar \/ PrintLoops \/ PrintEnd \/ NcClose \/ UNCHANGED vars
    BY <1>2, <1>14 DEF PrintVar, PrintLoops, PrintEnd, NcClose, vars
<1> QED
    BY <1>5, <1>6, <1>8, <1>9, <1>10, <1>11, <1>12, <1>13, <1>14 DEF Next, Step, Terminated

\* Where the command is and what it answered.
PlaceOK ==
    /\ pc \in {"open", "inq", "resolve", "create", "dims", "vars", "copy",
               "chunk", "subset", "print", "looping", "close", "done", "faulted"}
    /\ ncid \in {"none", "open", "closed"}
    /\ status \in {"", "ok", "error"} /\ status1 \in {"", "ok", "error"}

\* The command starts with its open.
LEMMA PlaceInit == Init => PlaceOK
    BY DEF Init, PlaceOK

\* Each step has a next one, or is the last.
LEMMA PlaceStep == PlaceOK /\ FileAt /\ [Next]_vars => PlaceOK'
<1> SUFFICES ASSUME PlaceOK, FileAt, [Next]_vars PROVE PlaceOK'
    OBVIOUS
<1> USE DEF PlaceOK
<1>1. CASE NcOpen \/ NcInq \/ ResolveSubsetVar \/ ResolveError
    BY <1>1 DEF NcOpen, NcInq, ResolveSubsetVar, ResolveError, Begin, Return
<1>2. CASE NcCreate \/ DefineDims \/ DivideByZero \/ DefineError
    BY <1>2 DEF NcCreate, DefineDims, DivideByZero, DefineError, RemoveFile, Answer
<1>5. CASE DefineVars
    <2>1. Job \in {"copy", "subset"}
        BY <1>5 DEF DefineVars, FileAt
    <2> QED
        BY <1>5, <2>1 DEF DefineVars, CloseFile, Answer
<1>3. CASE CopyVar \/ CopyChunk \/ ChunkError \/ SubsetVar \/ SubsetError \/ Finish
    BY <1>3 DEF CopyVar, CopyChunk, ChunkError, SubsetVar, SubsetError, Finish, CloseFile, RemoveFile, Answer
<1>4. CASE PrintVar \/ PrintLoops \/ PrintEnd \/ NcClose \/ Terminated \/ UNCHANGED vars
    BY <1>4 DEF PrintVar, PrintLoops, PrintEnd, NcClose, Terminated, vars, Answer
<1> QED
    BY <1>1, <1>2, <1>3, <1>4, <1>5 DEF Next, Step

DumpInv == Given /\ EndInv /\ PlaceOK /\ CondsAt /\ ChunkAt /\ FileIs

\* Every state a command reaches is one of these.
LEMMA DumpInductive == Spec => []DumpInv
<1>1. Init => DumpInv
    BY EndInit, PlaceInit, CondsInit, ChunkInit, FileInit DEF Init, DumpInv, Given
<1>2. DumpInv /\ [Next]_vars => DumpInv'
    <2>1. Given /\ [Next]_vars => Given'
        BY GivenStays DEF Given
    <2> QED
        BY <2>1, EndStep, PlaceStep, CondsStep, ChunkStep, FileStep DEF DumpInv, EndInv
<1> QED
    BY <1>1, <1>2, PTL DEF Spec

\* For every source, command and limit: the types of the variables, and a chunk
\* is left to copy where one is copied.
THEOREM DumpTypeOK == Spec => []TypeOK
<1>1. DumpInv => TypeOK
    <2> SUFFICES ASSUME DumpInv PROVE TypeOK
        OBVIOUS
    <2>1. src \in Sources /\ IsCommand(cmd)
        BY DumpAssumption DEF DumpInv, Given
    <2>2. \A k \in DOMAIN conds : {conds[k].start, conds[k].end} \subseteq Int
        BY DEF DumpInv, CondsAt
    <2>3. \A k \in DOMAIN todo : todo[k] \in ToSet(src.vars)
        <3> DEFINE S == ToSet(src.vars)
        <3> HIDE DEF S
        <3>1. todo \in Seq(S)
            BY DEF DumpInv, ChunkAt, S
        <3>2. \A k \in DOMAIN todo : todo[k] \in S
            BY <3>1
        <3> QED
            BY <3>2 DEF S
    <2>4. /\ file.state \in {"absent", "define", "data", "closed", "unclosed", "left"}
          /\ DOMAIN file.dims \subseteq ToSet(src.dims)
          /\ \A d \in DOMAIN file.dims : file.dims[d] \in Nat \union {Unlimited}
          /\ DOMAIN file.data \subseteq ToSet(src.vars)
        BY DEF DumpInv, FileIs, Begun, Ended
    <2>5. lcount \in Nat \union {None} /\ curCount \in Nat /\ (pc = "chunk" => curCount < lcount)
        BY DEF DumpInv, ChunkAt
    <2> QED
        BY <2>1, <2>2, <2>3, <2>4, <2>5, Zenon DEF DumpInv, PlaceOK, TypeOK
<1> QED
    BY <1>1, DumpInductive, PTL

\* For every source, command and limit: a transfer of a chunk passes
\* NC_VAR_TRANS_SZ by at most a row.
THEOREM DumpChunkBounded == Spec => ChunkBounded
<1> DEFINE Bounded == pc = "chunk" => \A v \in DOMAIN file'.data :
                Cardinality(DOMAIN file'.data[v]) - Cardinality(DOMAIN file.data[v])
                    <= NC_VAR_TRANS_SZ + Volume(First(Lens(v), 1))
<1>1. ASSUME DumpInv, Next, pc = "chunk", NEW v \in DOMAIN file'.data
      PROVE  Cardinality(DOMAIN file'.data[v]) - Cardinality(DOMAIN file.data[v])
                    <= NC_VAR_TRANS_SZ + Volume(First(Lens(v), 1))
    <2>0. Given /\ ChunkAt /\ FileIs
        BY <1>1 DEF DumpInv
    <2>1. CASE ChunkError
        <3>1. CASE file' = NoFile
            BY <1>1, <3>1, NoFileIs
        <3>2. CASE file' = [file EXCEPT !.state = "left"]
            <4>1. file'.data = file.data
                BY <2>0, <3>2, RecordStays DEF FileIs
            <4>2. v \in DOMAIN file.data /\ v \in ToSet(src.vars)
                BY <1>1, <2>0, <4>1 DEF FileIs
            <4>3. PICK n \in Nat : /\ n = Cardinality(DOMAIN file.data[v])
                                  /\ n = Cardinality(DOMAIN file'.data[v])
                BY <2>0, <4>1, <4>2, FS_CardinalityType DEF FileIs
            <4>4. First(Lens(v), 1) \in Seq(Nat)
                BY <2>0, <4>2, LensIs, VolumeFirst
            <4>5. PICK row \in Nat : row = Volume(First(Lens(v), 1))
                BY <4>4, VolumeNat
            <4>6. PICK sz \in Nat : sz = NC_VAR_TRANS_SZ
                BY DumpAssumption
            <4>7. n - n <= sz + row
                OBVIOUS
            <4> QED
                BY <4>3, <4>5, <4>6, <4>7
        <3> QED
            BY <2>1, <3>1, <3>2 DEF ChunkError, RemoveFile
    <2>2. CASE CopyChunk
        <3>1. PICK start, count \in Seq(Nat) :
                /\ start = First(Zeros(Var), curCount) /\ count = First(Lens(Var), Rows)
                /\ Len(start) = Len(count)
            BY <1>1, <2>0, ChunkSlab
        <3>2. file' = PutVars(Var, start, count, Slab(start, count))
            BY <2>2, <3>1 DEF CopyChunk
        <3>0. PICK x : IsPut(file', Var, x, Volume(count))
            BY <2>0, <3>1, <3>2, PutSlab, Zenon
        <3>3. DOMAIN file'.data = DOMAIN file.data
            BY <3>0 DEF IsPut
        <3>4. PICK a, b \in Int :
                /\ a = Cardinality(DOMAIN file'.data[v]) /\ b = Cardinality(DOMAIN file.data[v])
                /\ a - b <= Volume(count) /\ (v # Var => a - b <= 0)
            BY <1>1, <3>0, <3>3 DEF IsPut
        <3>5. PICK vol \in Nat : vol = Volume(count)
            BY VolumeNat
        <3>6. PICK sz \in Nat : sz = NC_VAR_TRANS_SZ
            BY DumpAssumption
        <3>7. PICK row \in Nat : row = Volume(First(Lens(v), 1))
            <4>1. v \in ToSet(src.vars)
                BY <1>1, <2>0, <3>3 DEF FileIs
            <4>2. Lens(v) \in Seq(Nat)
                BY <2>0, <4>1, LensIs
            <4>3. First(Lens(v), 1) \in Seq(Nat)
                BY <4>2, VolumeFirst
            <4> QED
                BY <4>3, VolumeNat
        <3>8. CASE v = Var
            <4>1. vol <= sz + row
                BY <1>1, <2>0, <3>1, <3>5, <3>6, <3>7, <3>8, RowsAre
            <4> QED
                BY <3>4, <3>5, <3>6, <3>7, <4>1
        <3>9. CASE v # Var
            BY <3>4, <3>6, <3>7, <3>9
        <3> QED
            BY <3>8, <3>9
    <2> QED
        BY <1>1, <2>1, <2>2 DEF Next, Step, Terminated, NcOpen, NcInq, ResolveSubsetVar,
            ResolveError, NcCreate, DefineDims, DivideByZero, DefineError, DefineVars, CopyVar,
            SubsetVar, SubsetError, Finish, PrintVar, PrintLoops, PrintEnd, NcClose
<1>2. DumpInv /\ [Next]_vars => [Bounded]_vars
    <2> SUFFICES ASSUME DumpInv, Next PROVE Bounded
        OBVIOUS
    <2> QED
        BY <1>1
<1>3. Spec => [][Bounded]_vars
    <2> HIDE DEF Bounded
    <2> QED
        BY <1>2, DumpInductive, PTL DEF Spec
<1> QED
    BY <1>3 DEF ChunkBounded

\* A variable that is read as it is written has each cell in its place.
LEMMA FilledSame ==
    \A start, count \in Seq(Nat) : Len(start) = Len(count) =>
        \A old : /\ DOMAIN Filled(old, Slab(start, count), Slab(start, count)) =
                        DOMAIN old \union ToSet(Slab(start, count))
                 /\ \A c \in DOMAIN old \union ToSet(Slab(start, count)) :
                        Filled(old, Slab(start, count), Slab(start, count))[c] =
                            IF c \in ToSet(Slab(start, count)) THEN c ELSE old[c]
<1> SUFFICES ASSUME NEW start \in Seq(Nat), NEW count \in Seq(Nat), Len(start) = Len(count),
                    NEW old
             PROVE  /\ DOMAIN Filled(old, Slab(start, count), Slab(start, count)) =
                        DOMAIN old \union ToSet(Slab(start, count))
                    /\ \A c \in DOMAIN old \union ToSet(Slab(start, count)) :
                        Filled(old, Slab(start, count), Slab(start, count))[c] =
                            IF c \in ToSet(Slab(start, count)) THEN c ELSE old[c]
    OBVIOUS
<1>0. PICK s : s = Slab(start, count)
    OBVIOUS
<1>1. PICK vol \in Nat : vol = Volume(count) /\ DOMAIN s = 1 .. vol /\ Len(s) = vol
    BY <1>0, SlabIs
<1>2. ASSUME NEW c \in ToSet(s)
      PROVE  Filled(old, s, s)[c] = c
    <2>1. PICK k : k = CHOOSE n \in DOMAIN s : s[n] = c
        OBVIOUS
    <2>2. \E n \in DOMAIN s : s[n] = c
        BY DEF ToSet
    <2>3. k \in DOMAIN s /\ s[k] = c
        BY <2>1, <2>2
    <2>4. k <= Len(s)
        BY <1>1, <2>3
    <2> QED
        BY <2>1, <2>3, <2>4 DEF Filled
<1>3. /\ DOMAIN Filled(old, s, s) = DOMAIN old \union ToSet(s)
      /\ \A c \in DOMAIN old \union ToSet(s) :
            Filled(old, s, s)[c] = IF c \in ToSet(s) THEN c ELSE old[c]
    <2>1. /\ DOMAIN Filled(old, s, s) = DOMAIN old \union ToSet(s)
          /\ \A c \in DOMAIN old \union ToSet(s) :
                c \notin ToSet(s) => Filled(old, s, s)[c] = old[c]
        BY DEF Filled
    <2> QED
        BY <1>2, <2>1
<1> QED
    BY <1>0, <1>3

\* The cells of a variable.
Cells(v) == ToSet(Slab(Zeros(v), Lens(v)))

\* What is in the file of a variable are cells in their places.
Straight(v) ==
    /\ DOMAIN file.data[v] \subseteq Cells(v)
    /\ file.data[v] = [c \in DOMAIN file.data[v] |-> c]

\* All of them, if it has dimensions.
Copied(v) == Straight(v) /\ (Shape(v) # <<>> => DOMAIN file.data[v] = Cells(v))

\* The copy as far as it is: the variables that are not to do any more are
\* whole, and of the one at hand the rows up to curCount.
CopyAt ==
    /\ pc \in {"dims", "vars"} => DOMAIN file.data = {}
    /\ pc \in {"copy", "chunk"} =>
        /\ Job = "copy"
        /\ DOMAIN file.data = ToSet(src.vars)
        /\ \A v \in DOMAIN file.data : Straight(v) /\ (v \notin ToSet(todo) => Copied(v))
    /\ pc = "chunk" /\ Shape(Var) # <<>> =>
        \A c \in Cells(Var) : c[1] < curCount => c \in DOMAIN file.data[Var]
    /\ pc \in {"close", "done"} /\ Job = "copy" /\ file.state \in Ended =>
        /\ DOMAIN file.data = ToSet(src.vars)
        /\ \A v \in DOMAIN file.data : Copied(v)

\* The cells of a variable are the choices of an index below each length.
LEMMA CellsHas ==
    Given => \A v \in ToSet(src.vars) : \A x :
        x \in Cells(v) <=> /\ x \in Seq(Nat) /\ Len(x) = Len(Shape(v))
                           /\ \A j \in 1 .. Len(Shape(v)) : x[j] < Lens(v)[j]
<1> SUFFICES ASSUME Given, NEW v \in ToSet(src.vars), NEW x
             PROVE  x \in Cells(v) <=> /\ x \in Seq(Nat) /\ Len(x) = Len(Shape(v))
                                       /\ \A j \in 1 .. Len(Shape(v)) : x[j] < Lens(v)[j]
    OBVIOUS
<1>1. PICK n \in Nat : n = Len(Shape(v)) /\ DOMAIN Shape(v) = 1 .. n
    BY LensIs
<1>2. PICK z, l \in Seq(Nat) : /\ z = Zeros(v) /\ l = Lens(v) /\ Len(z) = n /\ Len(l) = n
                               /\ \A j \in 1 .. n : z[j] = 0
    BY <1>1, LensIs
<1>3. x \in Cells(v) <=> InSlab(x, z, l)
    BY <1>2, SlabHas DEF Cells
<1>4. InSlab(x, z, l) <=> x \in Seq(Nat) /\ Len(x) = n /\ \A j \in 1 .. n : x[j] < l[j]
    <2>1. ASSUME x \in Seq(Nat), Len(x) = n
          PROVE  \A j \in 1 .. n : z[j] <= x[j] /\ x[j] < z[j] + l[j] <=> x[j] < l[j]
        <3> TAKE j \in 1 .. n
        <3>1. x[j] \in Nat /\ l[j] \in Nat /\ z[j] = 0
            BY <1>2, <2>1
        <3> QED
            BY <3>1
    <2> QED
        BY <1>2, <2>1 DEF InSlab
<1> QED
    BY <1>1, <1>2, <1>3, <1>4

\* A chunk has the rows from curCount on, and no other cells.
LEMMA ChunkHas ==
    Given /\ ChunkAt /\ pc = "chunk" =>
        \A c : c \in ToSet(Slab(First(Zeros(Var), curCount), First(Lens(Var), Rows))) <=>
            /\ c \in Cells(Var)
            /\ Shape(Var) # <<>> => curCount <= c[1] /\ c[1] < curCount + Rows
<1> SUFFICES ASSUME Given, ChunkAt, pc = "chunk", NEW c
             PROVE  c \in ToSet(Slab(First(Zeros(Var), curCount), First(Lens(Var), Rows))) <=>
                        /\ c \in Cells(Var)
                        /\ Shape(Var) # <<>> => curCount <= c[1] /\ c[1] < curCount + Rows
    OBVIOUS
<1>1. Var \in ToSet(src.vars) /\ Rows \in Nat /\ curCount \in Nat
    BY RowsAre DEF ChunkAt
<1>2. PICK n \in Nat : n = Len(Shape(Var)) /\ (Shape(Var) = <<>> <=> n = 0)
    BY <1>1, LensIs
<1>3. PICK r, cur \in Nat : r = Rows /\ cur = curCount
    BY <1>1
<1>4. PICK l, z \in Seq(Nat) : /\ l = Lens(Var) /\ z = Zeros(Var) /\ Len(l) = n /\ Len(z) = n
                               /\ \A j \in 1 .. n : z[j] = 0
    BY <1>1, <1>2, LensIs
<1>5. PICK start, count \in Seq(Nat) :
        /\ start = First(z, cur) /\ count = First(l, r) /\ Len(start) = n /\ Len(count) = n
        /\ \A j \in 1 .. n : start[j] = IF j = 1 THEN cur ELSE z[j]
        /\ \A j \in 1 .. n : count[j] = IF j = 1 THEN r ELSE l[j]
    <2> HIDE DEF First
    <2>1. /\ First(z, cur) \in Seq(Nat) /\ Len(First(z, cur)) = Len(z)
          /\ \A j \in 1 .. Len(z) : First(z, cur)[j] = IF j = 1 THEN cur ELSE z[j]
        BY VolumeFirst, Zenon
    <2>2. /\ First(l, r) \in Seq(Nat) /\ Len(First(l, r)) = Len(l)
          /\ \A j \in 1 .. Len(l) : First(l, r)[j] = IF j = 1 THEN r ELSE l[j]
        BY VolumeFirst, Zenon
    <2> QED
        BY <1>4, <2>1, <2>2
<1>6. n # 0 => cur + r <= l[1]
    BY <1>2, <1>3, <1>4, RowsAre DEF ChunkAt
<1>7. c \in ToSet(Slab(start, count)) <=> InSlab(c, start, count)
    BY <1>5, SlabHas
<1>8. c \in Cells(Var) <=> c \in Seq(Nat) /\ Len(c) = n /\ \A j \in 1 .. n : c[j] < l[j]
    BY <1>1, <1>2, <1>4, CellsHas
<1>9. ASSUME c \in Seq(Nat), Len(c) = n
      PROVE  (\A j \in 1 .. n : start[j] <= c[j] /\ c[j] < start[j] + count[j]) <=>
                /\ \A j \in 1 .. n : c[j] < l[j]
                /\ n # 0 => cur <= c[1] /\ c[1] < cur + r
    <2>1. \A j \in 1 .. n : c[j] \in Nat /\ l[j] \in Nat
        BY <1>4, <1>9
    <2>2. \A j \in 1 .. n : j # 1 =>
            (start[j] <= c[j] /\ c[j] < start[j] + count[j] <=> c[j] < l[j])
        <3> SUFFICES ASSUME NEW j \in 1 .. n, j # 1
                     PROVE  start[j] <= c[j] /\ c[j] < start[j] + count[j] <=> c[j] < l[j]
            OBVIOUS
        <3>1. start[j] = 0 /\ count[j] = l[j]
            BY <1>4, <1>5
        <3> QED
            BY <2>1, <3>1
    <2>3. n # 0 => 1 \in 1 .. n /\ start[1] = cur /\ count[1] = r
        BY <1>5
    <2>4. n # 0 /\ cur <= c[1] /\ c[1] < cur + r => c[1] < l[1]
        BY <1>6, <2>1, <2>3
    <2> QED
        BY <2>2, <2>3, <2>4, SMTT(30)
<1>10. InSlab(c, start, count) <=>
        /\ c \in Seq(Nat) /\ Len(c) = n
        /\ \A j \in 1 .. n : start[j] <= c[j] /\ c[j] < start[j] + count[j]
    BY <1>5 DEF InSlab
<1> QED
    BY <1>2, <1>3, <1>4, <1>5, <1>7, <1>8, <1>9, <1>10

\* Nothing is copied at the start.
LEMMA CopyInit == Init => CopyAt
    BY NoFileIs DEF Init, CopyAt

\* A chunk adds its rows, and the last one makes the variable whole.
LEMMA CopyChunkStep == DumpInv /\ CopyAt /\ CopyChunk => CopyAt'
<1> SUFFICES ASSUME DumpInv, CopyAt, CopyChunk PROVE CopyAt'
    OBVIOUS
<1>1. /\ Given /\ ChunkAt /\ FileIs /\ pc = "chunk" /\ src' = src /\ cmd' = cmd
      /\ Job = "copy" /\ Job' = Job /\ DOMAIN file.data = ToSet(src.vars)
    BY DEF DumpInv, CopyChunk, CopyAt, Job
<1>2. PICK V : V = Var /\ V \in DOMAIN file.data
    BY <1>1, RowsAre
<1>3. PICK cur, r \in Nat : cur = curCount /\ r = Rows
    BY <1>1, RowsAre DEF ChunkAt
<1>4. PICK start, count \in Seq(Nat) :
        /\ start = First(Zeros(V), cur) /\ count = First(Lens(V), r)
        /\ Len(start) = Len(count)
    BY <1>1, <1>2, <1>3, ChunkSlab
<1>5. PICK slab : slab = Slab(start, count)
    OBVIOUS
<1>6. PICK x : x = Filled(file.data[V], slab, slab)
    OBVIOUS
<1>7. PICK vol : IsPut(file', V, x, vol)
    <2>1. file' = PutVars(V, start, count, Slab(start, count))
        BY <1>2, <1>3, <1>4 DEF CopyChunk
    <2>2. IsPut(file', V, Filled(file.data[V], Slab(start, count), Slab(start, count)), Volume(count))
        BY <1>1, <1>4, <2>1, PutSlab
    <2> QED
        BY <1>5, <1>6, <2>2
<1>8. /\ DOMAIN file'.data = DOMAIN file.data
      /\ \A u \in DOMAIN file.data : file'.data[u] = IF u = V THEN x ELSE file.data[u]
    BY <1>7 DEF IsPut
<1>9. /\ DOMAIN x = DOMAIN file.data[V] \union ToSet(slab)
      /\ \A c \in DOMAIN x : x[c] = IF c \in ToSet(slab) THEN c ELSE file.data[V][c]
      /\ x = [c \in DOMAIN x |-> x[c]]
    <2>1. x = [c \in DOMAIN x |-> x[c]]
        BY <1>6 DEF Filled
    <2>2. PICK old : old = file.data[V]
        OBVIOUS
    <2>3. /\ DOMAIN Filled(old, Slab(start, count), Slab(start, count)) =
                DOMAIN old \union ToSet(Slab(start, count))
          /\ \A c \in DOMAIN old \union ToSet(Slab(start, count)) :
                Filled(old, Slab(start, count), Slab(start, count))[c] =
                    IF c \in ToSet(Slab(start, count)) THEN c ELSE old[c]
        <3>1. Len(start) = Len(count)
            BY <1>4
        <3> QED
            BY <3>1, FilledSame, Zenon
    <2> QED
        BY <1>5, <1>6, <2>1, <2>2, <2>3
<1>10. \A c : c \in ToSet(slab) <=>
            c \in Cells(V) /\ (Shape(V) # <<>> => cur <= c[1] /\ c[1] < cur + r)
    BY <1>1, <1>2, <1>3, <1>4, <1>5, ChunkHas
<1>11. \A c \in DOMAIN file.data[V] : c \in Cells(V) /\ file.data[V][c] = c
    BY <1>1, <1>2 DEF CopyAt, Straight
<1>12. DOMAIN x \subseteq Cells(V) /\ x = [c \in DOMAIN x |-> c]
    BY <1>9, <1>10, <1>11
<1>13. ASSUME Shape(V) # <<>>, NEW c \in Cells(V), c[1] < cur + r
       PROVE  c \in DOMAIN x
    <2>1. c[1] \in Nat
        <3>1. V \in ToSet(src.vars)
            BY <1>1, <1>2
        <3>2. c \in Seq(Nat) /\ Len(c) = Len(Shape(V)) /\ Len(Shape(V)) # 0
            BY <1>1, <1>13, <3>1, CellsHas, LensIs
        <3> QED
            BY <3>2
    <2>2. c[1] < cur => c \in DOMAIN file.data[V]
        BY <1>1, <1>2, <1>3, <1>13 DEF CopyAt
    <2>3. ~ (c[1] < cur) => c \in ToSet(slab)
        BY <1>10, <1>13, <2>1
    <2> QED
        BY <1>9, <2>2, <2>3
<1>14. \A v : Cells(v)' = Cells(v) /\ Shape(v)' = Shape(v)
    BY <1>1 DEF Cells, Zeros, Lens, Shape
<1>15. Straight(V)'
    BY <1>2, <1>8, <1>12, <1>14 DEF Straight
<1>16. CASE ChunkDone
    <2>1. pc' = "copy" /\ todo' = Tail(todo)
        BY <1>16 DEF CopyChunk
    <2>2. Copied(V)'
        <3>1. ASSUME Shape(V) # <<>> PROVE Cells(V) \subseteq DOMAIN x
            <4> SUFFICES ASSUME NEW c \in Cells(V) PROVE c[1] < cur + r
                BY <1>13, <3>1
            <4>1. V \in ToSet(src.vars) /\ Len(Shape(V)) \in Nat \ {0}
                BY <1>1, <1>2, <3>1, LensIs
            <4>2. c \in Seq(Nat) /\ Len(c) = Len(Shape(V)) /\ c[1] < Lens(V)[1]
                BY <1>1, <4>1, CellsHas
            <4>3. Lens(V)[1] = lcount /\ lcount \in Nat /\ cur + r >= lcount
                BY <1>1, <1>2, <1>3, <1>16, <3>1 DEF ChunkAt, ChunkDone
            <4>4. c[1] \in Nat
                BY <4>1, <4>2
            <4> QED
                BY <4>2, <4>3, <4>4
        <3> QED
            BY <1>2, <1>8, <1>12, <1>14, <1>15, <3>1 DEF Copied
    <2>3. \A v \in ToSet(todo) : v = V \/ v \in ToSet(Tail(todo))
        <3>1. todo \in Seq(ToSet(src.vars)) /\ todo # <<>> /\ V = Head(todo)
            BY <1>1, <1>2 DEF ChunkAt, Var
        <3> QED
            BY <3>1, TailIs
    <2>4. ASSUME NEW v \in DOMAIN file.data
          PROVE  Straight(v)' /\ (v \notin ToSet(Tail(todo)) => Copied(v)')
        <3>1. CASE v = V
            BY <1>15, <2>2, <3>1
        <3>2. CASE v # V
            <4>1. Straight(v) /\ (v \notin ToSet(todo) => Copied(v))
                BY <1>1 DEF CopyAt
            <4>2. file'.data[v] = file.data[v]
                BY <1>8, <3>2
            <4>3. Straight(v)'
                BY <1>14, <4>1, <4>2 DEF Straight
            <4>4. Copied(v) => Copied(v)'
                BY <1>14, <4>2, <4>3 DEF Copied
            <4> QED
                BY <2>3, <3>2, <4>1, <4>3, <4>4
        <3> QED
            BY <3>1, <3>2
    <2> QED
        BY <1>1, <1>8, <2>1, <2>4 DEF CopyAt
<1>17. CASE ~ ChunkDone
    <2>1. pc' = "chunk" /\ todo' = todo /\ curCount' = cur + r
        BY <1>1, <1>3, <1>17 DEF CopyChunk
    <2>2. Var' = V
        BY <1>2, <2>1 DEF Var
    <2>3. V \in ToSet(todo)
        <3>1. todo \in Seq(ToSet(src.vars)) /\ todo # <<>> /\ V = Head(todo)
            BY <1>1, <1>2 DEF ChunkAt, Var
        <3> QED
            BY <3>1, TailIs
    <2>4. ASSUME NEW v \in DOMAIN file.data
          PROVE  Straight(v)' /\ (v \notin ToSet(todo) => Copied(v)')
        <3>1. CASE v = V
            BY <1>15, <2>3, <3>1
        <3>2. CASE v # V
            <4>1. Straight(v) /\ (v \notin ToSet(todo) => Copied(v))
                BY <1>1 DEF CopyAt
            <4>2. file'.data[v] = file.data[v]
                BY <1>8, <3>2
            <4>3. Straight(v)'
                BY <1>14, <4>1, <4>2 DEF Straight
            <4>4. Copied(v) => Copied(v)'
                BY <1>14, <4>2, <4>3 DEF Copied
            <4> QED
                BY <3>2, <4>1, <4>3, <4>4
        <3> QED
            BY <3>1, <3>2
    <2>5. Shape(V)' # <<>> => \A c \in Cells(V)' : c[1] < curCount' => c \in DOMAIN file'.data[V]
        BY <1>2, <1>8, <1>13, <1>14, <2>1
    <2> QED
        BY <1>1, <1>8, <2>1, <2>2, <2>4, <2>5 DEF CopyAt
<1> QED
    BY <1>16, <1>17

\* Each job has its places, and a dump that answers ok has closed its file.
JobAt ==
    /\ pc = "print" => Job = "print"
    /\ pc \in {"copy", "chunk"} => Job = "copy"
    /\ pc = "subset" => Job = "subset"
    /\ pc = "close" /\ status = "ok" /\ Job \in {"copy", "subset"} => file.state \in Ended
    /\ Done /\ Job \in {"copy", "subset"} => file.state \in Ended

\* No job is begun at the start.
LEMMA JobInit == Init => JobAt
    BY DEF Init, JobAt, Done

\* Each step stays in the places of its job.
LEMMA JobStep == DumpInv /\ JobAt /\ [Next]_vars => JobAt'
<1> SUFFICES ASSUME DumpInv, JobAt, [Next]_vars PROVE JobAt'
    OBVIOUS
<1> USE DEF JobAt
<1>1. FileIs /\ FileAt /\ UNCHANGED cmd /\ Job' = Job
    BY GivenStays DEF DumpInv, EndInv, Job
<1>2. CASE NcOpen \/ NcInq \/ ResolveSubsetVar \/ ResolveError
    BY <1>1, <1>2 DEF NcOpen, NcInq, ResolveSubsetVar, ResolveError, Begin, Return, Done
<1>3. CASE NcCreate \/ DefineDims \/ DivideByZero \/ DefineError
    BY <1>1, <1>3 DEF NcCreate, DefineDims, DivideByZero, DefineError, RemoveFile, Answer, Done
<1>4. CASE DefineVars
    <2>1. CASE CloseFile
        BY <1>1, <2>1, CloseIs DEF Done
    <2>2. CASE pc' = Job
        BY <1>1, <1>4, <2>2 DEF DefineVars, FileAt, Done
    <2> QED
        BY <1>4, <2>1, <2>2 DEF DefineVars
<1>5. CASE CopyVar \/ CopyChunk \/ ChunkError \/ SubsetVar \/ SubsetError
    BY <1>1, <1>5 DEF CopyVar, CopyChunk, ChunkError, SubsetVar, SubsetError, RemoveFile, Answer, Done
<1>6. CASE Finish
    BY <1>1, <1>6, CloseIs DEF Finish, Done
<1>7. CASE PrintVar \/ PrintLoops \/ PrintEnd
    BY <1>1, <1>7 DEF PrintVar, PrintLoops, PrintEnd, Answer, Done
<1>8. CASE NcClose
    BY <1>1, <1>8 DEF NcClose, Done
<1>9. CASE Terminated \/ UNCHANGED vars
    BY <1>1, <1>9 DEF Terminated, vars, Done
<1> QED
    BY <1>2, <1>3, <1>4, <1>5, <1>6, <1>7, <1>8, <1>9 DEF Next, Step

\* Each step keeps what was copied.
LEMMA CopyStep == DumpInv /\ JobAt /\ CopyAt /\ [Next]_vars => CopyAt'
<1> SUFFICES ASSUME DumpInv, JobAt, CopyAt, [Next]_vars PROVE CopyAt'
    OBVIOUS
<1>1. /\ Given /\ CondsAt /\ ChunkAt /\ FileIs /\ FileAt
      /\ src' = src /\ cmd' = cmd /\ Job' = Job
    BY GivenStays DEF DumpInv, EndInv, Job
<1>2. \A v : Cells(v)' = Cells(v) /\ Shape(v)' = Shape(v)
    BY <1>1 DEF Cells, Zeros, Lens, Shape
<1>3. ASSUME NEW v, file'.data[v] = file.data[v]
      PROVE  /\ Straight(v) => Straight(v)'
             /\ Copied(v) => Copied(v)'
    BY <1>2, <1>3 DEF Straight, Copied
<1>4. ASSUME pc' \in {"dims", "vars"} => DOMAIN file'.data = {}, file'.state \notin Ended,
             pc' \notin {"copy", "chunk"}
      PROVE  CopyAt'
    BY <1>4 DEF CopyAt
<1>5. ASSUME UNCHANGED file, pc' \notin {"dims", "vars", "copy", "chunk"},
             pc' \in {"close", "done"} => file.state \notin Ended \/ Job # "copy"
      PROVE  CopyAt'
    BY <1>1, <1>5 DEF CopyAt
<1>6. CASE NcOpen \/ NcInq \/ ResolveSubsetVar \/ ResolveError
    <2>1. UNCHANGED file /\ pc' \in {"inq", "done", "resolve", "print", "close", "create"}
        BY <1>6 DEF NcOpen, NcInq, ResolveSubsetVar, ResolveError, Begin, Return
    <2>2. file = NoFile
        BY <1>1, <1>6 DEF FileAt, NcOpen, NcInq, ResolveSubsetVar, ResolveError
    <2> QED
        BY <1>5, <2>1, <2>2, NoFileIs DEF Ended
<1>7. CASE NcCreate
    <2>1. CASE file' = [NoFile EXCEPT !.state = "define"] /\ pc' = "dims"
        <3>1. file'.data = NoFile.data /\ file'.state = "define"
            BY <2>1, NoFileIs
        <3> QED
            BY <1>4, <2>1, <3>1, NoFileIs DEF Ended
    <2>2. CASE pc' = "close" /\ UNCHANGED file
        <3>1. file = NoFile
            BY <1>1, <1>7 DEF FileAt, NcCreate
        <3> QED
            BY <1>5, <2>2, <3>1, NoFileIs DEF Ended
    <2> QED
        BY <1>7, <2>1, <2>2 DEF NcCreate, Answer
<1>8. CASE DefineDims
    <2>1. file'.data = file.data /\ file'.state \in Begun /\ pc' \in {"close", "vars"}
        <3>1. CASE UNCHANGED file
            BY <1>1, <1>8, <3>1 DEF DefineDims, FileAt, Answer
        <3>2. CASE file' = [file EXCEPT !.dims = [d \in ToSet(src.dims) |-> DefLen(d)]]
            <4>1. file'.data = file.data /\ file'.state = file.state
                BY <1>1, <3>2 DEF FileIs, IsRecord
            <4> QED
                BY <1>1, <1>8, <4>1 DEF DefineDims, FileAt, Answer
        <3> QED
            BY <1>8, <3>1, <3>2 DEF DefineDims
    <2>2. DOMAIN file.data = {}
        BY <1>8 DEF DefineDims, CopyAt
    <2> QED
        BY <1>4, <2>1, <2>2 DEF Begun, Ended
<1>9. CASE DivideByZero
    BY <1>5, <1>9 DEF DivideByZero
<1>10. CASE DefineError \/ ChunkError \/ SubsetError
    BY <1>1, <1>4, <1>10, CloseIs DEF DefineError, ChunkError, SubsetError
<1>11. CASE DefineVars
    <2>1. pc = "vars" /\ DOMAIN file.data = {} /\ todo' = Screened
        BY <1>11 DEF DefineVars, CopyAt
    <2>2. CASE src.vars = <<>> /\ CloseFile
        <3>1. file'.data = file.data /\ pc' = "close"
            BY <1>1, <2>2, CloseIs
        <3>2. ToSet(src.vars) = {}
            BY <2>2 DEF ToSet
        <3>3. ToSet(src.vars)' = {}
            BY <1>1, <3>2
        <3> QED
            BY <2>1, <2>2, <3>1, <3>3 DEF CopyAt
    <2>3. ASSUME src.vars # <<>>, pc' = Job, NEW s \in Begun,
                 file' = [file EXCEPT !.state = s, !.data = [v \in ToSet(Screened) |-> <<>>]]
          PROVE  CopyAt'
        <3>1. PICK g : g = [v \in ToSet(Screened) |-> <<>>]
            OBVIOUS
        <3>2. file'.data = g
            BY <1>1, <2>3, <3>1, RecordStays DEF FileIs
        <3>3. Job \in {"copy", "subset"}
            BY <1>1, <2>1 DEF FileAt
        <3>4. CASE Job = "subset"
            BY <2>3, <3>4 DEF CopyAt
        <3>5. CASE Job = "copy"
            <4>1. ToSet(Screened) = ToSet(src.vars)
                BY <1>1, <3>5, ScreenedIs
            <4>2. DOMAIN g = ToSet(src.vars) /\ \A v \in DOMAIN g : g[v] = <<>>
                BY <3>1, <4>1
            <4>3. ASSUME NEW v \in DOMAIN g PROVE Straight(v)'
                <5>1. DOMAIN <<>> = {} /\ <<>> = [c \in DOMAIN <<>> |-> c]
                    OBVIOUS
                <5>2. file'.data[v] = <<>>
                    BY <3>2, <4>2
                <5> QED
                    BY <5>1, <5>2 DEF Straight
            <4>4. ToSet(src.vars)' = ToSet(src.vars) /\ ToSet(todo)' = ToSet(src.vars)
                BY <1>1, <2>1, <4>1
            <4> QED
                BY <1>1, <2>3, <3>2, <3>5, <4>2, <4>3, <4>4 DEF CopyAt
        <3> QED
            BY <3>3, <3>4, <3>5
    <2> QED
        BY <1>11, <2>2, <2>3 DEF DefineVars, Begun
<1>12. CASE CopyVar
    <2>1. /\ pc = "copy" /\ UNCHANGED file /\ Job = "copy" /\ DOMAIN file.data = ToSet(src.vars)
          /\ todo # <<>> /\ todo \in Seq(ToSet(src.vars))
          /\ \A v \in DOMAIN file.data : Straight(v) /\ (v \notin ToSet(todo) => Copied(v))
        BY <1>1, <1>12 DEF CopyVar, CopyAt, ChunkAt
    <2>2. \A v \in DOMAIN file.data : Straight(v)' /\ (v \notin ToSet(todo) => Copied(v)')
        BY <1>3, <2>1
    <2>3. CASE lcount' = 0
        <3>1. pc' = "copy" /\ todo' = Tail(todo)
            BY <1>12, <2>1, <2>3 DEF CopyVar
        <3>2. PICK V : V = Var /\ V \in ToSet(src.vars)
            BY <1>1, <2>1, VarIs
        <3>3. Shape(V) # <<>> => Cells(V) = {}
            <4> SUFFICES ASSUME Shape(V) # <<>>, NEW c \in Cells(V) PROVE FALSE
                OBVIOUS
            <4>1. Len(Shape(V)) \in Nat \ {0}
                BY <1>1, <3>2, LensIs
            <4>2. c \in Seq(Nat) /\ Len(c) = Len(Shape(V)) /\ c[1] < Lens(V)[1]
                BY <1>1, <3>2, <4>1, CellsHas
            <4>3. Lens(V)[1] = 0
                BY <1>12, <2>3, <3>2 DEF CopyVar
            <4>4. c[1] \in Nat
                BY <4>1, <4>2
            <4> QED
                BY <4>2, <4>3, <4>4
        <3>4. Copied(V)
            BY <2>1, <3>2, <3>3 DEF Copied, Straight
        <3>5. Copied(V)'
            BY <1>3, <2>1, <3>4
        <3>6. \A v \in ToSet(todo) : v = V \/ v \in ToSet(Tail(todo))
            BY <2>1, <3>2, TailIs DEF Var
        <3>7. ASSUME NEW v \in DOMAIN file.data
              PROVE  Straight(v)' /\ (v \notin ToSet(Tail(todo)) => Copied(v)')
            <4>1. CASE v = V
                BY <2>2, <3>5, <4>1
            <4>2. CASE v # V
                BY <2>2, <3>6, <4>2
            <4> QED
                BY <4>1, <4>2
        <3> QED
            BY <1>1, <2>1, <3>1, <3>7 DEF CopyAt
    <2>4. CASE lcount' # 0
        <3>1. pc' = "chunk" /\ todo' = todo /\ curCount' = 0
            BY <1>12, <2>1, <2>4 DEF CopyVar
        <3>2. Var' = Var
            BY <3>1 DEF Var
        <3>3. PICK V : V = Var /\ V \in ToSet(src.vars)
            BY <1>1, <2>1, VarIs
        <3>4. ASSUME Shape(V) # <<>>, NEW c \in Cells(V), c[1] < 0 PROVE FALSE
            <4>1. Len(Shape(V)) \in Nat \ {0}
                BY <1>1, <3>3, <3>4, LensIs
            <4>2. c \in Seq(Nat) /\ Len(c) = Len(Shape(V))
                BY <1>1, <3>3, <3>4, <4>1, CellsHas
            <4>4. c[1] \in Nat
                BY <4>1, <4>2
            <4> QED
                BY <3>4, <4>4
        <3>5. Shape(V)' # <<>> => \A c \in Cells(V)' : c[1] < curCount' => c \in DOMAIN file'.data[V]
            BY <1>2, <3>1, <3>4
        <3> QED
            BY <1>1, <2>1, <2>2, <3>1, <3>2, <3>3, <3>5 DEF CopyAt
    <2> QED
        BY <2>3, <2>4
<1>13. CASE CopyChunk
    BY <1>13, CopyChunkStep
<1>14. CASE SubsetVar
    BY <1>14 DEF SubsetVar, CopyAt
<1>15. CASE Finish
    <2>1. file'.data = file.data /\ todo = <<>> /\ pc \in {"copy", "subset"} /\ pc' = "close"
        BY <1>1, <1>15, CloseIs DEF Finish
    <2>2. CASE pc = "copy"
        <3>1. ToSet(todo) = {}
            BY <2>1 DEF ToSet
        <3>2. DOMAIN file.data = ToSet(src.vars) /\ \A v \in DOMAIN file.data : Copied(v)
            BY <2>2, <3>1 DEF CopyAt
        <3>3. \A v \in DOMAIN file.data : Copied(v)'
            BY <1>3, <2>1, <3>2
        <3> QED
            BY <1>1, <2>1, <3>2, <3>3 DEF CopyAt
    <2>3. CASE pc = "subset"
        <3>1. Job # "copy"
            BY <2>3 DEF JobAt
        <3> QED
            BY <1>1, <2>1, <3>1 DEF CopyAt
    <2> QED
        BY <2>1, <2>2, <2>3
<1>16. CASE PrintVar \/ PrintLoops \/ PrintEnd
    <2>1. UNCHANGED file /\ pc' \in {"print", "looping", "close"} /\ file = NoFile
        BY <1>1, <1>16 DEF PrintVar, PrintLoops, PrintEnd, FileAt, Answer
    <2> QED
        BY <1>5, <2>1, NoFileIs DEF Ended
<1>17. ASSUME UNCHANGED file, pc' = "done", pc = "close" PROVE CopyAt'
    <2>1. ASSUME NEW v PROVE Copied(v) => Copied(v)'
        BY <1>3, <1>17
    <2> QED
        BY <1>1, <1>17, <2>1 DEF CopyAt
<1>18. CASE NcClose
    BY <1>17, <1>18 DEF NcClose
<1>19. CASE UNCHANGED vars
    <2>1. ASSUME NEW v PROVE (Copied(v) => Copied(v)') /\ (Straight(v) => Straight(v)')
        BY <1>3, <1>19 DEF vars
    <2>2. Var' = Var
        BY <1>19 DEF vars, Var
    <2> QED
        BY <1>1, <1>2, <1>19, <2>1, <2>2 DEF CopyAt, vars
<1> QED
    BY <1>6, <1>7, <1>8, <1>9, <1>10, <1>11, <1>12, <1>13, <1>14, <1>15, <1>16, <1>18,
       <1>19 DEF Next, Step, Terminated
-----------------------------------------------------------------------------
(* What was asked for, of a copy *)

\* What was asked for, of a copy, is each cell in its place.
LEMMA CopyExact ==
    Given /\ CondsAt /\ Job = "copy" => \A v \in ToSet(src.vars) :
        Straight(v) /\ DOMAIN file.data[v] = Cells(v) => Exact(v)
<1> SUFFICES ASSUME Given, CondsAt, Job = "copy", NEW v \in ToSet(src.vars),
                    Straight(v), DOMAIN file.data[v] = Cells(v)
             PROVE  Exact(v)
    OBVIOUS
<1>1. \A d : CondOf(d) = 0
    <2>1. cmd.conds = <<>>
        BY DEF Job
    <2>2. DOMAIN cmd.conds = {}
        BY <2>1
    <2>3. DOMAIN conds = {}
        BY <2>2 DEF CondsAt
    <2> QED
        BY <2>3 DEF CondOf
<1>2. \A d : Axis(d) = [from |-> 0, step |-> 1, n |-> src.len[d]]
    BY <1>1 DEF Axis
<1>3. Extent(v) = Lens(v)
    BY <1>2 DEF Extent, Lens
<1>4. ASSUME NEW c \in Cells(v)
      PROVE  Place(v, c) = c
    <2>1. c \in Seq(Nat)
        BY CellsHas
    <2>2. \A j \in DOMAIN c : 0 + c[j] * 1 = c[j]
        BY <2>1
    <2>3. c = [j \in DOMAIN c |-> c[j]]
        BY <2>1
    <2>4. Place(v, c) = [j \in DOMAIN c |-> 0 + c[j] * 1]
        BY <1>2 DEF Place
    <2> QED
        BY <2>2, <2>3, <2>4
<1>5. file.data[v] = [c \in Cells(v) |-> c]
    BY DEF Straight
<1> QED
    BY <1>3, <1>4, <1>5 DEF Exact, Cells

\* Every state a command reaches has the copy as far as it is.
LEMMA CopyInductive == Spec => [](DumpInv /\ JobAt /\ CopyAt)
<1>1. Init => JobAt /\ CopyAt
    BY JobInit, CopyInit
<1>2. DumpInv /\ JobAt /\ CopyAt /\ [Next]_vars => JobAt' /\ CopyAt'
    BY JobStep, CopyStep
<1> QED
    BY <1>1, <1>2, DumpInductive, PTL DEF Spec

\* A file that was closed has been answered.
LEMMA ClosedAt == DumpInv /\ file.state = "closed" => pc \in {"close", "done"}
<1> SUFFICES ASSUME DumpInv, file.state = "closed", pc \notin {"close", "done"} PROVE FALSE
    OBVIOUS
<1>1. FileAt /\ PlaceOK
    BY DEF DumpInv, EndInv
<1>2. file.state \in Begun \union {"absent"} \/ file.state \notin Ended
    BY <1>1, NoFileIs DEF FileAt, PlaceOK
<1> QED
    BY <1>2 DEF Begun, Ended

\* For every source, command and limit: a copy that answers ok has closed its file
\* or could not, and one that was closed holds every variable, and of those that
\* have dimensions each cell in its place.
THEOREM DumpCopyWhole == Spec => []CopyWhole
<1>1. DumpInv /\ JobAt /\ CopyAt => CopyWhole
    <2> SUFFICES ASSUME DumpInv, JobAt, CopyAt, Job = "copy"
                 PROVE  /\ Done => file.state \in Ended
                        /\ file.state = "closed" =>
                            /\ DOMAIN file.data = ToSet(src.vars)
                            /\ \A v \in DOMAIN file.data : Shape(v) # <<>> => Exact(v)
        BY DEF CopyWhole, Ended
    <2>1. Done => file.state \in Ended
        BY DEF JobAt
    <2>2. ASSUME file.state = "closed"
          PROVE  /\ DOMAIN file.data = ToSet(src.vars)
                 /\ \A v \in DOMAIN file.data : Shape(v) # <<>> => Exact(v)
        <3>1. DOMAIN file.data = ToSet(src.vars) /\ \A v \in DOMAIN file.data : Copied(v)
            BY <2>2, ClosedAt DEF CopyAt, Ended
        <3> QED
            BY <3>1, CopyExact DEF DumpInv, Copied
    <2> QED
        BY <2>1, <2>2
<1> QED
    BY <1>1, CopyInductive, PTL
-----------------------------------------------------------------------------
(* What was asked for, of a subset *)

\* resolveSubsetVar: an interval that it finds has a value of the ones asked for.
LEMMA IntervalValue ==
    \A axis \in Seq(Int), lo, hi \in Nat :
        /\ Interval(axis, lo, hi).start >= 0
        /\ Interval(axis, lo, hi).start <= Interval(axis, lo, hi).end
        => \E k \in 0 .. Len(axis) - 1 : lo <= axis[k + 1] /\ axis[k + 1] <= hi
<1> SUFFICES ASSUME NEW axis \in Seq(Int), NEW lo \in Nat, NEW hi \in Nat,
                    Interval(axis, lo, hi).start >= 0,
                    Interval(axis, lo, hi).start <= Interval(axis, lo, hi).end
             PROVE  \E k \in 0 .. Len(axis) - 1 : lo <= axis[k + 1] /\ axis[k + 1] <= hi
    OBVIOUS
<1> DEFINE n == Len(axis)
           past == {k \in 0 .. n - 1 : axis[k + 1] > hi}
           stop == IF past = {} THEN n ELSE Min(past)
           from == {k \in 0 .. n - 1 : k <= stop /\ axis[k + 1] >= lo}
<1>1. n \in Nat /\ \A k \in 0 .. n - 1 : axis[k + 1] \in Int
    OBVIOUS
<1>2. Interval(axis, lo, hi) = [start |-> IF from = {} THEN -1 ELSE Min(from), end |-> stop - 1]
    BY DEF Interval
<1>3. past \subseteq 0 .. n - 1 /\ from \subseteq 0 .. n - 1
    OBVIOUS
<1>4. \A k \in 0 .. n - 1 : /\ k \in past <=> axis[k + 1] > hi
                            /\ k \in from <=> k <= stop /\ axis[k + 1] >= lo
    OBVIOUS
<1>5. stop = IF past = {} THEN n ELSE Min(past)
    OBVIOUS
<1> HIDE DEF n, past, from, stop
<1>6. past # {} => Min(past) \in past /\ \A y \in past : Min(past) <= y
    <2>1. past \subseteq Nat
        BY <1>1, <1>3
    <2> QED
        BY <2>1, MinOf
<1>7. from # {}
    BY <1>2
<1>8. Min(from) \in from
    <2>1. from \subseteq Nat
        BY <1>1, <1>3
    <2> QED
        BY <1>7, <2>1, MinOf
<1>9. PICK m \in 0 .. n - 1 : m = Min(from) /\ axis[m + 1] >= lo
    BY <1>3, <1>4, <1>8
<1>10. stop \in Nat
    BY <1>1, <1>3, <1>5, <1>6
<1>11. m <= stop - 1
    BY <1>2, <1>7, <1>9
<1>12. m < stop
    BY <1>1, <1>9, <1>10, <1>11
<1>13. m \notin past
    BY <1>1, <1>3, <1>5, <1>6, <1>9, <1>10, <1>12
<1>14. axis[m + 1] <= hi
    BY <1>1, <1>4, <1>9, <1>13
<1> QED
    BY <1>1, <1>9, <1>14 DEF n

\* The ends of an interval are its least and its greatest number.
LEMMA IntervalEnds ==
    \A a, b \in Nat : a <= b => /\ a .. b # {}
                                /\ Min(a .. b) = a /\ Max(a .. b) = b
<1> SUFFICES ASSUME NEW a \in Nat, NEW b \in Nat, a <= b
             PROVE  a .. b # {} /\ Min(a .. b) = a /\ Max(a .. b) = b
    OBVIOUS
<1>1. PICK s : s = a .. b
    OBVIOUS
<1>2. a \in s /\ b \in s /\ s \subseteq Nat /\ s \subseteq 0 .. b
    BY <1>1
<1>3. Min(s) \in s /\ \A y \in s : Min(s) <= y
    BY <1>2, MinOf
<1>4. Max(s) \in s /\ \A y \in s : Max(s) >= y
    BY <1>2, MaxOf
<1>5. Min(s) = a
    BY <1>1, <1>2, <1>3
<1>6. Max(s) = b
    BY <1>1, <1>2, <1>4
<1> QED
    BY <1>1, <1>2, <1>5, <1>6

\* The indices from start to end of a condition that holds are those asked for.
LEMMA AskedIs ==
    Given /\ CondsAt /\ Working /\ Ascending => \A k \in DOMAIN cmd.conds :
        conds[k].start >= 0 /\ conds[k].start <= conds[k].end =>
            Asked(cmd.conds[k]) = conds[k].start .. conds[k].end
<1> SUFFICES ASSUME Given, CondsAt, Working, Ascending, NEW k \in DOMAIN cmd.conds,
                    conds[k].start >= 0, conds[k].start <= conds[k].end
             PROVE  Asked(cmd.conds[k]) = conds[k].start .. conds[k].end
    OBVIOUS
<1>1. CASE ~ cmd.subsetByVal
    BY <1>1 DEF CondsAt, Asked
<1>2. CASE cmd.subsetByVal
    <2>1. /\ cmd.conds[k].dim \in DOMAIN src.axis
          /\ conds[k].start = Found(k).start /\ conds[k].end = Found(k).end
        BY <1>2 DEF CondsAt
    <2>2. PICK axis \in Seq(Int) : axis = src.axis[cmd.conds[k].dim]
        BY <2>1, GivenIs
    <2>3. PICK lo, hi \in Nat : lo = cmd.conds[k].start /\ hi = cmd.conds[k].end
        BY CommandIs
    <2>4. Found(k) = Interval(axis, lo, hi)
        BY <2>2, <2>3 DEF Found
    <2>5. \A a, b \in 1 .. Len(axis) : a < b => axis[a] < axis[b]
        <3>1. DOMAIN axis = 1 .. Len(axis)
            OBVIOUS
        <3> QED
            BY <1>2, <2>1, <2>2, <3>1 DEF Ascending
    <2>6. \E i \in 0 .. Len(axis) - 1 : lo <= axis[i + 1] /\ axis[i + 1] <= hi
        BY <2>1, <2>4, IntervalValue
    <2>7. Interval(axis, lo, hi).start .. Interval(axis, lo, hi).end =
            {i \in 0 .. Len(axis) - 1 : lo <= axis[i + 1] /\ axis[i + 1] <= hi}
        <3>1. lo \in Int /\ hi \in Int
            OBVIOUS
        <3> QED
            BY <2>5, <2>6, <3>1, IntervalExact
    <2>8. Asked(cmd.conds[k]) =
            {i \in 0 .. Len(axis) - 1 : axis[i + 1] >= lo /\ axis[i + 1] <= hi}
        BY <1>2, <2>2, <2>3 DEF Asked
    <2>9. \A i \in 0 .. Len(axis) - 1 : axis[i + 1] \in Int
        OBVIOUS
    <2>10. {i \in 0 .. Len(axis) - 1 : axis[i + 1] >= lo /\ axis[i + 1] <= hi} =
           {i \in 0 .. Len(axis) - 1 : lo <= axis[i + 1] /\ axis[i + 1] <= hi}
        BY <2>9
    <2> QED
        BY <2>1, <2>4, <2>7, <2>8, <2>10
<1> QED
    BY <1>1, <1>2

\* What is asked for along a dimension is what the request has.
LEMMA AxisIs ==
    Given /\ CondsAt /\ Working /\ Unstrided /\ Ascending =>
        \A v \in ToSet(src.vars) : CanGet(v) => \A j \in DOMAIN Shape(v) :
            /\ Axis(Shape(v)[j]).from = Start(v)[j] /\ Axis(Shape(v)[j]).step = 1
            /\ Axis(Shape(v)[j]).n = Count(v)[j]
            /\ Stride(v)[j] \in {0, 1}
<1> SUFFICES ASSUME Given, CondsAt, Working, Unstrided, Ascending, NEW v \in ToSet(src.vars),
                    CanGet(v), NEW j \in DOMAIN Shape(v)
             PROVE  /\ Axis(Shape(v)[j]).from = Start(v)[j] /\ Axis(Shape(v)[j]).step = 1
                    /\ Axis(Shape(v)[j]).n = Count(v)[j]
                    /\ Stride(v)[j] \in {0, 1}
    OBVIOUS
<1>1. PICK d : d = Shape(v)[j]
    OBVIOUS
<1>2. CASE CondOf(d) = 0
    <2>1. Axis(d) = [from |-> 0, step |-> 1, n |-> src.len[d]]
        BY <1>2 DEF Axis
    <2>2. Start(v)[j] = 0 /\ Count(v)[j] = src.len[d] /\ Stride(v)[j] = 1
        BY <1>1, <1>2 DEF Start, Count, Stride, HasCond, Lens
    <2> QED
        BY <1>1, <2>1, <2>2
<1>3. CASE CondOf(d) # 0
    <2>1. PICK k : k = CondOf(d) /\ k \in DOMAIN cmd.conds
        BY <1>3, CondOfIs
    <2>2. /\ conds[k].start \in Int /\ conds[k].end \in Int
          /\ conds[k].stride = cmd.conds[k].stride
        BY <2>1 DEF CondsAt
    <2>3. cmd.conds[k].stride \in {0, 1}
        BY <2>1 DEF Unstrided
    <2>4. HasCond(v, j) /\ Cond(v, j) = conds[k]
        BY <1>1, <1>3, <2>1 DEF HasCond, Cond
    <2>5. /\ Start(v)[j] = conds[k].start
          /\ Count(v)[j] = conds[k].end - conds[k].start + 1
          /\ Stride(v)[j] = conds[k].stride
        BY <2>4 DEF Start, Count, Stride
    <2>6. j \in DOMAIN Count(v)
        BY DEF Count
    <2>7. conds[k].start >= 0 /\ conds[k].start <= conds[k].end
        BY <2>4, <2>5, <2>6 DEF CanGet, InRange, Readable
    <2>8. PICK a, b \in Nat : a = conds[k].start /\ b = conds[k].end /\ a <= b
        BY <2>2, <2>7
    <2>9. PICK c : c = cmd.conds[k]
        OBVIOUS
    <2>10. Asked(c) = a .. b
        BY <2>1, <2>7, <2>8, <2>9, AskedIs
    <2>11. Asked(c) # {} /\ Min(Asked(c)) = a /\ Max(Asked(c)) = b
        BY <2>8, <2>10, IntervalEnds
    <2>12. (b - a) \div 1 = b - a
        <3>1. b - a \in Nat
            BY <2>8
        <3> QED
            BY <3>1, DivOne
    <2>13. Axis(d) = [from |-> a, step |-> 1, n |-> (b - a) \div 1 + 1]
        <3>1. k # 0
            BY <1>3, <2>1
        <3> HIDE DEF Asked
        <3> QED
            BY <2>1, <2>3, <2>9, <2>11, <3>1 DEF Axis
    <2> QED
        BY <1>1, <2>2, <2>3, <2>5, <2>8, <2>12, <2>13
<1> QED
    BY <1>2, <1>3

\* A slab that is read without strides is read whole.
LEMMA ReadWhole ==
    \A start, count \in Seq(Nat) : \A stride :
        /\ Len(start) = Len(count)
        /\ \A j \in 1 .. Len(count) : count[j] # 0 /\ stride[j] \in {0, 1}
        => GetVarsByType(start, count, stride) = Slab(start, count)
<1> SUFFICES ASSUME NEW start \in Seq(Nat), NEW count \in Seq(Nat), NEW stride,
                    Len(start) = Len(count),
                    \A j \in 1 .. Len(count) : count[j] # 0 /\ stride[j] \in {0, 1}
             PROVE  GetVarsByType(start, count, stride) = Slab(start, count)
    OBVIOUS
<1>1. PICK n \in Nat : n = Len(count) /\ DOMAIN count = 1 .. n /\ \A j \in 1 .. n : count[j] \in Nat
    OBVIOUS
<1> DEFINE step(j) == IF stride[j] <= 0 THEN 1 ELSE stride[j]
           c == [j \in DOMAIN count |-> (count[j] - 1) \div step(j) + 1]
<1>2. \A j \in 1 .. n : step(j) = 1
    BY <1>1
<1>3. \A j \in 1 .. n : (count[j] - 1) \div step(j) + 1 = count[j]
    <2> SUFFICES ASSUME NEW j \in 1 .. n
                 PROVE  (count[j] - 1) \div step(j) + 1 = count[j]
        OBVIOUS
    <2>1. PICK x \in Nat : x + 1 = count[j] /\ count[j] - 1 = x
        <3>1. count[j] - 1 \in Nat /\ (count[j] - 1) + 1 = count[j]
            BY <1>1
        <3> QED
            BY <3>1
    <2>2. x \div 1 = x
        BY DivOne
    <2> QED
        BY <1>2, <2>1, <2>2
<1>4. c = [j \in 1 .. n |-> count[j]] /\ count = [j \in 1 .. n |-> count[j]]
    BY <1>1, <1>3
<1>5. Size(count, stride) = Volume(c)
    BY DEF Size
<1> HIDE DEF c
<1>6. PICK vol \in Nat : vol = Volume(count) /\ Size(count, stride) = vol
    BY <1>4, <1>5, VolumeNat
<1>7. PICK s : s = Slab(start, count)
    OBVIOUS
<1>8. s = [k \in 1 .. vol |-> s[k]]
    BY <1>6, <1>7 DEF Slab
<1>9. SubSeq(s, 1, vol) = [k \in 1 .. vol |-> s[k]]
    OBVIOUS
<1> QED
    BY <1>6, <1>7, <1>8, <1>9 DEF GetVarsByType

\* What is read of a variable is its slab, and that is what was asked for.
LEMMA ReadIs ==
    Given /\ CondsAt /\ Working /\ Unstrided /\ Ascending =>
        \A v \in ToSet(src.vars) : CanGet(v) =>
            /\ Extent(v) = Count(v)
            /\ SingleNcVarData(v) = Slab(Start(v), Count(v))
            /\ \A k \in 1 .. Volume(Count(v)) :
                /\ Slab(Start(v), Count(v))[k] = Place(v, Index(k - 1, Count(v)))
                /\ Slab(Zeros(v), Count(v))[k] = Index(k - 1, Count(v))
<1> SUFFICES ASSUME Given, CondsAt, Working, Unstrided, Ascending, NEW v \in ToSet(src.vars),
                    CanGet(v)
             PROVE  /\ Extent(v) = Count(v)
                    /\ SingleNcVarData(v) = Slab(Start(v), Count(v))
                    /\ \A k \in 1 .. Volume(Count(v)) :
                        /\ Slab(Start(v), Count(v))[k] = Place(v, Index(k - 1, Count(v)))
                        /\ Slab(Zeros(v), Count(v))[k] = Index(k - 1, Count(v))
    OBVIOUS
<1>1. PICK n \in Nat : n = Len(Shape(v)) /\ DOMAIN Shape(v) = 1 .. n
    BY LensIs
<1>2. PICK start, count \in Seq(Nat) :
        /\ start = Start(v) /\ count = Count(v) /\ Len(start) = n /\ Len(count) = n
        /\ \A j \in 1 .. n : count[j] # 0
    BY <1>1, CountIs
<1>3. PICK z \in Seq(Nat) : z = Zeros(v) /\ Len(z) = n /\ \A j \in 1 .. n : z[j] = 0
    BY <1>1, LensIs
<1>4. \A j \in 1 .. n : /\ Axis(Shape(v)[j]).from = start[j] /\ Axis(Shape(v)[j]).step = 1
                        /\ Axis(Shape(v)[j]).n = count[j]
                        /\ Stride(v)[j] \in {0, 1}
    <2>1. \A j \in DOMAIN Shape(v) :
            /\ Axis(Shape(v)[j]).from = Start(v)[j] /\ Axis(Shape(v)[j]).step = 1
            /\ Axis(Shape(v)[j]).n = Count(v)[j]
            /\ Stride(v)[j] \in {0, 1}
        BY AxisIs
    <2> QED
        BY <1>1, <1>2, <2>1
<1>5. Extent(v) = Count(v)
    <2>1. Extent(v) = [j \in 1 .. n |-> count[j]]
        BY <1>1, <1>4 DEF Extent
    <2>2. count = [j \in 1 .. n |-> count[j]]
        BY <1>2
    <2> QED
        BY <1>2, <2>1, <2>2
<1>6. SingleNcVarData(v) = Slab(start, count)
    <2>1. GetVarsByType(start, count, Stride(v)) = Slab(start, count)
        <3>1. Len(start) = Len(count) /\ \A j \in 1 .. Len(count) : count[j] # 0 /\ Stride(v)[j] \in {0, 1}
            BY <1>2, <1>4
        <3> QED
            BY <3>1, ReadWhole
    <2> QED
        BY <1>2, <2>1 DEF SingleNcVarData
<1>7. ASSUME NEW k \in 1 .. Volume(count)
      PROVE  /\ Slab(start, count)[k] = Place(v, Index(k - 1, count))
             /\ Slab(z, count)[k] = Index(k - 1, count)
    <2>1. PICK x : x = Index(k - 1, count)
        OBVIOUS
    <2>2. x = [j \in 1 .. n |-> x[j]]
        <3>1. DOMAIN count = 1 .. n
            BY <1>2
        <3> QED
            BY <2>1, <3>1 DEF Index
    <2>3. /\ Slab(start, count)[k] = Plus(start, x) /\ Slab(z, count)[k] = Plus(z, x)
          /\ \A j \in 1 .. n : x[j] \in 0 .. count[j] - 1
        <3>0. Len(start) = Len(count) /\ Len(z) = Len(count)
            BY <1>2, <1>3
        <3>1. Slab(start, count)[k] = Plus(start, Index(k - 1, count))
            BY <3>0, SlabIs, Zenon
        <3>2. \A j \in 1 .. Len(count) : Index(k - 1, count)[j] \in 0 .. count[j] - 1
            BY <3>0, SlabIs, Zenon
        <3>3. Slab(z, count)[k] = Plus(z, Index(k - 1, count))
            BY <3>0, SlabIs, Zenon
        <3> QED
            BY <1>2, <2>1, <3>1, <3>2, <3>3
    <2>4. \A j \in 1 .. n : x[j] \in Nat /\ start[j] \in Nat
        BY <1>2, <2>3
    <2>5. Place(v, x) = [j \in 1 .. n |-> start[j] + x[j] * 1]
        <3>1. DOMAIN x = 1 .. n
            BY <2>2
        <3> QED
            BY <1>4, <3>1 DEF Place
    <2>6. Plus(start, x) = [j \in 1 .. n |-> start[j] + x[j]]
        BY <1>2 DEF Plus
    <2>7. Plus(z, x) = [j \in 1 .. n |-> z[j] + x[j]]
        BY <1>3 DEF Plus
    <2>8. \A j \in 1 .. n : start[j] + x[j] * 1 = start[j] + x[j] /\ z[j] + x[j] = x[j]
        BY <1>3, <2>4
    <2>9. Plus(z, x) = x
        BY <2>2, <2>7, <2>8
    <2>10. Plus(start, x) = Place(v, x)
        BY <2>5, <2>6, <2>8
    <2> QED
        BY <2>1, <2>3, <2>9, <2>10
<1> QED
    BY <1>2, <1>3, <1>5, <1>6, <1>7

\* What is printed of a variable is what was asked for, in row order.
LEMMA PrintIs ==
    Given /\ CondsAt /\ Working /\ Unstrided /\ Ascending =>
        \A v \in ToSet(src.vars) : CanGet(v) =>
            SingleNcVarData(v) =
                [k \in 1 .. Volume(Extent(v)) |-> Place(v, Index(k - 1, Extent(v)))]
<1> SUFFICES ASSUME Given, CondsAt, Working, Unstrided, Ascending, NEW v \in ToSet(src.vars),
                    CanGet(v)
             PROVE  SingleNcVarData(v) =
                        [k \in 1 .. Volume(Extent(v)) |-> Place(v, Index(k - 1, Extent(v)))]
    OBVIOUS
<1>1. PICK count, s : count = Count(v) /\ s = Slab(Start(v), Count(v))
    OBVIOUS
<1>2. /\ Extent(v) = count /\ SingleNcVarData(v) = s
      /\ \A k \in 1 .. Volume(count) : s[k] = Place(v, Index(k - 1, count))
    BY <1>1, ReadIs
<1>3. s = [k \in 1 .. Volume(count) |-> s[k]]
    BY <1>1 DEF Slab
<1> QED
    BY <1>2, <1>3

\* x shows the variable as it was asked for.
Shows(v, x) ==
    IF ~ IsText(v) THEN x = AskedCells(v)
    ELSE /\ \A k \in DOMAIN x : x[k] = TextAt(v, AskedCells(v))
         /\ Shape(v) # <<>> =>
                DOMAIN x = 1 .. RowsOf(Volume(Extent(v)), Extent(v)[Len(Extent(v))])

\* Numbers are printed as they are read, and text as what its rows begin with.
LEMMA ShownIs ==
    Given /\ CondsAt /\ Working /\ Unstrided /\ Ascending =>
        \A v \in ToSet(src.vars) : CanGet(v) => \A x \in Shown(v) : Shows(v, x)
<1> SUFFICES ASSUME Given, CondsAt, Working, Unstrided, Ascending, NEW v \in ToSet(src.vars),
                    CanGet(v), NEW x \in Shown(v)
             PROVE  Shows(v, x)
    OBVIOUS
<1>1. PICK a, buf : a = AskedCells(v) /\ buf = SingleNcVarData(v)
    OBVIOUS
<1>2. buf = a /\ Extent(v) = Count(v) /\ Volume(Extent(v)) \in Nat
    <2>1. buf = a
        BY <1>1, PrintIs DEF AskedCells
    <2>2. Extent(v) = Count(v)
        BY ReadIs
    <2>3. Count(v) \in Seq(Nat)
        BY CountIs
    <2> QED
        BY <2>1, <2>2, <2>3, VolumeNat
<1>3. CASE ~ IsText(v)
    BY <1>1, <1>2, <1>3 DEF Shown, Shows
<1>4. CASE IsText(v)
    <2>1. PICK n, txt : x = [k \in 1 .. n |-> txt] /\ txt = TextAt(v, a)
                        /\ (Shape(v) # <<>> => n = RowsOf(Len(a), Count(v)[Len(Count(v))]))
        BY <1>1, <1>2, <1>4 DEF Shown, TextRows
    <2>2. Len(a) = Volume(Extent(v))
        <3>1. PICK m \in Nat : m = Volume(Extent(v))
            BY <1>2
        <3>2. PICK f : a = [k \in 1 .. m |-> f[k]]
            BY <1>1, <3>1 DEF AskedCells
        <3> QED
            BY <3>1, <3>2
    <2>3. DOMAIN x = 1 .. n /\ \A k \in 1 .. n : x[k] = txt
        BY <2>1
    <2> QED
        BY <1>1, <1>2, <1>4, <2>1, <2>2, <2>3 DEF Shows
<1> QED
    BY <1>3, <1>4

\* The variable as it was asked for.
Wanted(v) == [c \in ToSet(Slab(Zeros(v), Extent(v))) |-> Place(v, c)]

\* A subset that is put at the front of an empty variable, or of one that has
\* it already, is there as it was asked for.
LEMMA FilledExact ==
    Given /\ CondsAt /\ Working /\ Unstrided /\ Ascending =>
        \A v \in ToSet(src.vars) : CanGet(v) =>
            \A old : old = <<>> \/ old = Wanted(v) =>
                Filled(old, Slab(Zeros(v), Count(v)), SingleNcVarData(v)) = Wanted(v)
<1> SUFFICES ASSUME Given, CondsAt, Working, Unstrided, Ascending, NEW v \in ToSet(src.vars),
                    CanGet(v), NEW old, old = <<>> \/ old = Wanted(v)
             PROVE  Filled(old, Slab(Zeros(v), Count(v)), SingleNcVarData(v)) = Wanted(v)
    OBVIOUS
<1>1. PICK count, s, z, buf : /\ count = Count(v) /\ s = Slab(Start(v), Count(v))
                              /\ z = Slab(Zeros(v), Count(v)) /\ buf = SingleNcVarData(v)
    OBVIOUS
<1>2. /\ Extent(v) = count /\ buf = s
      /\ \A k \in 1 .. Volume(count) : /\ s[k] = Place(v, Index(k - 1, count))
                                       /\ z[k] = Index(k - 1, count)
    BY <1>1, ReadIs
<1>3. PICK vol \in Nat : vol = Volume(count) /\ DOMAIN z = 1 .. vol /\ Len(buf) = vol
    <2>1. Start(v) \in Seq(Nat) /\ Count(v) \in Seq(Nat) /\ Zeros(v) \in Seq(Nat)
          /\ Len(Start(v)) = Len(Count(v)) /\ Len(Zeros(v)) = Len(Count(v))
        BY CountIs, LensIs
    <2>2. Volume(count) \in Nat /\ Len(s) = Volume(count) /\ DOMAIN z = 1 .. Volume(count)
        BY <1>1, <2>1, SlabIs
    <2> QED
        BY <1>2, <2>2
<1>4. \A k \in DOMAIN z : k <= Len(buf) /\ buf[k] = Place(v, z[k])
    BY <1>2, <1>3
<1>5. \A c \in ToSet(z) : LET k == CHOOSE n \in DOMAIN z : z[n] = c
                          IN  k \in DOMAIN z /\ z[k] = c
    BY DEF ToSet
<1>6. \A c \in ToSet(z) :
        (LET k == CHOOSE n \in DOMAIN z : z[n] = c IN IF k <= Len(buf) THEN buf[k] ELSE Garbage)
            = Place(v, c)
    BY <1>4, <1>5
<1>7. DOMAIN old \union ToSet(z) = ToSet(z)
    <2>1. DOMAIN <<>> = {}
        OBVIOUS
    <2> QED
        BY <1>1, <1>2, <2>1 DEF Wanted
<1>8. Filled(old, z, buf) = [c \in ToSet(z) |-> Place(v, c)]
    BY <1>6, <1>7 DEF Filled
<1> QED
    BY <1>1, <1>2, <1>8 DEF Wanted

\* What was printed is what was asked for.
PrintAt ==
    /\ pc \in {"open", "inq", "resolve"} => DOMAIN printed = {}
    /\ PrintExact

\* The subset as far as it is: a variable has nothing or what was asked for,
\* and that if it is not to do any more.
SubsetAt == Unstrided /\ Ascending =>
    /\ pc = "subset" =>
        /\ DOMAIN file.data = ToSet(Screened)
        /\ \A v \in DOMAIN file.data :
            /\ file.data[v] \in {<<>>, Wanted(v)}
            /\ v \notin ToSet(todo) => file.data[v] = Wanted(v)
    /\ pc \in {"close", "done"} /\ Job = "subset" /\ file.state \in Ended =>
        /\ DOMAIN file.data = ToSet(Screened)
        /\ \A v \in DOMAIN file.data : file.data[v] = Wanted(v)

\* What is asked for is a matter of the source, the command and the conditions.
LEMMA AxisStays ==
    UNCHANGED <<src, cmd, conds>> => \A v : /\ Extent(v)' = Extent(v) /\ Zeros(v)' = Zeros(v)
                                            /\ \A c : Place(v, c)' = Place(v, c)
<1> SUFFICES ASSUME UNCHANGED <<src, cmd, conds>>, NEW v
             PROVE  /\ Extent(v)' = Extent(v) /\ Zeros(v)' = Zeros(v)
                    /\ \A c : Place(v, c)' = Place(v, c)
    OBVIOUS
<1>1. \A d : CondOf(d)' = CondOf(d)
    BY DEF CondOf
<1>2. \A c : Asked(c)' = Asked(c)
    BY DEF Asked
<1>3. ASSUME NEW d PROVE Axis(d)' = Axis(d)
    <2>1. PICK k, c, a : k = CondOf(d) /\ c = cmd.conds[k] /\ a = Asked(c)
        OBVIOUS
    <2>2. CondOf(d)' = k /\ cmd'.conds[k] = c /\ Asked(c)' = a
        BY <1>1, <1>2, <2>1
    <2>3. Asked(cmd.conds[CondOf(d)])' = a
        BY <2>1, <2>2 DEF Asked
    <2> QED
        BY <2>1, <2>2, <2>3 DEF Axis
<1>4. Shape(v)' = Shape(v)
    BY DEF Shape
<1> QED
    BY <1>3, <1>4 DEF Extent, Zeros, Place

\* What was asked for does not change.
LEMMA WantedStays ==
    [Next]_vars /\ UNCHANGED conds =>
        \A v : /\ Wanted(v)' = Wanted(v)
               /\ printed'[v] = printed[v] => (PrintedExactly(v) => PrintedExactly(v)')
<1> SUFFICES ASSUME [Next]_vars, UNCHANGED conds, NEW v
             PROVE  /\ Wanted(v)' = Wanted(v)
                    /\ printed'[v] = printed[v] => (PrintedExactly(v) => PrintedExactly(v)')
    OBVIOUS
<1>1. src' = src /\ cmd' = cmd
    BY GivenStays
<1>2. /\ Extent(v)' = Extent(v) /\ Zeros(v)' = Zeros(v)
      /\ \A c : Place(v, c)' = Place(v, c)
    BY <1>1, AxisStays
<1> QED
    <2>1. /\ Shape(v)' = Shape(v) /\ IsText(v)' = IsText(v)
          /\ \A b : TextAt(v, b)' = TextAt(v, b)
        BY <1>1 DEF Shape, IsText, TextAt
    <2>2. AskedCells(v)' = AskedCells(v)
        BY <1>2 DEF AskedCells
    <2>3. Wanted(v)' = Wanted(v)
        BY <1>2 DEF Wanted
    <2> QED
        BY <1>2, <2>1, <2>2, <2>3 DEF PrintedExactly

\* What shows the variable goes on to.
LEMMA ShowsStays ==
    UNCHANGED <<src, cmd, conds>> => \A v, x : Shows(v, x) => Shows(v, x)'
<1> SUFFICES ASSUME UNCHANGED <<src, cmd, conds>>, NEW v, NEW x, Shows(v, x) PROVE Shows(v, x)'
    OBVIOUS
<1>1. /\ Extent(v)' = Extent(v)
      /\ \A c : Place(v, c)' = Place(v, c)
    BY AxisStays
<1>2. /\ Shape(v)' = Shape(v) /\ IsText(v)' = IsText(v)
      /\ \A b : TextAt(v, b)' = TextAt(v, b)
    BY DEF Shape, IsText, TextAt
<1>3. AskedCells(v)' = AskedCells(v)
    BY <1>1 DEF AskedCells
<1> QED
    BY <1>1, <1>2, <1>3 DEF Shows

\* Nothing is printed at the start.
LEMMA PrintInit == Init => PrintAt
<1>1. DOMAIN <<>> = {}
    OBVIOUS
<1> QED
    BY <1>1 DEF Init, PrintAt, PrintExact

\* Each step keeps what was printed, and adds what was asked for.
LEMMA PrintStep == DumpInv /\ PrintAt /\ [Next]_vars => PrintAt'
<1> SUFFICES ASSUME DumpInv, PrintAt, [Next]_vars PROVE PrintAt'
    OBVIOUS
<1>1. /\ Given /\ CondsAt /\ ChunkAt /\ src' = src /\ cmd' = cmd
      /\ Unstrided' = Unstrided /\ Ascending' = Ascending
    BY GivenStays DEF DumpInv, Unstrided, Ascending
<1>2. ASSUME UNCHANGED <<printed, conds>>,
             pc' \in {"open", "inq", "resolve"} => pc \in {"open", "inq", "resolve"}
      PROVE  PrintAt'
    <2>1. \A v : PrintedExactly(v) => PrintedExactly(v)'
        BY <1>2, WantedStays
    <2> QED
        BY <1>1, <1>2, <2>1 DEF PrintAt, PrintExact
<1>3. CASE ResolveSubsetVar
    <2>1. DOMAIN printed' = {}
        BY <1>3 DEF ResolveSubsetVar, PrintAt
    <2> QED
        BY <2>1 DEF PrintAt, PrintExact
<1>4. CASE PrintVar
    <2>0. pc = "print" /\ pc' = "print" /\ UNCHANGED conds
        BY <1>4 DEF PrintVar
    <2>1. CASE UNCHANGED printed
        BY <1>2, <2>0, <2>1
    <2>2. CASE CanGet(Var) /\ ~ UNCHANGED printed
        <3>1. PICK V : V = Var /\ V \in ToSet(src.vars)
            BY <1>1, <1>4, VarIs DEF PrintVar
        <3>2. PICK x \in Shown(V) : printed' = [v \in DOMAIN printed \union {V} |->
                                                    IF v = V THEN x ELSE printed[v]]
            BY <1>4, <2>2, <3>1 DEF PrintVar
        <3>3. /\ DOMAIN printed' = DOMAIN printed \union {V}
              /\ printed'[V] = x
              /\ \A v \in DOMAIN printed : v # V => printed'[v] = printed[v]
            BY <3>2
        <3>4. ASSUME Unstrided, Ascending, NEW v \in DOMAIN printed'
              PROVE  PrintedExactly(v)'
            <4>1. CASE v = V
                <5>1. Shows(V, x)
                    BY <1>1, <2>0, <2>2, <3>1, <3>2, <3>4, ShownIs DEF Working
                <5>2. Shows(V, x)'
                    BY <1>1, <2>0, <5>1, ShowsStays
                <5> QED
                    BY <3>3, <4>1, <5>2 DEF PrintedExactly, Shows
            <4>2. CASE v # V
                <5>1. v \in DOMAIN printed /\ printed'[v] = printed[v]
                    BY <3>3, <3>4, <4>2
                <5>2. PrintedExactly(v)
                    BY <3>4, <5>1 DEF PrintAt, PrintExact
                <5> QED
                    BY <2>0, <5>1, <5>2, WantedStays
            <4> QED
                BY <4>1, <4>2
        <3> QED
            BY <1>1, <2>0, <3>4 DEF PrintAt, PrintExact
    <2> QED
        BY <1>4, <2>1, <2>2 DEF PrintVar
<1>5. CASE NcOpen \/ NcInq \/ ResolveError
    BY <1>2, <1>5 DEF NcOpen, NcInq, ResolveError, Begin, Return
<1>6. CASE NcCreate \/ DefineDims \/ DivideByZero \/ DefineError
    BY <1>2, <1>6 DEF NcCreate, DefineDims, DivideByZero, DefineError, RemoveFile, Answer
<1>7. CASE DefineVars
    BY <1>2, <1>7 DEF DefineVars, CloseFile, Answer, Job
<1>8. CASE CopyVar \/ CopyChunk \/ ChunkError \/ SubsetVar \/ SubsetError \/ Finish
    BY <1>2, <1>8 DEF CopyVar, CopyChunk, ChunkError, SubsetVar, SubsetError, Finish, CloseFile,
                      RemoveFile, Answer
<1>9. CASE PrintLoops \/ PrintEnd \/ NcClose \/ Terminated \/ UNCHANGED vars
    BY <1>2, <1>9 DEF PrintLoops, PrintEnd, NcClose, Terminated, vars, Answer
<1> QED
    BY <1>3, <1>4, <1>5, <1>6, <1>7, <1>8, <1>9 DEF Next, Step

\* No subset is begun at the start.
LEMMA SubsetInit == Init => SubsetAt
    BY DEF Init, SubsetAt

\* A variable that is put in the file is there as it was asked for.
LEMMA SubsetVarStep == DumpInv /\ JobAt /\ SubsetAt /\ SubsetVar => SubsetAt'
<1> SUFFICES ASSUME DumpInv, JobAt, SubsetAt, SubsetVar, Unstrided', Ascending' PROVE SubsetAt'
    BY DEF SubsetAt
<1>1. /\ Given /\ CondsAt /\ ChunkAt /\ FileIs /\ src' = src /\ cmd' = cmd
      /\ pc = "subset" /\ pc' = "subset" /\ UNCHANGED conds
      /\ todo # <<>> /\ todo' = Tail(todo) /\ CanGet(Var)
    BY DEF DumpInv, SubsetVar
<1>2. Unstrided /\ Ascending /\ Working /\ Screened' = Screened
    BY <1>1 DEF Unstrided, Ascending, Working, Screened, Job
<1>3. PICK V : V = Var /\ V = Head(todo) /\ V \in ToSet(src.vars)
    BY <1>1, VarIs DEF Var
<1>4. PICK start, count \in Seq(Nat) :
        start = Zeros(V) /\ count = Count(V) /\ Len(start) = Len(count)
    BY <1>1, <1>3, CountIs, LensIs
<1>5. PICK x, buf, old : /\ buf = SingleNcVarData(V) /\ old = file.data[V]
                         /\ x = Filled(old, Slab(start, count), buf)
    OBVIOUS
<1>6. PICK vol : IsPut(file', V, x, vol)
    <2>1. file' = PutVars(V, start, count, buf)
        BY <1>3, <1>4, <1>5 DEF SubsetVar
    <2>2. IsPut(file', V, Filled(file.data[V], Slab(start, count), buf), Volume(count))
        BY <1>1, <1>4, <2>1, PutSlab
    <2> QED
        BY <1>5, <2>2
<1>7. /\ DOMAIN file'.data = DOMAIN file.data
      /\ \A u \in DOMAIN file.data : file'.data[u] = IF u = V THEN x ELSE file.data[u]
    BY <1>6 DEF IsPut
<1>8. /\ DOMAIN file.data = ToSet(Screened)
      /\ \A v \in DOMAIN file.data :
            /\ file.data[v] \in {<<>>, Wanted(v)}
            /\ v \notin ToSet(todo) => file.data[v] = Wanted(v)
    BY <1>1, <1>2 DEF SubsetAt
<1>9. V \in DOMAIN file.data => x = Wanted(V)
    <2> SUFFICES ASSUME V \in DOMAIN file.data PROVE x = Wanted(V)
        OBVIOUS
    <2>1. old = <<>> \/ old = Wanted(V)
        BY <1>5, <1>8
    <2>2. Filled(old, Slab(Zeros(V), Count(V)), SingleNcVarData(V)) = Wanted(V)
        BY <1>1, <1>2, <1>3, <2>1, FilledExact
    <2> QED
        BY <1>4, <1>5, <2>2
<1>10. \A v \in ToSet(todo) : v = V \/ v \in ToSet(Tail(todo))
    <2>1. todo \in Seq(ToSet(src.vars)) /\ todo # <<>>
        BY <1>1 DEF ChunkAt
    <2> QED
        BY <1>3, <2>1, TailIs
<1>11. \A v : Wanted(v)' = Wanted(v)
    <2>1. [Next]_vars
        BY DEF Next, Step
    <2> QED
        BY <1>1, <2>1, WantedStays
<1>12. ASSUME NEW v \in DOMAIN file.data
       PROVE  /\ file'.data[v] \in {<<>>, Wanted(v)}
              /\ v \notin ToSet(Tail(todo)) => file'.data[v] = Wanted(v)
    <2>1. CASE v = V
        BY <1>7, <1>9, <2>1
    <2>2. CASE v # V
        BY <1>7, <1>8, <1>10, <2>2
    <2> QED
        BY <2>1, <2>2
<1> QED
    BY <1>1, <1>2, <1>7, <1>8, <1>11, <1>12 DEF SubsetAt

\* Each step keeps what is in the subset.
LEMMA SubsetStep == DumpInv /\ JobAt /\ CopyAt /\ SubsetAt /\ [Next]_vars => SubsetAt'
<1> SUFFICES ASSUME DumpInv, JobAt, CopyAt, SubsetAt, [Next]_vars, Unstrided', Ascending'
             PROVE  SubsetAt'
    BY DEF SubsetAt
<1>1. /\ Given /\ FileIs /\ FileAt /\ src' = src /\ cmd' = cmd /\ Job' = Job
      /\ Screened' = Screened
    BY GivenStays DEF DumpInv, EndInv, Job, Screened
<1>2. Unstrided /\ Ascending
    BY <1>1 DEF Unstrided, Ascending
<1>3. ASSUME pc' # "subset", pc' \in {"close", "done"} => file'.state \notin Ended \/ Job # "subset"
      PROVE  SubsetAt'
    BY <1>1, <1>3 DEF SubsetAt
<1>4. CASE NcOpen \/ NcInq \/ ResolveSubsetVar \/ ResolveError
    <2>1. UNCHANGED file /\ pc' \in {"inq", "done", "resolve", "print", "close", "create"}
        BY <1>4 DEF NcOpen, NcInq, ResolveSubsetVar, ResolveError, Begin, Return
    <2>2. file = NoFile
        BY <1>1, <1>4 DEF FileAt, NcOpen, NcInq, ResolveSubsetVar, ResolveError
    <2> QED
        BY <1>3, <2>1, <2>2, NoFileIs DEF Ended
<1>5. CASE NcCreate
    <2>1. pc = "create" /\ file = NoFile
        BY <1>1, <1>5 DEF FileAt, NcCreate
    <2>2. pc' = "dims" \/ (pc' = "close" /\ file' = NoFile)
        BY <1>5, <2>1 DEF NcCreate, Answer
    <2> QED
        BY <1>3, <2>2, NoFileIs DEF Ended
<1>6. CASE DefineDims
    <2>1. pc' = "vars" \/ (pc' = "close" /\ UNCHANGED file /\ file.state \in Begun)
        BY <1>1, <1>6 DEF DefineDims, FileAt, Answer
    <2> QED
        BY <1>3, <2>1 DEF Begun, Ended
<1>7. CASE DivideByZero
    BY <1>3, <1>7 DEF DivideByZero
<1>8. CASE DefineError \/ ChunkError \/ SubsetError
    BY <1>1, <1>3, <1>8, CloseIs DEF DefineError, ChunkError, SubsetError
<1>9. CASE DefineVars
    <2>1. pc = "vars" /\ DOMAIN file.data = {} /\ todo' = Screened
        BY <1>9 DEF DefineVars, CopyAt
    <2>2. CASE src.vars = <<>> /\ CloseFile
        <3>1. file'.data = file.data /\ pc' = "close"
            BY <1>1, <2>2, CloseIs
        <3>2. ToSet(src.vars) = {}
            BY <2>2 DEF ToSet
        <3>3. ToSet(Screened) = {}
            BY <1>1, <3>2, ScreenedIs
        <3>4. ToSet(Screened)' = {}
            BY <1>1, <3>3
        <3> QED
            BY <2>1, <2>2, <3>1, <3>4 DEF SubsetAt
    <2>3. ASSUME src.vars # <<>>, pc' = Job, NEW s \in Begun,
                 file' = [file EXCEPT !.state = s, !.data = [v \in ToSet(Screened) |-> <<>>]]
          PROVE  SubsetAt'
        <3>1. PICK g : g = [v \in ToSet(Screened) |-> <<>>]
            OBVIOUS
        <3>2. file'.data = g
            BY <1>1, <2>3, <3>1, RecordStays DEF FileIs
        <3>3. DOMAIN g = ToSet(Screened) /\ \A v \in DOMAIN g : g[v] = <<>>
            BY <3>1
        <3>4. Job \in {"copy", "subset"}
            BY <1>1, <2>1 DEF FileAt
        <3>5. ToSet(Screened)' = ToSet(Screened) /\ ToSet(todo)' = ToSet(Screened)
            BY <1>1, <2>1
        <3> QED
            BY <2>3, <3>2, <3>3, <3>4, <3>5 DEF SubsetAt
    <2> QED
        BY <1>9, <2>2, <2>3 DEF DefineVars, Begun
<1>10. CASE CopyVar
    BY <1>3, <1>10 DEF CopyVar
<1>11. CASE CopyChunk
    BY <1>3, <1>11 DEF CopyChunk
<1>12. CASE SubsetVar
    BY <1>12, SubsetVarStep
<1>13. CASE Finish
    <2>1. /\ file'.data = file.data /\ todo = <<>> /\ pc \in {"copy", "subset"}
          /\ pc' = "close" /\ UNCHANGED conds
        BY <1>1, <1>13, CloseIs DEF Finish
    <2>2. CASE pc = "copy"
        <3>1. Job # "subset"
            BY <2>2 DEF JobAt
        <3> QED
            BY <1>3, <2>1, <3>1
    <2>3. CASE pc = "subset"
        <3>1. ToSet(todo) = {}
            BY <2>1 DEF ToSet
        <3>2. DOMAIN file.data = ToSet(Screened) /\ \A v \in DOMAIN file.data : file.data[v] = Wanted(v)
            BY <1>2, <2>3, <3>1 DEF SubsetAt
        <3>3. \A v : Wanted(v)' = Wanted(v)
            BY <2>1, WantedStays
        <3>4. ToSet(Screened)' = ToSet(Screened)
            BY <1>1
        <3> QED
            BY <2>1, <3>2, <3>3, <3>4 DEF SubsetAt
    <2> QED
        BY <2>1, <2>2, <2>3
<1>14. CASE PrintVar \/ PrintLoops \/ PrintEnd
    <2>1. UNCHANGED file /\ pc' \in {"print", "looping", "close"} /\ file = NoFile
        BY <1>1, <1>14 DEF PrintVar, PrintLoops, PrintEnd, FileAt, Answer
    <2> QED
        BY <1>3, <2>1, NoFileIs DEF Ended
<1>15. CASE NcClose \/ UNCHANGED vars
    <2>1. /\ UNCHANGED <<file, conds, todo>>
          /\ \/ pc' = "done" /\ pc = "close"
             \/ pc' = pc
        BY <1>15 DEF NcClose, vars
    <2>2. \A v : Wanted(v)' = Wanted(v)
        BY <2>1, WantedStays
    <2>3. ToSet(Screened)' = ToSet(Screened) /\ ToSet(todo)' = ToSet(todo)
        BY <1>1, <2>1
    <2> QED
        BY <1>1, <1>2, <2>1, <2>2, <2>3 DEF SubsetAt
<1> QED
    BY <1>4, <1>5, <1>6, <1>7, <1>8, <1>9, <1>10, <1>11, <1>12, <1>13, <1>14, <1>15
       DEF Next, Step, Terminated

\* For every source, command and limit: a subset is exactly the cells that were
\* asked for, by index or by value, in a file or printed.
THEOREM DumpExtractExact == Spec => []ExtractExact
<1>1. Init => PrintAt /\ SubsetAt
    BY PrintInit, SubsetInit
<1>2. DumpInv /\ JobAt /\ CopyAt /\ PrintAt /\ SubsetAt /\ [Next]_vars => PrintAt' /\ SubsetAt'
    BY PrintStep, SubsetStep
<1>3. DumpInv /\ JobAt /\ PrintAt /\ SubsetAt => ExtractExact
    <2> SUFFICES ASSUME DumpInv, JobAt, PrintAt, SubsetAt PROVE SubsetExact
        BY DEF ExtractExact, PrintAt
    <2> SUFFICES ASSUME Job = "subset"
                 PROVE  /\ Done => file.state \in Ended
                        /\ file.state = "closed" /\ Unstrided /\ Ascending =>
                            /\ DOMAIN file.data =
                                {v \in ToSet(src.vars) : cmd.vars = {} \/ v \in cmd.vars}
                            /\ \A v \in DOMAIN file.data : Exact(v)
        BY DEF SubsetExact, Ended
    <2>1. Done => file.state \in Ended
        BY DEF JobAt
    <2>2. ASSUME file.state = "closed", Unstrided, Ascending
          PROVE  /\ DOMAIN file.data = {v \in ToSet(src.vars) : cmd.vars = {} \/ v \in cmd.vars}
                 /\ \A v \in DOMAIN file.data : Exact(v)
        <3>1. /\ DOMAIN file.data = ToSet(Screened)
              /\ \A v \in DOMAIN file.data : file.data[v] = Wanted(v)
            BY <2>2, ClosedAt DEF SubsetAt, Ended
        <3>2. ToSet(Screened) = {v \in ToSet(src.vars) : cmd.vars = {} \/ v \in cmd.vars}
            BY ScreenedIs DEF DumpInv
        <3>3. \A v \in DOMAIN file.data : Exact(v)
            BY <3>1 DEF Exact, Wanted
        <3> QED
            BY <3>1, <3>2, <3>3
    <2> QED
        BY <2>1, <2>2
<1> QED
    BY <1>1, <1>2, <1>3, CopyInductive, PTL DEF Spec
=============================================================================
