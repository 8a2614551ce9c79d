------------------------------- MODULE NcWalk -------------------------------
(***************************************************************************)
(* inc and incattr over several paths and trees of collections: what is    *)
(* done with each object, what is answered in the end, and what a failed   *)
(* object leaves in the table of the agent that serves the command.        *)
(*                                                                         *)
(* The four recursive walks of the code (ncOperCollUtil, regAttrCollUtil,  *)
(* rmAttrCollUtil, listAttrCollUtil) are one here: they differ in what     *)
(* they do with an object.  Their recursion is a stack of frames.          *)
(***************************************************************************)
EXTENDS Integers, Sequences, FiniteSets, SequencesExt

CONSTANTS
    Colls, Objects,
    Attrs,         \* names of global attributes
    Trees,         \* the collections
    Commands,      \* the options and paths the command is given
    Missing,       \* a path where nothing is
    NumSlots,      \* entries of the agent's table that are free
    MAX_SQL_ROWS   \* rows of a page of a query

Kinds == {"inc", "agginfo", "reg", "remove", "list", "query"}

\* gatts are the global attributes of each object; avus are those that are in
\* the catalogue before the command.  Paths make collections a tree, in which each
\* member has one place.
IsTree(t) ==
    /\ t.members \in [Colls -> Seq(Colls \union Objects)]
    /\ t.collClass \in [Colls -> {"NO_SPEC_COLL", "LINKED_COLL", "MOUNTED_COLL"}]
    /\ t.gatts \in [Objects -> Seq(Attrs)]
    /\ t.avus \subseteq Objects \X Attrs
    /\ \E rank \in [Colls -> 0 .. Cardinality(Colls)] :
        \A c, d \in Colls : d \in ToSet(t.members[c]) => rank[d] < rank[c]
    /\ \A c, d \in Colls : \A k \in DOMAIN t.members[c], l \in DOMAIN t.members[d] :
        t.members[c][k] = t.members[d][l] => c = d /\ k = l

IsCommand(c) ==
    /\ c.kind \in Kinds
    /\ c.recursive \in BOOLEAN
    /\ c.attrNameArray \in Seq(Attrs)
    /\ c.srcPath \in Seq(Colls \union Objects \union {Missing})

ASSUME CommandAssumption ==
    /\ IsFiniteSet(Colls)
    /\ Colls \intersect Objects = {}
    /\ Missing \notin Colls \union Objects
    /\ NumSlots \in Nat \ {0}
    /\ MAX_SQL_ROWS \in Nat \ {0}
    /\ \A t \in Trees : IsTree(t)
    /\ \A c \in Commands : IsCommand(c)

VARIABLES
    tree, cmd,
    pc,          \* "paths", "walk", "query" or "done"
    i,           \* the path at hand
    calls,       \* the calls of the recursive walk
    savedStatus, \* of ncUtil or ncattrUtil
    agent,       \* "up", or "gone" when it has ended
    used,        \* entries of its table that are taken
    avus,        \* attributes in the catalogue
    ops,         \* what was done with which object, so far
    lost, gone,  \* what could not be listed, and collections that were removed
    continueInx, \* rows of a query that were read
    printed      \* objects a query has printed

vars == <<tree, cmd, pc, i, calls, savedStatus, agent, used, avus, ops, lost, gone,
          continueInx, printed>>

Statuses == {"ok", "error", "norows"}   \* norows is CAT_NO_ROWS_FOUND

\* How an operation on an object ended, where the answer does not tell.
Outs == {"done", "full", "openError", "inqError", "closeError"}

TypeOK ==
    /\ tree \in Trees /\ cmd \in Commands
    /\ pc \in {"paths", "walk", "query", "done"}
    /\ i \in 1 .. Len(cmd.srcPath) + 1
    /\ \A k \in DOMAIN calls :
        /\ calls[k].coll \in Colls
        /\ calls[k].pos \in 1 .. Len(tree.members[calls[k].coll]) + 1
        /\ calls[k].savedStatus \in {"ok", "error"}
    /\ calls # <<>> <=> pc = "walk"
    /\ savedStatus \in Statuses
    /\ agent \in {"up", "gone"}
    /\ used \in 0 .. NumSlots
    /\ avus \subseteq Objects \X Attrs
    /\ \A k \in DOMAIN ops :
        /\ ops[k].obj \in Objects /\ ops[k].out \in Outs
        /\ ops[k].status \in {"ok", "error"}
    /\ lost \subseteq Colls \union Objects \union {Missing} /\ gone \subseteq Colls
    /\ continueInx \in Nat /\ printed \in Seq(Objects)

Init ==
    /\ tree \in Trees /\ cmd \in Commands
    /\ pc = "paths" /\ i = 1 /\ calls = <<>>
    /\ savedStatus = "ok"
    /\ agent = "up" /\ used = 0
    /\ avus = tree.avus
    /\ ops = <<>> /\ lost = {} /\ gone = {}
    /\ continueInx = 0 /\ printed = <<>>
-----------------------------------------------------------------------------
(* One object *)

Asked(a) == cmd.attrNameArray = <<>> \/ a \in ToSet(cmd.attrNameArray)

Result(st, m) == [status |-> st, avus |-> m]

\* Mutant: an attribute that is there already ends the loop.
RegisterAVUsFirst(o) ==
    LET gatt == tree.gatts[o]
        new == {<<o, gatt[k]>> : k \in {n \in DOMAIN gatt : Asked(gatt[n])}}
    IN  IF new \intersect avus = {} THEN {Result("ok", avus \union new)}
        ELSE {Result("ok", avus), Result("error", avus)}

\* _rsNcRegGlobalAttr adds the attributes in turn, but for those that are not
\* asked for, and stops at an error; one that is there already is none.
RegisterAVUs(o) ==
    LET gatt == tree.gatts[o]
        asked(n) == {k \in 1 .. n : Asked(gatt[k])}
        first(n) == avus \union {<<o, gatt[k]>> : k \in asked(n)}
    IN  {Result("ok", first(Len(gatt)))}
        \union {Result("error", first(k - 1)) : k \in asked(Len(gatt))}

\* rmAttrDataObjUtil removes the names in turn, or all of them at once.
RemoveAVUs(o) ==
    LET names == cmd.attrNameArray
        without(r) == avus \ ({o} \X r)
    IN  IF names = <<>> THEN {Result("ok", without(Attrs)), Result("error", avus)}
        ELSE {Result("ok", without(ToSet(names)))} \union
             {Result("error", without(ToSet(SubSeq(names, 1, n)))) :
                n \in 0 .. Len(names) - 1}

Work(o) ==
    CASE cmd.kind = "reg" -> RegisterAVUs(o)
      [] cmd.kind = "remove" -> RemoveAVUs(o)
      [] OTHER -> {Result("ok", avus), Result("error", avus)}

\* What an operation on an object may come to.
Outcome(out, st, u, m) == [out |-> out, status |-> st, used |-> u, avus |-> m]

\* Mutant: a full table is not seen.
UnopenedUnchecked ==
    {Outcome("openError", "error", used, avus), Outcome("inqError", "error", used + 1, avus)}

\* inc and the registration open the object first, and leave it open when the
\* inquiry fails.
Unopened == IF used = NumSlots THEN {Outcome("full", "error", used, avus)}
            ELSE {Outcome("openError", "error", used, avus),
                  Outcome("inqError", "error", used + 1, avus)}

\* For inc a close that fails hides an error of what was ahead of it.
CloseStatus(st) == IF cmd.kind = "inc" THEN "ok" ELSE st

\* Mutant: an error of the registration returns ahead of the close.
OpenedReturns(o) ==
    IF used = NumSlots THEN {}
    ELSE {Outcome("done", w.status, IF w.status = "ok" THEN used ELSE used + 1, w.avus) :
            w \in Work(o)}

Opened(o) ==
    IF used = NumSlots THEN {}
    ELSE {Outcome("done", w.status, used, w.avus) : w \in Work(o)} \union
         {Outcome("closeError", CloseStatus(w.status), u, w.avus) :
            w \in Work(o), u \in {used, used + 1}}

Outcomes(o) ==
    IF cmd.kind \in {"inc", "reg"} THEN Unopened \union Opened(o)
    ELSE {Outcome("done", w.status, used, w.avus) : w \in Work(o)}

Log(o, r) == ops' = Append(ops, [obj |-> o, out |-> r.out, status |-> r.status])

Do(o, r) == used' = r.used /\ avus' = r.avus /\ Log(o, r)
-----------------------------------------------------------------------------
(* The paths: ncUtil and ncattrUtil *)

Path == cmd.srcPath[i]
AtPath == pc = "paths" /\ i <= Len(cmd.srcPath) /\ agent = "up"

\* The loop saves what is negative.  It is all there is to the answer: the test
\* for CAT_NO_ROWS_FOUND behind it sees no status that was not saved.
Save(st) ==
    /\ savedStatus' = IF st # "ok" THEN st ELSE savedStatus
    /\ i' = i + 1
    /\ pc' = "paths"

\* Nothing is there, or it cannot be asked what is.
PathMissing ==
    /\ pc = "paths" /\ i <= Len(cmd.srcPath)
    /\ lost' = lost \union {Path}
    /\ Save("error")
    /\ UNCHANGED <<tree, cmd, calls, agent, used, avus, ops, gone, continueInx, printed>>

PathObject ==
    /\ AtPath /\ Path \in Objects
    /\ cmd.kind \notin {"agginfo", "query"}
    /\ \E r \in Outcomes(Path) : Do(Path, r) /\ Save(r.status)
    /\ UNCHANGED <<tree, cmd, calls, agent, lost, gone, continueInx, printed>>

\* Aggregate information or a query of an object: the first is passed over.
PathNotObject ==
    /\ AtPath /\ Path \in Objects
    /\ \/ cmd.kind = "agginfo" /\ Save("ok")
       \/ cmd.kind = "query" /\ Save("error")
    /\ UNCHANGED <<tree, cmd, calls, agent, used, avus, ops, lost, gone, continueInx, printed>>

PathAggInfo ==
    /\ AtPath /\ Path \in Colls
    /\ cmd.kind = "agginfo"
    /\ \E st \in {"ok", "error"} : Save(st)
    /\ UNCHANGED <<tree, cmd, calls, agent, used, avus, ops, lost, gone, continueInx, printed>>

\* Without -r inc opens the collection as an aggregate, of which the agent ends
\* unless it refuses; incattr refuses.
PathNotRecursive ==
    /\ AtPath /\ Path \in Colls
    /\ cmd.kind \in {"inc", "reg", "remove", "list"} /\ ~cmd.recursive
    /\ Save("error")
    /\ agent' \in IF cmd.kind = "inc" THEN {agent, "gone"} ELSE {agent}
    /\ UNCHANGED <<tree, cmd, calls, used, avus, ops, lost, gone, continueInx, printed>>

Return ==
    /\ pc = "paths" /\ i > Len(cmd.srcPath)
    /\ pc' = "done"
    /\ UNCHANGED <<tree, cmd, i, calls, savedStatus, agent, used, avus, ops,
                   lost, gone, continueInx, printed>>
-----------------------------------------------------------------------------
(* The walk *)

Top == calls[Len(calls)]
Members(c) == tree.members[c]
AtMember == pc = "walk" /\ Top.pos <= Len(Members(Top.coll))
Member == Members(Top.coll)[Top.pos]

\* The top call goes on to its next member and saves an error.
Advance(stack, st) ==
    LET f == stack[Len(stack)]
    IN  [stack EXCEPT ![Len(stack)] =
            [coll |-> f.coll, pos |-> f.pos + 1,
             savedStatus |-> IF st = "error" THEN st ELSE f.savedStatus]]

\* Mutant: the error of a collection below is not saved.
BackForgets(rest, st) ==
    IF rest = <<>> THEN Save(st) /\ calls' = <<>>
    ELSE /\ calls' = Advance(rest, "ok")
         /\ pc' = "walk"
         /\ UNCHANGED <<i, savedStatus>>

\* A call answers st to its caller, which is ncUtil or a call of rest.
\* A collection that is not there any more is no error of the one above.
Back(rest, st) ==
    IF rest = <<>> THEN Save(st) /\ calls' = <<>>
    ELSE /\ calls' = Advance(rest, st)
         /\ pc' = "walk"
         /\ UNCHANGED <<i, savedStatus>>

Enter(c) == Append(calls, [coll |-> c, pos |-> 1, savedStatus |-> "ok"])

\* rclOpenCollection of c.  A mounted collection is left at once.
OpenColl(c) ==
    \/ /\ lost' = lost \union {c}
       /\ Back(calls, "error")
       /\ UNCHANGED gone
    \/ /\ gone' = gone \union {c}
       /\ Back(calls, "norows")
       /\ UNCHANGED lost
    \/ /\ tree.collClass[c] = "MOUNTED_COLL"
       /\ Back(calls, "ok")
       /\ UNCHANGED <<lost, gone>>
    \/ /\ tree.collClass[c] # "MOUNTED_COLL"
       /\ calls' = Enter(c)
       /\ pc' = "walk"
       /\ UNCHANGED <<i, savedStatus, lost, gone>>

PathColl ==
    /\ AtPath /\ Path \in Colls
    /\ cmd.kind \in {"inc", "reg", "remove", "list"} /\ cmd.recursive
    /\ OpenColl(Path)
    /\ UNCHANGED <<tree, cmd, agent, used, avus, ops, continueInx, printed>>

\* Mutant: an error ends the listing.
MemberObjectStops ==
    /\ AtMember /\ Member \in Objects
    /\ \E r \in Outcomes(Member) :
        /\ Do(Member, r)
        /\ IF r.status = "ok" THEN calls' = Advance(calls, "ok") /\ UNCHANGED <<pc, i, savedStatus>>
           ELSE Back(Front(calls), "error")
    /\ UNCHANGED <<tree, cmd, agent, lost, gone, continueInx, printed>>

MemberObject ==
    /\ AtMember /\ Member \in Objects
    /\ \E r \in Outcomes(Member) :
        /\ Do(Member, r)
        /\ calls' = Advance(calls, r.status)
    /\ UNCHANGED <<tree, cmd, pc, i, savedStatus, agent, lost, gone, continueInx, printed>>

\* A linked or mounted collection below another is passed over.
MemberSpecial ==
    /\ AtMember /\ Member \in Colls
    /\ tree.collClass[Member] # "NO_SPEC_COLL"
    /\ calls' = Advance(calls, "ok")
    /\ UNCHANGED <<tree, cmd, pc, i, savedStatus, agent, used, avus, ops, lost,
                   gone, continueInx, printed>>

MemberColl ==
    /\ AtMember /\ Member \in Colls
    /\ tree.collClass[Member] = "NO_SPEC_COLL"
    /\ OpenColl(Member)
    /\ UNCHANGED <<tree, cmd, agent, used, avus, ops, continueInx, printed>>

\* Mutant: the end of a listing is read as its start.
EndCollRewinds ==
    /\ pc = "walk" /\ ~AtMember
    /\ calls' = [calls EXCEPT ![Len(calls)].pos = 1]
    /\ UNCHANGED <<tree, cmd, pc, i, savedStatus, agent, used, avus, ops, lost, gone,
                   continueInx, printed>>

EndColl ==
    /\ pc = "walk" /\ ~AtMember
    /\ Back(Front(calls), Top.savedStatus)
    /\ UNCHANGED <<tree, cmd, agent, used, avus, ops, lost, gone, continueInx, printed>>

\* rclReadCollection fails; the members behind are lost.
ReadError ==
    /\ pc = "walk"
    /\ lost' = lost \union {Top.coll}
    /\ Back(Front(calls), "error")
    /\ UNCHANGED <<tree, cmd, agent, used, avus, ops, gone, continueInx, printed>>
-----------------------------------------------------------------------------
(* queryAUVForDataObj: the objects below a collection with an attribute *)

\* The objects of a collection and of those below it, in the order of a walk.
Listing[n \in 0 .. Cardinality(Colls)] ==
    [c \in Colls |->
        LET walk(m) == IF m \in Objects THEN <<m>>
                       ELSE IF n = 0 \/ tree.collClass[m] # "NO_SPEC_COLL" THEN <<>>
                       ELSE Listing[n - 1][m]
        IN  FlattenSeq([k \in DOMAIN Members(c) |-> walk(Members(c)[k])])]

Below(p) == IF p \in Colls THEN Listing[Cardinality(Colls)][p] ELSE <<>>

\* The rows of the query: the objects that have the attributes.
Matches(p) ==
    LET row(o) == IF \A a \in ToSet(cmd.attrNameArray) : <<o, a>> \in avus THEN <<o>>
                  ELSE <<>>
    IN  FlattenSeq([k \in DOMAIN Below(p) |-> row(Below(p)[k])])

PathQuery ==
    /\ AtPath /\ Path \in Colls
    /\ cmd.kind = "query"
    /\ pc' = "query"
    /\ continueInx' = 0
    /\ UNCHANGED <<tree, cmd, i, calls, savedStatus, agent, used, avus, ops, lost,
                   gone, printed>>

Page ==
    LET rows == Matches(Path)
    IN  SubSeq(rows, continueInx + 1, Min({Len(rows), continueInx + MAX_SQL_ROWS}))

\* Mutant: the first page is all that is printed.
QueryPageFirst ==
    /\ pc = "query"
    /\ Page # <<>>
    /\ printed' = printed \o Page
    /\ continueInx' = continueInx + Len(Page)
    /\ Save("ok")
    /\ UNCHANGED <<tree, cmd, calls, agent, used, avus, ops, lost, gone>>

\* A page that is full may be the last one, and the catalogue may tell or not.
QueryPage ==
    /\ pc = "query"
    /\ Page # <<>>
    /\ printed' = printed \o Page
    /\ continueInx' = continueInx + Len(Page)
    /\ \/ Len(Page) = MAX_SQL_ROWS /\ UNCHANGED <<pc, i, savedStatus>>
       \/ continueInx' = Len(Matches(Path)) /\ Save("ok")
    /\ UNCHANGED <<tree, cmd, calls, agent, used, avus, ops, lost, gone>>

\* No rows, none any more, or an error.
QueryEnd ==
    /\ pc = "query"
    /\ \/ Page = <<>> /\ Save("norows")
       \/ Save("error")
    /\ UNCHANGED <<tree, cmd, calls, agent, used, avus, ops, lost, gone,
                   continueInx, printed>>
-----------------------------------------------------------------------------
Terminated == pc = "done" /\ UNCHANGED vars

Step ==
    \/ PathMissing \/ PathObject \/ PathNotObject \/ PathAggInfo
    \/ PathNotRecursive \/ PathColl \/ PathQuery \/ Return
    \/ MemberObject \/ MemberSpecial \/ MemberColl \/ EndColl \/ ReadError
    \/ QueryPage \/ QueryEnd

Next == Step \/ Terminated

Spec == Init /\ [][Next]_vars

\* The command is one process: it goes on to its end.
FairSpec == Spec /\ WF_vars(Step)
-----------------------------------------------------------------------------
(* Properties *)

Walks == cmd.kind \in {"inc", "reg", "remove", "list"}
Ok == pc = "done" /\ savedStatus = "ok"

\* The objects to be done, in order.
Expected == FlattenSeq([k \in DOMAIN cmd.srcPath |->
    LET p == cmd.srcPath[k]
    IN  IF p \in Objects THEN <<p>>
        ELSE IF p = Missing \/ tree.collClass[p] = "MOUNTED_COLL" THEN <<>>
        ELSE Below(p)])

Done == [k \in DOMAIN ops |-> ops[k].obj]

\* Unless a listing fails, each object below the paths is tried once and in
\* order, whatever became of those ahead of it.
WalkComplete ==
    pc = "done" /\ Walks /\ cmd.recursive /\ lost = {} /\ gone = {} => Done = Expected

\* An answer of ok says that every collection was listed and no object failed.
OkMeansAll == Ok => lost = {} /\ \A k \in DOMAIN ops : ops[k].status = "ok"

\* After a registration that answered ok the attributes asked for of every
\* object are in the catalogue; after a removal none of them is.
AttrsAsAnswered == Ok /\ cmd.recursive /\ gone = {} =>
    \A o \in ToSet(Expected) :
        /\ cmd.kind = "reg" => \A a \in ToSet(tree.gatts[o]) : Asked(a) => <<o, a>> \in avus
        /\ cmd.kind = "remove" => \A a \in Attrs : Asked(a) => <<o, a>> \notin avus

\* An object is refused for a full table only behind as many objects as the
\* table has entries whose inquiry or close failed.
FullTableExplained == \A k \in DOMAIN ops : ops[k].out = "full" =>
    Cardinality({j \in 1 .. k - 1 : ops[j].out \in {"inqError", "closeError"}}) >= NumSlots

\* A query that answered ok has printed each object once for each path it is
\* below.
QueryExact == Ok /\ cmd.kind = "query" =>
    \A o \in Objects :
        Cardinality({k \in DOMAIN printed : printed[k] = o})
            = Cardinality({k \in DOMAIN cmd.srcPath : o \in ToSet(Matches(cmd.srcPath[k]))})

\* The command ends for every tree and list of paths.
WalkEnds == <>(pc = "done")
=============================================================================
