-------------------------------- MODULE NcInq --------------------------------
(***************************************************************************)
(* Inquiries about an open data object: how one finds the file (here, on a *)
(* peer or through an agent of another zone), and how ncInq, rsNcInqId,    *)
(* rsNcInqWithId, rsNcInqGrps and rsNcGetVarsByType put an answer together *)
(* from calls of the library that may each fail.                           *)
(***************************************************************************)
EXTENDS Integers, Sequences, FiniteSets, SequencesExt

CONSTANTS
    Names,         \* of dimensions, variables, attributes and groups
    Values,        \* what attributes are made of
    NoName,        \* the empty name
    NUM_L1_DESC,
    Worlds,        \* the descriptor table and the open files of every host
    Requests       \* what the client asks first

ParamTypes == {"dim", "var", "att"}
Hosts == {"here", "peer", "zone"}
Ops == {"inq", "inqId", "inqWithId", "inqGrps", "getVars"}

\* NC_BYTE to NC_STRING
NcTypes == 1 .. 12

IsAtts(s) == s \in Seq([name : Names, dataType : NcTypes, value : Seq(Values)])

\* The library has no two items of one name.
Unique(s) == \A j, k \in DOMAIN s : s[j].name = s[k].name => j = k

\* A file, or a group of one.  Ids of dimensions are of a whole file: dim has
\* those of all its groups, from id 0, own the ids of the group's own, and dimid
\* is what the library finds by a name, in the group itself or else around it.
IsFile(f) ==
    /\ Unique(f.var) /\ Unique(f.gatt)
    /\ f.dim \in Seq([name : Names, arrayLen : Nat]) /\ f.var \in Seq(ToSet(f.var))
    /\ f.own \subseteq 0 .. Len(f.dim) - 1
    /\ DOMAIN f.dimid \subseteq Names
    /\ \A n \in DOMAIN f.dimid :
        f.dimid[n] \in 0 .. Len(f.dim) - 1 /\ f.dim[f.dimid[n] + 1].name = n
    /\ \A id \in f.own :
        f.dim[id + 1].name \in DOMAIN f.dimid /\ f.dimid[f.dim[id + 1].name] = id
    /\ f.unlimdim \in {-1} \union f.own /\ f.format \in Nat
    /\ \A k \in DOMAIN f.var :
        /\ f.var[k].name \in Names /\ f.var[k].dataType \in NcTypes
        /\ IsAtts(f.var[k].att)
        /\ f.var[k].dimId \in Seq(Nat) /\ f.var[k].shape \in Seq(Nat)
        /\ Len(f.var[k].shape) = Len(f.var[k].dimId)
        /\ \A j \in DOMAIN f.var[k].dimId :
            /\ f.var[k].dimId[j] < Len(f.dim)
            /\ f.var[k].shape[j] = f.dim[f.var[k].dimId[j] + 1].arrayLen
    /\ IsAtts(f.gatt)
    /\ f.grpName \in Seq(Names)
    /\ f.grpNcid \in Seq(Nat) /\ Len(f.grpNcid) = Len(f.grpName)

\* An entry in use names an open file of a host, by the library's ncid or, in
\* another zone, by an entry of the agent there (HandlesLive of NcDesc).
IsWorld(w) ==
    /\ w \in [l1desc : [2 .. NUM_L1_DESC - 1 -> [inuse : BOOLEAN, host : Hosts, ncid : Nat]],
              lib : {w.lib}]
    /\ \A h \in Hosts : \A x \in DOMAIN w.lib[h] :
        /\ x \in Nat /\ IsFile(w.lib[h][x])
        /\ ToSet(w.lib[h][x].grpNcid) \subseteq DOMAIN w.lib[h]
    /\ \A x \in 2 .. NUM_L1_DESC - 1 : w.l1desc[x].inuse =>
        w.l1desc[x].ncid \in DOMAIN w.lib[w.l1desc[x].host]

IsRequest(r) == r \in
    [op : Ops, ncid : Int, paramType : SUBSET ParamTypes,
     myid : Nat, name : Names \union {NoName}, all : BOOLEAN]

ASSUME InqAssumption ==
    /\ NoName \notin Names
    /\ NUM_L1_DESC \in Nat
    /\ \A w \in Worlds : IsWorld(w)
    /\ \A r \in Requests : IsRequest(r)

None == <<>>   \* no answer, and <<o>> the answer o

VARIABLES
    world,
    req,     \* the client's request
    asked,   \* the name that led to the id in req, if any
    pc,      \* "idle", "request", "dim", "var", "varAtt", "gatt", "grps" or "done"
    inp,     \* the request as the file's host has it
    host,    \* where the file is
    ncInqOut, \* the answer, if there is one
    gattFreed, \* its gatt has been freed
    status

vars == <<world, req, asked, pc, inp, host, ncInqOut, gattFreed, status>>

File == world.lib[host][inp.ncid]

Out == ncInqOut[1]

IsOut(o) == \* of ncInq
    /\ \A k \in DOMAIN o.dim : o.dim[k].id < Len(File.dim)
    /\ \A k \in DOMAIN o.var : o.var[k].id < Len(File.var)
    /\ \A k \in DOMAIN o.var : Len(o.var[k].att) <= o.var[k].natts
    /\ Len(o.dim) <= o.ndims /\ Len(o.var) <= o.nvars /\ Len(o.gatt) <= o.ngatts

TypeOK ==
    /\ IsWorld(world) /\ IsRequest(req)
    /\ asked \in Names \union {NoName}
    /\ pc \in {"idle", "request", "dim", "var", "varAtt", "gatt", "grps", "done"}
    /\ host \in Hosts
    /\ gattFreed \in BOOLEAN
    /\ status \in {"ok", "error"}
    /\ Len(ncInqOut) <= 1 /\ (pc \notin {"idle", "request", "done"} => ncInqOut # None)
    /\ ncInqOut # None =>
        /\ req.op = "inq" => IsOut(Out)
        /\ req.op = "inqId" => Out \in Nat

Init ==
    /\ world \in Worlds /\ req \in Requests
    /\ asked = NoName /\ pc = "request"
    /\ inp = req /\ host = "here"
    /\ ncInqOut = None /\ gattFreed = FALSE /\ status = "ok"

Fixed == UNCHANGED <<world, req, asked, host>>

Answer(st, answer) ==
    /\ pc' = "done" /\ status' = st /\ ncInqOut' = answer
    /\ Fixed /\ UNCHANGED <<inp, gattFreed>>

\* The answer is freed, or there is none yet.
Fail == Answer("error", None)

Continue(next, out) ==
    /\ pc' = next /\ ncInqOut' = <<out>>
    /\ Fixed /\ UNCHANGED <<inp, gattFreed, status>>
-----------------------------------------------------------------------------
(* The way to the file *)

\* ncid out of range or not in use, or the file's host cannot be reached.
Refused == pc = "request" /\ Fail

InUse == req.ncid \in 2 .. NUM_L1_DESC - 1 /\ world.l1desc[req.ncid].inuse

Entry == world.l1desc[req.ncid]

\* Mutant: the id is left behind on the way to another zone.
PassedWithoutId(r, d) ==
    IF d.host = "zone" /\ r.op = "inq"
    THEN [op |-> r.op, ncid |-> d.ncid, paramType |-> {}, myid |-> 0,
          name |-> NoName, all |-> FALSE]
    ELSE [r EXCEPT !.ncid = d.ncid, !.myid = IF d.host = "zone" THEN 0 ELSE @]

\* Of a general inquiry the agent of another zone gets the ncid and no more.
Passed(r, d) ==
    IF d.host = "zone" /\ r.op = "inq"
    THEN [op |-> r.op, ncid |-> d.ncid, paramType |-> {}, myid |-> 0,
          name |-> NoName, all |-> FALSE]
    ELSE [r EXCEPT !.ncid = d.ncid]

\* The request gets to the host of the file.
Started(next) ==
    /\ pc = "request" /\ InUse
    /\ inp' = Passed(req, Entry) /\ host' = Entry.host
    /\ pc' = next
    /\ UNCHANGED <<world, req, asked, gattFreed, status>>

\* The ids of a name, and what has an id, if the library has one.
IdsOf(s, name) == {id \in 0 .. Len(s) - 1 : s[id + 1].name = name}
DimIdsOf(f, name) == {f.dimid[n] : n \in {name} \intersect DOMAIN f.dimid}
ById(s, id) == IF id + 1 \in DOMAIN s THEN {s[id + 1]} ELSE {}

\* What rsNcInqId and rsNcInqWithId know; attributes have no ids.
Items(r, f) == CASE r.paramType = {"dim"} -> f.dim
                 [] r.paramType = {"var"} -> f.var
                 [] OTHER -> <<>>

ItemIdsOf(r, f) ==
    IF r.paramType = {"dim"} THEN DimIdsOf(f, r.name) ELSE IdsOf(Items(r, f), r.name)

InqId ==
    /\ req.op = "inqId"
    /\ Started("done")
    /\ \E id \in ItemIdsOf(inp', File') : ncInqOut' = <<id>>

InqWithId ==
    /\ req.op = "inqWithId"
    /\ Started("done")
    /\ \E item \in ById(Items(inp', File'), inp'.myid) : ncInqOut' = <<item>>

\* The variable whose data are read (how is in NcDump).
GetVars ==
    /\ req.op = "getVars"
    /\ Started("done")
    /\ \E v \in ById(File'.var, inp'.myid) : ncInqOut' = <<v>>
-----------------------------------------------------------------------------
(* ncInq *)

Types(r) == IF r.paramType = {} THEN ParamTypes ELSE r.paramType

\* Mutant: of several types one item each is inquired.
AllFlagAsked(r) == r.all

\* Of more than one type everything is inquired.
AllFlag(r) == Cardinality(Types(r)) > 1 \/ r.all

\* How many of the n items of type t are inquired.
NumOf(r, t, n) == CASE t \notin Types(r) -> 0
                    [] t \in Types(r) /\ ~AllFlag(r) /\ n > 0 -> 1
                    [] OTHER -> n

InqStart ==
    /\ req.op = "inq"
    /\ Started("dim")
    /\ ncInqOut' = <<[all |-> AllFlag(inp'),
                      unlimdimid |-> File'.unlimdim, format |-> File'.format,
                      ndims |-> NumOf(inp', "dim", Cardinality(File'.own)), dim |-> <<>>,
                      nvars |-> NumOf(inp', "var", Len(File'.var)), var |-> <<>>,
                      ngatts |-> NumOf(inp', "att", Len(File'.gatt)), gatt |-> <<>>]>>

\* The id of the k-th item of the answer, if the library has it; named has the
\* id of the name in the request.
ItemIds(s, named, k) ==
    IF Out.all THEN {k}
    ELSE IF inp.name # NoName THEN named
    ELSE {inp.myid} \intersect (0 .. Len(s) - 1)

\* Of all dimensions those of the ids 0, 1, 2, ... are inquired, as many as the
\* group has: they may be others than its own.
InqDim ==
    /\ pc = "dim" /\ Len(Out.dim) < Out.ndims
    /\ \E id \in ItemIds(File.dim, DimIdsOf(File, inp.name), Len(Out.dim)) :
        Continue("dim", [Out EXCEPT !.dim = Append(@,
            [id |-> id, name |-> File.dim[id + 1].name, arrayLen |-> File.dim[id + 1].arrayLen])])

DimsDone == pc = "dim" /\ Len(Out.dim) = Out.ndims /\ Continue("var", Out)

\* The attributes follow.
InqVar ==
    /\ pc = "var" /\ Len(Out.var) < Out.nvars
    /\ \E id \in ItemIds(File.var, IdsOf(File.var, inp.name), Len(Out.var)) :
        LET v == File.var[id + 1]
        IN  Continue("varAtt", [Out EXCEPT !.var = Append(@,
                [id |-> id, name |-> v.name, dataType |-> v.dataType, dimId |-> v.dimId,
                 natts |-> Len(v.att), att |-> <<>>])])

AttOut(id, a) == [id |-> id, name |-> a.name, dataType |-> a.dataType, value |-> a.value]

\* inqAtt is given the place of the variable in the answer for its id.
VarAtts == File.var[Len(Out.var)].att

\* Mutant: one attribute more is inquired if there is one.
InqVarAttOver ==
    LET n == Len(Out.var)
        k == Len(Out.var[n].att)
    IN  /\ pc = "varAtt" /\ k <= Out.var[n].natts
        /\ k < Len(VarAtts)
        /\ Continue("varAtt", [Out EXCEPT !.var[n].att = Append(@,
                AttOut(k, VarAtts[k + 1]))])

InqVarAtt ==
    LET n == Len(Out.var)
        k == Len(Out.var[n].att)
    IN  /\ pc = "varAtt" /\ k < Out.var[n].natts
        /\ k < Len(VarAtts)
        /\ Continue("varAtt", [Out EXCEPT !.var[n].att = Append(@,
                AttOut(k, VarAtts[k + 1]))])

VarAttsDone ==
    /\ pc = "varAtt"
    /\ Len(Out.var[Len(Out.var)].att) = Out.var[Len(Out.var)].natts
    /\ Continue("var", Out)

VarsDone == pc = "var" /\ Len(Out.var) = Out.nvars /\ Continue("gatt", Out)

\* The id that is answered is the place in the answer.
InqGatt ==
    /\ pc = "gatt" /\ Len(Out.gatt) < Out.ngatts
    /\ \E id \in ItemIds(File.gatt, IdsOf(File.gatt, inp.name), Len(Out.gatt)) :
        Continue("gatt", [Out EXCEPT !.gatt = Append(@,
            AttOut(Len(Out.gatt), File.gatt[id + 1]))])

GattsDone == pc = "gatt" /\ Len(Out.gatt) = Out.ngatts /\ Answer("ok", <<Out>>)

\* A call of the library fails, or the item is not there.
InqError == pc \in {"dim", "var", "varAtt"} /\ Fail

\* inqAtt frees gatt, and ncInq leaves the answer as it is.
InqGattError ==
    /\ pc = "gatt" /\ Len(Out.gatt) < Out.ngatts
    /\ pc' = "done" /\ status' = "error" /\ gattFreed' = TRUE
    /\ Fixed /\ UNCHANGED <<inp, ncInqOut>>
-----------------------------------------------------------------------------
(* rsNcInqGrps *)

GrpsStart == req.op = "inqGrps" /\ Started("grps") /\ ncInqOut' = << <<>> >>

InqGrp ==
    /\ pc = "grps" /\ Len(Out) < Len(File.grpName)
    /\ Continue("grps", Append(Out, File.grpName[Len(Out) + 1]))

GrpsDone == pc = "grps" /\ Len(Out) = Len(File.grpName) /\ Answer("ok", <<Out>>)

\* An error of the second nc_inq_grps leaves an answer of no groups.
GrpsError ==
    /\ pc = "grps" /\ File.grpName # <<>>
    /\ Fail \/ (Out = <<>> /\ Answer("error", <<Out>>))
-----------------------------------------------------------------------------
\* Mutant: the inquiry is sent again whenever the answer is lost.
AnswerLostRetries ==
    /\ pc = "done" /\ status = "ok" /\ host # "here"
    /\ pc' = "request" /\ inp' = req /\ host' = "here" /\ ncInqOut' = None
    /\ UNCHANGED <<world, req, asked, gattFreed, status>>

\* The answer of a peer or of another zone is lost.
AnswerLost ==
    /\ pc = "done" /\ status = "ok" /\ host # "here"
    /\ Fail

\* The client goes on with the id it has got (rcNcInqId.cpp:54-55).
UseId ==
    /\ pc = "done" /\ status = "ok" /\ req.op = "inqId"
    /\ asked' = req.name
    /\ \E op \in {"inqWithId"} \union (IF req.paramType = {"var"} THEN {"getVars"} ELSE {}) :
        req' = [req EXCEPT !.op = op, !.myid = Out]
    /\ pc' = "request" /\ ncInqOut' = None
    /\ inp' = req' /\ host' = "here"
    /\ UNCHANGED <<world, gattFreed, status>>

Terminated == pc = "done" /\ UNCHANGED vars

\* A step of the handler, or of the hosts behind it.
Handle ==
    \/ Refused \/ InqId \/ InqWithId \/ GetVars \/ InqStart \/ GrpsStart
    \/ InqDim \/ DimsDone \/ InqVar \/ InqVarAtt \/ VarAttsDone \/ VarsDone
    \/ InqGatt \/ GattsDone \/ InqError \/ InqGattError
    \/ InqGrp \/ GrpsDone \/ GrpsError
    \/ AnswerLost

Next == Handle \/ UseId \/ Terminated

Spec == Init /\ [][Next]_vars
-----------------------------------------------------------------------------
(* Properties *)

Ok(op) == pc = "done" /\ status = "ok" /\ req.op = op

\* The file the ncid stands for.
FileOf(d) == world.lib[d.host][d.ncid]

\* The types a general inquiry is about: another zone is asked for all.
Wanted == IF Entry.host = "zone" \/ req.paramType = {} THEN ParamTypes ELSE req.paramType

Everything == Entry.host = "zone" \/ req.all \/ Cardinality(Wanted) > 1

Atts(s) == [k \in DOMAIN s |->
    [id |-> k - 1, name |-> s[k].name, dataType |-> s[k].dataType, value |-> s[k].value]]

\* The dimensions of a file have the first ids, and those of a group with
\* dimensions in a file with others do not.
DimsFirst(f) == f.own = 0 .. Cardinality(f.own) - 1

\* An inquiry of several types, or of all of one, that answered ok (ncInq) has
\* every dimension, variable and attribute of the file the ncid stands for, with
\* their ids, and nothing of a type it was not asked for; one of groups
\* (rsNcInqGrps) has all of them.  Only a group whose dimensions do not come
\* first in its file is answered others for them, as many and from id 0
\* (rcNcInq.cpp:1526-1530).
InqWhole ==
    /\ Ok("inq") /\ Everything =>
        LET f == FileOf(Entry)
            n == Cardinality(f.own)
            part(t, s) == IF t \in Wanted THEN s ELSE <<>>
        IN  /\ Out.dim = part("dim", [k \in 1 .. n |->
                [id |-> k - 1, name |-> f.dim[k].name, arrayLen |-> f.dim[k].arrayLen]])
            /\ DimsFirst(f) /\ "dim" \in Wanted =>
                /\ {Out.dim[k].id : k \in DOMAIN Out.dim} = f.own
                /\ \A k \in DOMAIN Out.dim : f.dimid[Out.dim[k].name] = Out.dim[k].id
            /\ Out.var = part("var", [k \in DOMAIN f.var |->
                [id |-> k - 1, name |-> f.var[k].name, dataType |-> f.var[k].dataType,
                 dimId |-> f.var[k].dimId,
                 natts |-> Len(f.var[k].att), att |-> Atts(f.var[k].att)]])
            /\ Out.gatt = part("att", Atts(f.gatt))
    /\ Ok("inqGrps") => Out = FileOf(Entry).grpName

\* What an inquiry of one item may answer: that item, or none of a file that
\* has none of its type.
IsItem(out, s) ==
    \/ s = <<>> /\ out = <<>>
    \/ /\ Len(out) = 1
       /\ \E k \in DOMAIN s :
            /\ out[1].name = s[k].name
            /\ IF req.name # NoName THEN s[k].name = req.name ELSE k = req.myid + 1

\* Of a dimension that was named it is the one of the group itself, or else of
\* the groups around; a group without dimensions is answered none.
IsDim(out, f) ==
    \/ f.own = {} /\ out = <<>>
    \/ /\ Len(out) = 1 /\ out[1].id + 1 \in DOMAIN f.dim
       /\ out[1].name = f.dim[out[1].id + 1].name
       /\ out[1].arrayLen = f.dim[out[1].id + 1].arrayLen
       /\ IF req.name # NoName
          THEN req.name \in DOMAIN f.dimid /\ out[1].id = f.dimid[req.name]
          ELSE out[1].id = req.myid

\* An inquiry of one item in this zone (ncInq without NC_ALL_FLAG) is about the
\* item that was named, or else that has the id, and no other.
InqOne == Ok("inq") /\ ~Everything =>
    LET f == FileOf(Entry)
    IN  /\ IF Wanted = {"dim"} THEN IsDim(Out.dim, f) ELSE Out.dim = <<>>
        /\ IF Wanted = {"var"} THEN IsItem(Out.var, f.var) ELSE Out.var = <<>>
        /\ IF Wanted = {"att"} THEN IsItem(Out.gatt, f.gatt) ELSE Out.gatt = <<>>

\* With the id that rsNcInqId gives for a name, rsNcInqWithId and
\* rsNcGetVarsByType are about the item of that name and type in the file the
\* ncid stands for, wherever that is, and not about a dimension of the same name
\* of another group.
IdLeadsToItem == asked # NoName /\ pc = "done" /\ status = "ok" =>
    /\ Out.name = asked
    /\ Out = Items(req, FileOf(Entry))[req.myid + 1]
    /\ req.paramType = {"dim"} => FileOf(Entry).dimid[asked] = req.myid

\* After an error (of the library, or of the host) nothing is left of the answer
\* for the client to use, but for the freed gatt of a file with a global
\* attribute that cannot be read, and an answer of no groups.
ErrorLeavesNothing == status = "error" =>
    \/ ncInqOut = None
    \/ req.op = "inq" /\ gattFreed /\ FileOf(Entry).gatt # <<>>
    \/ req.op = "inqGrps" /\ Out = <<>>
\* Whatever was asked, and wherever the file is: an inquiry that is answered has
\* what it was asked for and no more, and after an error nothing of it is left.
InqExact == InqWhole /\ InqOne /\ ErrorLeavesNothing
=============================================================================
