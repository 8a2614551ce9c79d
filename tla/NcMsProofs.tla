------------------------------ MODULE NcMsProofs ------------------------------
(***************************************************************************)
(* Theorems about inquiries, for any tables, files and requests, and about *)
(* the netCDF microservices, for any rules, agents and files: what is so   *)
(* of one inquiry holds of all that rules make one after the other, with   *)
(* entries that come and go; what the microservices find in the inquiries  *)
(* is what the files have; and what they read of a variable are the cells  *)
(* the rule asked for, in their order.                                     *)
(***************************************************************************)
EXTENDS NcMs, CommonLemmas
-----------------------------------------------------------------------------
(* One inquiry *)

\* The request is at the file it is about.
AtFile == InUse /\ host = Entry.host /\ inp = Passed(req, Entry)

\* What an id leads to.
Led == Items(req, FileOf(Entry))[req.myid + 1]

\* A dimension is the one the library finds by the name.
FoundBy(r, f, name) == r.paramType = {"dim"} => f.dimid[name] = r.myid

IdInv ==
    /\ IsWorld(world) /\ IsRequest(req)
    /\ pc \in {"dim", "var", "varAtt", "gatt"} => req.op = "inq"
    /\ pc = "grps" => req.op = "inqGrps"
    /\ Ok("inqId") => InUse /\ Out \in ItemIdsOf(req, FileOf(Entry))
    /\ Ok("inqWithId") => InUse /\ Out \in ById(Items(req, FileOf(Entry)), req.myid)
    /\ asked # NoName =>
        /\ InUse
        /\ \/ req.op = "inqWithId"
           \/ req.op = "getVars" /\ req.paramType = {"var"}
        /\ Led.name = asked /\ FoundBy(req, FileOf(Entry), asked)
        /\ pc = "done" /\ status = "ok" => Out = Led
-----------------------------------------------------------------------------
(* The way to the file *)

LEMMA PassedKeeps ==
    ASSUME NEW r, IsRequest(r), NEW d
    PROVE  /\ r.op # "inq" \/ d.host # "zone" => Passed(r, d) = [r EXCEPT !.ncid = d.ncid]
           /\ Passed(r, d).op = r.op
           /\ Passed(r, d).ncid = d.ncid
           /\ r.op # "inq" =>
                /\ Passed(r, d).paramType = r.paramType
                /\ Passed(r, d).myid = r.myid
                /\ Passed(r, d).name = r.name
BY DEF Passed, IsRequest

\* What the handlers know of a name is an item of that name.
LEMMA IdsLead ==
    ASSUME NEW r, NEW f, IsFile(f), NEW id \in ItemIdsOf(r, f)
    PROVE  /\ id \in Nat /\ Items(r, f)[id + 1].name = r.name
           /\ r.paramType = {"dim"} => r.name \in DOMAIN f.dimid /\ f.dimid[r.name] = id
<1>1. CASE r.paramType = {"dim"}
    <2>1. r.name \in DOMAIN f.dimid /\ id = f.dimid[r.name]
        BY <1>1 DEF ItemIdsOf, DimIdsOf
    <2>2. /\ f.dimid[r.name] \in 0 .. Len(f.dim) - 1 /\ f.dim[f.dimid[r.name] + 1].name = r.name
          /\ Len(f.dim) \in Nat
        BY <2>1 DEF IsFile
    <2> QED
        BY <1>1, <2>1, <2>2 DEF Items
<1>2. CASE r.paramType # {"dim"}
    BY <1>2 DEF ItemIdsOf, IdsOf
<1> QED
    BY <1>1, <1>2

\* It is the id of an item.
LEMMA IdsInItems ==
    ASSUME NEW r, NEW f, IsFile(f), NEW id \in ItemIdsOf(r, f)
    PROVE  id + 1 \in DOMAIN Items(r, f) /\ Items(r, f)[id + 1].name = r.name
<1>1. CASE r.paramType = {"dim"}
    <2>1. r.name \in DOMAIN f.dimid /\ id = f.dimid[r.name]
        BY <1>1 DEF ItemIdsOf, DimIdsOf
    <2>2. f.dimid[r.name] \in 0 .. Len(f.dim) - 1 /\ f.dim \in Seq([name : Names, arrayLen : Nat])
        BY <2>1 DEF IsFile
    <2> DEFINE R == [name : Names, arrayLen : Nat]
               s == f.dim
    <2>3. s \in Seq(R) /\ id \in 0 .. Len(s) - 1
        BY <2>1, <2>2
    <2> HIDE DEF R, s
    <2>4. id + 1 \in DOMAIN s
        BY <2>3
    <2> QED
        BY <1>1, <2>4, IdsLead DEF Items, s
<1>2. CASE r.paramType # {"dim"}
    <2> DEFINE s == Items(r, f)
    <2>1. id \in 0 .. Len(s) - 1 /\ s[id + 1].name = r.name
        BY <1>2 DEF ItemIdsOf, IdsOf
    <2>2. s = f.var \/ s = <<>>
        BY <1>2 DEF Items
    <2>3. f.var \in Seq(ToSet(f.var))
        BY DEF IsFile
    <2>4. id + 1 \in DOMAIN s
        <3> DEFINE U == ToSet(f.var)
                   w == f.var
        <3>1. w \in Seq(U) /\ (s = w \/ s = <<>>)
            BY <2>2, <2>3
        <3> HIDE DEF U, w, s
        <3>2. Len(s) \in Nat /\ DOMAIN s = 1 .. Len(s)
            BY <3>1
        <3> QED
            BY <2>1, <3>2
    <2> QED
        BY <2>1, <2>4
<1> QED
    BY <1>1, <1>2

\* The library finds an item of a name by it.
LEMMA IdsAreOf ==
    ASSUME NEW r, NEW f, r.paramType # {"dim"}
    PROVE  ItemIdsOf(r, f) = IdsOf(Items(r, f), r.name)
BY DEF ItemIdsOf

LEMMA StartedAtFile ==
    ASSUME NEW next, IsRequest(req), Started(next)
    PROVE  /\ AtFile' /\ pc = "request" /\ pc' = next
           /\ File' = FileOf(Entry)
           /\ UNCHANGED <<world, req, asked, gattFreed, status>>
           /\ InUse /\ InUse' /\ Entry' = Entry
<1>1. /\ inp' = Passed(req, Entry) /\ host' = Entry.host
      /\ UNCHANGED <<world, req, asked, gattFreed, status>>
      /\ pc = "request" /\ pc' = next /\ InUse
    BY DEF Started
<1>2. Entry' = Entry /\ InUse'
    BY <1>1 DEF Entry, InUse
<1>3. inp'.ncid = Entry.ncid
    BY <1>1, PassedKeeps
<1>4. File' = FileOf(Entry)
    BY <1>1, <1>3 DEF File, FileOf
<1> QED
    BY <1>1, <1>2, <1>4 DEF AtFile
-----------------------------------------------------------------------------
(* Ids *)

\* The answers of the three handlers that end where they start.
LEMMA LookupStep ==
    ASSUME IdInv, InqId \/ InqWithId \/ GetVars
    PROVE  IdInv'
<1> USE DEF None
<1>1. CASE InqId
    <2>1. /\ req.op = "inqId" /\ Started("done")
          /\ \E id \in ItemIdsOf(inp', File') : ncInqOut' = <<id>>
        BY <1>1 DEF InqId
    <2>2. /\ File' = FileOf(Entry) /\ inp' = Passed(req, Entry) /\ Entry' = Entry /\ InUse'
          /\ UNCHANGED <<world, req, asked, status>> /\ pc' = "done"
        BY <2>1, StartedAtFile DEF IdInv, AtFile
    <2>3. ItemIdsOf(inp', File') = ItemIdsOf(req, FileOf(Entry))
        BY <2>1, <2>2, PassedKeeps DEF IdInv, ItemIdsOf, Items
    <2>4. Out' \in ItemIdsOf(req, FileOf(Entry))
        BY <2>1, <2>3 DEF Out
    <2>5. (FileOf(Entry))' = FileOf(Entry)
        BY <2>2 DEF FileOf
    <2> QED
        BY <2>1, <2>2, <2>4, <2>5 DEF IdInv, Ok
<1>2. CASE InqWithId
    <2>1. /\ req.op = "inqWithId" /\ Started("done")
          /\ \E item \in ById(Items(inp', File'), inp'.myid) : ncInqOut' = <<item>>
        BY <1>2 DEF InqWithId
    <2>2. /\ File' = FileOf(Entry) /\ inp' = Passed(req, Entry) /\ Entry' = Entry /\ InUse'
          /\ UNCHANGED <<world, req, asked, status>> /\ pc' = "done"
        BY <2>1, StartedAtFile DEF IdInv, AtFile
    <2>3. Items(inp', File') = Items(req, FileOf(Entry)) /\ inp'.myid = req.myid
        BY <2>1, <2>2, PassedKeeps DEF IdInv, Items
    <2>4. Out' = Led /\ Out' \in ById(Items(req, FileOf(Entry)), req.myid)
        BY <2>1, <2>3 DEF Out, ById, Led
    <2>5. (FileOf(Entry))' = FileOf(Entry) /\ Led' = Led
        BY <2>2 DEF FileOf, Led
    <2> QED
        BY <2>1, <2>2, <2>4, <2>5 DEF IdInv, Ok
<1>3. CASE GetVars
    <2>1. /\ req.op = "getVars" /\ Started("done")
          /\ \E v \in ById(File'.var, inp'.myid) : ncInqOut' = <<v>>
        BY <1>3 DEF GetVars
    <2>2. /\ File' = FileOf(Entry) /\ inp' = Passed(req, Entry) /\ Entry' = Entry /\ InUse'
          /\ UNCHANGED <<world, req, asked, status>> /\ pc' = "done"
        BY <2>1, StartedAtFile DEF IdInv, AtFile
    <2>3. inp'.myid = req.myid
        BY <2>1, <2>2, PassedKeeps DEF IdInv
    <2>4. req.paramType = {"var"} => Out' = Led
        BY <2>1, <2>2, <2>3 DEF Out, ById, Led, Items
    <2>5. (FileOf(Entry))' = FileOf(Entry) /\ Led' = Led
        BY <2>2 DEF FileOf, Led
    <2> QED
        BY <2>1, <2>2, <2>4, <2>5 DEF IdInv, Ok
<1> QED
    BY <1>1, <1>2, <1>3

\* What an id is of stays the same while the request does.
LEMMA LedStays ==
    ASSUME UNCHANGED <<world, req>>
    PROVE  /\ Entry' = Entry /\ InUse' = InUse /\ Led' = Led
           /\ (FileOf(Entry))' = FileOf(Entry)
BY DEF Entry, InUse, Led, FileOf

\* A step of an inquiry of another kind, or one that ends with an error.
LEMMA OtherStep ==
    ASSUME IdInv, UNCHANGED <<world, req, asked>>,
           pc' \in {"dim", "var", "varAtt", "gatt"} => req.op = "inq",
           pc' = "grps" => req.op = "inqGrps",
           req.op \in {"inq", "inqGrps"} \/ status' = "error"
    PROVE  IdInv'
BY LedStays DEF IdInv, Ok

LEMMA UseIdStep ==
    ASSUME IdInv, UseId
    PROVE  IdInv'
<1>1. /\ pc = "done" /\ status = "ok" /\ req.op = "inqId" /\ asked' = req.name
      /\ pc' = "request" /\ UNCHANGED <<world, status>>
      /\ Out \in ItemIdsOf(req, FileOf(Entry)) /\ InUse /\ IsWorld(world)
    BY DEF UseId, IdInv, Ok
<1>2. PICK op \in {"inqWithId"} \union (IF req.paramType = {"var"} THEN {"getVars"} ELSE {}) :
        req' = [req EXCEPT !.op = op, !.myid = Out]
    BY DEF UseId
<1>3. /\ Out \in Nat /\ Items(req, FileOf(Entry))[Out + 1].name = req.name
      /\ FoundBy([req EXCEPT !.myid = Out], FileOf(Entry), req.name)
    <2>1. IsFile(FileOf(Entry))
        BY <1>1 DEF IsWorld, InUse, Entry, FileOf
    <2>2. /\ Out \in Nat /\ Items(req, FileOf(Entry))[Out + 1].name = req.name
          /\ req.paramType = {"dim"} => FileOf(Entry).dimid[req.name] = Out
        BY <1>1, <2>1, IdsLead
    <2> QED
        BY <2>2 DEF FoundBy, IdInv, IsRequest
<1>4. /\ IsRequest(req') /\ req'.op = op /\ req'.myid = Out
      /\ req'.paramType = req.paramType /\ req'.ncid = req.ncid
    BY <1>2, <1>3 DEF IdInv, IsRequest, Ops
<1>5. Entry' = Entry /\ InUse'
    BY <1>1, <1>4 DEF Entry, InUse
<1>6. /\ Led' = Items(req, FileOf(Entry))[Out + 1]
      /\ FoundBy(req, FileOf(Entry), asked)' = FoundBy([req EXCEPT !.myid = Out], FileOf(Entry), req.name)
    BY <1>1, <1>4, <1>5 DEF Led, Items, FileOf, FoundBy, IdInv, IsRequest
<1> QED
    BY <1>1, <1>2, <1>3, <1>4, <1>5, <1>6 DEF IdInv, Ok

LEMMA IdNext ==
    ASSUME IdInv, [Next]_vars
    PROVE  IdInv'
<1> USE DEF Answer, Fail, Continue, Fixed
<1>1. CASE InqId \/ InqWithId \/ GetVars
    BY <1>1, LookupStep
<1>2. CASE Refused \/ InqError \/ AnswerLost
    BY <1>2, OtherStep DEF Refused, InqError, AnswerLost
<1>3. CASE InqStart \/ GrpsStart
    <2>1. IsRequest(req)
        BY DEF IdInv
    <2>2. UNCHANGED <<world, req, asked>>
        BY <1>3, <2>1, StartedAtFile DEF InqStart, GrpsStart
    <2>3. (req.op = "inq" /\ pc' = "dim") \/ (req.op = "inqGrps" /\ pc' = "grps")
        BY <1>3 DEF InqStart, GrpsStart, Started
    <2> QED
        BY <2>2, <2>3, OtherStep
<1>4. CASE InqDim \/ DimsDone \/ InqVar \/ InqVarAtt \/ VarAttsDone \/ VarsDone
    BY <1>4, OtherStep DEF IdInv, InqDim, DimsDone, InqVar, InqVarAtt, VarAttsDone, VarsDone
<1>5. CASE InqGatt \/ GattsDone \/ InqGattError
    BY <1>5, OtherStep DEF IdInv, InqGatt, GattsDone, InqGattError
<1>6. CASE InqGrp \/ GrpsDone \/ GrpsError
    BY <1>6, OtherStep DEF IdInv, InqGrp, GrpsDone, GrpsError
<1>7. CASE UseId
    BY <1>7, UseIdStep
<1>8. CASE Terminated \/ UNCHANGED vars
    <2>1. UNCHANGED vars
        BY <1>8 DEF Terminated
    <2>2. UNCHANGED <<world, req, asked, pc, status, ncInqOut>>
        BY <2>1 DEF vars
    <2> QED
        BY <2>2, LedStays DEF IdInv, Ok, Out
<1> QED
    BY <1>1, <1>2, <1>3, <1>4, <1>5, <1>6, <1>7, <1>8 DEF Next, Handle

\* For any files, hosts and requests: with the id that was given for a name one
\* gets what has that name and type in that file (rsNcInqWithId,
\* rsNcGetVarsByType).
THEOREM InqIdLeadsToItem == Spec => []IdLeadsToItem
<1>1. Init => IdInv
    BY InqAssumption DEF Init, IdInv, Ok
<1>2. IdInv /\ [Next]_vars => IdInv'
    BY IdNext
<1>3. IdInv => IdLeadsToItem
    BY DEF IdInv, IdLeadsToItem, Led, FoundBy
<1> QED
    BY <1>1, <1>2, <1>3, PTL DEF Spec
-----------------------------------------------------------------------------
(* What an answer has while ncInq puts it together: the request r has got to *)
(* the file f                                                                *)

\* The ids an inquiry may take for the item after k others.
PickedOf(r, s, named, k) ==
    IF AllFlag(r) THEN {k}
    ELSE IF r.name # NoName THEN named
    ELSE {r.myid} \intersect (0 .. Len(s) - 1)

Picked(r, s, k) == PickedOf(r, s, IdsOf(s, r.name), k)
PickedDim(r, f, k) == PickedOf(r, f.dim, DimIdsOf(f, r.name), k)

\* How many dimensions a group has itself.
OwnDims(f) == Cardinality(f.own)

DimRec(f, id) == [id |-> id, name |-> f.dim[id + 1].name, arrayLen |-> f.dim[id + 1].arrayLen]

VarRec(f, id, att) ==
    [id |-> id, name |-> f.var[id + 1].name, dataType |-> f.var[id + 1].dataType,
     dimId |-> f.var[id + 1].dimId, natts |-> Len(f.var[id + 1].att), att |-> att]

AttRec == [id : Nat, name : Names, dataType : NcTypes, value : Seq(Values)]

DimRecs(f) == {DimRec(f, id) : id \in 0 .. Len(f.dim) - 1}
VarRecs(f) == {VarRec(f, id, att) : id \in 0 .. Len(f.var) - 1, att \in Seq(AttRec)}

\* The answer is made of what ncInq counted at the start.
Header(o, f, r) ==
    /\ o = [all |-> o.all, unlimdimid |-> o.unlimdimid, format |-> o.format,
            ndims |-> o.ndims, dim |-> o.dim, nvars |-> o.nvars, var |-> o.var,
            ngatts |-> o.ngatts, gatt |-> o.gatt]
    /\ o.all = AllFlag(r) /\ o.unlimdimid = f.unlimdim /\ o.format = f.format
    /\ o.ndims = NumOf(r, "dim", OwnDims(f))
    /\ o.nvars = NumOf(r, "var", Len(f.var))
    /\ o.ngatts = NumOf(r, "att", Len(f.gatt))

DimPart(dim, f, r) ==
    /\ dim \in Seq(DimRecs(f))
    /\ Len(dim) <= NumOf(r, "dim", OwnDims(f))
    /\ \A k \in DOMAIN dim : dim[k].id \in PickedDim(r, f, k - 1)

\* The attributes of a variable so far.
AttPart(v, f, k) ==
    /\ v.att \in Seq(AttRec)
    /\ Len(v.att) <= v.natts
    /\ \A j \in DOMAIN v.att : j \in DOMAIN f.var[k].att /\ v.att[j] = AttOut(j - 1, f.var[k].att[j])

VarPart(var, f, r) ==
    /\ var \in Seq(VarRecs(f))
    /\ Len(var) <= NumOf(r, "var", Len(f.var))
    /\ \A k \in DOMAIN var : var[k].id \in Picked(r, f.var, k - 1) /\ AttPart(var[k], f, k)

GattPart(gatt, f, r) ==
    /\ gatt \in Seq(AttRec)
    /\ Len(gatt) <= NumOf(r, "att", Len(f.gatt))
    /\ \A k \in DOMAIN gatt : \E id \in Picked(r, f.gatt, k - 1) :
        id + 1 \in DOMAIN f.gatt /\ gatt[k] = AttOut(k - 1, f.gatt[id + 1])

\* The parts come one after the other.
Stage(o, p) ==
    /\ p = "dim" => o.var = <<>>
    /\ p # "dim" => Len(o.dim) = o.ndims
    /\ p \in {"dim", "var", "varAtt"} => o.gatt = <<>>
    /\ p \in {"gatt", "done"} => Len(o.var) = o.nvars
    /\ p = "varAtt" => o.var # <<>>
    /\ p = "done" => Len(o.gatt) = o.ngatts
    /\ \A k \in DOMAIN o.var : p # "varAtt" \/ k < Len(o.var) =>
        Len(o.var[k].att) = o.var[k].natts

Gathered(o, f, r, p) ==
    /\ Header(o, f, r)
    /\ DimPart(o.dim, f, r) /\ VarPart(o.var, f, r) /\ GattPart(o.gatt, f, r)
    /\ Stage(o, p)

GrpPart(o, f, p) ==
    /\ o \in Seq(Names)
    /\ Len(o) <= Len(f.grpName)
    /\ \A k \in DOMAIN o : o[k] = f.grpName[k]
    /\ p = "done" => Len(o) = Len(f.grpName)

Gathering == {"dim", "var", "varAtt", "gatt"}

InqInv ==
    /\ IsWorld(world) /\ IsRequest(req)
    /\ status = "error" => pc = "done"
    /\ pc \in Gathering \/ Ok("inq") =>
        req.op = "inq" /\ AtFile /\ Gathered(Out, FileOf(Entry), inp, pc)
    /\ pc = "grps" \/ Ok("inqGrps") =>
        req.op = "inqGrps" /\ AtFile /\ GrpPart(Out, FileOf(Entry), pc)
    /\ ErrorLeavesNothing
-----------------------------------------------------------------------------
(* Facts about requests and files *)

LEMMA FileIsFile ==
    ASSUME IsWorld(world), InUse
    PROVE  IsFile(FileOf(Entry))
BY DEF IsWorld, InUse, Entry, FileOf

LEMMA AtFileFile ==
    ASSUME IsRequest(req), AtFile
    PROVE  File = FileOf(Entry)
BY PassedKeeps DEF AtFile, File, FileOf

\* Items that are inquired of are in the file.
LEMMA PickedInFile ==
    ASSUME NEW r, NEW t, NEW S, NEW s \in Seq(S), NEW k \in Nat, k < NumOf(r, t, Len(s)),
           NEW id \in Picked(r, s, k)
    PROVE  id \in 0 .. Len(s) - 1 /\ id + 1 \in DOMAIN s
<1>1. CASE AllFlag(r)
    <2>1. id = k /\ k < Len(s)
        BY <1>1 DEF Picked, PickedOf, NumOf
    <2> QED
        BY <2>1
<1>2. CASE ~AllFlag(r)
    <2>1. id \in 0 .. Len(s) - 1
        BY <1>2 DEF Picked, PickedOf, IdsOf
    <2> QED
        BY <2>1
<1> QED
    BY <1>1, <1>2

LEMMA NumOfValue ==
    ASSUME NEW r, NEW t, NEW n \in Nat
    PROVE  /\ NumOf(r, t, n) \in 0 .. n
           /\ t \notin Types(r) => NumOf(r, t, n) = 0
           /\ t \in Types(r) /\ AllFlag(r) => NumOf(r, t, n) = n
           /\ t \in Types(r) /\ ~AllFlag(r) /\ n > 0 => NumOf(r, t, n) = 1
           /\ n = 0 => NumOf(r, t, n) = 0
BY DEF NumOf

LEMMA SeqNumOf ==
    ASSUME NEW r, NEW t, NEW S, NEW s \in Seq(S)
    PROVE  /\ NumOf(r, t, Len(s)) \in 0 .. Len(s)
           /\ t \notin Types(r) => NumOf(r, t, Len(s)) = 0
           /\ t \in Types(r) /\ AllFlag(r) => NumOf(r, t, Len(s)) = Len(s)
           /\ t \in Types(r) /\ ~AllFlag(r) /\ s # <<>> => NumOf(r, t, Len(s)) = 1
           /\ s = <<>> => NumOf(r, t, Len(s)) = 0
<1>1. Len(s) \in Nat /\ (s # <<>> => Len(s) > 0) /\ (s = <<>> => Len(s) = 0)
    OBVIOUS
<1> QED
    BY <1>1, NumOfValue

\* A group has no more dimensions than its file, all of which have a name.
LEMMA OwnDimsInFile ==
    ASSUME NEW f, IsFile(f)
    PROVE  /\ OwnDims(f) \in Nat /\ Len(f.dim) \in Nat /\ OwnDims(f) <= Len(f.dim)
           /\ IsFiniteSet(f.own) /\ (f.own = {} <=> OwnDims(f) = 0)
<1>1. f.dim \in Seq([name : Names, arrayLen : Nat]) /\ f.own \subseteq 0 .. Len(f.dim) - 1
    BY DEF IsFile
<1>2. Len(f.dim) \in Nat
    BY <1>1
<1>3. IsFiniteSet(0 .. Len(f.dim) - 1) /\ Cardinality(0 .. Len(f.dim) - 1) = Len(f.dim)
    <2>1. PICK n \in Nat : n = Len(f.dim)
        BY <1>2
    <2>2. IsFiniteSet(0 .. n - 1) /\ Cardinality(0 .. n - 1) = n
        <3>1. /\ IsFiniteSet(0 .. n - 1)
              /\ Cardinality(0 .. n - 1) = IF 0 > n - 1 THEN 0 ELSE n - 1 - 0 + 1
            BY FS_Interval
        <3> QED
            BY <3>1
    <2> QED
        BY <2>1, <2>2
<1>4. IsFiniteSet(f.own) /\ Cardinality(f.own) <= Cardinality(0 .. Len(f.dim) - 1)
    BY <1>1, <1>3, FS_Subset
<1>5. Cardinality(f.own) \in Nat /\ (Cardinality(f.own) = 0 <=> f.own = {})
    BY <1>4, FS_CardinalityType, FS_EmptySet
<1> QED
    BY <1>2, <1>3, <1>4, <1>5 DEF OwnDims

LEMMA OwnNumOf ==
    ASSUME NEW f, IsFile(f), NEW r
    PROVE  /\ NumOf(r, "dim", OwnDims(f)) \in 0 .. OwnDims(f)
           /\ NumOf(r, "dim", OwnDims(f)) \in Nat
           /\ "dim" \notin Types(r) => NumOf(r, "dim", OwnDims(f)) = 0
           /\ "dim" \in Types(r) /\ AllFlag(r) => NumOf(r, "dim", OwnDims(f)) = OwnDims(f)
           /\ "dim" \in Types(r) /\ ~AllFlag(r) /\ f.own # {} => NumOf(r, "dim", OwnDims(f)) = 1
           /\ f.own = {} => NumOf(r, "dim", OwnDims(f)) = 0
<1>1. OwnDims(f) \in Nat /\ (f.own = {} <=> OwnDims(f) = 0)
    BY OwnDimsInFile
<1>2. NumOf(r, "dim", OwnDims(f)) \in 0 .. OwnDims(f)
    BY <1>1, NumOfValue
<1> QED
    BY <1>1, <1>2, NumOfValue

LEMMA PickedDimInFile ==
    ASSUME NEW f, IsFile(f), NEW r, NEW k \in Nat, k < NumOf(r, "dim", OwnDims(f)),
           NEW id \in PickedDim(r, f, k)
    PROVE  id \in 0 .. Len(f.dim) - 1
<1>1. /\ OwnDims(f) \in Nat /\ Len(f.dim) \in Nat /\ OwnDims(f) <= Len(f.dim)
      /\ NumOf(r, "dim", OwnDims(f)) \in 0 .. OwnDims(f)
    BY OwnDimsInFile, OwnNumOf
<1>2. CASE AllFlag(r)
    <2>1. id = k
        BY <1>2 DEF PickedDim, PickedOf
    <2> QED
        BY <1>1, <2>1
<1>3. CASE ~AllFlag(r) /\ r.name # NoName
    <2>1. id \in DimIdsOf(f, r.name)
        BY <1>3 DEF PickedDim, PickedOf
    <2> QED
        BY <2>1 DEF DimIdsOf, IsFile
<1>4. CASE ~AllFlag(r) /\ r.name = NoName
    BY <1>4 DEF PickedDim, PickedOf
<1> QED
    BY <1>2, <1>3, <1>4

LEMMA NumOfNone ==
    ASSUME NEW r, NEW t
    PROVE  NumOf(r, t, Len(<<>>)) = 0
BY DEF NumOf

LEMMA Cardinalities ==
    /\ Cardinality(ParamTypes) > 1
    /\ \A T \in SUBSET ParamTypes : \A t \in T : ~(Cardinality(T) > 1) => T = {t}
<1>1. IsFiniteSet({"dim"}) /\ IsFiniteSet({"var"})
    BY FS_Singleton
<1>2. IsFiniteSet({"dim", "var"}) /\ IsFiniteSet(ParamTypes)
    <2>1. IsFiniteSet({"dim"} \cup {"var"})
        BY <1>1, FS_AddElement
    <2>2. IsFiniteSet(({"dim"} \cup {"var"}) \cup {"att"})
        BY <2>1, FS_AddElement
    <2>3. {"dim", "var"} = {"dim"} \cup {"var"}
        OBVIOUS
    <2>4. ParamTypes = ({"dim"} \cup {"var"}) \cup {"att"}
        BY DEF ParamTypes
    <2> QED
        BY <2>1, <2>2, <2>3, <2>4
<1>3. ASSUME NEW T \in SUBSET ParamTypes, NEW t \in T, NEW u \in T, t # u
      PROVE  Cardinality(T) > 1
    <2>1. IsFiniteSet(T)
        BY <1>2, FS_Subset
    <2>2. Cardinality({t}) = 1 /\ IsFiniteSet({t})
        BY FS_Singleton
    <2>3. Cardinality({t}) <= Cardinality(T) /\ Cardinality(T) # Cardinality({t})
        <3>1. {t} \in SUBSET T /\ T # {t}
            BY <1>3
        <3> QED
            BY <2>1, <3>1, FS_Subset
    <2>4. Cardinality(T) \in Nat
        BY <2>1, FS_CardinalityType
    <2> QED
        BY <2>2, <2>3, <2>4
<1>4. Cardinality(ParamTypes) > 1
    <2>1. "dim" \in ParamTypes /\ "var" \in ParamTypes /\ "dim" # "var"
        BY DEF ParamTypes
    <2>2. ParamTypes \in SUBSET ParamTypes
        OBVIOUS
    <2> QED
        BY <2>1, <2>2, <1>3
<1>5. ASSUME NEW T \in SUBSET ParamTypes, NEW t \in T, ~(Cardinality(T) > 1)
      PROVE  T = {t}
    BY <1>3, <1>5
<1> QED
    BY <1>4, <1>5

\* What the request that has got to the file is about.
LEMMA AskedOf ==
    ASSUME IsRequest(req), req.op = "inq", AtFile
    PROVE  /\ Types(inp) = Wanted /\ (AllFlag(inp) <=> Everything)
           /\ ~Everything => inp.name = req.name /\ inp.myid = req.myid
<1>1. inp = IF Entry.host = "zone"
            THEN [op |-> req.op, ncid |-> Entry.ncid, paramType |-> {}, myid |-> 0,
                  name |-> NoName, all |-> FALSE]
            ELSE [req EXCEPT !.ncid = Entry.ncid]
    BY DEF AtFile, Passed
<1>2. CASE Entry.host = "zone"
    <2>1. inp.paramType = {} /\ Types(inp) = ParamTypes
        BY <1>1, <1>2 DEF Types
    <2>2. AllFlag(inp)
        BY <2>1, Cardinalities DEF AllFlag
    <2> QED
        BY <1>2, <2>1, <2>2 DEF Wanted, Everything
<1>3. CASE Entry.host # "zone"
    <2>1. /\ inp.paramType = req.paramType /\ inp.all = req.all
          /\ inp.name = req.name /\ inp.myid = req.myid
        BY <1>1, <1>3 DEF IsRequest
    <2>2. Types(inp) = Wanted
        BY <1>3, <2>1 DEF Types, Wanted
    <2> QED
        BY <1>3, <2>1, <2>2 DEF AllFlag, Everything
<1> QED
    BY <1>2, <1>3
-----------------------------------------------------------------------------
(* One more item *)

LEMMA FileSeqs ==
    ASSUME NEW f, IsFile(f)
    PROVE  /\ f.dim \in Seq([name : Names, arrayLen : Nat])
           /\ f.var \in Seq(ToSet(f.var))
           /\ f.gatt \in Seq([name : Names, dataType : NcTypes, value : Seq(Values)])
           /\ f.grpName \in Seq(Names)
           /\ \A k \in DOMAIN f.var :
                f.var[k].att \in Seq([name : Names, dataType : NcTypes, value : Seq(Values)])
BY DEF IsFile, IsAtts

\* The answer with one part replaced.
OutOf(o, d, v, g) ==
    [all |-> o.all, unlimdimid |-> o.unlimdimid, format |-> o.format,
     ndims |-> o.ndims, dim |-> d, nvars |-> o.nvars, var |-> v,
     ngatts |-> o.ngatts, gatt |-> g]

LEMMA ReplacedDim ==
    ASSUME NEW f, NEW r, NEW o, Header(o, f, r), NEW y
    PROVE  [o EXCEPT !.dim = y] = OutOf(o, y, o.var, o.gatt)
<1>1. ASSUME NEW a, NEW u, NEW x, NEW nd, NEW d, NEW nv, NEW v, NEW ng, NEW g,
             o = [all |-> a, unlimdimid |-> u, format |-> x, ndims |-> nd, dim |-> d,
                  nvars |-> nv, var |-> v, ngatts |-> ng, gatt |-> g]
      PROVE  [o EXCEPT !.dim = y] = OutOf(o, y, o.var, o.gatt)
    BY <1>1 DEF OutOf
<1> QED
    BY <1>1 DEF Header

LEMMA ReplacedVar ==
    ASSUME NEW f, NEW r, NEW o, Header(o, f, r), NEW y
    PROVE  [o EXCEPT !.var = y] = OutOf(o, o.dim, y, o.gatt)
<1>1. ASSUME NEW a, NEW u, NEW x, NEW nd, NEW d, NEW nv, NEW v, NEW ng, NEW g,
             o = [all |-> a, unlimdimid |-> u, format |-> x, ndims |-> nd, dim |-> d,
                  nvars |-> nv, var |-> v, ngatts |-> ng, gatt |-> g]
      PROVE  [o EXCEPT !.var = y] = OutOf(o, o.dim, y, o.gatt)
    BY <1>1 DEF OutOf
<1> QED
    BY <1>1 DEF Header

LEMMA ReplacedGatt ==
    ASSUME NEW f, NEW r, NEW o, Header(o, f, r), NEW y
    PROVE  [o EXCEPT !.gatt = y] = OutOf(o, o.dim, o.var, y)
<1>1. ASSUME NEW a, NEW u, NEW x, NEW nd, NEW d, NEW nv, NEW v, NEW ng, NEW g,
             o = [all |-> a, unlimdimid |-> u, format |-> x, ndims |-> nd, dim |-> d,
                  nvars |-> nv, var |-> v, ngatts |-> ng, gatt |-> g]
      PROVE  [o EXCEPT !.gatt = y] = OutOf(o, o.dim, o.var, y)
    BY <1>1 DEF OutOf
<1> QED
    BY <1>1 DEF Header

LEMMA HeaderKept ==
    ASSUME NEW f, NEW r, NEW o, Header(o, f, r), NEW d, NEW v, NEW g
    PROVE  /\ Header(OutOf(o, d, v, g), f, r)
           /\ OutOf(o, d, v, g).dim = d /\ OutOf(o, d, v, g).var = v /\ OutOf(o, d, v, g).gatt = g
           /\ OutOf(o, d, v, g).ndims = o.ndims /\ OutOf(o, d, v, g).nvars = o.nvars
           /\ OutOf(o, d, v, g).ngatts = o.ngatts
BY DEF Header, OutOf

LEMMA ElementIn ==
    ASSUME NEW S, NEW s \in Seq(S), NEW j \in DOMAIN s
    PROVE  s[j] \in S
OBVIOUS

LEMMA AttOutIsRec ==
    ASSUME NEW s \in Seq([name : Names, dataType : NcTypes, value : Seq(Values)]),
           NEW j \in DOMAIN s, NEW k \in Nat
    PROVE  AttOut(k, s[j]) \in AttRec
<1>1. s[j] \in [name : Names, dataType : NcTypes, value : Seq(Values)]
    BY ElementIn
<1> QED
    BY <1>1 DEF AttOut, AttRec

LEMMA StartGathers ==
    ASSUME NEW f, IsFile(f), NEW r
    PROVE  Gathered([all |-> AllFlag(r), unlimdimid |-> f.unlimdim, format |-> f.format,
                     ndims |-> NumOf(r, "dim", OwnDims(f)), dim |-> <<>>,
                     nvars |-> NumOf(r, "var", Len(f.var)), var |-> <<>>,
                     ngatts |-> NumOf(r, "att", Len(f.gatt)), gatt |-> <<>>], f, r, "dim")
<1> DEFINE o == [all |-> AllFlag(r), unlimdimid |-> f.unlimdim, format |-> f.format,
                 ndims |-> NumOf(r, "dim", OwnDims(f)), dim |-> <<>>,
                 nvars |-> NumOf(r, "var", Len(f.var)), var |-> <<>>,
                 ngatts |-> NumOf(r, "att", Len(f.gatt)), gatt |-> <<>>]
<1>1. /\ NumOf(r, "dim", OwnDims(f)) \in Nat /\ NumOf(r, "var", Len(f.var)) \in Nat
      /\ NumOf(r, "att", Len(f.gatt)) \in Nat
    <2>1. /\ NumOf(r, "var", Len(f.var)) \in 0 .. Len(f.var)
          /\ NumOf(r, "att", Len(f.gatt)) \in 0 .. Len(f.gatt)
        BY FileSeqs, SeqNumOf
    <2> QED
        BY <2>1, OwnNumOf
<1>2. Header(o, f, r)
    BY DEF Header
<1>3. o.dim = <<>> /\ o.var = <<>> /\ o.gatt = <<>>
    OBVIOUS
<1> HIDE DEF o
<1>4. DimPart(o.dim, f, r) /\ VarPart(o.var, f, r) /\ GattPart(o.gatt, f, r)
    BY <1>1, <1>3 DEF DimPart, VarPart, GattPart
<1>5. Stage(o, "dim")
    BY <1>3 DEF Stage
<1> QED
    BY <1>2, <1>4, <1>5 DEF Gathered, o

LEMMA DimGathers ==
    ASSUME NEW f, IsFile(f), NEW r, NEW o, Gathered(o, f, r, "dim"), Len(o.dim) < o.ndims,
           NEW id \in PickedDim(r, f, Len(o.dim))
    PROVE  Gathered([o EXCEPT !.dim = Append(@, DimRec(f, id))], f, r, "dim")
<1> DEFINE d == Append(o.dim, DimRec(f, id))
           p == [o EXCEPT !.dim = d]
<1>1. Header(o, f, r) /\ DimPart(o.dim, f, r) /\ VarPart(o.var, f, r) /\ GattPart(o.gatt, f, r)
      /\ Stage(o, "dim")
    BY DEF Gathered
<1>2. p = OutOf(o, d, o.var, o.gatt)
    <2> HIDE DEF d
    <2> QED
        BY <1>1, ReplacedDim
<1>3. Len(o.dim) \in Nat /\ Len(o.dim) < NumOf(r, "dim", OwnDims(f)) /\ NumOf(r, "dim", OwnDims(f)) \in Nat
    <2>1. NumOf(r, "dim", OwnDims(f)) \in Nat
        BY OwnNumOf
    <2> QED
        BY <1>1, <2>1 DEF Header, DimPart
<1>4. id \in 0 .. Len(f.dim) - 1
    BY <1>3, PickedDimInFile
<1>5. DimRec(f, id).id = id
    BY DEF DimRec
<1>6. DimPart(d, f, r)
    <2>1. o.dim \in Seq(DimRecs(f)) /\ DimRec(f, id) \in DimRecs(f)
        BY <1>1, <1>4 DEF DimPart, DimRecs
    <2>2. d \in Seq(DimRecs(f)) /\ Len(d) = Len(o.dim) + 1 /\ DOMAIN d = 1 .. Len(o.dim) + 1
          /\ \A k \in 1 .. Len(o.dim) : d[k] = o.dim[k]
          /\ d[Len(o.dim) + 1] = DimRec(f, id)
        BY <2>1
    <2>3. \A k \in DOMAIN d : d[k].id \in PickedDim(r, f, k - 1)
        <3> SUFFICES ASSUME NEW k \in DOMAIN d
                     PROVE  d[k].id \in PickedDim(r, f, k - 1)
            OBVIOUS
        <3>1. CASE k = Len(o.dim) + 1
            <4>1. k - 1 = Len(o.dim) /\ d[k].id = id
                BY <3>1, <2>2, <1>3, <1>5
            <4> QED
                BY <4>1
        <3>2. CASE k # Len(o.dim) + 1
            <4>1. k \in DOMAIN o.dim /\ d[k] = o.dim[k]
                BY <3>2, <2>1, <2>2, <1>3
            <4> QED
                BY <4>1, <1>1 DEF DimPart
        <3> QED
            BY <3>1, <3>2
    <2>4. Len(d) <= NumOf(r, "dim", OwnDims(f))
        BY <2>2, <1>3
    <2> HIDE DEF d
    <2> QED
        BY <2>2, <2>3, <2>4 DEF DimPart
<1> HIDE DEF d, p
<1>7. Header(p, f, r)
    BY <1>1, <1>2, HeaderKept
<1>8. p.dim = d /\ p.var = o.var /\ p.gatt = o.gatt
    BY <1>1, <1>2, HeaderKept
<1>9. Stage(p, "dim")
    BY <1>1, <1>8 DEF Stage
<1>10. Gathered(p, f, r, "dim")
    BY <1>1, <1>6, <1>7, <1>8, <1>9 DEF Gathered
<1> QED
    BY <1>10 DEF p, d

LEMMA GattGathers ==
    ASSUME NEW f, IsFile(f), NEW r, NEW o, Gathered(o, f, r, "gatt"), Len(o.gatt) < o.ngatts,
           NEW id \in Picked(r, f.gatt, Len(o.gatt))
    PROVE  Gathered([o EXCEPT !.gatt = Append(@, AttOut(Len(o.gatt), f.gatt[id + 1]))], f, r, "gatt")
<1> DEFINE a == AttOut(Len(o.gatt), f.gatt[id + 1])
           g == Append(o.gatt, a)
           p == [o EXCEPT !.gatt = g]
<1>1. Header(o, f, r) /\ DimPart(o.dim, f, r) /\ VarPart(o.var, f, r) /\ GattPart(o.gatt, f, r)
      /\ Stage(o, "gatt")
    BY DEF Gathered
<1>2. p = OutOf(o, o.dim, o.var, g)
    <2> HIDE DEF g
    <2> QED
        BY <1>1, ReplacedGatt
<1>3. Len(o.gatt) \in Nat /\ Len(o.gatt) < NumOf(r, "att", Len(f.gatt)) /\ NumOf(r, "att", Len(f.gatt)) \in Nat
    <2>1. NumOf(r, "att", Len(f.gatt)) \in 0 .. Len(f.gatt)
        BY FileSeqs, SeqNumOf
    <2> QED
        BY <1>1, <2>1, FileSeqs DEF Header, GattPart
<1>4. id + 1 \in DOMAIN f.gatt
    BY <1>3, FileSeqs, PickedInFile
<1>5. a \in AttRec
    BY <1>3, <1>4, FileSeqs, AttOutIsRec
<1>6. GattPart(g, f, r)
    <2>1. o.gatt \in Seq(AttRec)
        BY <1>1 DEF GattPart
    <2>2. g \in Seq(AttRec) /\ Len(g) = Len(o.gatt) + 1 /\ DOMAIN g = 1 .. Len(o.gatt) + 1
          /\ \A k \in 1 .. Len(o.gatt) : g[k] = o.gatt[k]
          /\ g[Len(o.gatt) + 1] = a
        <3> HIDE DEF a
        <3> QED
            BY <2>1, <1>5
    <2>3. \A k \in DOMAIN g : \E i \in Picked(r, f.gatt, k - 1) :
            i + 1 \in DOMAIN f.gatt /\ g[k] = AttOut(k - 1, f.gatt[i + 1])
        <3> SUFFICES ASSUME NEW k \in DOMAIN g
                     PROVE  \E i \in Picked(r, f.gatt, k - 1) :
                                i + 1 \in DOMAIN f.gatt /\ g[k] = AttOut(k - 1, f.gatt[i + 1])
            OBVIOUS
        <3>1. CASE k = Len(o.gatt) + 1
            <4>1. k - 1 = Len(o.gatt) /\ g[k] = AttOut(k - 1, f.gatt[id + 1])
                BY <3>1, <2>2, <1>3
            <4> HIDE DEF g
            <4> QED
                BY <4>1, <1>4
        <3>2. CASE k # Len(o.gatt) + 1
            <4>1. k \in DOMAIN o.gatt /\ g[k] = o.gatt[k]
                BY <3>2, <2>1, <2>2, <1>3
            <4> HIDE DEF g
            <4> QED
                BY <4>1, <1>1 DEF GattPart
        <3> QED
            BY <3>1, <3>2
    <2>4. Len(g) <= NumOf(r, "att", Len(f.gatt))
        BY <2>2, <1>3
    <2> HIDE DEF g
    <2> QED
        BY <2>2, <2>3, <2>4 DEF GattPart
<1> HIDE DEF g, p
<1>7. Header(p, f, r)
    BY <1>1, <1>2, HeaderKept
<1>8. p.dim = o.dim /\ p.var = o.var /\ p.gatt = g /\ p.ndims = o.ndims /\ p.nvars = o.nvars
    BY <1>1, <1>2, HeaderKept
<1>9. Stage(p, "gatt")
    BY <1>1, <1>8 DEF Stage
<1>10. Gathered(p, f, r, "gatt")
    BY <1>1, <1>6, <1>7, <1>8, <1>9 DEF Gathered
<1> QED
    BY <1>10 DEF p, g, a

LEMMA VarGathers ==
    ASSUME NEW f, IsFile(f), NEW r, NEW o, Gathered(o, f, r, "var"), Len(o.var) < o.nvars,
           NEW id \in Picked(r, f.var, Len(o.var))
    PROVE  Gathered([o EXCEPT !.var = Append(@, VarRec(f, id, <<>>))], f, r, "varAtt")
<1> DEFINE w == VarRec(f, id, <<>>)
           v == Append(o.var, w)
           p == [o EXCEPT !.var = v]
<1>1. Header(o, f, r) /\ DimPart(o.dim, f, r) /\ VarPart(o.var, f, r) /\ GattPart(o.gatt, f, r)
      /\ Stage(o, "var")
    BY DEF Gathered
<1>2. p = OutOf(o, o.dim, v, o.gatt)
    <2> HIDE DEF v
    <2> QED
        BY <1>1, ReplacedVar
<1>3. Len(o.var) \in Nat /\ Len(o.var) < NumOf(r, "var", Len(f.var)) /\ NumOf(r, "var", Len(f.var)) \in Nat
    <2>1. NumOf(r, "var", Len(f.var)) \in 0 .. Len(f.var)
        BY FileSeqs, SeqNumOf
    <2> QED
        BY <1>1, <2>1, FileSeqs DEF Header, VarPart
<1>4. id \in 0 .. Len(f.var) - 1 /\ id + 1 \in DOMAIN f.var
    BY <1>3, FileSeqs, PickedInFile
<1>5. w.id = id /\ w.att = <<>> /\ w.natts \in Nat
    <2>1. Len(f.var[id + 1].att) \in Nat
        BY <1>4, FileSeqs
    <2> QED
        BY <2>1 DEF VarRec
<1>6. w \in VarRecs(f)
    <2>1. \A att \in Seq(AttRec) : VarRec(f, id, att) \in VarRecs(f)
        BY <1>4 DEF VarRecs
    <2>2. <<>> \in Seq(AttRec)
        OBVIOUS
    <2> QED
        BY <2>1, <2>2
<1> HIDE DEF w
<1>7. /\ v \in Seq(VarRecs(f))
      /\ Len(v) = Len(o.var) + 1 /\ DOMAIN v = 1 .. Len(o.var) + 1
      /\ \A k \in 1 .. Len(o.var) : v[k] = o.var[k]
      /\ v[Len(o.var) + 1] = w
      /\ DOMAIN o.var = 1 .. Len(o.var)
    <2>1. o.var \in Seq(VarRecs(f))
        BY <1>1 DEF VarPart
    <2> QED
        BY <2>1, <1>6
<1> HIDE DEF v, p
<1>8. AttPart(w, f, Len(o.var) + 1)
    BY <1>5 DEF AttPart
<1>9. VarPart(v, f, r)
    <2>1. \A k \in DOMAIN v : v[k].id \in Picked(r, f.var, k - 1) /\ AttPart(v[k], f, k)
        <3> SUFFICES ASSUME NEW k \in DOMAIN v
                     PROVE  v[k].id \in Picked(r, f.var, k - 1) /\ AttPart(v[k], f, k)
            OBVIOUS
        <3>1. CASE k = Len(o.var) + 1
            <4>1. k - 1 = Len(o.var) /\ v[k] = w
                BY <3>1, <1>7, <1>3
            <4> QED
                BY <3>1, <4>1, <1>5, <1>8
        <3>2. CASE k # Len(o.var) + 1
            <4>1. k \in DOMAIN o.var /\ v[k] = o.var[k]
                BY <3>2, <1>7, <1>3
            <4> QED
                BY <4>1, <1>1 DEF VarPart
        <3> QED
            BY <3>1, <3>2
    <2>2. Len(v) <= NumOf(r, "var", Len(f.var))
        BY <1>7, <1>3
    <2> QED
        BY <2>1, <2>2, <1>7 DEF VarPart
<1>10. /\ Header(p, f, r) /\ p.dim = o.dim /\ p.var = v /\ p.gatt = o.gatt
       /\ p.ndims = o.ndims
    BY <1>1, <1>2, HeaderKept
<1>11. Stage(p, "varAtt")
    <2>1. v # <<>>
        BY <1>7, <1>3
    <2>2. \A k \in DOMAIN v : k < Len(v) => Len(v[k].att) = v[k].natts
        BY <1>1, <1>7, <1>3 DEF Stage
    <2> QED
        BY <1>1, <1>10, <2>1, <2>2 DEF Stage
<1>12. Gathered(p, f, r, "varAtt")
    BY <1>1, <1>9, <1>10, <1>11 DEF Gathered
<1> QED
    BY <1>12 DEF p, v, w

LEMMA VarAttGathers ==
    ASSUME NEW f, IsFile(f), NEW r, NEW o, Gathered(o, f, r, "varAtt"),
           Len(o.var[Len(o.var)].att) < o.var[Len(o.var)].natts,
           Len(o.var[Len(o.var)].att) < Len(f.var[Len(o.var)].att)
    PROVE  Gathered([o EXCEPT !.var[Len(o.var)].att = Append(@,
                        AttOut(Len(o.var[Len(o.var)].att),
                               f.var[Len(o.var)].att[Len(o.var[Len(o.var)].att) + 1]))],
                    f, r, "varAtt")
<1> DEFINE n == Len(o.var)
           k == Len(o.var[n].att)
           a == AttOut(k, f.var[n].att[k + 1])
           s == Append(o.var[n].att, a)
           w == [o.var[n] EXCEPT !.att = s]
           v == [o.var EXCEPT ![n] = w]
           p == [o EXCEPT !.var = v]
<1>1. Header(o, f, r) /\ DimPart(o.dim, f, r) /\ VarPart(o.var, f, r) /\ GattPart(o.gatt, f, r)
      /\ Stage(o, "varAtt")
    BY DEF Gathered
<1>2. p = OutOf(o, o.dim, v, o.gatt)
    <2> HIDE DEF v
    <2> QED
        BY <1>1, ReplacedVar
<1>3. o.var \in Seq(VarRecs(f)) /\ n \in Nat /\ n \in DOMAIN o.var /\ DOMAIN o.var = 1 .. n
    <2>1. o.var \in Seq(VarRecs(f)) /\ o.var # <<>>
        BY <1>1 DEF VarPart, Stage
    <2> QED
        BY <2>1
<1>4. n \in DOMAIN f.var
    <2>1. NumOf(r, "var", Len(f.var)) \in 0 .. Len(f.var) /\ n <= NumOf(r, "var", Len(f.var))
        BY <1>1, FileSeqs, SeqNumOf DEF VarPart
    <2> QED
        BY <1>3, <2>1, FileSeqs
<1>5. f.var[n].att \in Seq([name : Names, dataType : NcTypes, value : Seq(Values)])
    BY <1>4, FileSeqs
<1>6. AttPart(o.var[n], f, n) /\ o.var[n].id \in Picked(r, f.var, n - 1)
    BY <1>1, <1>3 DEF VarPart
<1>7. k \in Nat /\ k + 1 \in DOMAIN f.var[n].att /\ o.var[n].att \in Seq(AttRec)
    <2>1. o.var[n].att \in Seq(AttRec)
        BY <1>6 DEF AttPart
    <2> QED
        BY <2>1, <1>5, SMTT(30)
<1>8. a \in AttRec
    BY <1>5, <1>7, AttOutIsRec
<1>9. /\ s \in Seq(AttRec) /\ Len(s) = k + 1 /\ DOMAIN s = 1 .. k + 1
      /\ \A j \in 1 .. k : s[j] = o.var[n].att[j]
      /\ s[k + 1] = a /\ DOMAIN o.var[n].att = 1 .. k
    <2> HIDE DEF a
    <2> QED
        BY <1>7, <1>8, SMTT(30)
<1>10. PICK id \in 0 .. Len(f.var) - 1, att \in Seq(AttRec) : o.var[n] = VarRec(f, id, att)
    <2>1. o.var[n] \in VarRecs(f)
        BY <1>3
    <2> QED
        BY <2>1 DEF VarRecs
<1>11. /\ w = VarRec(f, id, s) /\ w.att = s
       /\ w.natts = o.var[n].natts /\ w.id = o.var[n].id
    <2> HIDE DEF s
    <2> QED
        BY <1>10 DEF VarRec
<1>12. w \in VarRecs(f)
    <2> HIDE DEF s, w
    <2> QED
        BY <1>9, <1>11 DEF VarRecs
<1>13. AttPart(w, f, n)
    <2>1. Len(s) <= w.natts
        <3>1. k < o.var[n].natts /\ o.var[n].natts \in Nat
            <4>1. id + 1 \in DOMAIN f.var
                BY <1>10, FileSeqs
            <4>2. Len(f.var[id + 1].att) \in Nat
                BY <4>1, FileSeqs
            <4> QED
                BY <1>10, <4>2 DEF VarRec
        <3> HIDE DEF s, w
        <3> QED
            BY <3>1, <1>7, <1>9, <1>11
    <2>2. \A j \in DOMAIN s : j \in DOMAIN f.var[n].att /\ s[j] = AttOut(j - 1, f.var[n].att[j])
        <3> SUFFICES ASSUME NEW j \in DOMAIN s
                     PROVE  j \in DOMAIN f.var[n].att /\ s[j] = AttOut(j - 1, f.var[n].att[j])
            OBVIOUS
        <3>1. CASE j = k + 1
            <4>1. j - 1 = k /\ s[j] = a
                <5> HIDE DEF k, a, s
                <5> QED
                    BY <3>1, <1>7, <1>9
            <4> QED
                BY <3>1, <4>1, <1>7
        <3>2. CASE j # k + 1
            <4>1. j \in DOMAIN o.var[n].att /\ s[j] = o.var[n].att[j]
                <5> HIDE DEF k, a, s
                <5> QED
                    BY <3>2, <1>7, <1>9
            <4> HIDE DEF s
            <4> QED
                BY <4>1, <1>6 DEF AttPart
        <3> QED
            BY <3>1, <3>2
    <2> HIDE DEF s, w
    <2> QED
        BY <2>1, <2>2, <1>9, <1>11 DEF AttPart
<1> HIDE DEF w, s, a, k
<1>14. /\ v \in Seq(VarRecs(f)) /\ Len(v) = n /\ DOMAIN v = 1 .. n /\ v[n] = w
       /\ \A j \in 1 .. n - 1 : v[j] = o.var[j]
    BY <1>3, <1>12
<1> HIDE DEF v, p
<1>15. VarPart(v, f, r)
    <2>1. \A j \in DOMAIN v : v[j].id \in Picked(r, f.var, j - 1) /\ AttPart(v[j], f, j)
        <3> SUFFICES ASSUME NEW j \in DOMAIN v
                     PROVE  v[j].id \in Picked(r, f.var, j - 1) /\ AttPart(v[j], f, j)
            OBVIOUS
        <3>1. CASE j = n
            BY <3>1, <1>6, <1>11, <1>13, <1>14
        <3>2. CASE j # n
            <4>1. j \in DOMAIN o.var /\ v[j] = o.var[j]
                BY <3>2, <1>3, <1>14
            <4> QED
                BY <4>1, <1>1 DEF VarPart
        <3> QED
            BY <3>1, <3>2
    <2> QED
        BY <2>1, <1>1, <1>14 DEF VarPart
<1>16. /\ Header(p, f, r) /\ p.dim = o.dim /\ p.var = v /\ p.gatt = o.gatt
       /\ p.ndims = o.ndims
    BY <1>1, <1>2, HeaderKept
<1>17. Stage(p, "varAtt")
    <2>1. v # <<>>
        BY <1>3, <1>14
    <2>2. \A j \in DOMAIN v : j < Len(v) => Len(v[j].att) = v[j].natts
        BY <1>1, <1>3, <1>14, SMTT(30) DEF Stage
    <2> QED
        BY <1>1, <1>16, <2>1, <2>2 DEF Stage
<1>18. Gathered(p, f, r, "varAtt")
    BY <1>1, <1>15, <1>16, <1>17 DEF Gathered
<1>19. p = [o EXCEPT !.var[Len(o.var)].att = Append(@,
                AttOut(Len(o.var[Len(o.var)].att),
                       f.var[Len(o.var)].att[Len(o.var[Len(o.var)].att) + 1]))]
    BY DEF p, v, w, s, a, k
<1> QED
    BY <1>18, <1>19

\* A part has been inquired.
LEMMA NextPart ==
    ASSUME NEW f, NEW r, NEW o
    PROVE  /\ Gathered(o, f, r, "dim") /\ Len(o.dim) = o.ndims => Gathered(o, f, r, "var")
           /\ Gathered(o, f, r, "varAtt") /\ Len(o.var[Len(o.var)].att) = o.var[Len(o.var)].natts
                => Gathered(o, f, r, "var")
           /\ Gathered(o, f, r, "var") /\ Len(o.var) = o.nvars => Gathered(o, f, r, "gatt")
           /\ Gathered(o, f, r, "gatt") /\ Len(o.gatt) = o.ngatts => Gathered(o, f, r, "done")
<1>1. ASSUME Gathered(o, f, r, "varAtt"), Len(o.var[Len(o.var)].att) = o.var[Len(o.var)].natts
      PROVE  Gathered(o, f, r, "var")
    <2>1. DOMAIN o.var = 1 .. Len(o.var) /\ Len(o.var) \in Nat
        <3>1. o.var \in Seq(VarRecs(f))
            BY <1>1 DEF Gathered, VarPart
        <3> QED
            BY <3>1
    <2>2. Stage(o, "var")
        BY <1>1, <2>1 DEF Gathered, Stage
    <2> QED
        BY <1>1, <2>2 DEF Gathered
<1>2. Gathered(o, f, r, "dim") /\ Len(o.dim) = o.ndims => Gathered(o, f, r, "var")
    BY DEF Gathered, Stage
<1>3. Gathered(o, f, r, "var") /\ Len(o.var) = o.nvars => Gathered(o, f, r, "gatt")
    BY DEF Gathered, Stage
<1>4. Gathered(o, f, r, "gatt") /\ Len(o.gatt) = o.ngatts => Gathered(o, f, r, "done")
    BY DEF Gathered, Stage
<1> QED
    BY <1>1, <1>2, <1>3, <1>4
-----------------------------------------------------------------------------
(* Steps *)

\* What a step that stays at the file and at the request leaves.
LEMMA FileStays ==
    ASSUME UNCHANGED <<world, req, inp, host>>
    PROVE  /\ Entry' = Entry /\ InUse' = InUse /\ AtFile' = AtFile
           /\ (FileOf(Entry))' = FileOf(Entry)
           /\ IsWorld(world)' = IsWorld(world) /\ IsRequest(req)' = IsRequest(req)
BY DEF Entry, InUse, AtFile, FileOf, IsWorld, IsRequest, Passed

LEMMA PartStep ==
    ASSUME InqInv, pc \in Gathering, NEW next \in Gathering, NEW out, Continue(next, out),
           Gathered(out, FileOf(Entry), inp, next)
    PROVE  InqInv'
<1>1. /\ pc' = next /\ Out' = out /\ inp' = inp /\ UNCHANGED <<req, status>>
      /\ (FileOf(Entry))' = FileOf(Entry) /\ AtFile' = AtFile
      /\ IsWorld(world)' = IsWorld(world) /\ IsRequest(req)' = IsRequest(req)
    BY FileStays DEF Continue, Fixed, Out
<1>2. req.op = "inq" /\ AtFile /\ IsWorld(world) /\ IsRequest(req) /\ status # "error"
    BY DEF InqInv, Gathering
<1>3. next # "grps" /\ next # "done"
    BY DEF Gathering
<1>4. (Gathered(Out, FileOf(Entry), inp, pc))'
    BY <1>1
<1> QED
    BY <1>1, <1>2, <1>3, <1>4 DEF InqInv, Ok, ErrorLeavesNothing

\* The request ends with an error and no answer.
LEMMA FailStep ==
    ASSUME InqInv, Fail
    PROVE  InqInv'
<1>1. /\ pc' = "done" /\ status' = "error" /\ ncInqOut' = None
      /\ IsWorld(world)' = IsWorld(world) /\ IsRequest(req)' = IsRequest(req)
    BY FileStays DEF Fail, Answer, Fixed
<1> QED
    BY <1>1 DEF InqInv, Ok, ErrorLeavesNothing, Gathering

LEMMA GatherStep ==
    ASSUME InqInv,
           InqDim \/ DimsDone \/ InqVar \/ InqVarAtt \/ VarAttsDone \/ VarsDone \/ InqGatt
    PROVE  InqInv'
<1> DEFINE f == FileOf(Entry)
<1>1. pc \in Gathering
    BY DEF InqDim, DimsDone, InqVar, InqVarAtt, VarAttsDone, VarsDone, InqGatt, Gathering
<1>2. req.op = "inq" /\ AtFile /\ Gathered(Out, f, inp, pc) /\ IsRequest(req)
    BY <1>1 DEF InqInv
<1>3. File = f /\ IsFile(f)
    BY <1>2, AtFileFile, FileIsFile DEF InqInv, AtFile
<1>4. \A s, named, k : ItemIds(s, named, k) = PickedOf(inp, s, named, k)
    BY <1>2 DEF Gathered, Header, ItemIds, PickedOf
<1> HIDE DEF f
<1>5. CASE InqDim
    <2>1. PICK id \in PickedDim(inp, f, Len(Out.dim)) :
            /\ pc = "dim" /\ Len(Out.dim) < Out.ndims
            /\ Continue("dim", [Out EXCEPT !.dim = Append(@, DimRec(f, id))])
        BY <1>3, <1>4, <1>5 DEF InqDim, DimRec, PickedDim
    <2>2. Gathered([Out EXCEPT !.dim = Append(@, DimRec(f, id))], f, inp, "dim")
        BY <1>2, <1>3, <2>1, DimGathers
    <2> QED
        BY <1>1, <2>1, <2>2, PartStep DEF f, Gathering
<1>6. CASE InqVar
    <2>1. PICK id \in Picked(inp, f.var, Len(Out.var)) :
            /\ pc = "var" /\ Len(Out.var) < Out.nvars
            /\ Continue("varAtt", [Out EXCEPT !.var = Append(@, VarRec(f, id, <<>>))])
        BY <1>3, <1>4, <1>6 DEF InqVar, VarRec, Picked
    <2>2. Gathered([Out EXCEPT !.var = Append(@, VarRec(f, id, <<>>))], f, inp, "varAtt")
        BY <1>2, <1>3, <2>1, VarGathers
    <2> QED
        BY <1>1, <2>1, <2>2, PartStep DEF f, Gathering
<1>7. CASE InqVarAtt
    <2> DEFINE n == Len(Out.var)
               k == Len(Out.var[n].att)
               o == [Out EXCEPT !.var[Len(Out.var)].att = Append(@,
                        AttOut(Len(Out.var[Len(Out.var)].att),
                               f.var[Len(Out.var)].att[Len(Out.var[Len(Out.var)].att) + 1]))]
    <2>1. /\ pc = "varAtt" /\ k < Out.var[n].natts /\ k < Len(f.var[n].att)
          /\ Continue("varAtt", o)
        BY <1>3, <1>7 DEF InqVarAtt, VarAtts
    <2>2. Gathered(o, f, inp, "varAtt")
        BY <1>2, <1>3, <2>1, VarAttGathers
    <2> HIDE DEF o
    <2> QED
        BY <1>1, <2>1, <2>2, PartStep DEF f, Gathering
<1>8. CASE InqGatt
    <2>1. PICK id \in Picked(inp, f.gatt, Len(Out.gatt)) :
            /\ pc = "gatt" /\ Len(Out.gatt) < Out.ngatts
            /\ Continue("gatt", [Out EXCEPT !.gatt = Append(@,
                    AttOut(Len(Out.gatt), f.gatt[id + 1]))])
        BY <1>3, <1>4, <1>8 DEF InqGatt, Picked
    <2>2. Gathered([Out EXCEPT !.gatt = Append(@, AttOut(Len(Out.gatt), f.gatt[id + 1]))],
                   f, inp, "gatt")
        BY <1>2, <1>3, <2>1, GattGathers
    <2> QED
        BY <1>1, <2>1, <2>2, PartStep DEF f, Gathering
<1>9. CASE DimsDone \/ VarAttsDone \/ VarsDone
    <2>1. PICK next \in {"var", "gatt"} : Continue(next, Out) /\ Gathered(Out, f, inp, next)
        BY <1>2, <1>9, NextPart DEF DimsDone, VarAttsDone, VarsDone
    <2> QED
        BY <1>1, <2>1, PartStep DEF f, Gathering
<1> QED
    BY <1>5, <1>6, <1>7, <1>8, <1>9

\* The id that was answered goes into a request.
LEMMA UseIdIsRequest ==
    ASSUME IsRequest(req), UseId, Out \in Nat
    PROVE  IsRequest(req)'
<1>1. PICK op \in {"inqWithId"} \union (IF req.paramType = {"var"} THEN {"getVars"} ELSE {}) :
        req' = [req EXCEPT !.op = op, !.myid = Out]
    BY DEF UseId
<1> QED
    BY <1>1 DEF IsRequest, Ops

LEMMA GattEndStep ==
    ASSUME InqInv, GattsDone \/ InqGattError
    PROVE  InqInv'
<1>1. /\ req.op = "inq" /\ AtFile /\ Gathered(Out, FileOf(Entry), inp, "gatt")
      /\ IsWorld(world) /\ IsRequest(req)
    BY DEF InqInv, Gathering, GattsDone, InqGattError
<1>2. /\ pc' = "done" /\ UNCHANGED <<req, inp>>
      /\ (FileOf(Entry))' = FileOf(Entry) /\ AtFile' = AtFile
      /\ IsWorld(world)' = IsWorld(world) /\ IsRequest(req)' = IsRequest(req)
    BY FileStays DEF GattsDone, InqGattError, Answer, Fixed
<1>3. CASE GattsDone
    <2>1. status' = "ok" /\ Out' = Out /\ Len(Out.gatt) = Out.ngatts
        BY <1>3 DEF GattsDone, Answer, Out
    <2>2. Gathered(Out, FileOf(Entry), inp, "done")
        BY <1>1, <2>1, NextPart
    <2>3. (Gathered(Out, FileOf(Entry), inp, pc))'
        BY <1>2, <2>1, <2>2
    <2> QED
        BY <1>1, <1>2, <2>1, <2>3 DEF InqInv, Ok, ErrorLeavesNothing
<1>4. CASE InqGattError
    <2>1. status' = "error" /\ gattFreed' = TRUE /\ Len(Out.gatt) < Out.ngatts
        BY <1>4 DEF InqGattError
    <2>2. Len(Out.gatt) \in Nat /\ Out.ngatts = NumOf(inp, "att", Len(FileOf(Entry).gatt))
        BY <1>1 DEF Gathered, Header, GattPart
    <2>3. FileOf(Entry).gatt # <<>>
        BY <2>1, <2>2, NumOfNone
    <2> QED
        BY <1>1, <1>2, <2>1, <2>3 DEF InqInv, Ok, ErrorLeavesNothing, Gathering
<1> QED
    BY <1>3, <1>4

LEMMA GrpStep ==
    ASSUME InqInv, InqGrp \/ GrpsDone \/ GrpsError
    PROVE  InqInv'
<1>1. /\ req.op = "inqGrps" /\ AtFile /\ GrpPart(Out, FileOf(Entry), "grps") /\ pc = "grps"
      /\ IsWorld(world) /\ IsRequest(req) /\ status # "error"
    BY DEF InqInv, InqGrp, GrpsDone, GrpsError
<1>2. /\ UNCHANGED <<req, inp>>
      /\ (FileOf(Entry))' = FileOf(Entry) /\ AtFile' = AtFile
      /\ IsWorld(world)' = IsWorld(world) /\ IsRequest(req)' = IsRequest(req)
    BY FileStays DEF InqGrp, GrpsDone, GrpsError, Continue, Fail, Answer, Fixed
<1>3. FileOf(Entry).grpName \in Seq(Names) /\ File = FileOf(Entry)
    BY <1>1, AtFileFile, FileIsFile, FileSeqs DEF AtFile
<1> DEFINE g == FileOf(Entry).grpName
<1>4. CASE InqGrp
    <2> DEFINE o == Append(Out, g[Len(Out) + 1])
    <2>1. pc' = "grps" /\ Out' = o /\ status' = status /\ Len(Out) < Len(g)
        BY <1>3, <1>4 DEF InqGrp, Continue, Out
    <2>2. GrpPart(o, FileOf(Entry), "grps")
        <3>1. Out \in Seq(Names) /\ \A k \in DOMAIN Out : Out[k] = g[k]
            BY <1>1 DEF GrpPart
        <3>2. g \in Seq(Names)
            BY <1>3
        <3> HIDE DEF g
        <3>3. /\ o \in Seq(Names) /\ Len(o) <= Len(g)
              /\ \A k \in DOMAIN o : o[k] = g[k]
            BY <2>1, <3>1, <3>2
        <3> QED
            BY <3>3 DEF GrpPart, g
    <2>3. (GrpPart(Out, FileOf(Entry), pc))'
        BY <1>2, <2>1, <2>2
    <2> QED
        BY <1>1, <1>2, <2>1, <2>3 DEF InqInv, Ok, ErrorLeavesNothing, Gathering
<1>5. CASE GrpsDone
    <2>1. pc' = "done" /\ Out' = Out /\ status' = "ok" /\ Len(Out) = Len(g)
        BY <1>3, <1>5 DEF GrpsDone, Answer, Out
    <2>2. GrpPart(Out, FileOf(Entry), "done")
        BY <1>1, <2>1 DEF GrpPart
    <2>3. (GrpPart(Out, FileOf(Entry), pc))'
        BY <1>2, <2>1, <2>2
    <2> QED
        BY <1>1, <1>2, <2>1, <2>3 DEF InqInv, Ok, ErrorLeavesNothing, Gathering
<1>6. CASE GrpsError
    <2>1. CASE Fail
        BY <2>1, FailStep
    <2>2. CASE Out = <<>> /\ Answer("error", <<Out>>)
        <3>1. pc' = "done" /\ status' = "error" /\ Out' = <<>>
            BY <2>2 DEF Answer, Out
        <3> QED
            BY <1>1, <1>2, <3>1 DEF InqInv, Ok, ErrorLeavesNothing, Gathering
    <2> QED
        BY <1>6, <2>1, <2>2 DEF GrpsError
<1> QED
    BY <1>4, <1>5, <1>6

LEMMA StartStep ==
    ASSUME InqInv, InqStart \/ GrpsStart \/ InqId \/ InqWithId \/ GetVars
    PROVE  InqInv'
<1> DEFINE f == FileOf(Entry)
<1>1. PICK next \in {"dim", "grps", "done"} : Started(next)
    BY DEF InqStart, GrpsStart, InqId, InqWithId, GetVars
<1>2. IsWorld(world) /\ IsRequest(req) /\ (status = "error" => pc = "done")
    BY DEF InqInv
<1>3. /\ AtFile' /\ pc = "request" /\ pc' = next /\ File' = f
      /\ UNCHANGED <<world, req, asked, gattFreed, status>>
      /\ InUse /\ Entry' = Entry
    BY <1>1, <1>2, StartedAtFile
<1>4. /\ f' = f /\ status # "error" /\ IsFile(f)
      /\ IsWorld(world)' = IsWorld(world) /\ IsRequest(req)' = IsRequest(req)
    BY <1>2, <1>3, FileIsFile DEF FileOf, IsWorld, IsRequest
<1>5. CASE InqStart
    <2> DEFINE o == [all |-> AllFlag(inp'),
                     unlimdimid |-> f.unlimdim, format |-> f.format,
                     ndims |-> NumOf(inp', "dim", OwnDims(f)), dim |-> <<>>,
                     nvars |-> NumOf(inp', "var", Len(f.var)), var |-> <<>>,
                     ngatts |-> NumOf(inp', "att", Len(f.gatt)), gatt |-> <<>>]
    <2>1. req.op = "inq" /\ pc' = "dim" /\ Out' = o
        <3>1. ncInqOut' = <<o>> /\ req.op = "inq" /\ pc' = "dim"
            BY <1>3, <1>5 DEF InqStart, Started, OwnDims
        <3> HIDE DEF o
        <3> QED
            BY <3>1 DEF Out
    <2>2. Gathered(o, f, inp', "dim")
        BY <1>4, StartGathers
    <2> HIDE DEF o
    <2>3. (Gathered(Out, FileOf(Entry), inp, pc))'
        BY <1>4, <2>1, <2>2
    <2> QED
        BY <1>2, <1>3, <1>4, <2>1, <2>3 DEF InqInv, Ok, ErrorLeavesNothing
<1>6. CASE GrpsStart
    <2>1. req.op = "inqGrps" /\ pc' = "grps" /\ Out' = <<>>
        BY <1>6 DEF GrpsStart, Started, Out
    <2>2. (GrpPart(Out, FileOf(Entry), pc))'
        BY <1>4, <2>1, FileSeqs DEF GrpPart
    <2> QED
        BY <1>2, <1>3, <1>4, <2>1, <2>2 DEF InqInv, Ok, ErrorLeavesNothing, Gathering
<1>7. CASE InqId \/ InqWithId \/ GetVars
    <2>1. req.op \notin {"inq", "inqGrps"} /\ pc' = "done"
        BY <1>7 DEF InqId, InqWithId, GetVars, Started
    <2> QED
        BY <1>2, <1>3, <1>4, <2>1 DEF InqInv, Ok, ErrorLeavesNothing, Gathering
<1> QED
    BY <1>5, <1>6, <1>7

LEMMA InqNext ==
    ASSUME IdInv, InqInv, [Next]_vars
    PROVE  InqInv'
<1>1. CASE InqStart \/ GrpsStart \/ InqId \/ InqWithId \/ GetVars
    BY <1>1, StartStep
<1>2. CASE InqDim \/ DimsDone \/ InqVar \/ InqVarAtt \/ VarAttsDone \/ VarsDone \/ InqGatt
    BY <1>2, GatherStep
<1>3. CASE GattsDone \/ InqGattError
    BY <1>3, GattEndStep
<1>4. CASE InqGrp \/ GrpsDone \/ GrpsError
    BY <1>4, GrpStep
<1>5. CASE Refused \/ InqError \/ AnswerLost
    BY <1>5, FailStep DEF Refused, InqError, AnswerLost
<1>6. CASE UseId
    <2>1. /\ pc' = "request" /\ status' = "ok" /\ IsWorld(world)' = IsWorld(world)
          /\ req.op = "inqId" /\ Ok("inqId")
        BY <1>6 DEF UseId, IsWorld, Ok
    <2>2. Out \in Nat
        <3>1. InUse /\ IsWorld(world) /\ Out \in ItemIdsOf(req, FileOf(Entry))
            BY <2>1 DEF IdInv
        <3> QED
            BY <3>1, FileIsFile, IdsLead
    <2>3. IsRequest(req)'
        BY <1>6, <2>2, UseIdIsRequest DEF InqInv
    <2> QED
        BY <2>1, <2>3 DEF InqInv, Ok, ErrorLeavesNothing, Gathering
<1>7. CASE Terminated \/ UNCHANGED vars
    <2>1. UNCHANGED vars
        BY <1>7 DEF Terminated
    <2>2. /\ UNCHANGED <<world, req, inp, host, pc, status, ncInqOut, gattFreed>>
          /\ Out' = Out
        BY <2>1 DEF vars, Out
    <2>3. /\ (FileOf(Entry))' = FileOf(Entry) /\ AtFile' = AtFile
          /\ IsWorld(world)' = IsWorld(world) /\ IsRequest(req)' = IsRequest(req)
        BY <2>2, FileStays
    <2>4. /\ (Gathered(Out, FileOf(Entry), inp, pc))' = Gathered(Out, FileOf(Entry), inp, pc)
          /\ (GrpPart(Out, FileOf(Entry), pc))' = GrpPart(Out, FileOf(Entry), pc)
        BY <2>2, <2>3
    <2>5. /\ (Ok("inq"))' = Ok("inq") /\ (Ok("inqGrps"))' = Ok("inqGrps")
          /\ ErrorLeavesNothing' = ErrorLeavesNothing
        BY <2>2, <2>3 DEF Ok, ErrorLeavesNothing
    <2> QED
        BY <2>2, <2>3, <2>4, <2>5 DEF InqInv
<1> QED
    BY <1>1, <1>2, <1>3, <1>4, <1>5, <1>6, <1>7 DEF Next, Handle
-----------------------------------------------------------------------------
(* What an answer has when it is whole *)

LEMMA WholeAtts ==
    ASSUME NEW v, NEW f, NEW k \in DOMAIN f.var, AttPart(v, f, k), IsFile(f),
           Len(v.att) = v.natts, v.natts = Len(f.var[k].att)
    PROVE  v.att = Atts(f.var[k].att)
<1>1. v.att \in Seq(AttRec) /\ \A j \in DOMAIN v.att : v.att[j] = AttOut(j - 1, f.var[k].att[j])
    BY DEF AttPart
<1>2. f.var[k].att \in Seq([name : Names, dataType : NcTypes, value : Seq(Values)])
    BY FileSeqs
<1>3. DOMAIN v.att = DOMAIN f.var[k].att
    <2> DEFINE a == v.att
               b == f.var[k].att
               B == [name : Names, dataType : NcTypes, value : Seq(Values)]
    <2>1. a \in Seq(AttRec) /\ b \in Seq(B) /\ Len(a) = Len(b)
        BY <1>1, <1>2
    <2> HIDE DEF a, b, B
    <2>2. DOMAIN a = DOMAIN b
        BY <2>1
    <2> QED
        BY <2>2 DEF a, b
<1>4. v.att = [j \in DOMAIN v.att |-> v.att[j]]
    <2> DEFINE a == v.att
    <2>1. a \in Seq(AttRec)
        BY <1>1
    <2> HIDE DEF a
    <2>2. a = [j \in DOMAIN a |-> a[j]]
        BY <2>1
    <2> QED
        BY <2>2 DEF a
<1> QED
    BY <1>1, <1>3, <1>4 DEF Atts, AttOut

\* An inquiry of everything.
LEMMA WholeAnswer ==
    ASSUME NEW o, NEW f, NEW r, IsFile(f), Gathered(o, f, r, "done"), AllFlag(r)
    PROVE  /\ o.dim = IF "dim" \in Types(r)
                      THEN [k \in 1 .. OwnDims(f) |->
                            [id |-> k - 1, name |-> f.dim[k].name, arrayLen |-> f.dim[k].arrayLen]]
                      ELSE <<>>
           /\ o.var = IF "var" \in Types(r)
                      THEN [k \in DOMAIN f.var |->
                            [id |-> k - 1, name |-> f.var[k].name, dataType |-> f.var[k].dataType,
                             dimId |-> f.var[k].dimId,
                             natts |-> Len(f.var[k].att), att |-> Atts(f.var[k].att)]]
                      ELSE <<>>
           /\ o.gatt = IF "att" \in Types(r) THEN Atts(f.gatt) ELSE <<>>
<1>1. /\ o.dim \in Seq(DimRecs(f)) /\ o.var \in Seq(VarRecs(f)) /\ o.gatt \in Seq(AttRec)
      /\ Len(o.dim) = NumOf(r, "dim", OwnDims(f)) /\ Len(o.var) = NumOf(r, "var", Len(f.var))
      /\ Len(o.gatt) = NumOf(r, "att", Len(f.gatt))
    BY DEF Gathered, Header, DimPart, VarPart, GattPart, Stage
<1>2. ASSUME NEW S, NEW T, NEW p \in Seq(S), NEW s \in Seq(T), NEW t,
             Len(p) = NumOf(r, t, Len(s))
      PROVE  /\ t \notin Types(r) => p = <<>>
             /\ t \in Types(r) => DOMAIN p = DOMAIN s
             /\ p = [k \in DOMAIN p |-> p[k]] /\ DOMAIN p \subseteq Nat \ {0}
    BY <1>2, SeqNumOf
<1>3. /\ "dim" \notin Types(r) => o.dim = <<>>
      /\ "dim" \in Types(r) => DOMAIN o.dim = 1 .. OwnDims(f)
      /\ o.dim = [k \in DOMAIN o.dim |-> o.dim[k]] /\ DOMAIN o.dim \subseteq Nat \ {0}
    <2>1. /\ "dim" \notin Types(r) => Len(o.dim) = 0
          /\ "dim" \in Types(r) => Len(o.dim) = OwnDims(f)
        BY <1>1, OwnNumOf
    <2> DEFINE S == DimRecs(f)
    <2>2. o.dim \in Seq(S)
        BY <1>1
    <2> HIDE DEF S
    <2> QED
        BY <2>1, <2>2
<1>4. /\ "var" \notin Types(r) => o.var = <<>>
      /\ "var" \in Types(r) => DOMAIN o.var = DOMAIN f.var
      /\ o.var = [k \in DOMAIN o.var |-> o.var[k]] /\ DOMAIN o.var \subseteq Nat \ {0}
    <2> DEFINE S == VarRecs(f)
               T == ToSet(f.var)
    <2>1. o.var \in Seq(S) /\ f.var \in Seq(T) /\ Len(o.var) = NumOf(r, "var", Len(f.var))
        BY <1>1, FileSeqs
    <2> HIDE DEF S, T
    <2> QED
        BY <1>2, <2>1
<1>5. /\ "att" \notin Types(r) => o.gatt = <<>>
      /\ "att" \in Types(r) => DOMAIN o.gatt = DOMAIN f.gatt
      /\ o.gatt = [k \in DOMAIN o.gatt |-> o.gatt[k]]
    <2> DEFINE T == [name : Names, dataType : NcTypes, value : Seq(Values)]
    <2>1. f.gatt \in Seq(T)
        BY FileSeqs
    <2> HIDE DEF T
    <2> QED
        BY <1>1, <1>2, <2>1
<1>6. ASSUME NEW k \in DOMAIN o.dim
      PROVE  o.dim[k] = [id |-> k - 1, name |-> f.dim[k].name, arrayLen |-> f.dim[k].arrayLen]
    <2>1. o.dim[k].id = k - 1
        BY DEF Gathered, DimPart, PickedDim, PickedOf
    <2>2. o.dim[k] \in DimRecs(f)
        BY <1>1, ElementIn
    <2>3. PICK id \in 0 .. Len(f.dim) - 1 : o.dim[k] = DimRec(f, id)
        BY <2>2 DEF DimRecs
    <2>4. id = k - 1 /\ id + 1 = k
        BY <2>1, <2>3, <1>3 DEF DimRec
    <2> QED
        BY <2>3, <2>4 DEF DimRec
<1>7. ASSUME NEW k \in DOMAIN o.var
      PROVE  o.var[k] = [id |-> k - 1, name |-> f.var[k].name, dataType |-> f.var[k].dataType,
                         dimId |-> f.var[k].dimId,
                         natts |-> Len(f.var[k].att), att |-> Atts(f.var[k].att)]
    <2>1. o.var[k].id = k - 1 /\ AttPart(o.var[k], f, k) /\ Len(o.var[k].att) = o.var[k].natts
        BY DEF Gathered, VarPart, Picked, PickedOf, Stage
    <2>2. o.var[k] \in VarRecs(f)
        BY <1>1, ElementIn
    <2>3. PICK id \in 0 .. Len(f.var) - 1, att \in Seq(AttRec) : o.var[k] = VarRec(f, id, att)
        BY <2>2 DEF VarRecs
    <2>4. id = k - 1 /\ id + 1 = k
        BY <2>1, <2>3, <1>4 DEF VarRec
    <2>5. k \in DOMAIN f.var
        BY <1>4
    <2>6. o.var[k].natts = Len(f.var[k].att)
        BY <2>3, <2>4 DEF VarRec
    <2>7. o.var[k].att = Atts(f.var[k].att)
        BY <2>1, <2>5, <2>6, WholeAtts
    <2>8. att = Atts(f.var[k].att)
        BY <2>3, <2>7 DEF VarRec
    <2> QED
        BY <2>3, <2>4, <2>8 DEF VarRec
<1>8. ASSUME NEW k \in DOMAIN o.gatt
      PROVE  o.gatt[k] = [id |-> k - 1, name |-> f.gatt[k].name, dataType |-> f.gatt[k].dataType,
                          value |-> f.gatt[k].value]
    <2>1. \E id \in {k - 1} : o.gatt[k] = AttOut(k - 1, f.gatt[id + 1])
        BY DEF Gathered, GattPart, Picked, PickedOf
    <2>2. k - 1 + 1 = k
        BY <1>1
    <2> QED
        BY <2>1, <2>2 DEF AttOut
<1>9. o.dim = IF "dim" \in Types(r)
              THEN [k \in 1 .. OwnDims(f) |->
                    [id |-> k - 1, name |-> f.dim[k].name, arrayLen |-> f.dim[k].arrayLen]]
              ELSE <<>>
    BY <1>3, <1>6
<1>10. o.var = IF "var" \in Types(r)
               THEN [k \in DOMAIN f.var |->
                     [id |-> k - 1, name |-> f.var[k].name, dataType |-> f.var[k].dataType,
                      dimId |-> f.var[k].dimId,
                      natts |-> Len(f.var[k].att), att |-> Atts(f.var[k].att)]]
               ELSE <<>>
    BY <1>4, <1>7
<1>11. o.gatt = IF "att" \in Types(r) THEN Atts(f.gatt) ELSE <<>>
    BY <1>5, <1>8 DEF Atts
<1> QED
    BY <1>9, <1>10, <1>11

LEMMA InqInvWhole ==
    ASSUME InqInv
    PROVE  InqWhole
<1>1. ASSUME Ok("inqGrps")
      PROVE  Out = FileOf(Entry).grpName
    <2> DEFINE g == FileOf(Entry).grpName
    <2>1. GrpPart(Out, FileOf(Entry), "done") /\ IsFile(FileOf(Entry))
        BY <1>1, FileIsFile DEF InqInv, AtFile, Ok
    <2>2. /\ Out \in Seq(Names) /\ Len(Out) = Len(g) /\ g \in Seq(Names)
          /\ \A k \in DOMAIN Out : Out[k] = g[k]
        BY <2>1, FileSeqs DEF GrpPart
    <2> HIDE DEF g
    <2>3. Out = g
        BY <2>2
    <2> QED
        BY <2>3 DEF g
<1>2. ASSUME Ok("inq"), Everything
      PROVE  /\ Gathered(Out, FileOf(Entry), inp, "done") /\ IsFile(FileOf(Entry))
             /\ AllFlag(inp) /\ Types(inp) = Wanted
    BY <1>2, FileIsFile, AskedOf DEF InqInv, AtFile, Ok
<1>3. ASSUME Ok("inq"), Everything, DimsFirst(FileOf(Entry)), "dim" \in Wanted
      PROVE  /\ {Out.dim[k].id : k \in DOMAIN Out.dim} = FileOf(Entry).own
             /\ \A k \in DOMAIN Out.dim :
                    FileOf(Entry).dimid[Out.dim[k].name] = Out.dim[k].id
    <2>1. PICK f : f = FileOf(Entry)
        OBVIOUS
    <2>2. /\ IsFile(f) /\ f.own = 0 .. OwnDims(f) - 1
          /\ Out.dim = [k \in 1 .. OwnDims(f) |->
                [id |-> k - 1, name |-> f.dim[k].name, arrayLen |-> f.dim[k].arrayLen]]
        <3>1. /\ Gathered(Out, f, inp, "done") /\ IsFile(f) /\ AllFlag(inp)
              /\ "dim" \in Types(inp) /\ DimsFirst(f)
            BY <1>2, <1>3, <2>1
        <3>2. Out.dim = [k \in 1 .. OwnDims(f) |->
                [id |-> k - 1, name |-> f.dim[k].name, arrayLen |-> f.dim[k].arrayLen]]
            BY <3>1, WholeAnswer
        <3> QED
            BY <3>1, <3>2 DEF DimsFirst, OwnDims
    <2>3. PICK n \in Nat : n = OwnDims(f)
        BY <2>2, OwnDimsInFile
    <2>4. /\ DOMAIN Out.dim = 1 .. n
          /\ \A k \in 1 .. n : Out.dim[k].id = k - 1 /\ Out.dim[k].name = f.dim[k].name
        BY <2>2, <2>3
    <2>5. \A k \in 1 .. n : k - 1 \in f.own /\ k - 1 + 1 = k
        BY <2>2, <2>3
    <2>6. \A id \in f.own : \E k \in 1 .. n : k = id + 1 /\ id = k - 1
        <3>1. \A id \in 0 .. n - 1 : id + 1 \in 1 .. n /\ id = id + 1 - 1
            BY <2>3
        <3>2. f.own = 0 .. n - 1
            BY <2>2, <2>3
        <3> SUFFICES ASSUME NEW id \in 0 .. n - 1
                     PROVE  \E k \in 1 .. n : k = id + 1 /\ id = k - 1
            BY <3>2
        <3> QED
            BY <3>1
    <2>7. \A k \in 1 .. n : f.dimid[f.dim[k].name] = k - 1
        <3> SUFFICES ASSUME NEW k \in 1 .. n PROVE f.dimid[f.dim[k].name] = k - 1
            OBVIOUS
        <3>1. PICK id \in f.own : id = k - 1 /\ id + 1 = k
            BY <2>5
        <3>2. f.dimid[f.dim[id + 1].name] = id
            BY <2>2 DEF IsFile
        <3> QED
            BY <3>1, <3>2
    <2>8. \A id \in f.own : \E k \in 1 .. n : id = Out.dim[k].id
        <3> SUFFICES ASSUME NEW id \in f.own PROVE \E k \in 1 .. n : id = Out.dim[k].id
            OBVIOUS
        <3>1. PICK k \in 1 .. n : k = id + 1 /\ id = k - 1
            BY <2>6
        <3> QED
            BY <2>4, <3>1
    <2>9. \A k \in 1 .. n : Out.dim[k].id \in f.own
        BY <2>4, <2>5
    <2>10. \A k \in 1 .. n : f.dimid[Out.dim[k].name] = Out.dim[k].id
        BY <2>4, <2>7
    <2>11. {Out.dim[k].id : k \in 1 .. n} = f.own
        BY <2>8, <2>9
    <2> QED
        BY <2>1, <2>4, <2>10, <2>11
<1> QED
    BY <1>1, <1>2, <1>3, WholeAnswer DEF InqWhole, OwnDims

LEMMA InqInvOne ==
    ASSUME InqInv
    PROVE  InqOne
<1> SUFFICES ASSUME Ok("inq"), ~Everything
             PROVE  LET f == FileOf(Entry)
                    IN  /\ IF Wanted = {"dim"} THEN IsDim(Out.dim, f) ELSE Out.dim = <<>>
                        /\ IF Wanted = {"var"} THEN IsItem(Out.var, f.var) ELSE Out.var = <<>>
                        /\ IF Wanted = {"att"} THEN IsItem(Out.gatt, f.gatt) ELSE Out.gatt = <<>>
    BY DEF InqOne
<1> DEFINE f == FileOf(Entry)
<1>1. /\ Gathered(Out, f, inp, "done") /\ IsFile(f) /\ IsRequest(req)
      /\ ~AllFlag(inp) /\ Types(inp) = Wanted
      /\ inp.name = req.name /\ inp.myid = req.myid
    BY FileIsFile, AskedOf DEF InqInv, AtFile, Ok
<1>2. Wanted \in SUBSET ParamTypes /\ ~(Cardinality(Wanted) > 1)
    BY <1>1 DEF Wanted, Everything, IsRequest
<1>3. \A t \in Wanted : Wanted = {t}
    BY <1>2, Cardinalities
<1> HIDE DEF f
<1>4. /\ Out.dim \in Seq(DimRecs(f)) /\ Out.var \in Seq(VarRecs(f)) /\ Out.gatt \in Seq(AttRec)
      /\ Len(Out.dim) = NumOf(inp, "dim", OwnDims(f)) /\ Len(Out.var) = NumOf(inp, "var", Len(f.var))
      /\ Len(Out.gatt) = NumOf(inp, "att", Len(f.gatt))
    BY <1>1 DEF Gathered, Header, DimPart, VarPart, GattPart, Stage
<1>5. ASSUME NEW S, NEW T, NEW p \in Seq(S), NEW s \in Seq(T), NEW t,
             Len(p) = NumOf(inp, t, Len(s))
      PROVE  /\ Wanted # {t} => p = <<>>
             /\ s = <<>> => p = <<>>
             /\ Wanted = {t} /\ s # <<>> => Len(p) = 1 /\ 1 \in DOMAIN p
    <2>1. /\ Wanted # {t} => Len(p) = 0
          /\ s = <<>> => Len(p) = 0
          /\ Wanted = {t} /\ s # <<>> => Len(p) = 1
        BY <1>1, <1>3, <1>5, SeqNumOf
    <2> QED
        BY <2>1
\* What an item may be.
<1>6. ASSUME NEW T, NEW s \in Seq(T), NEW id \in Picked(inp, s, 0)
      PROVE  /\ id \in 0 .. Len(s) - 1 /\ id + 1 \in DOMAIN s
             /\ IF req.name # NoName THEN s[id + 1].name = req.name ELSE id + 1 = req.myid + 1
    <2>1. CASE req.name # NoName
        BY <1>1, <1>6, <2>1 DEF Picked, PickedOf, IdsOf
    <2>2. CASE req.name = NoName
        BY <1>1, <1>6, <2>2 DEF Picked, PickedOf
    <2> QED
        BY <2>1, <2>2
<1>7. ASSUME NEW T, NEW s \in Seq(T), NEW p, Len(p) = 1, NEW id \in Picked(inp, s, 0),
             p[1].name = s[id + 1].name
      PROVE  IsItem(p, s)
    BY <1>6, <1>7 DEF IsItem
<1>8. IF Wanted = {"dim"} THEN IsDim(Out.dim, f) ELSE Out.dim = <<>>
    <2>1. CASE Wanted = {"dim"} /\ f.own # {}
        <3>1. Len(Out.dim) = 1 /\ 1 \in DOMAIN Out.dim
            <4>1. NumOf(inp, "dim", OwnDims(f)) = 1
                BY <1>1, <2>1, OwnNumOf
            <4>2. Out.dim \in Seq(DimRecs(f)) /\ Len(Out.dim) = 1
                BY <1>4, <4>1
            <4> QED
                BY <4>2
        <3>2. Out.dim[1].id \in PickedDim(inp, f, 0) /\ Out.dim[1] \in DimRecs(f)
            BY <1>1, <1>4, <3>1, ElementIn DEF Gathered, DimPart
        <3>3. PICK id \in 0 .. Len(f.dim) - 1 : Out.dim[1] = DimRec(f, id)
            BY <3>2 DEF DimRecs
        <3>4. /\ Out.dim[1].id = id /\ Out.dim[1].name = f.dim[id + 1].name
              /\ Out.dim[1].arrayLen = f.dim[id + 1].arrayLen
            BY <3>3 DEF DimRec
        <3>5. id + 1 \in DOMAIN f.dim
            <4> DEFINE R == [name : Names, arrayLen : Nat]
                       d == f.dim
            <4>1. d \in Seq(R) /\ id \in 0 .. Len(d) - 1
                BY <1>1, <3>3, FileSeqs
            <4> HIDE DEF R, d
            <4>2. id + 1 \in DOMAIN d
                BY <4>1
            <4> QED
                BY <4>2 DEF d
        <3>6. IF req.name # NoName
              THEN req.name \in DOMAIN f.dimid /\ id = f.dimid[req.name]
              ELSE id = req.myid
            <4>1. CASE req.name # NoName
                <5>1. id \in DimIdsOf(f, req.name)
                    BY <1>1, <3>2, <3>4, <4>1 DEF PickedDim, PickedOf
                <5> QED
                    BY <4>1, <5>1 DEF DimIdsOf
            <4>2. CASE req.name = NoName
                BY <1>1, <3>2, <3>4, <4>2 DEF PickedDim, PickedOf
            <4> QED
                BY <4>1, <4>2
        <3> QED
            BY <2>1, <3>1, <3>4, <3>5, <3>6 DEF IsDim
    <2>2. CASE ~(Wanted = {"dim"} /\ f.own # {})
        <3>1. Len(Out.dim) = 0
            BY <1>1, <1>3, <1>4, <2>2, OwnNumOf
        <3>2. Out.dim = <<>>
            <4> DEFINE S == DimRecs(f)
            <4>1. Out.dim \in Seq(S)
                BY <1>4
            <4> HIDE DEF S
            <4> QED
                BY <3>1, <4>1
        <3> QED
            BY <2>2, <3>2 DEF IsDim
    <2> QED
        BY <2>1, <2>2
<1>9. IF Wanted = {"var"} THEN IsItem(Out.var, f.var) ELSE Out.var = <<>>
    <2>1. f.var \in Seq(ToSet(f.var))
        BY <1>1, FileSeqs
    <2>2. CASE Wanted = {"var"} /\ f.var # <<>>
        <3>1. Len(Out.var) = 1 /\ 1 \in DOMAIN Out.var
            <4>1. NumOf(inp, "var", Len(f.var)) = 1
                BY <1>1, <2>1, <2>2, SeqNumOf
            <4>2. Out.var \in Seq(VarRecs(f)) /\ Len(Out.var) = 1
                BY <1>4, <4>1
            <4> QED
                BY <4>2
        <3>2. Out.var[1].id \in Picked(inp, f.var, 0) /\ Out.var[1] \in VarRecs(f)
            BY <1>1, <1>4, <3>1, ElementIn DEF Gathered, VarPart
        <3>3. Out.var[1].name = f.var[Out.var[1].id + 1].name
            BY <3>2 DEF VarRecs, VarRec
        <3> QED
            BY <1>7, <2>1, <2>2, <3>1, <3>2, <3>3
    <2>3. CASE ~(Wanted = {"var"} /\ f.var # <<>>)
        BY <1>4, <1>5, <2>1, <2>3 DEF IsItem
    <2> QED
        BY <2>2, <2>3
<1>10. IF Wanted = {"att"} THEN IsItem(Out.gatt, f.gatt) ELSE Out.gatt = <<>>
    <2>1. f.gatt \in Seq([name : Names, dataType : NcTypes, value : Seq(Values)])
        BY <1>1, FileSeqs
    <2>2. CASE Wanted = {"att"} /\ f.gatt # <<>>
        <3>1. Len(Out.gatt) = 1 /\ 1 \in DOMAIN Out.gatt
            <4>1. NumOf(inp, "att", Len(f.gatt)) = 1
                BY <1>1, <2>1, <2>2, SeqNumOf
            <4>2. Out.gatt \in Seq(AttRec) /\ Len(Out.gatt) = 1
                BY <1>4, <4>1
            <4> QED
                BY <4>2
        <3>2. PICK id \in Picked(inp, f.gatt, 0) : Out.gatt[1] = AttOut(0, f.gatt[id + 1])
            BY <1>1, <3>1 DEF Gathered, GattPart
        <3>3. Out.gatt[1].name = f.gatt[id + 1].name
            BY <3>2 DEF AttOut
        <3> QED
            BY <1>7, <2>1, <2>2, <3>1, <3>2, <3>3
    <2>3. CASE ~(Wanted = {"att"} /\ f.gatt # <<>>)
        <3> DEFINE T == [name : Names, dataType : NcTypes, value : Seq(Values)]
        <3>1. /\ Wanted # {"att"} => Out.gatt = <<>>
              /\ f.gatt = <<>> => Out.gatt = <<>>
            <4>1. f.gatt \in Seq(T) /\ Len(Out.gatt) = NumOf(inp, "att", Len(f.gatt))
                BY <1>4, <2>1
            <4> HIDE DEF T
            <4> QED
                BY <1>4, <1>5, <4>1
        <3> QED
            BY <2>3, <3>1 DEF IsItem
    <2> QED
        BY <2>2, <2>3
<1> QED
    BY <1>8, <1>9, <1>10 DEF f

\* For any files, hosts and requests, and whichever calls fail: an inquiry that
\* is answered (ncInq, rsNcInqGrps) has all that was asked for of the file the
\* ncid stands for, or the one item it was about, and after an error nothing is
\* left to use.
THEOREM InquiriesAreExact == Spec => []InqExact
<1>1. Init => IdInv /\ InqInv
    BY InqAssumption DEF Init, IdInv, InqInv, Ok, ErrorLeavesNothing, Gathering
<1>2. IdInv /\ InqInv /\ [Next]_vars => IdInv' /\ InqInv'
    BY IdNext, InqNext
<1>3. InqInv => InqExact
    BY InqInvWhole, InqInvOne DEF InqInv, InqExact
<1> QED
    BY <1>1, <1>2, <1>3, PTL DEF Spec
-----------------------------------------------------------------------------
(* Rules *)

\* What msiNcInq has given has every variable of the file f.
HasVars(o, f) ==
    /\ IsFile(f)
    /\ o.var = [k \in DOMAIN f.var |->
        [id |-> k - 1, name |-> f.var[k].name, dataType |-> f.var[k].dataType,
         dimId |-> f.var[k].dimId, natts |-> Len(f.var[k].att), att |-> Atts(f.var[k].att)]]

\* The variables of the rule come from the files they are said to be of.
NcidOk == IsSet("ncid") => Ncid \in Int

InqFrom ==
    /\ IsSet("inq") => files.inq # None
    /\ files.inq # None => HasVars(O, FileOf(files.inq[1]))

IdFrom ==
    /\ IsSet("id") => files.id # None
    /\ files.id # None =>
        /\ IsFile(FileOf(files.id[1]))
        /\ param.id.val[1] \in ItemIdsOf(files.id[1], FileOf(files.id[1]))

CallIs ==
    /\ client = "program" => call = None
    /\ client = "rule" /\ pc = "idle" => asked = NoName /\ status = "ok"
    /\ call # None =>
        /\ call[1].ms = "msiNcInq" => req.op = "inq" /\ req.paramType = {}
        /\ call[1].ms = "msiNcInqId" => req.op = "inqId"

MsInv ==
    /\ DOMAIN param = Params
    /\ DOMAIN files = {"inq", "grps", "id", "item", "vars"}
    /\ NcidOk /\ InqFrom /\ IdFrom /\ CallIs

RuleInv == IdInv /\ InqInv /\ MsInv
-----------------------------------------------------------------------------
(* What steps leave *)

\* Files stay where they are.
LEMMA FromKept ==
    ASSUME MsInv, DOMAIN param' = Params, UNCHANGED files, world'.lib = world.lib,
           param'["inq"] = param["inq"], param'["id"] = param["id"], NcidOk', CallIs'
    PROVE  MsInv'
<1>1. \A d : (FileOf(d))' = FileOf(d)
    BY DEF FileOf
<1>2. InqFrom'
    <2>1. O' = O /\ IsSet("inq")' = IsSet("inq")
        BY DEF O, IsSet, Unset
    <2>2. (FileOf(files.inq[1]))' = FileOf(files.inq[1])
        BY DEF FileOf
    <2>3. HasVars(O, FileOf(files.inq[1]))' = HasVars(O, FileOf(files.inq[1]))
        BY <2>1, <2>2 DEF HasVars
    <2> QED
        BY <2>1, <2>3 DEF MsInv, InqFrom
<1>3. IdFrom'
    <2>1. (FileOf(files.id[1]))' = FileOf(files.id[1]) /\ IsSet("id")' = IsSet("id")
        BY DEF FileOf, IsSet, Unset
    <2> QED
        BY <2>1 DEF MsInv, IdFrom, ItemIdsOf, DimIdsOf, Items, IdsOf
<1> QED
    BY <1>2, <1>3 DEF MsInv

\* A microservice that sets only variables that hold no inquiry, and calls no
\* handler.
LEMMA LocalStep ==
    ASSUME RuleInv, NEW q, NEW r, NEW ps, Returns(q, r, ps), NoHandler, UNCHANGED files,
           DOMAIN ps \intersect {"ncid", "inq", "id"} = {}
    PROVE  RuleInv'
<1>1. IdInv' /\ InqInv'
    BY IdNext, InqNext DEF RuleInv, NoHandler
<1>2. /\ DOMAIN param' = Params
      /\ param'["inq"] = param["inq"] /\ param'["id"] = param["id"] /\ param'["ncid"] = param["ncid"]
    BY DEF Returns, Params
<1>3. NcidOk'
    BY <1>2 DEF RuleInv, MsInv, NcidOk, IsSet, Ncid, Unset
<1>4. UNCHANGED <<world, client, pc, asked, status, call, req>>
    BY DEF Returns, NoHandler, vars
<1>5. CallIs'
    BY <1>4 DEF RuleInv, MsInv, CallIs
<1>6. MsInv'
    BY <1>2, <1>3, <1>4, <1>5, FromKept DEF RuleInv
<1> QED
    BY <1>1, <1>6 DEF RuleInv
-----------------------------------------------------------------------------
(* Entries that come and go *)

\* Between two calls nothing is asked.
LEMMA IdleStep ==
    ASSUME RuleInv, client = "rule", pc = "idle", IsWorld(world)',
           UNCHANGED <<req, asked, pc, inp, host, ncInqOut, gattFreed, status>>
    PROVE  IdInv' /\ InqInv'
<1>1. asked = NoName /\ status = "ok" /\ IsRequest(req)
    BY DEF RuleInv, MsInv, CallIs, InqInv
<1>2. IsRequest(req)'
    BY <1>1 DEF IsRequest
<1>3. IdInv'
    BY <1>1, <1>2 DEF IdInv, Ok
<1>4. InqInv'
    BY <1>1, <1>2 DEF InqInv, Ok, ErrorLeavesNothing, Gathering
<1> QED
    BY <1>3, <1>4

LEMMA EnterStep ==
    ASSUME RuleInv, client = "rule", pc = "idle", NEW h \in Hosts, NEW n \in DOMAIN world.lib[h],
           Enter(h, n)
    PROVE  RuleInv'
<1>1. IsWorld(world)
    BY DEF RuleInv, InqInv
<1>2. PICK x \in Slots :
        /\ world' = [world EXCEPT !.l1desc[x] = [inuse |-> TRUE, host |-> h, ncid |-> n]]
        /\ Returns(NoQuery, "ok", [ncid |-> Int_(x)])
        /\ UNCHANGED <<req, asked, pc, inp, host, ncInqOut, gattFreed, status>>
        /\ UNCHANGED <<files, added>>
    BY DEF Enter
<1>3. world'.lib = world.lib /\ IsWorld(world)'
    <2> DEFINE T == [inuse : BOOLEAN, host : Hosts, ncid : Nat]
               e == [inuse |-> TRUE, host |-> h, ncid |-> n]
    <2>1. /\ world \in [l1desc : [Slots -> T], lib : {world.lib}]
          /\ n \in Nat
        BY <1>1 DEF IsWorld, Slots
    <2>2. e \in T
        BY <2>1
    <2>3. /\ world'.l1desc = [world.l1desc EXCEPT ![x] = e] /\ world'.lib = world.lib
          /\ world' = [l1desc |-> world'.l1desc, lib |-> world'.lib]
        BY <1>2, <2>1
    <2>4. world'.l1desc \in [Slots -> T]
        <3> HIDE DEF T, e
        <3> QED
            BY <2>1, <2>2, <2>3
    <2>5. world' \in [l1desc : [Slots -> T], lib : {world'.lib}]
        <3> HIDE DEF T
        <3> QED
            BY <2>3, <2>4
    <2>6. \A y \in Slots : world'.l1desc[y].inuse =>
            world'.l1desc[y].ncid \in DOMAIN world'.lib[world'.l1desc[y].host]
        <3> SUFFICES ASSUME NEW y \in Slots, world'.l1desc[y].inuse
                     PROVE  world'.l1desc[y].ncid \in DOMAIN world'.lib[world'.l1desc[y].host]
            OBVIOUS
        <3>1. CASE y = x
            <4>1. world'.l1desc[y] = e
                BY <2>1, <2>3, <3>1
            <4> QED
                BY <4>1, <2>3
        <3>2. CASE y # x
            <4>1. world'.l1desc[y] = world.l1desc[y]
                BY <2>1, <2>3, <3>2
            <4> QED
                BY <1>1, <2>3, <4>1 DEF IsWorld, Slots
        <3> QED
            BY <3>1, <3>2
    <2> QED
        BY <1>1, <2>3, <2>5, <2>6 DEF IsWorld, Slots
<1>4. IdInv' /\ InqInv'
    BY <1>2, <1>3, IdleStep
<1>5. /\ DOMAIN param' = Params /\ UNCHANGED <<client, call>>
      /\ param'["inq"] = param["inq"] /\ param'["id"] = param["id"] /\ param'["ncid"] = Int_(x)
    BY <1>2 DEF Returns, Params
<1>6. NcidOk'
    BY <1>5 DEF NcidOk, Ncid, Int_, Of, Slots
<1>7. CallIs'
    BY <1>2, <1>5 DEF RuleInv, MsInv, CallIs
<1>8. MsInv'
    BY <1>2, <1>3, <1>5, <1>6, <1>7, FromKept DEF RuleInv
<1> QED
    BY <1>4, <1>8 DEF RuleInv

LEMMA OpenStep ==
    ASSUME RuleInv, msiNcOpen \/ msiNcCreate \/ msiNcOpenGroup
    PROVE  RuleInv'
<1>1. client = "rule" /\ pc = "idle" /\ IsWorld(world)
    BY DEF msiNcOpen, msiNcCreate, msiNcOpenGroup, Uses, RuleInv, InqInv
<1>2. CASE msiNcOpen \/ msiNcCreate
    BY <1>1, <1>2, EnterStep DEF msiNcOpen, msiNcCreate
<1>3. CASE msiNcOpenGroup
    <2> DEFINE d == Where(Ncid)
    <2>1. PICK k \in DOMAIN FileOf(d).grpName : Enter(d.host, FileOf(d).grpNcid[k])
        BY <1>3 DEF msiNcOpenGroup
    <2>2. Ncid \in Slots /\ world.l1desc[Ncid].inuse
        BY <1>3 DEF msiNcOpenGroup, InUseAt
    <2>3. d.host \in Hosts /\ d.ncid \in DOMAIN world.lib[d.host]
        BY <1>1, <2>2 DEF IsWorld, Where, Slots
    <2>4. /\ IsFile(world.lib[d.host][d.ncid])
          /\ ToSet(world.lib[d.host][d.ncid].grpNcid) \subseteq DOMAIN world.lib[d.host]
        BY <1>1, <2>3 DEF IsWorld
    <2>5. FileOf(d).grpNcid[k] \in ToSet(FileOf(d).grpNcid)
        <3>1. k \in DOMAIN FileOf(d).grpNcid
            <4> DEFINE a == FileOf(d).grpName
                       b == FileOf(d).grpNcid
            <4>1. a \in Seq(Names) /\ b \in Seq(Nat) /\ Len(a) = Len(b)
                BY <2>4 DEF FileOf, IsFile
            <4>2. k \in DOMAIN a
                OBVIOUS
            <4> HIDE DEF a, b
            <4>3. k \in DOMAIN b
                BY <4>1, <4>2
            <4> QED
                BY <4>3 DEF b
        <3> QED
            BY <3>1 DEF ToSet
    <2>6. FileOf(d).grpNcid[k] \in DOMAIN world.lib[d.host]
        BY <2>4, <2>5 DEF FileOf
    <2> HIDE DEF d
    <2> QED
        BY <1>1, <2>1, <2>3, <2>6, EnterStep
<1> QED
    BY <1>2, <1>3

LEMMA CloseStep ==
    ASSUME RuleInv, msiNcClose
    PROVE  RuleInv'
<1>1. client = "rule" /\ pc = "idle" /\ IsWorld(world) /\ Ncid \in Slots
    BY DEF msiNcClose, Uses, InUseAt, RuleInv, InqInv
<1>2. PICK r \in {"ok", "error"} : Returns(NoQuery, r, <<>>)
    BY DEF msiNcClose
<1>3. /\ world' = [world EXCEPT !.l1desc[Ncid].inuse = FALSE]
      /\ UNCHANGED <<req, asked, pc, inp, host, ncInqOut, gattFreed, status>>
      /\ UNCHANGED <<files, added>>
    BY DEF msiNcClose
<1>4. world'.lib = world.lib /\ IsWorld(world)'
    <2> DEFINE T == [inuse : BOOLEAN, host : Hosts, ncid : Nat]
               e == [world.l1desc[Ncid] EXCEPT !.inuse = FALSE]
    <2>1. /\ world \in [l1desc : [Slots -> T], lib : {world.lib}]
        BY <1>1 DEF IsWorld, Slots
    <2>2. e \in T /\ e.inuse = FALSE
        BY <1>1, <2>1
    <2>3. /\ world'.l1desc = [world.l1desc EXCEPT ![Ncid] = e] /\ world'.lib = world.lib
          /\ world' = [l1desc |-> world'.l1desc, lib |-> world'.lib]
        BY <1>3, <2>1
    <2>4. world'.l1desc \in [Slots -> T]
        <3> HIDE DEF T, e
        <3> QED
            BY <1>1, <2>1, <2>2, <2>3
    <2>5. world' \in [l1desc : [Slots -> T], lib : {world'.lib}]
        <3> HIDE DEF T
        <3> QED
            BY <2>3, <2>4
    <2>6. \A y \in Slots : world'.l1desc[y].inuse =>
            world'.l1desc[y].ncid \in DOMAIN world'.lib[world'.l1desc[y].host]
        <3> SUFFICES ASSUME NEW y \in Slots, world'.l1desc[y].inuse
                     PROVE  world'.l1desc[y].ncid \in DOMAIN world'.lib[world'.l1desc[y].host]
            OBVIOUS
        <3>1. y # Ncid
            BY <1>1, <2>1, <2>2, <2>3
        <3>2. world'.l1desc[y] = world.l1desc[y]
            BY <2>1, <2>3, <3>1
        <3> QED
            BY <1>1, <2>3, <3>2 DEF IsWorld, Slots
    <2> QED
        BY <1>1, <2>3, <2>5, <2>6 DEF IsWorld, Slots
<1>5. IdInv' /\ InqInv'
    BY <1>1, <1>3, <1>4, IdleStep
<1>6. /\ DOMAIN param' = Params /\ UNCHANGED <<client, call>>
      /\ param'["inq"] = param["inq"] /\ param'["id"] = param["id"] /\ param'["ncid"] = param["ncid"]
    BY <1>2 DEF Returns, Params
<1>7. NcidOk'
    BY <1>6 DEF RuleInv, MsInv, NcidOk, IsSet, Ncid, Unset
<1>8. CallIs'
    BY <1>3, <1>6 DEF RuleInv, MsInv, CallIs
<1>9. MsInv'
    BY <1>3, <1>4, <1>6, <1>7, <1>8, FromKept DEF RuleInv
<1> QED
    BY <1>5, <1>9 DEF RuleInv
-----------------------------------------------------------------------------
(* Microservices that look into a variable *)

\* They set no other variable than their output.
IsAnswers(answers) == \A a \in answers : DOMAIN a.ps \subseteq {"out"}

LEMMA AnswerSets ==
    /\ IsAnswers(Missing)
    /\ \A outs : IsAnswers(Given(outs))
    /\ \A outs : IsAnswers(Astray(outs))
<1>1. DOMAIN <<>> = {}
    OBVIOUS
<1>2. IsAnswers(Missing) /\ \A outs : IsAnswers(Given(outs))
    BY <1>1 DEF IsAnswers, Missing, Given
<1> QED
    BY <1>1, <1>2 DEF IsAnswers, Astray

LEMMA AnswersOfFile ==
    ASSUME NEW inx, NEW name, NEW key
    PROVE  /\ IsAnswers(msiNcGetDimNameInInqOut(inx, name))
           /\ IsAnswers(msiNcGetDimLenInInqOut(inx, name))
           /\ IsAnswers(msiNcGetAttNameInInqOut(inx, name))
           /\ IsAnswers(AttByInx(inx, name)) /\ IsAnswers(AttByName(key, name))
           /\ IsAnswers(msiNcGetVarIdInInqOut(inx, name))
           /\ IsAnswers(msiNcGetVarNameInInqOut(inx)) /\ IsAnswers(msiNcGetVarTypeInInqOut(name))
           /\ IsAnswers(msiNcGetNdimsInInqOut(name)) /\ IsAnswers(msiNcGetNattsInInqOut(name))
           /\ IsAnswers(msiNcGetNvarsInInqOut) /\ IsAnswers(msiNcGetFormatInInqOut)
           /\ IsAnswers(msiNcGetNGrpsInInqOut) /\ IsAnswers(msiNcGetGrpInInqOut(inx))
<1>1. \A what : IsAnswers(DimInInqOut(inx, name, what))
    BY AnswerSets DEF DimInInqOut
<1>2. \A a : IsAnswers(AttValStr(a))
    BY AnswerSets DEF AttValStr
<1>3. \A as : IsAnswers(AttVals(as))
    BY <1>2, AnswerSets DEF AttVals, IsAnswers
<1>4. IsAnswers(AttByInx(inx, name)) /\ IsAnswers(AttByName(key, name))
    BY <1>3, AnswerSets DEF AttByInx, AttByName
<1>5. /\ IsAnswers(msiNcGetDimNameInInqOut(inx, name))
      /\ IsAnswers(msiNcGetDimLenInInqOut(inx, name))
    BY <1>1, AnswerSets DEF msiNcGetDimNameInInqOut, msiNcGetDimLenInInqOut
<1> QED
    BY <1>4, <1>5, AnswerSets DEF msiNcGetAttNameInInqOut, msiNcGetVarIdInInqOut,
        msiNcGetVarNameInInqOut, msiNcGetVarTypeInInqOut, msiNcGetNdimsInInqOut,
        msiNcGetNattsInInqOut, msiNcGetNvarsInInqOut, msiNcGetFormatInInqOut,
        msiNcGetNGrpsInInqOut, msiNcGetGrpInInqOut

LEMMA AnswersOfArray ==
    ASSUME NEW x, NEW inx
    PROVE  /\ IsAnswers(msiNcGetDataType(x)) /\ IsAnswers(msiNcGetArrayLen(x))
           /\ IsAnswers(msiNcGetElementInArray(x, inx)) /\ IsAnswers(msiNcGetNumDim)
           /\ IsAnswers(msiNcVarStat(x))
BY AnswerSets DEF msiNcGetDataType, msiNcGetArrayLen, msiNcGetElementInArray, msiNcGetNumDim,
    msiNcVarStat

LEMMA LooksStep ==
    ASSUME RuleInv, NEW ms, NEW x, NEW inx, NEW name, NEW key, NEW answers, IsAnswers(answers),
           Looks(ms, x, inx, name, key, answers)
    PROVE  RuleInv'
<1>1. PICK a \in answers : Returns(Query(ms, inx, name, key), a.ret, a.ps)
    BY DEF Looks
<1>2. DOMAIN a.ps \intersect {"ncid", "inq", "id"} = {} /\ NoHandler /\ UNCHANGED files
    BY DEF Looks, Locally, IsAnswers
<1> QED
    BY <1>1, <1>2, LocalStep

LEMMA LookStep ==
    ASSUME RuleInv, InInqOut \/ InArray \/ msiNcIntDataTypeToStr \/ msiFloatToString
    PROVE  RuleInv'
<1>1. CASE InInqOut
    BY <1>1, AnswersOfFile, LooksStep DEF InInqOut
<1>2. CASE InArray
    BY <1>2, AnswersOfArray, LooksStep DEF InArray
<1>3. CASE msiNcIntDataTypeToStr \/ msiFloatToString
    BY <1>3, AnswerSets, LooksStep DEF msiNcIntDataTypeToStr, msiFloatToString
<1> QED
    BY <1>1, <1>2, <1>3
-----------------------------------------------------------------------------
(* Microservices that call a handler *)

LEMMA CallStep ==
    ASSUME RuleInv, client = "rule", NEW q, NEW r, IsRequest(r), NEW name, NEW c,
           Calls(q, r, name, c),
           c.ms = "msiNcInq" => r.op = "inq" /\ r.paramType = {},
           c.ms = "msiNcInqId" => r.op = "inqId",
           status = "ok",
           name # NoName =>
            /\ r.ncid \in Slots /\ world.l1desc[r.ncid].inuse
            /\ r.op = "inqWithId" \/ (r.op = "getVars" /\ r.paramType = {"var"})
            /\ Items(r, FileOf(world.l1desc[r.ncid]))[r.myid + 1].name = name
            /\ FoundBy(r, FileOf(world.l1desc[r.ncid]), name)
    PROVE  RuleInv'
<1>1. /\ req' = r /\ asked' = name /\ pc' = "request" /\ call' = <<c>> /\ IsWorld(world)
      /\ UNCHANGED <<world, host, ncInqOut, gattFreed, status, client, rule, param, ret, files>>
    BY DEF Calls, RuleInv, InqInv
<1>2. IsRequest(req)' /\ IsWorld(world)'
    BY <1>1 DEF IsRequest, IsWorld
<1>3. Entry' = world.l1desc[r.ncid] /\ InUse' = (r.ncid \in Slots /\ world.l1desc[r.ncid].inuse)
    BY <1>1 DEF Entry, InUse, Slots
<1>4. /\ Led' = Items(r, FileOf(world.l1desc[r.ncid]))[r.myid + 1]
      /\ FoundBy(req, FileOf(Entry), asked)' = FoundBy(r, FileOf(world.l1desc[r.ncid]), name)
    BY <1>1, <1>3 DEF Led, Items, FileOf, FoundBy
<1>5. IdInv'
    BY <1>1, <1>2, <1>3, <1>4 DEF IdInv, Ok
<1>6. InqInv'
    BY <1>1, <1>2 DEF InqInv, Ok, ErrorLeavesNothing, Gathering
<1>7. CallIs'
    BY <1>1 DEF CallIs
<1>8. MsInv'
    <2>1. NcidOk'
        BY <1>1 DEF RuleInv, MsInv, NcidOk, IsSet, Ncid, Unset
    <2>2. DOMAIN param' = Params
        BY <1>1 DEF RuleInv, MsInv
    <2> QED
        BY <1>1, <1>7, <2>1, <2>2, FromKept DEF RuleInv
<1> QED
    BY <1>5, <1>6, <1>8 DEF RuleInv

LEMMA Requested ==
    ASSUME RuleInv, client = "rule", pc = "idle", IsSet("ncid")
    PROVE  /\ status = "ok"
           /\ \A op \in Ops, types \in SUBSET ParamTypes, id \in Nat, name \in Names \union {NoName} :
                LET r == Request(op, types, id, name)
                IN  /\ IsRequest(r) /\ r.op = op /\ r.ncid = Ncid
                    /\ r.paramType = types /\ r.myid = id
<1>1. status = "ok" /\ Ncid \in Int
    BY DEF RuleInv, MsInv, CallIs, NcidOk
<1> QED
    BY <1>1 DEF IsRequest, Request

LEMMA CallInqStep ==
    ASSUME RuleInv, msiNcInq \/ msiNcInqGrps
    PROVE  RuleInv'
<1> DEFINE r(op) == Request(op, {}, 0, NoName)
<1>1. client = "rule" /\ pc = "idle" /\ IsSet("ncid")
    BY DEF msiNcInq, msiNcInqGrps, Uses
<1>2. /\ IsRequest(r("inq")) /\ r("inq").op = "inq" /\ r("inq").paramType = {}
      /\ IsRequest(r("inqGrps")) /\ status = "ok"
    BY <1>1, Requested DEF Ops
<1>3. \/ Calls(NoQuery, r("inq"), NoName, [ms |-> "msiNcInq"])
      \/ Calls(NoQuery, r("inqGrps"), NoName, [ms |-> "msiNcInqGrps"])
    BY DEF msiNcInq, msiNcInqGrps
<1> HIDE DEF r
<1>4. CASE Calls(NoQuery, r("inq"), NoName, [ms |-> "msiNcInq"])
    BY <1>1, <1>2, <1>4, CallStep
<1>5. CASE Calls(NoQuery, r("inqGrps"), NoName, [ms |-> "msiNcInqGrps"])
    BY <1>1, <1>2, <1>5, CallStep
<1> QED
    BY <1>3, <1>4, <1>5

LEMMA InqIdStep ==
    ASSUME RuleInv, NEW t \in ParamTypes, NEW n \in Names, msiNcInqId(t, n)
    PROVE  RuleInv'
<1> DEFINE r == Request("inqId", {t}, 0, n)
<1>1. client = "rule" /\ pc = "idle" /\ IsSet("ncid")
    BY DEF msiNcInqId, Uses
<1>2. IsRequest(r) /\ r.op = "inqId" /\ status = "ok"
    BY <1>1, Requested DEF Ops
<1>3. Calls(NoQuery, r, NoName, [ms |-> "msiNcInqId"])
    BY DEF msiNcInqId
<1> HIDE DEF r
<1> QED
    BY <1>1, <1>2, <1>3, CallStep

\* The id of the rule goes with the name it was given for, if the ncid still
\* stands for that file.
LEMMA InqWithIdStep ==
    ASSUME RuleInv, NEW t \in ParamTypes, msiNcInqWithId(t)
    PROVE  RuleInv'
<1> DEFINE id == param.id.val[1]
           r == Request("inqWithId", {t}, id, NoName)
           means == IF OfFile("id") /\ files.id[1].paramType = {t}
                    THEN files.id[1].name ELSE NoName
<1>1. client = "rule" /\ pc = "idle" /\ IsSet("ncid")
    BY DEF msiNcInqWithId, Uses
<1>2. IsFile(FileOf(files.id[1])) /\ id \in ItemIdsOf(files.id[1], FileOf(files.id[1]))
    BY DEF msiNcInqWithId, RuleInv, MsInv, IdFrom
<1>3. /\ id \in Nat /\ Items(files.id[1], FileOf(files.id[1]))[id + 1].name = files.id[1].name
      /\ files.id[1].paramType = {"dim"} => FileOf(files.id[1]).dimid[files.id[1].name] = id
    <2> HIDE DEF id
    <2> QED
        BY <1>2, IdsLead
<1>4. /\ IsRequest(r) /\ r.op = "inqWithId" /\ r.ncid = Ncid /\ r.paramType = {t} /\ r.myid = id
      /\ status = "ok"
    <2> HIDE DEF id
    <2> QED
        BY <1>1, <1>3, Requested DEF Ops
<1>5. Calls(NoQuery, r, means, [ms |-> "msiNcInqWithId"])
    BY DEF msiNcInqWithId
<1>6. ASSUME means # NoName
      PROVE  /\ r.ncid \in Slots /\ world.l1desc[r.ncid].inuse
             /\ Items(r, FileOf(world.l1desc[r.ncid]))[r.myid + 1].name = means
             /\ FoundBy(r, FileOf(world.l1desc[r.ncid]), means)
    <2>1. OfFile("id") /\ files.id[1].paramType = {t} /\ means = files.id[1].name
        BY <1>6
    <2>2. /\ Ncid \in Slots /\ world.l1desc[Ncid].inuse
          /\ FileOf(world.l1desc[Ncid]) = FileOf(files.id[1])
        BY <2>1 DEF OfFile, InUseAt, Where, FileOf
    <2>3. Items(r, FileOf(world.l1desc[Ncid])) = Items(files.id[1], FileOf(files.id[1]))
        BY <1>4, <2>1, <2>2 DEF Items
    <2> QED
        BY <1>3, <1>4, <2>1, <2>2, <2>3 DEF FoundBy
<1> HIDE DEF r, means
<1> QED
    BY <1>1, <1>4, <1>5, <1>6, CallStep
-----------------------------------------------------------------------------
(* Microservices that read variables *)

\* What is named in the answer is in it.
LEMMA NamedInVars ==
    ASSUME NEW o, NEW f, HasVars(o, f), NEW n, NEW v \in Named(o.var, n)
    PROVE  \E k \in DOMAIN o.var : v = o.var[k]
<1> DEFINE rec(k) == [id |-> k - 1, name |-> f.var[k].name, dataType |-> f.var[k].dataType,
                      dimId |-> f.var[k].dimId, natts |-> Len(f.var[k].att),
                      att |-> Atts(f.var[k].att)]
<1>1. f.var \in Seq(ToSet(f.var)) /\ o.var = [k \in DOMAIN f.var |-> rec(k)]
    BY FileSeqs DEF HasVars
<1>2. DOMAIN f.var = 1 .. Len(f.var) /\ Len(f.var) \in Nat
    BY <1>1
<1>3. o.var \in Seq({rec(k) : k \in 1 .. Len(f.var)})
    <2> HIDE DEF rec
    <2> QED
        BY <1>1, <1>2
<1>4. PICK id \in 0 .. Len(o.var) - 1 : v = o.var[id + 1]
    BY DEF Named, IdsOf
<1>5. id + 1 \in DOMAIN o.var
    <2> DEFINE R == {rec(k) : k \in 1 .. Len(f.var)}
    <2>1. o.var \in Seq(R)
        BY <1>3
    <2> HIDE DEF R
    <2> QED
        BY <2>1, <1>4
<1> QED
    BY <1>4, <1>5

LEMMA ReadStep ==
    ASSUME RuleInv, client = "rule", pc = "idle", IsSet("ncid"), IsSet("inq"),
           NEW k \in DOMAIN O.var, NEW q, q.ms \notin {"msiNcInq", "msiNcInqId"}, NEW t, NEW b,
           Read(q, O.var[k], t, b)
    PROVE  RuleInv'
<1> DEFINE f == FileOf(files.inq[1])
           v == O.var[k]
           r == Request("getVars", {"var"}, v.id, NoName)
           means == IF OfFile("inq") THEN v.name ELSE NoName
           c == [ms |-> q.ms, dataType |-> t, bounds |-> b]
<1>1. HasVars(O, f) /\ status = "ok" /\ Ncid \in Int
    BY DEF RuleInv, MsInv, InqFrom, CallIs, NcidOk
<1>2. k \in DOMAIN f.var /\ v.id = k - 1 /\ v.name = f.var[k].name
    <2> HIDE DEF f
    <2>1. O.var[k] = [id |-> k - 1, name |-> f.var[k].name, dataType |-> f.var[k].dataType,
                      dimId |-> f.var[k].dimId, natts |-> Len(f.var[k].att),
                      att |-> Atts(f.var[k].att)]
          /\ k \in DOMAIN f.var
        BY <1>1 DEF HasVars
    <2> QED
        BY <2>1
<1>3. k \in Nat \ {0}
    <2> HIDE DEF f
    <2>1. f.var \in Seq(ToSet(f.var))
        BY <1>1, FileSeqs DEF HasVars
    <2> DEFINE R == ToSet(f.var)
    <2> HIDE DEF R
    <2>2. DOMAIN f.var = 1 .. Len(f.var) /\ Len(f.var) \in Nat
        BY <2>1
    <2> QED
        BY <1>2, <2>2
<1>4. v.id \in Nat /\ f.var[v.id + 1].name = v.name
    BY <1>2, <1>3
<1>5. /\ IsRequest(r) /\ r.op = "getVars" /\ r.paramType = {"var"} /\ r.ncid = Ncid /\ r.myid = v.id
    BY <1>1, <1>4 DEF Request, IsRequest, Ops, ParamTypes
<1>6. Calls(q, r, means, c) /\ c.ms = q.ms
    BY DEF Read
<1>7. ASSUME means # NoName
      PROVE  /\ r.ncid \in Slots /\ world.l1desc[r.ncid].inuse
             /\ Items(r, FileOf(world.l1desc[r.ncid]))[r.myid + 1].name = means
             /\ FoundBy(r, FileOf(world.l1desc[r.ncid]), means)
    <2>1. /\ Ncid \in Slots /\ world.l1desc[Ncid].inuse
          /\ FileOf(world.l1desc[Ncid]) = f /\ means = v.name
        BY <1>7 DEF OfFile, InUseAt, Where, FileOf
    <2>2. Items(r, f) = f.var
        BY <1>5 DEF Items
    <2> QED
        BY <1>4, <1>5, <2>1, <2>2 DEF FoundBy
<1> HIDE DEF r, means, c
<1> QED
    BY <1>1, <1>5, <1>6, <1>7, CallStep

LEMMA VarsStep ==
    ASSUME RuleInv, msiNcGetVarsByType \/ msiNcSubsetVar
    PROVE  RuleInv'
<1>1. client = "rule" /\ pc = "idle" /\ IsSet("ncid") /\ IsSet("inq")
    BY DEF msiNcGetVarsByType, msiNcSubsetVar, Uses
<1>2. \A q : Returns(q, "error", <<>>) /\ Locally => RuleInv'
    BY LocalStep DEF Locally
<1>3. \A q : Returns(q, "fault", <<>>) /\ Locally => RuleInv'
    BY LocalStep DEF Locally
<1>4. CASE msiNcGetVarsByType
    <2>1. PICK k \in DOMAIN O.var, j \in DOMAIN O.var, p \in Passable :
            LET v == O.var[k]
                b == p.passed
                q == [Query("msiNcGetVarsByType", 0, v.name, NoName) EXCEPT !.bounds = p.meant]
            IN  \/ Read(q, v, O.var[j].dataType, b)
                \/ Returns(q, "error", <<>>) /\ Locally
        BY <1>4 DEF msiNcGetVarsByType
    <2> DEFINE q == [Query("msiNcGetVarsByType", 0, O.var[k].name, NoName) EXCEPT !.bounds = p.meant]
    <2>2. q.ms = "msiNcGetVarsByType"
        BY DEF Query
    <2>3. Read(q, O.var[k], O.var[j].dataType, p.passed) \/ (Returns(q, "error", <<>>) /\ Locally)
        BY <2>1
    <2> HIDE DEF q
    <2> QED
        BY <1>1, <1>2, <2>2, <2>3, ReadStep
<1>5. CASE msiNcSubsetVar
    <2>1. PICK n \in Names, conds \in SubsetStrs :
            LET q == [Query("msiNcSubsetVar", 0, n, NoName) EXCEPT !.conds = conds]
            IN  \/ \E v \in Named(O.var, n) : Read(q, v, v.dataType, SubsetBounds(v, conds))
                \/ Returns(q, "fault", <<>>) /\ Locally
                \/ Returns(q, "error", <<>>) /\ Locally
        BY <1>5 DEF msiNcSubsetVar
    <2> DEFINE q == [Query("msiNcSubsetVar", 0, n, NoName) EXCEPT !.conds = conds]
    <2>2. q.ms = "msiNcSubsetVar"
        BY DEF Query
    <2>3. \/ \E v \in Named(O.var, n) : Read(q, v, v.dataType, SubsetBounds(v, conds))
          \/ Returns(q, "fault", <<>>) /\ Locally
          \/ Returns(q, "error", <<>>) /\ Locally
        BY <2>1
    <2> HIDE DEF q
    <2>4. HasVars(O, FileOf(files.inq[1]))
        BY <1>1 DEF RuleInv, MsInv, InqFrom
    <2>5. ASSUME NEW v \in Named(O.var, n), Read(q, v, v.dataType, SubsetBounds(v, conds))
          PROVE  RuleInv'
        <3>1. PICK k \in DOMAIN O.var : v = O.var[k]
            BY <2>4, NamedInVars
        <3> QED
            BY <1>1, <2>2, <2>5, <3>1, ReadStep
    <2> QED
        BY <1>2, <1>3, <2>3, <2>5
<1> QED
    BY <1>4, <1>5

LEMMA ArrayStep ==
    ASSUME RuleInv, NEW x \in Arrays \union {"vars"}, NEW n, NEW inx,
           msiFreeNcStruct(x) \/ msiAddToNcArray(x, n, inx)
    PROVE  RuleInv'
<1>1. PICK r, p : /\ Returns(NoQuery, r, p) /\ DOMAIN p \subseteq {x}
                  /\ NoHandler /\ UNCHANGED files
    <2>1. DOMAIN <<>> = {}
        OBVIOUS
    <2> QED
        BY <2>1 DEF msiFreeNcStruct, msiAddToNcArray
<1>2. x \notin {"ncid", "inq", "id"}
    BY DEF Arrays
<1> QED
    BY <1>1, <1>2, LocalStep

LEMMA MicroserviceStep ==
    ASSUME RuleInv, Microservice
    PROVE  RuleInv'
<1>1. DOMAIN <<>> = {}
    OBVIOUS
<1>2. CASE Refuse
    BY <1>1, <1>2, LocalStep DEF Refuse, Locally
<1>3. CASE msiNcRegGlobalAttr
    <2>1. PICK r, p : Returns(NoQuery, r, p) /\ DOMAIN p = {"out"} /\ NoHandler /\ UNCHANGED files
        BY <1>3 DEF msiNcRegGlobalAttr, Locally
    <2> QED
        BY <2>1, LocalStep
<1>4. CASE msiNcOpen \/ msiNcCreate \/ msiNcOpenGroup
    BY <1>4, OpenStep
<1>5. CASE msiNcClose
    BY <1>5, CloseStep
<1>6. CASE msiNcInq \/ msiNcInqGrps
    BY <1>6, CallInqStep
<1>7. CASE \E t \in ParamTypes : msiNcInqWithId(t) \/ \E n \in Names : msiNcInqId(t, n)
    BY <1>7, InqWithIdStep, InqIdStep
<1>8. CASE InInqOut \/ InArray \/ msiNcIntDataTypeToStr \/ msiFloatToString
    BY <1>8, LookStep
<1>9. CASE \E x \in Arrays \union {"vars"} :
            msiFreeNcStruct(x) \/ \E n \in Numbers, inx \in Literals : msiAddToNcArray(x, n, inx)
    BY <1>9, ArrayStep
<1>10. CASE msiNcGetVarsByType \/ msiNcSubsetVar
    BY <1>10, VarsStep
<1> QED
    BY <1>2, <1>3, <1>4, <1>5, <1>6, <1>7, <1>8, <1>9, <1>10 DEF Microservice
-----------------------------------------------------------------------------
(* Steps of a handler, and its answers *)

\* Handlers, and programs, leave the files and entries as they are.
LEMMA NextKeepsWorld ==
    ASSUME IdInv, Next
    PROVE  UNCHANGED world
<1> USE DEF Answer, Fail, Continue, Fixed
<1>1. CASE InqStart \/ GrpsStart \/ InqId \/ InqWithId \/ GetVars
    BY <1>1 DEF InqStart, GrpsStart, InqId, InqWithId, GetVars, Started
<1>2. CASE InqDim \/ DimsDone \/ InqVar \/ InqVarAtt \/ VarAttsDone \/ VarsDone \/ InqGatt
    BY <1>2 DEF InqDim, DimsDone, InqVar, InqVarAtt, VarAttsDone, VarsDone, InqGatt
<1>3. CASE GattsDone \/ InqGattError \/ InqGrp \/ GrpsDone \/ GrpsError
    BY <1>3 DEF GattsDone, InqGattError, InqGrp, GrpsDone, GrpsError
<1>4. CASE Refused \/ InqError \/ AnswerLost \/ UseId \/ Terminated
    BY <1>4 DEF Refused, InqError, AnswerLost, UseId, Terminated, vars
<1> QED
    BY <1>1, <1>2, <1>3, <1>4 DEF Next, Handle

\* What a handler does while a rule waits.
LEMMA HandleKeepsRequest ==
    ASSUME Handle
    PROVE  req' = req /\ pc' # "idle"
<1> USE DEF Answer, Fail, Continue, Fixed
<1>1. CASE InqStart \/ GrpsStart \/ InqId \/ InqWithId \/ GetVars
    BY <1>1 DEF InqStart, GrpsStart, InqId, InqWithId, GetVars, Started
<1>2. CASE InqDim \/ DimsDone \/ InqVar \/ InqVarAtt \/ VarAttsDone \/ VarsDone \/ InqGatt
    BY <1>2 DEF InqDim, DimsDone, InqVar, InqVarAtt, VarAttsDone, VarsDone, InqGatt
<1>3. CASE GattsDone \/ InqGattError \/ InqGrp \/ GrpsDone \/ GrpsError
    BY <1>3 DEF GattsDone, InqGattError, InqGrp, GrpsDone, GrpsError
<1>4. CASE Refused \/ InqError \/ AnswerLost
    BY <1>4 DEF Refused, InqError, AnswerLost
<1> QED
    BY <1>1, <1>2, <1>3, <1>4 DEF Handle

LEMMA HandlerStep ==
    ASSUME RuleInv, Next, UNCHANGED msVars,
           CallIs'
    PROVE  RuleInv'
<1>1. IdInv' /\ InqInv'
    BY IdNext, InqNext DEF RuleInv
<1>2. UNCHANGED world
    BY NextKeepsWorld DEF RuleInv
<1>3. UNCHANGED <<param, files>>
    BY DEF msVars
<1>4. NcidOk' /\ DOMAIN param' = Params
    BY <1>3 DEF RuleInv, MsInv, NcidOk, IsSet, Ncid, Unset
<1>5. MsInv'
    BY <1>2, <1>3, <1>4, FromKept DEF RuleInv
<1> QED
    BY <1>1, <1>5 DEF RuleInv

\* A microservice that has its answer lets go of the request.
LEMMA ReturnedStep ==
    ASSUME RuleInv, Returned
    PROVE  IdInv' /\ InqInv' /\ CallIs' /\ UNCHANGED world
<1>1. /\ req' = NoReq /\ asked' = NoName /\ pc' = "idle" /\ status' = "ok" /\ call' = None
      /\ UNCHANGED world
    BY DEF Returned
<1>2. IsRequest(req)' /\ IsWorld(world)'
    BY <1>1 DEF NoReq, IsRequest, Ops, ParamTypes, RuleInv, InqInv, IsWorld
<1>3. IdInv' /\ InqInv'
    BY <1>1, <1>2 DEF IdInv, InqInv, Ok, ErrorLeavesNothing, Gathering
<1>4. CallIs'
    BY <1>1 DEF CallIs
<1> QED
    BY <1>1, <1>3, <1>4

LEMMA ReturnErrorStep ==
    ASSUME RuleInv, Returned, UNCHANGED <<param, files>>
    PROVE  RuleInv'
<1>1. IdInv' /\ InqInv' /\ CallIs' /\ UNCHANGED world
    BY ReturnedStep
<1>2. NcidOk' /\ DOMAIN param' = Params
    BY DEF RuleInv, MsInv, NcidOk, IsSet, Ncid, Unset
<1>3. MsInv'
    BY <1>1, <1>2, FromKept DEF RuleInv
<1> QED
    BY <1>1, <1>3 DEF RuleInv

\* A variable that holds no inquiry of a file's variables and no id.
LEMMA GiveOther ==
    ASSUME RuleInv, NEW ms, NEW x \in {"grps", "item", "vars"}, NEW p, NEW source,
           Give(ms, x, p, source)
    PROVE  RuleInv'
<1>1. IdInv' /\ InqInv' /\ CallIs' /\ UNCHANGED world
    BY ReturnedStep DEF Give
<1>2. param' = [param EXCEPT ![x] = p] /\ files' = [files EXCEPT ![x] = <<source>>]
    BY DEF Give
<1>3. /\ DOMAIN param' = Params
      /\ param'["inq"] = param["inq"] /\ param'["id"] = param["id"] /\ param'["ncid"] = param["ncid"]
      /\ DOMAIN files' = DOMAIN files
      /\ files'["inq"] = files["inq"] /\ files'["id"] = files["id"]
    BY <1>2 DEF RuleInv, MsInv, Params
<1>4. NcidOk'
    BY <1>3 DEF RuleInv, MsInv, NcidOk, IsSet, Ncid, Unset
<1>5. InqFrom' /\ IdFrom'
    <2>1. (FileOf(files.inq[1]))' = FileOf(files.inq[1]) /\ (FileOf(files.id[1]))' = FileOf(files.id[1])
        BY <1>1, <1>3 DEF FileOf
    <2>2. O' = O
        BY <1>3 DEF O
    <2>3. HasVars(O, FileOf(files.inq[1]))' = HasVars(O, FileOf(files.inq[1]))
        BY <2>1, <2>2 DEF HasVars
    <2> QED
        BY <1>3, <2>1, <2>3 DEF RuleInv, MsInv, InqFrom, IdFrom, IsSet, Unset,
            ItemIdsOf, DimIdsOf, Items, IdsOf
<1>6. MsInv'
    BY <1>1, <1>3, <1>4, <1>5 DEF RuleInv, MsInv
<1> QED
    BY <1>1, <1>6 DEF RuleInv

\* msiNcInq asks for everything.
LEMMA GiveInq ==
    ASSUME RuleInv, Give("msiNcInq", "inq", Of("NcInqOut_PI", Out), Where(req.ncid))
    PROVE  RuleInv'
<1> DEFINE f == FileOf(Entry)
<1>1. IdInv' /\ InqInv' /\ CallIs' /\ UNCHANGED world
    BY ReturnedStep DEF Give
<1>2. /\ param' = [param EXCEPT !["inq"] = Of("NcInqOut_PI", Out)]
      /\ files' = [files EXCEPT !["inq"] = <<Where(req.ncid)>>]
      /\ pc = "done" /\ status = "ok" /\ call # None /\ call[1].ms = "msiNcInq"
    BY DEF Give, Returned
<1>3. req.op = "inq" /\ req.paramType = {} /\ Ok("inq")
    BY <1>2 DEF RuleInv, MsInv, CallIs, Ok
<1>4. HasVars(Out, f)
    <2>1. IsFile(f)
        BY <1>3, FileIsFile DEF RuleInv, InqInv, AtFile
    <2>2. Wanted = ParamTypes
        BY <1>3 DEF Wanted
    <2>3. Everything /\ "var" \in Wanted
        BY <2>2, Cardinalities DEF Everything, ParamTypes
    <2>4. Out.var = [k \in DOMAIN f.var |->
            [id |-> k - 1, name |-> f.var[k].name, dataType |-> f.var[k].dataType,
             dimId |-> f.var[k].dimId, natts |-> Len(f.var[k].att), att |-> Atts(f.var[k].att)]]
        BY <1>3, <2>3, InqInvWhole DEF InqWhole, RuleInv
    <2> QED
        BY <2>1, <2>4 DEF HasVars
<1>5. /\ DOMAIN param' = Params
      /\ param'["id"] = param["id"] /\ param'["ncid"] = param["ncid"]
      /\ param'["inq"].val = <<Out>>
      /\ DOMAIN files' = DOMAIN files
      /\ files'["inq"] = <<Where(req.ncid)>> /\ files'["id"] = files["id"]
    BY <1>2 DEF RuleInv, MsInv, Params, Of
<1>6. NcidOk'
    BY <1>5 DEF RuleInv, MsInv, NcidOk, IsSet, Ncid, Unset
<1>7. InqFrom'
    <2>1. O' = Out
        BY <1>5 DEF O
    <2>2. files'["inq"] # None /\ (files.inq[1])' = Where(req.ncid)
        BY <1>5 DEF None
    <2>3. (FileOf(files.inq[1]))' = f
        BY <1>1, <2>2 DEF FileOf, Where, Entry
    <2>4. HasVars(O, FileOf(files.inq[1]))'
        BY <1>4, <2>1, <2>3 DEF HasVars
    <2> QED
        BY <2>2, <2>4 DEF InqFrom
<1>8. IdFrom'
    <2>1. (FileOf(files.id[1]))' = FileOf(files.id[1])
        BY <1>1, <1>5 DEF FileOf
    <2> QED
        BY <1>5, <2>1 DEF RuleInv, MsInv, IdFrom, IsSet, Unset, ItemIdsOf, DimIdsOf, Items,
            IdsOf
<1>9. MsInv'
    BY <1>1, <1>5, <1>6, <1>7, <1>8 DEF RuleInv, MsInv
<1> QED
    BY <1>1, <1>9 DEF RuleInv

LEMMA GiveId ==
    ASSUME RuleInv,
           Give("msiNcInqId", "id", Int_(Out),
                [host |-> Entry.host, ncid |-> Entry.ncid,
                 paramType |-> req.paramType, name |-> req.name])
    PROVE  RuleInv'
<1> DEFINE d == [host |-> Entry.host, ncid |-> Entry.ncid,
                 paramType |-> req.paramType, name |-> req.name]
<1>1. IdInv' /\ InqInv' /\ CallIs' /\ UNCHANGED world
    BY ReturnedStep DEF Give
<1>2. /\ param' = [param EXCEPT !["id"] = Int_(Out)]
      /\ files' = [files EXCEPT !["id"] = <<d>>]
      /\ pc = "done" /\ status = "ok" /\ call # None /\ call[1].ms = "msiNcInqId"
    BY DEF Give, Returned
<1>3. Ok("inqId")
    BY <1>2 DEF RuleInv, MsInv, CallIs, Ok
<1>4. Out \in ItemIdsOf(d, FileOf(d)) /\ IsFile(FileOf(d))
    <2>1. Out \in ItemIdsOf(req, FileOf(Entry)) /\ IsFile(FileOf(Entry))
        BY <1>3, FileIsFile DEF RuleInv, IdInv
    <2>2. /\ FileOf(d) = FileOf(Entry)
          /\ ItemIdsOf(d, FileOf(d)) = ItemIdsOf(req, FileOf(Entry))
        BY DEF FileOf, Items, ItemIdsOf, DimIdsOf
    <2> QED
        BY <2>1, <2>2
<1>5. /\ DOMAIN param' = Params
      /\ param'["inq"] = param["inq"] /\ param'["ncid"] = param["ncid"]
      /\ param'["id"].val = <<Out>>
      /\ DOMAIN files' = DOMAIN files
      /\ files'["id"] = <<d>> /\ files'["inq"] = files["inq"]
    BY <1>2 DEF RuleInv, MsInv, Params, Of, Int_
<1>6. NcidOk'
    BY <1>5 DEF RuleInv, MsInv, NcidOk, IsSet, Ncid, Unset
<1> HIDE DEF d
<1>7. IdFrom'
    <2>1. (FileOf(files.id[1]))' = FileOf(d) /\ (files.id[1])' = d /\ files'["id"] # None
        BY <1>1, <1>5 DEF FileOf, None
    <2>2. (param.id.val[1])' = Out
        BY <1>5
    <2> QED
        BY <1>4, <2>1, <2>2 DEF IdFrom, ItemIdsOf, DimIdsOf, Items, IdsOf
<1>8. InqFrom'
    <2>1. O' = O /\ (FileOf(files.inq[1]))' = FileOf(files.inq[1])
        BY <1>1, <1>5 DEF O, FileOf
    <2>2. HasVars(O, FileOf(files.inq[1]))' = HasVars(O, FileOf(files.inq[1]))
        BY <2>1 DEF HasVars
    <2> QED
        BY <1>5, <2>2 DEF RuleInv, MsInv, InqFrom, IsSet, Unset
<1>9. MsInv'
    BY <1>1, <1>5, <1>6, <1>7, <1>8 DEF RuleInv, MsInv
<1> QED
    BY <1>1, <1>9 DEF RuleInv

LEMMA ServeStep ==
    ASSUME RuleInv, Serve
    PROVE  RuleInv'
<1>1. CASE client = "rule" /\ Handle /\ UNCHANGED msVars
    <2>1. CallIs'
        BY <1>1, HandleKeepsRequest DEF RuleInv, MsInv, CallIs, msVars
    <2> QED
        BY <1>1, <2>1, HandlerStep DEF Next
<1>2. CASE ReturnError \/ ReturnVarsError
    BY <1>2, ReturnErrorStep DEF ReturnError, ReturnVarsError
<1>3. CASE ReturnInq
    BY <1>3, GiveInq, GiveId, GiveOther DEF ReturnInq
<1>4. CASE ReturnVars
    BY <1>4, GiveOther DEF ReturnVars
<1> QED
    BY <1>1, <1>2, <1>3, <1>4 DEF Serve

LEMMA StutterStep ==
    ASSUME RuleInv, UNCHANGED allVars
    PROVE  RuleInv'
<1>1. UNCHANGED vars /\ UNCHANGED msVars
    BY DEF allVars
<1>2. IdInv' /\ InqInv'
    BY <1>1, IdNext, InqNext DEF RuleInv
<1>3. UNCHANGED <<world, req, asked, pc, status, client, call, param, files>>
    BY <1>1 DEF vars, msVars
<1>4. CallIs' /\ NcidOk' /\ DOMAIN param' = Params
    BY <1>3 DEF RuleInv, MsInv, CallIs, NcidOk, IsSet, Ncid, Unset
<1>5. MsInv'
    BY <1>3, <1>4, FromKept DEF RuleInv
<1> QED
    BY <1>2, <1>5 DEF RuleInv

\* A program asks on its own.
LEMMA ProgramStep ==
    ASSUME RuleInv, client = "program", Next, UNCHANGED msVars
    PROVE  RuleInv'
<1>1. CallIs'
    BY DEF RuleInv, MsInv, CallIs, msVars
<1> QED
    BY <1>1, HandlerStep

LEMMA RuleNext ==
    ASSUME RuleInv, [MsNext]_allVars
    PROVE  RuleInv'
<1>1. CASE client = "program" /\ Next /\ UNCHANGED msVars
    BY <1>1, ProgramStep
<1>2. CASE Microservice
    BY <1>2, MicroserviceStep
<1>3. CASE Serve
    BY <1>3, ServeStep
<1>4. CASE Ended \/ UNCHANGED allVars
    BY <1>4, StutterStep DEF Ended
<1> QED
    BY <1>1, <1>2, <1>3, <1>4 DEF MsNext

LEMMA RuleStart ==
    ASSUME MsInit
    PROVE  RuleInv
<1>1. /\ param = [x \in Params |-> Unset] /\ call = None
      /\ files = [x \in {"inq", "grps", "id", "item", "vars"} |-> None]
    BY DEF MsInit
<1>2. IsWorld(world) /\ IsRequest(req) /\ asked = NoName /\ status = "ok" /\ ncInqOut = None
      /\ pc \in {"request", "idle"} /\ (client = "program" \/ client = "rule")
    <2>1. CASE client = "program" /\ rule = {} /\ Init
        BY <2>1, InqAssumption DEF Init
    <2>2. CASE client = "rule" /\ (\E a \in Agents : rule = a.rule /\ world = a.world) /\ Idle
        BY <2>2, MsAssumption DEF Idle, NoReq, IsRequest, Ops, ParamTypes
    <2> QED
        BY <2>1, <2>2 DEF MsInit
<1>3. IdInv /\ InqInv
    BY <1>2 DEF IdInv, InqInv, Ok, ErrorLeavesNothing, Gathering
<1>4. ~IsSet("ncid") /\ ~IsSet("inq") /\ ~IsSet("id") /\ files.inq = None /\ files.id = None
    BY <1>1 DEF IsSet, Params
<1>5. MsInv
    BY <1>1, <1>2, <1>4 DEF MsInv, NcidOk, InqFrom, IdFrom, CallIs
<1> QED
    BY <1>3, <1>5 DEF RuleInv

LEMMA RuleInvariant == MsSpec => []RuleInv
<1>1. MsInit => RuleInv
    BY RuleStart
<1>2. RuleInv /\ [MsNext]_allVars => RuleInv'
    BY RuleNext
<1> QED
    BY <1>1, <1>2, PTL DEF MsSpec

\* For any rules, agents and files, whatever is opened and closed between the
\* calls: an inquiry of a program or of a microservice (msiNcInq, msiNcInqGrps,
\* msiNcInqId, msiNcInqWithId) that is answered has what was asked for of the
\* file the ncid stands for, and after an error nothing is left to use.
THEOREM MsInquiriesAreExact == MsSpec => []InqExact
<1>1. RuleInv => InqExact
    BY InqInvWhole, InqInvOne DEF RuleInv, InqInv, InqExact
<1> QED
    BY <1>1, RuleInvariant, PTL

\* For any rules, agents and files: an id a rule has in a variable
\* (msiNcInqId, msiNcInq) leads to what it was given for (msiNcInqWithId,
\* msiNcGetVarsByType), as long as the ncid stands for that file.
THEOREM MsIdLeadsToItem == MsSpec => []IdLeadsToItem
<1>1. RuleInv => IdLeadsToItem
    BY DEF RuleInv, IdInv, IdLeadsToItem, Led, FoundBy
<1> QED
    BY <1>1, RuleInvariant, PTL
-----------------------------------------------------------------------------
(* What is in the variables that hold an inquiry *)

VarOf(f, k) ==
    [id |-> k - 1, name |-> f.var[k].name, dataType |-> f.var[k].dataType,
     dimId |-> f.var[k].dimId, natts |-> Len(f.var[k].att), att |-> Atts(f.var[k].att)]

DimOf(f, k) == [id |-> k - 1, name |-> f.dim[k].name, arrayLen |-> f.dim[k].arrayLen]

\* An NcInqOut has all there is of the file.
HasFile(o, f) ==
    /\ HasVars(o, f)
    /\ o.dim = [k \in 1 .. OwnDims(f) |-> DimOf(f, k)]
    /\ o.gatt = Atts(f.gatt)
    /\ o.ndims = OwnDims(f) /\ o.nvars = Len(f.var) /\ o.ngatts = Len(f.gatt)
    /\ o.unlimdimid = f.unlimdim /\ o.format = f.format

FileFrom ==
    /\ IsSet("inq") => files.inq # None
    /\ files.inq # None => HasFile(O, Source("inq"))

GrpsFrom ==
    /\ IsSet("grps") => files.grps # None
    /\ files.grps # None => IsFile(Source("grps")) /\ param.grps.val[1] = Source("grps").grpName

ItemFrom ==
    /\ IsSet("item") => files.item # None
    /\ files.item # None =>
        /\ IsFile(Source("item"))
        /\ files.item[1].paramType \in {{"dim"}, {"var"}}
        /\ param.item.val # None
        /\ files.item[1].myid \in Nat
        /\ files.item[1].myid + 1 \in DOMAIN Items(files.item[1], Source("item"))
        /\ Item = ItemStruct(files.item[1].paramType, ItemMeant)

\* What the microservice may answer is right for the last call.
Right(answers) == \A a \in answers :
    /\ a.ret = "ok" => Beyond \/ Misled \/ (\E p : a.ps = [out |-> p] /\ p.val # None /\ p.val[1] \in Facts)
    /\ a.ret = "error" => Beyond \/ TooShort \/ Facts = {}
    /\ a.ret \notin {"ok", "error"} => Beyond
-----------------------------------------------------------------------------
(* Answers *)

\* An error is right if nothing is there, or for the calls whose bounds are wrong.
LEMMA MissingRight ==
    ASSUME Beyond \/ TooShort \/ Facts = {}
    PROVE  Right(Missing)
BY DEF Right, Missing

\* Outputs are right if the file says so of each, and there are some if it says any.
LEMMA GivenRight ==
    ASSUME NEW outs, \A p \in outs : Beyond \/ Misled \/ (p.val # None /\ p.val[1] \in Facts),
           outs = {} => Beyond \/ TooShort \/ Facts = {}
    PROVE  Right(Given(outs))
<1>1. CASE outs = {}
    BY <1>1, MissingRight DEF Given
<1>2. CASE outs # {}
    BY <1>2 DEF Given, Right
<1> QED
    BY <1>1, <1>2

LEMMA BeyondRight == Beyond => \A answers : Right(answers)
BY DEF Right
-----------------------------------------------------------------------------
(* What has a name *)

\* Names are unique: what has one is one element.
LEMMA FirstNamed ==
    ASSUME NEW S, NEW s \in Seq(S), Unique(s), NEW name
    PROVE  \/ Named(s, name) = {} /\ \A k \in DOMAIN s : s[k].name # name
           \/ \E k \in DOMAIN s :
                s[k].name = name /\ Named(s, name) = {s[k]} /\ IdsOf(s, name) = {k - 1}
<1>1. CASE \A k \in DOMAIN s : s[k].name # name
    <2>1. IdsOf(s, name) = {}
        BY <1>1 DEF IdsOf
    <2> QED
        BY <1>1, <2>1 DEF Named
<1>2. ASSUME NEW k \in DOMAIN s, s[k].name = name
      PROVE  s[k].name = name /\ Named(s, name) = {s[k]} /\ IdsOf(s, name) = {k - 1}
    <2>1. k - 1 \in 0 .. Len(s) - 1 /\ k - 1 + 1 = k
        OBVIOUS
    <2>2. \A id \in 0 .. Len(s) - 1 : id + 1 \in DOMAIN s /\ id = id + 1 - 1
        OBVIOUS
    <2>3. IdsOf(s, name) = {k - 1}
        BY <1>2, <2>1, <2>2 DEF IdsOf, Unique
    <2> QED
        BY <1>2, <2>1, <2>3 DEF Named
<1> QED
    BY <1>1, <1>2

\* An answer has a variable for each of the file.
LEMMA VarsSeq ==
    ASSUME NEW o, NEW f, HasVars(o, f)
    PROVE  /\ o.var \in Seq({VarOf(f, k) : k \in DOMAIN f.var})
           /\ DOMAIN o.var = DOMAIN f.var /\ Len(o.var) = Len(f.var)
           /\ \A k \in DOMAIN f.var : o.var[k] = VarOf(f, k)
           /\ Unique(o.var) /\ Unique(f.var) /\ f.var \in Seq(ToSet(f.var))
<1> DEFINE R == {VarOf(f, k) : k \in DOMAIN f.var}
           s == f.var
<1>1. f.var \in Seq(ToSet(f.var)) /\ Unique(f.var)
    BY FileSeqs DEF HasVars, IsFile
<1>2. o.var = [k \in DOMAIN f.var |-> VarOf(f, k)]
    BY DEF HasVars, VarOf
<1>3. DOMAIN s = 1 .. Len(s) /\ Len(s) \in Nat
    <2> DEFINE T == ToSet(f.var)
    <2>1. s \in Seq(T)
        BY <1>1
    <2> HIDE DEF T, s
    <2> QED
        BY <2>1
<1>4. \A k \in DOMAIN s : VarOf(f, k) \in R
    OBVIOUS
<1>5. o.var \in Seq(R) /\ Len(o.var) = Len(s)
    <2>1. o.var = [k \in 1 .. Len(s) |-> VarOf(f, k)]
        BY <1>2, <1>3
    <2> HIDE DEF R, s
    <2> QED
        BY <1>3, <1>4, <2>1
<1>6. \A k \in DOMAIN f.var : o.var[k] = VarOf(f, k) /\ o.var[k].name = f.var[k].name
    BY <1>2 DEF VarOf
<1>7. DOMAIN o.var = DOMAIN f.var
    BY <1>2
<1>8. Unique(o.var)
    BY <1>1, <1>6, <1>7 DEF Unique
<1> QED
    BY <1>1, <1>5, <1>6, <1>7, <1>8

VarsOf(f, name) == {v \in ToSet(f.var) : v.name = name}

\* A name is of one variable at most, of the file and of the answer.
LEMMA VarNamed ==
    ASSUME NEW o, NEW f, HasVars(o, f), NEW name
    PROVE  \/ Named(o.var, name) = {} /\ VarsOf(f, name) = {}
           \/ \E k \in DOMAIN f.var :
                /\ f.var[k].name = name /\ Named(o.var, name) = {VarOf(f, k)}
                /\ VarsOf(f, name) = {f.var[k]} /\ IdsOf(f.var, name) = {k - 1}
<1> USE DEF VarsOf
<1> DEFINE R == {VarOf(f, k) : k \in DOMAIN f.var}
<1>0. /\ o.var \in Seq(R) /\ f.var \in Seq(ToSet(f.var)) /\ Unique(o.var) /\ Unique(f.var)
      /\ DOMAIN o.var = DOMAIN f.var
      /\ \A k \in DOMAIN f.var : o.var[k] = VarOf(f, k)
    BY VarsSeq
<1> HIDE DEF R
<1>1. \A k \in DOMAIN f.var : o.var[k].name = f.var[k].name
    <2>1. \A k : VarOf(f, k).name = f.var[k].name
        BY DEF VarOf
    <2> QED
        BY <1>0, <2>1
<1>2. CASE Named(o.var, name) = {} /\ \A k \in DOMAIN o.var : o.var[k].name # name
    <2>1. {v \in ToSet(f.var) : v.name = name} = {}
        BY <1>0, <1>1, <1>2 DEF ToSet
    <2> QED
        BY <1>2, <2>1
<1>3. ASSUME NEW k \in DOMAIN o.var, o.var[k].name = name, Named(o.var, name) = {o.var[k]}
      PROVE  /\ k \in DOMAIN f.var
             /\ f.var[k].name = name /\ Named(o.var, name) = {VarOf(f, k)}
             /\ {v \in ToSet(f.var) : v.name = name} = {f.var[k]} /\ IdsOf(f.var, name) = {k - 1}
    <2>1. {v \in ToSet(f.var) : v.name = name} = {f.var[k]}
        BY <1>0, <1>1, <1>3 DEF ToSet, Unique
    <2>2. PICK j \in DOMAIN f.var : f.var[j].name = name /\ IdsOf(f.var, name) = {j - 1}
        <3> DEFINE T == ToSet(f.var)
        <3>1. f.var \in Seq(T)
            BY <1>0
        <3> HIDE DEF T
        <3>2. \/ \A j \in DOMAIN f.var : f.var[j].name # name
              \/ \E j \in DOMAIN f.var : f.var[j].name = name /\ IdsOf(f.var, name) = {j - 1}
            BY <1>0, <3>1, FirstNamed
        <3> QED
            BY <1>0, <1>1, <1>3, <3>2
    <2>3. j = k
        BY <1>0, <1>1, <1>3, <2>2 DEF Unique
    <2> QED
        BY <1>0, <1>1, <1>3, <2>1, <2>2, <2>3
<1>4. \/ Named(o.var, name) = {} /\ \A k \in DOMAIN o.var : o.var[k].name # name
      \/ \E k \in DOMAIN o.var : o.var[k].name = name /\ Named(o.var, name) = {o.var[k]}
    BY <1>0, FirstNamed
<1> QED
    BY <1>2, <1>3, <1>4

\* The variable the rule names.
LEMMA VarMeant ==
    ASSUME NEW f, f = Source("inq"), HasVars(O, f), NEW name
    PROVE  \/ Named(O.var, name) = {} /\ VarsNamed(name) = {}
           \/ \E k \in DOMAIN f.var :
                /\ f.var[k].name = name /\ Named(O.var, name) = {VarOf(f, k)}
                /\ VarsNamed(name) = {f.var[k]} /\ IdsOf(f.var, name) = {k - 1}
<1>1. VarsNamed(name) = VarsOf(f, name)
    BY DEF VarsNamed, VarsOf
<1>2. \/ Named(O.var, name) = {} /\ VarsOf(f, name) = {}
      \/ \E k \in DOMAIN f.var :
            /\ f.var[k].name = name /\ Named(O.var, name) = {VarOf(f, k)}
            /\ VarsOf(f, name) = {f.var[k]} /\ IdsOf(f.var, name) = {k - 1}
    BY ONLY HasVars(O, f), VarNamed
<1> QED
    BY <1>1, <1>2
-----------------------------------------------------------------------------
(* Dimensions *)

\* What an answer says of a dimension.
DimVal(d, what) == IF what = "name" THEN <<d.name>> ELSE d.arrayLen

AsksDims(what) ==
    query.ms = IF what = "name" THEN "msiNcGetDimNameInInqOut" ELSE "msiNcGetDimLenInInqOut"

\* The answers there are of some ids.
DimOuts(ids, what) == {DimOut(d, what) : d \in {e \in DimsToFind(what) : e.id \in ids}}

\* An answer has as many dimensions as are the group's own, the first of the file.
LEMMA DimsSeq ==
    ASSUME NEW o, NEW f, HasFile(o, f)
    PROVE  /\ DOMAIN o.dim = 1 .. OwnDims(f) /\ OwnDims(f) \in Nat
           /\ Len(f.dim) \in Nat /\ OwnDims(f) <= Len(f.dim)
           /\ \A k \in 1 .. OwnDims(f) : o.dim[k] = DimOf(f, k)
           /\ Len(o.dim) = OwnDims(f)
           /\ ToSet(o.dim) = {DimOf(f, k) : k \in 1 .. OwnDims(f)}
<1>1. OwnDims(f) \in Nat /\ Len(f.dim) \in Nat /\ OwnDims(f) <= Len(f.dim)
    BY OwnDimsInFile DEF HasFile, HasVars
<1>2. PICK n \in Nat : n = OwnDims(f)
    BY <1>1
<1>3. o.dim = [k \in 1 .. n |-> DimOf(f, k)]
    BY <1>2 DEF HasFile
<1>4. Len(o.dim) = n
    <2> DEFINE R == {DimOf(f, k) : k \in 1 .. n}
    <2>1. \A k \in 1 .. n : DimOf(f, k) \in R
        OBVIOUS
    <2> HIDE DEF R
    <2>2. o.dim \in Seq(R)
        BY <1>3, <2>1
    <2> QED
        BY <1>3, <2>2
<1> QED
    BY <1>1, <1>2, <1>3, <1>4 DEF ToSet

LEMMA DimLens ==
    ASSUME NEW f, IsFile(f)
    PROVE  /\ \A k \in DOMAIN f.dim : f.dim[k].arrayLen \in Nat
           /\ \A k \in 1 .. OwnDims(f) : f.dim[k].arrayLen \in Nat
<1> DEFINE D == [name : Names, arrayLen : Nat]
<1>1. f.dim \in Seq(D)
    BY DEF IsFile
<1>2. OwnDims(f) \in Nat /\ Len(f.dim) \in Nat /\ OwnDims(f) <= Len(f.dim)
    BY OwnDimsInFile
<1>3. \A k \in DOMAIN f.dim : f.dim[k] \in D
    <2> HIDE DEF D
    <2> QED
        BY <1>1
<1>4. \A k \in 1 .. OwnDims(f) : k \in DOMAIN f.dim
    <2> HIDE DEF D
    <2> QED
        BY <1>1, <1>2
<1> QED
    BY <1>3, <1>4

\* What it has of each id.
LEMMA DimsOfIds ==
    ASSUME NEW o, NEW f, HasFile(o, f)
    PROVE  /\ \A e \in ToSet(o.dim) : \E k \in 1 .. OwnDims(f) :
                /\ e = o.dim[k] /\ e.id = k - 1 /\ e.id + 1 = k
                /\ e.name = f.dim[e.id + 1].name /\ e.arrayLen = f.dim[e.id + 1].arrayLen
           /\ \A k \in 1 .. OwnDims(f) : o.dim[k].id = k - 1 /\ o.dim[k] \in ToSet(o.dim)
           /\ \A id \in Nat : id < OwnDims(f) => \E e \in ToSet(o.dim) : e.id = id
<1>1. PICK n \in Nat : n = OwnDims(f)
    BY DimsSeq
<1>2. \A k : /\ DimOf(f, k).id = k - 1 /\ DimOf(f, k).name = f.dim[k].name
             /\ DimOf(f, k).arrayLen = f.dim[k].arrayLen
    BY DEF DimOf
<1>3. /\ DOMAIN o.dim = 1 .. n
      /\ \A k \in 1 .. n : o.dim[k] = DimOf(f, k)
    BY <1>1, DimsSeq
<1>4. \A k \in 1 .. n : o.dim[k].id = k - 1 /\ o.dim[k] \in ToSet(o.dim)
    BY <1>2, <1>3 DEF ToSet
<1>5. ASSUME NEW e \in ToSet(o.dim)
      PROVE  \E k \in 1 .. n :
                /\ e = o.dim[k] /\ e.id = k - 1 /\ e.id + 1 = k
                /\ e.name = f.dim[e.id + 1].name /\ e.arrayLen = f.dim[e.id + 1].arrayLen
    <2>1. PICK k \in 1 .. n : e = o.dim[k]
        BY <1>3 DEF ToSet
    <2>2. e.id = k - 1 /\ e.name = f.dim[k].name /\ e.arrayLen = f.dim[k].arrayLen
        BY <1>2, <1>3, <2>1
    <2>3. e.id + 1 = k
        BY <2>2
    <2> QED
        BY <2>1, <2>2, <2>3
<1>6. ASSUME NEW id \in Nat, id < n
      PROVE  \E e \in ToSet(o.dim) : e.id = id
    <2>1. PICK k \in 1 .. n : id = k - 1
        <3>1. id + 1 \in 1 .. n /\ id = id + 1 - 1
            BY <1>6
        <3> QED
            BY <3>1
    <2> QED
        BY <1>4, <2>1
<1> QED
    BY <1>1, <1>4, <1>5, <1>6

\* The last call asks for dimensions.
LEMMA DimFacts ==
    ASSUME NEW what \in {"name", "arrayLen"}, AsksDims(what)
    PROVE  Facts = {DimVal(d, what) : d \in DimsMeant}
<1>1. CASE what = "name"
    BY <1>1 DEF Facts, DimVal, AsksDims
<1>2. CASE what = "arrayLen"
    BY <1>2 DEF Facts, DimVal, AsksDims
<1> QED
    BY <1>1, <1>2

\* One that is meant is answered as it is, if its length fits.
LEMMA DimAnswerRight ==
    ASSUME NEW f, f = Source("inq"), NEW what \in {"name", "arrayLen"}, AsksDims(what),
           NEW id \in DimIdsMeant, NEW e,
           e.name = f.dim[id + 1].name, e.arrayLen = f.dim[id + 1].arrayLen, e.arrayLen \in Nat
    PROVE  /\ DimOut(e, what).val # None
           /\ Misled \/ DimOut(e, what).val[1] \in Facts
<1>1. PICK d \in DimsMeant : e.name = d.name /\ e.arrayLen = d.arrayLen
    BY DEF DimsMeant
<1>2. DimVal(e, what) = DimVal(d, what)
    BY <1>1 DEF DimVal
<1>3. DimVal(e, what) \in Facts
    BY <1>2, DimFacts
<1>4. CASE what = "name"
    BY <1>3, <1>4 DEF DimOut, DimVal, Str_, Of, None
<1>5. CASE what = "arrayLen" /\ e.arrayLen <= INT_MAX
    BY <1>3, <1>5 DEF DimOut, DimVal, Int_, Of, None, ToInt
<1>6. CASE what = "arrayLen" /\ ~(e.arrayLen <= INT_MAX)
    <2>1. d.arrayLen > INT_MAX
        BY <1>1, <1>6, MsAssumption
    <2>2. Misled
        BY <1>6, <2>1 DEF Misled, AsksDims
    <2>3. DimOut(e, what).val # None
        BY <1>6 DEF DimOut, Int_, Of, None
    <2> QED
        BY <2>2, <2>3
<1> QED
    BY <1>4, <1>5, <1>6

\* The dimensions that are meant, of which there are those of the ids in the answer.
LEMMA DimsRight ==
    ASSUME NEW f, f = Source("inq"), HasFile(O, f), NEW what \in {"name", "arrayLen"},
           AsksDims(what), DimIdsMeant \subseteq Nat
    PROVE  Right(Given(DimOuts(DimIdsMeant, what)))
<1> DEFINE ds == {e \in DimsToFind(what) : e.id \in DimIdsMeant}
           outs == {DimOut(d, what) : d \in ds}
<1>1. IsFile(f) /\ OwnDims(f) \in Nat
    <2>1. IsFile(f)
        BY DEF HasFile, HasVars
    <2> QED
        BY <2>1, OwnDimsInFile
<1>2. ASSUME NEW d \in ds
      PROVE  DimOut(d, what).val # None /\ (Misled \/ DimOut(d, what).val[1] \in Facts)
    <2>1. PICK k \in 1 .. OwnDims(f) :
            /\ d.id + 1 = k
            /\ d.name = f.dim[d.id + 1].name /\ d.arrayLen = f.dim[d.id + 1].arrayLen
        BY DimsOfIds DEF DimsToFind
    <2>2. f.dim[k].arrayLen \in Nat
        BY <1>1, DimLens
    <2>3. d.arrayLen \in Nat
        BY <2>1, <2>2
    <2>4. PICK id \in DimIdsMeant : id = d.id
        OBVIOUS
    <2>5. d.name = f.dim[id + 1].name /\ d.arrayLen = f.dim[id + 1].arrayLen
        BY <2>1, <2>4
    <2> QED
        BY <2>3, <2>5, DimAnswerRight
<1>3. ASSUME ds = {}, Facts # {}
      PROVE  TooShort
    <2>1. PICK id \in DimIdsMeant : TRUE
        BY <1>3, DimFacts DEF DimsMeant
    <2>2. id \in Nat /\ f.dim[id + 1] \in DimsMeant
        BY DEF DimsMeant
    <2>3. CASE id >= OwnDims(f)
        BY <2>3 DEF TooShort, AsksDims, OwnDims
    <2>4. CASE id < OwnDims(f)
        <3>1. PICK e \in ToSet(O.dim) : e.id = id
            BY <2>2, <2>4, DimsOfIds
        <3>2. e.arrayLen = f.dim[id + 1].arrayLen
            BY <3>1, DimsOfIds
        <3>3. e \notin DimsToFind(what)
            BY <1>3, <3>1
        <3>4. what = "arrayLen" /\ ToInt(e.arrayLen) = -1
            BY <3>1, <3>3 DEF DimsToFind
        <3>5. PICK d \in DimsMeant : d.arrayLen = e.arrayLen
            BY <2>2, <3>2
        <3> QED
            BY <3>4, <3>5 DEF TooShort, AsksDims
    <2> QED
        BY <1>1, <2>2, <2>3, <2>4
<1>4. \A p \in outs : Beyond \/ Misled \/ (p.val # None /\ p.val[1] \in Facts)
    BY <1>2
<1>5. outs = {} => Beyond \/ TooShort \/ Facts = {}
    BY <1>3
<1>6. Right(Given(outs))
    <2> HIDE DEF outs
    <2> QED
        BY <1>4, <1>5, GivenRight
<1> QED
    BY <1>6 DEF DimOuts

\* The ids that are meant are of the file.
LEMMA DimIdsInFile ==
    ASSUME NEW f, f = Source("inq"), IsFile(f), query.inx \in Int
    PROVE  DimIdsMeant \subseteq Nat
<1>1. f.own \subseteq Nat
    <2>1. Len(f.dim) \in Nat
        BY OwnDimsInFile
    <2> QED
        BY <2>1 DEF IsFile
<1>2. ASSUME NEW u \in VarsNamed(query.name), query.inx + 1 \in DOMAIN u.dimId
      PROVE  u.dimId[query.inx + 1] \in Nat
    <2>1. PICK k \in DOMAIN f.var : u = f.var[k]
        BY DEF VarsNamed, ToSet
    <2>2. u.dimId \in Seq(Nat)
        BY <2>1 DEF IsFile
    <2>3. PICK j \in DOMAIN u.dimId : j = query.inx + 1
        BY <1>2
    <2>4. u.dimId[j] \in Nat
        BY <2>2, <2>3
    <2> QED
        BY <2>3, <2>4
<1> QED
    BY <1>1, <1>2 DEF DimIdsMeant

\* The dimension of an index, of a group whose dimensions come first.
LEMMA DimAtPlace ==
    ASSUME NEW f, f = Source("inq"), IsFile(f), DimsFirst(f), query.name = "null",
           query.inx \in Nat, query.inx < OwnDims(f)
    PROVE  query.inx \in DimIdsMeant
<1>1. PICK n \in Nat : n = OwnDims(f) /\ f.own = 0 .. n - 1
    BY OwnDimsInFile DEF DimsFirst, OwnDims
<1>2. PICK inx \in 0 .. n - 1 : inx = query.inx
    BY <1>1
<1>3. {i \in f.own : i < inx} = 0 .. inx - 1
    BY <1>1, <1>2
<1>4. Cardinality(0 .. inx - 1) = inx
    <2>1. Cardinality(0 .. inx - 1) = IF 0 > inx - 1 THEN 0 ELSE inx - 1 - 0 + 1
        BY FS_Interval
    <2> QED
        BY <1>2, <2>1
<1>5. Cardinality({i \in f.own : i < inx}) = query.inx /\ inx \in f.own
    BY <1>1, <1>2, <1>3, <1>4
<1>6. query.inx # -1
    BY <1>2
<1>7. inx \in {id \in f.own : Cardinality({i \in f.own : i < id}) = query.inx}
    BY <1>5
<1> QED
    BY <1>2, <1>6, <1>7 DEF DimIdsMeant

\* DimInInqOut finds what the rule means, within its bounds.
LEMMA DimsFound ==
    ASSUME NEW f, f = Source("inq"), HasFile(O, f), NEW what \in {"name", "arrayLen"},
           NEW inx \in Int, inx >= -1, NEW name, query.inx = inx, query.name = name,
           AsksDims(what), what = "name" => inx < OwnDims(f)
    PROVE  Right(DimInInqOut(inx, name, what))
<1>1. IsFile(f) /\ HasVars(O, f)
    BY DEF HasFile, HasVars
<1> DEFINE ids == DimIdsMeant
<1>2. ids \subseteq Nat
    BY <1>1, DimIdsInFile
<1>3. Right(Given(DimOuts(ids, what)))
    BY <1>2, DimsRight
<1>4. OwnDims(f) \in Nat /\ Len(O.dim) = OwnDims(f)
    BY DimsSeq
<1>5. CASE inx = -1
    <2>1. O.unlimdimid = f.unlimdim /\ f.unlimdim \in {-1} \union f.own /\ f.own \subseteq Nat
        <3>1. Len(f.dim) \in Nat
            BY <1>1, OwnDimsInFile
        <3> QED
            BY <1>1, <3>1 DEF HasFile, IsFile
    <2>2. ids = {f.unlimdim} \intersect f.own
        BY <1>5 DEF DimIdsMeant
    <2> HIDE DEF ids
    <2>3. \A d : (O.unlimdimid >= 0 /\ d.id = O.unlimdimid) <=> d.id \in ids
        BY <2>1, <2>2
    <2>4. {d \in DimsToFind(what) : O.unlimdimid >= 0 /\ d.id = O.unlimdimid}
            = {d \in DimsToFind(what) : d.id \in ids}
        BY <2>3
    <2>5. DimInInqOut(inx, name, what) = Given(DimOuts(ids, what))
        BY <1>5, <2>4 DEF DimInInqOut, DimOuts
    <2> QED
        BY <1>3, <2>5
<1>6. CASE inx # -1 /\ name = "null" /\ inx < OwnDims(f)
    <2>1. PICK k \in 1 .. OwnDims(f) : k = inx + 1 /\ inx = k - 1
        BY <1>4, <1>6
    <2>2. PICK e : e = O.dim[k]
        OBVIOUS
    <2>3. e = DimOf(f, k)
        BY <2>2, DimsSeq
    <2>4. e.name = f.dim[k].name /\ e.arrayLen = f.dim[k].arrayLen
        BY <2>3 DEF DimOf
    <2>5. e.arrayLen \in Nat
        BY <1>1, <2>4, DimLens
    <2>6. DimInInqOut(inx, name, what) = Given({DimOut(e, what)})
        BY <1>4, <1>6, <2>1, <2>2 DEF DimInInqOut
    <2>7. DimOut(e, what).val # None /\ (Misled \/ DimOut(e, what).val[1] \in Facts)
        <3>1. CASE ~DimsFirst(f)
            <4>1. Misled
                BY <1>6, <3>1 DEF Misled, AsksDims
            <4>2. DimOut(e, what).val # None
                BY DEF DimOut, Str_, Int_, Of, None
            <4> QED
                BY <4>1, <4>2
        <3>2. CASE DimsFirst(f)
            <4>1. inx \in DimIdsMeant
                <5>1. inx \in Nat
                    BY <2>1
                <5> QED
                    BY <1>1, <1>6, <3>2, <5>1, DimAtPlace
            <4>2. e.name = f.dim[inx + 1].name /\ e.arrayLen = f.dim[inx + 1].arrayLen
                BY <2>1, <2>4
            <4> QED
                BY <2>5, <4>1, <4>2, DimAnswerRight
        <3> QED
            BY <3>1, <3>2
    <2>8. Right(Given({DimOut(e, what)}))
        BY <2>7, GivenRight
    <2> QED
        BY <2>6, <2>8
<1>7. CASE inx # -1 /\ name = "null" /\ inx >= OwnDims(f)
    <2>1. what = "arrayLen"
        BY <1>4, <1>7
    <2>2. Beyond
        BY <1>7, <2>1 DEF Beyond, AsksDims, OwnDims
    <2> QED
        BY <2>2, BeyondRight
<1>8. CASE inx # -1 /\ name # "null"
    <2>0. ids = {v.dimId[inx + 1] : v \in {u \in VarsNamed(name) : inx + 1 \in DOMAIN u.dimId}}
        BY <1>8 DEF DimIdsMeant
    <2> HIDE DEF ids
    <2>1. CASE Named(O.var, name) = {} /\ VarsNamed(name) = {}
        <3>1. ids = {}
            BY <2>0, <2>1
        <3>2. DimInInqOut(inx, name, what) = Given(DimOuts(ids, what))
            BY <1>8, <2>1, <3>1 DEF DimInInqOut, DimOuts
        <3> QED
            BY <1>3, <3>2
    <2>2. ASSUME NEW k \in DOMAIN f.var, Named(O.var, name) = {VarOf(f, k)},
                 VarsNamed(name) = {f.var[k]}
          PROVE  Right(DimInInqOut(inx, name, what))
        <3>1. /\ VarOf(f, k).dimId = f.var[k].dimId /\ f.var[k].dimId \in Seq(Nat)
              /\ Len(f.var[k].shape) = Len(f.var[k].dimId)
            BY <1>1 DEF VarOf, IsFile
        <3>2. CASE inx >= Len(f.var[k].dimId)
            <4>1. Beyond
                BY <1>8, <2>2, <3>1, <3>2 DEF Beyond, AsksDims
            <4> QED
                BY <4>1, BeyondRight
        <3>3. CASE inx < Len(f.var[k].dimId)
            <4>1. inx + 1 \in DOMAIN f.var[k].dimId
                BY <1>8, <3>1, <3>3
            <4>2. ids = {f.var[k].dimId[inx + 1]}
                BY <2>0, <2>2, <4>1
            <4>3. ~(inx >= Len(f.var[k].dimId))
                BY <3>1, <3>3
            <4>4. \A d : (\E v \in Named(O.var, name) : d.id = v.dimId[inx + 1]) <=> d.id \in ids
                BY <2>2, <3>1, <4>2
            <4>5. ~\E v \in Named(O.var, name) : inx >= Len(v.dimId)
                BY <2>2, <3>1, <4>3
            <4>6. DimInInqOut(inx, name, what) = Given(DimOuts(ids, what))
                <5>1. {d \in DimsToFind(what) :
                            \E v \in Named(O.var, name) : d.id = v.dimId[inx + 1]}
                        = {d \in DimsToFind(what) : d.id \in ids}
                    BY <4>4
                <5> QED
                    BY <1>8, <4>5, <5>1 DEF DimInInqOut, DimOuts
            <4> QED
                BY <1>3, <4>6
        <3> QED
            BY <3>1, <3>2, <3>3
    <2>3. \/ Named(O.var, name) = {} /\ VarsNamed(name) = {}
          \/ \E k \in DOMAIN f.var :
                Named(O.var, name) = {VarOf(f, k)} /\ VarsNamed(name) = {f.var[k]}
        BY <1>1, VarMeant
    <2> QED
        BY <2>1, <2>2, <2>3
<1> QED
    BY <1>4, <1>5, <1>6, <1>7, <1>8

\* There is no dimension of a negative index, other than -1.
LEMMA NoDims ==
    ASSUME NEW f, f = Source("inq"), HasFile(O, f), NEW inx \in Int, inx < -1, query.inx = inx
    PROVE  DimsMeant = {}
<1>0. IsFile(f)
    BY DEF HasFile, HasVars
<1>1. ASSUME NEW u \in VarsNamed(query.name)
      PROVE  inx + 1 \notin DOMAIN u.dimId
    <2>1. PICK k \in DOMAIN f.var : u = f.var[k]
        BY DEF VarsNamed, ToSet
    <2>2. u.dimId \in Seq(Nat)
        BY <1>0, <2>1 DEF IsFile
    <2> QED
        BY <2>2
<1>2. {u \in VarsNamed(query.name) : inx + 1 \in DOMAIN u.dimId} = {}
    BY <1>1
<1>3. \A id \in f.own : Cardinality({i \in f.own : i < id}) # inx
    <2>1. \A S \in SUBSET f.own : Cardinality(S) \in Nat
        BY <1>0, OwnDimsInFile, FS_Subset, FS_CardinalityType
    <2>2. inx \notin Nat
        OBVIOUS
    <2> QED
        BY <2>1, <2>2
<1>4. DimIdsMeant = {}
    BY <1>2, <1>3 DEF DimIdsMeant
<1> QED
    BY <1>4 DEF DimsMeant

\* msiNcGetDimNameInInqOut and msiNcGetDimLenInInqOut.
LEMMA DimAnswers ==
    ASSUME NEW f, f = Source("inq"), HasFile(O, f), NEW inx \in Int, NEW name
    PROVE  /\ query = Query("msiNcGetDimNameInInqOut", inx, name, NoName) =>
                Right(msiNcGetDimNameInInqOut(inx, name))
           /\ query = Query("msiNcGetDimLenInInqOut", inx, name, NoName) =>
                Right(msiNcGetDimLenInInqOut(inx, name))
<1>1. /\ O.ndims = OwnDims(f) /\ OwnDims(f) \in Nat
      /\ O.nvars = Len(f.var) /\ Len(f.var) \in Nat
    <2>1. OwnDims(f) \in Nat
        BY DimsSeq
    <2> DEFINE T == ToSet(f.var)
    <2>2. f.var \in Seq(T)
        BY VarsSeq DEF HasFile
    <2> HIDE DEF T
    <2> QED
        BY <2>1, <2>2 DEF HasFile
<1>2. ASSUME query = Query("msiNcGetDimNameInInqOut", inx, name, NoName)
      PROVE  Right(msiNcGetDimNameInInqOut(inx, name))
    <2>1. query.ms = "msiNcGetDimNameInInqOut" /\ query.inx = inx /\ query.name = name
        BY <1>2 DEF Query
    <2>2. CASE inx \in -1 .. O.ndims - 1
        <3>1. Right(DimInInqOut(inx, name, "name"))
            BY <1>1, <2>1, <2>2, DimsFound DEF AsksDims
        <3> QED
            BY <2>2, <3>1 DEF msiNcGetDimNameInInqOut
    <2>3. CASE inx < -1
        <3>1. Facts = {}
            BY <2>1, <2>3, NoDims, DimFacts DEF AsksDims
        <3> QED
            BY <1>1, <2>3, <3>1, MissingRight DEF msiNcGetDimNameInInqOut
    <2>4. CASE inx >= O.ndims
        <3>1. TooShort
            BY <1>1, <2>1, <2>4 DEF TooShort, OwnDims
        <3> QED
            BY <1>1, <2>4, <3>1, MissingRight DEF msiNcGetDimNameInInqOut
    <2> QED
        BY <1>1, <2>2, <2>3, <2>4
<1>3. ASSUME query = Query("msiNcGetDimLenInInqOut", inx, name, NoName)
      PROVE  Right(msiNcGetDimLenInInqOut(inx, name))
    <2>1. query.ms = "msiNcGetDimLenInInqOut" /\ query.inx = inx /\ query.name = name
        BY <1>3 DEF Query
    <2>2. CASE inx \in -1 .. O.nvars - 1
        <3>1. Right(DimInInqOut(inx, name, "arrayLen"))
            BY <1>1, <2>1, <2>2, DimsFound DEF AsksDims
        <3> QED
            BY <2>2, <3>1 DEF msiNcGetDimLenInInqOut
    <2>3. CASE inx < -1
        <3>1. Facts = {}
            BY <2>1, <2>3, NoDims, DimFacts DEF AsksDims
        <3> QED
            BY <1>1, <2>3, <3>1, MissingRight DEF msiNcGetDimLenInInqOut
    <2>4. CASE inx >= O.nvars
        <3>1. TooShort
            BY <1>1, <2>1, <2>4 DEF TooShort, OwnDims
        <3> QED
            BY <1>1, <2>4, <3>1, MissingRight DEF msiNcGetDimLenInInqOut
    <2> QED
        BY <1>1, <2>2, <2>3, <2>4
<1> QED
    BY <1>2, <1>3
-----------------------------------------------------------------------------
(* Attributes *)

\* An answer has an attribute for each of the list.
LEMMA AttsSeq ==
    ASSUME NEW s, IsAtts(s)
    PROVE  /\ DOMAIN Atts(s) = DOMAIN s /\ Len(Atts(s)) = Len(s)
           /\ DOMAIN s = 1 .. Len(s) /\ Len(s) \in Nat
           /\ \A k \in DOMAIN s : Atts(s)[k] = AttOut(k - 1, s[k])
<1> DEFINE A == [name : Names, dataType : NcTypes, value : Seq(Values)]
<1>1. s \in Seq(A)
    BY DEF IsAtts
<1> HIDE DEF A
<1>2. DOMAIN s = 1 .. Len(s) /\ Len(s) \in Nat
    BY <1>1
<1>3. Atts(s) = [k \in 1 .. Len(s) |-> AttOut(k - 1, s[k])]
    BY <1>2 DEF Atts, AttOut
<1> DEFINE R == {AttOut(k - 1, s[k]) : k \in 1 .. Len(s)}
<1>4. \A k \in 1 .. Len(s) : AttOut(k - 1, s[k]) \in R
    OBVIOUS
<1> HIDE DEF R
<1>5. Atts(s) \in Seq(R) /\ Len(Atts(s)) = Len(s)
    BY <1>2, <1>3, <1>4
<1> QED
    BY <1>2, <1>3, <1>5

\* The attributes as are some of those the last call is about.
AttsSaid(as) == \A a \in as : \E b \in AttsMeant :
    a.name = b.name /\ a.dataType = b.dataType /\ a.value = b.value

\* The names of the attributes that are meant.
LEMMA AttNamesRight ==
    ASSUME NEW as, AttsSaid(as), as = {} => AttsMeant = {},
           query.ms = "msiNcGetAttNameInInqOut"
    PROVE  Right(Given({Str_(<<a.name>>) : a \in as}))
<1> DEFINE outs == {Str_(<<a.name>>) : a \in as}
<1>1. Facts = {<<a.name>> : a \in AttsMeant}
    BY DEF Facts
<1>2. \A p \in outs : p.val # None /\ p.val[1] \in Facts
    <2>1. ASSUME NEW a \in as
          PROVE  Str_(<<a.name>>).val # None /\ Str_(<<a.name>>).val[1] \in Facts
        <3>1. PICK b \in AttsMeant : a.name = b.name
            BY DEF AttsSaid
        <3>2. Str_(<<a.name>>).val[1] = <<b.name>> /\ Str_(<<a.name>>).val # None
            BY <3>1 DEF Str_, Of, None
        <3> QED
            BY <1>1, <3>2
    <2> QED
        BY <2>1
<1>3. outs = {} => Facts = {}
    BY <1>1
<1> HIDE DEF outs
<1>4. Right(Given(outs))
    BY <1>2, <1>3, GivenRight
<1> QED
    BY <1>4 DEF outs

\* Their values.
LEMMA AttValsRight ==
    ASSUME NEW as, AttsSaid(as), as = {} => Beyond \/ TooShort \/ AttsMeant = {},
           query.ms = "msiNcGetAttValStrInInqOut"
    PROVE  Right(AttVals(as))
<1> DEFINE val(a) == IF a.dataType = NC_CHAR THEN Quoted(a.value)
                     ELSE <<ValueStr[a.dataType, Head(a.value)]>>
<1>1. Facts = {val(a) : a \in AttsMeant}
    BY DEF Facts
<1>2. ASSUME NEW a \in as
      PROVE  Right(AttValStr(a))
    <2>1. PICK b \in AttsMeant : a.dataType = b.dataType /\ a.value = b.value
        BY DEF AttsSaid
    <2>2. val(b) \in Facts /\ val(b) = val(a)
        BY <1>1, <2>1
    <2>3. CASE a.dataType # NC_CHAR /\ (a.dataType = NC_STRING \/ a.value = <<>>)
        <3>1. Beyond
            BY <2>1, <2>3 DEF Beyond
        <3> QED
            BY <3>1, BeyondRight
    <2>4. CASE a.dataType = NC_CHAR
        <3>1. Quoted(a.value) \in Facts
            BY <2>2, <2>4
        <3>2. Right(Given({Str_(Quoted(a.value))}))
            <4>1. /\ Str_(Quoted(a.value)).val # None
                  /\ Str_(Quoted(a.value)).val[1] = Quoted(a.value)
                BY DEF Str_, Of, None
            <4> QED
                BY <3>1, <4>1, GivenRight
        <3> QED
            BY <2>4, <3>2 DEF AttValStr
    <2>5. CASE a.dataType # NC_CHAR /\ a.dataType # NC_STRING /\ a.value # <<>>
        <3> DEFINE x == <<ValueStr[a.dataType, a.value[1]]>>
        <3>0. Head(a.value) = a.value[1]
            OBVIOUS
        <3>1. x \in Facts
            BY <2>2, <2>5, <3>0
        <3> HIDE DEF x
        <3>2. Right(Given({Str_(x)}))
            <4>1. Str_(x).val # None /\ Str_(x).val[1] = x
                BY DEF Str_, Of, None
            <4> QED
                BY <3>1, <4>1, GivenRight
        <3> QED
            BY <2>5, <3>2 DEF AttValStr, x
    <2> QED
        BY <2>3, <2>4, <2>5
<1>3. CASE as = {}
    <2>1. Beyond \/ TooShort \/ Facts = {}
        BY <1>1, <1>3
    <2> QED
        BY <1>3, <2>1, MissingRight DEF AttVals
<1>4. CASE as # {}
    BY <1>2, <1>4 DEF AttVals, Right
<1> QED
    BY <1>3, <1>4

\* The attribute of an id.
LEMMA AttById ==
    ASSUME NEW s, IsAtts(s), NEW inx \in Int
    PROVE  \/ ById(Atts(s), inx) = {} /\ ById(s, inx) = {}
           \/ \E k \in DOMAIN s :
                ById(Atts(s), inx) = {AttOut(k - 1, s[k])} /\ ById(s, inx) = {s[k]}
BY AttsSeq DEF ById

\* Those of a name.
LEMMA AttsNamed ==
    ASSUME NEW s, IsAtts(s), NEW name
    PROVE  /\ \A a \in Named(Atts(s), name) : \E k \in DOMAIN s :
                a = AttOut(k - 1, s[k]) /\ s[k].name = name
           /\ \A k \in DOMAIN s : s[k].name = name => AttOut(k - 1, s[k]) \in Named(Atts(s), name)
<1>1. /\ DOMAIN s = 1 .. Len(s) /\ Len(s) \in Nat /\ Len(Atts(s)) = Len(s)
      /\ \A k \in 1 .. Len(s) : Atts(s)[k] = AttOut(k - 1, s[k])
    BY AttsSeq
<1>2. \A k : AttOut(k - 1, s[k]).name = s[k].name
    BY DEF AttOut
<1>3. ASSUME NEW a \in Named(Atts(s), name)
      PROVE  \E k \in DOMAIN s : a = AttOut(k - 1, s[k]) /\ s[k].name = name
    <2>1. PICK id \in 0 .. Len(s) - 1 : a = Atts(s)[id + 1] /\ Atts(s)[id + 1].name = name
        BY <1>1 DEF Named, IdsOf
    <2>2. PICK k \in 1 .. Len(s) : k = id + 1
        BY <1>1
    <2> QED
        BY <1>1, <1>2, <2>1, <2>2
<1>4. ASSUME NEW k \in DOMAIN s, s[k].name = name
      PROVE  AttOut(k - 1, s[k]) \in Named(Atts(s), name)
    <2>1. PICK id \in 0 .. Len(s) - 1 : id + 1 = k
        <3>1. k - 1 \in 0 .. Len(s) - 1 /\ k - 1 + 1 = k
            BY <1>1
        <3> QED
            BY <3>1
    <2>2. Atts(s)[k] = AttOut(k - 1, s[k]) /\ Atts(s)[k].name = name
        BY <1>1, <1>2, <1>4
    <2>3. id \in IdsOf(Atts(s), name)
        BY <1>1, <2>1, <2>2 DEF IdsOf
    <2> QED
        BY <2>1, <2>2, <2>3 DEF Named
<1> QED
    BY <1>3, <1>4

\* What the microservices find by an id.
SaidByInx(inx, name) ==
    IF name = "null" THEN ById(O.gatt, inx) ELSE UNION {ById(v.att, inx) : v \in Named(O.var, name)}

\* Attributes by their id are those of the file.
LEMMA InxSaid ==
    ASSUME NEW f, f = Source("inq"), HasFile(O, f), NEW inx \in Int, NEW name,
           query.inx = inx, query.name = name, query.key = NoName
    PROVE  AttsSaid(SaidByInx(inx, name)) /\ (SaidByInx(inx, name) = {} => AttsMeant = {})
<1>1. \A k, a : /\ AttOut(k, a).name = a.name /\ AttOut(k, a).dataType = a.dataType
                /\ AttOut(k, a).value = a.value
    BY DEF AttOut
<1>2. ASSUME NEW s, IsAtts(s), SaidByInx(inx, name) = ById(Atts(s), inx), AttsOf(name) = {s}
      PROVE  AttsSaid(SaidByInx(inx, name)) /\ (SaidByInx(inx, name) = {} => AttsMeant = {})
    <2>1. AttsMeant = ById(s, inx)
        BY <1>2 DEF AttsMeant
    <2>2. \/ ById(Atts(s), inx) = {} /\ ById(s, inx) = {}
          \/ \E k \in DOMAIN s : ById(Atts(s), inx) = {AttOut(k - 1, s[k])} /\ ById(s, inx) = {s[k]}
        BY <1>2, AttById
    <2> QED
        BY <1>1, <1>2, <2>1, <2>2 DEF AttsSaid
<1>3. CASE name = "null"
    <2>1. IsAtts(f.gatt) /\ O.gatt = Atts(f.gatt)
        BY DEF HasFile, HasVars, IsFile
    <2>2. SaidByInx(inx, name) = ById(Atts(f.gatt), inx) /\ AttsOf(name) = {f.gatt}
        BY <1>3, <2>1 DEF SaidByInx, AttsOf
    <2> QED
        BY <1>2, <2>1, <2>2
<1>4. CASE name # "null"
    <2>1. CASE Named(O.var, name) = {} /\ VarsNamed(name) = {}
        <3>1. SaidByInx(inx, name) = {} /\ AttsOf(name) = {}
            BY <1>4, <2>1 DEF SaidByInx, AttsOf
        <3> QED
            BY <3>1 DEF AttsMeant, AttsSaid
    <2>2. ASSUME NEW k \in DOMAIN f.var, Named(O.var, name) = {VarOf(f, k)},
                 VarsNamed(name) = {f.var[k]}
          PROVE  AttsSaid(SaidByInx(inx, name)) /\ (SaidByInx(inx, name) = {} => AttsMeant = {})
        <3>1. IsAtts(f.var[k].att) /\ VarOf(f, k).att = Atts(f.var[k].att)
            BY DEF HasFile, HasVars, IsFile, VarOf
        <3>2. SaidByInx(inx, name) = ById(Atts(f.var[k].att), inx) /\ AttsOf(name) = {f.var[k].att}
            BY <1>4, <2>2, <3>1 DEF SaidByInx, AttsOf
        <3> QED
            BY <1>2, <3>1, <3>2
    <2> QED
        BY <2>1, <2>2, VarMeant DEF HasFile
<1> QED
    BY <1>3, <1>4

\* msiNcGetAttNameInInqOut and msiNcGetAttValStrInInqOut by the id of an attribute.
LEMMA AttByInxAnswers ==
    ASSUME NEW f, f = Source("inq"), HasFile(O, f), NEW inx \in Int, NEW name
    PROVE  /\ query = Query("msiNcGetAttNameInInqOut", inx, name, NoName) =>
                Right(msiNcGetAttNameInInqOut(inx, name))
           /\ query = Query("msiNcGetAttValStrInInqOut", inx, name, NoName) =>
                Right(AttByInx(inx, name))
<1>1. \A ms : query = Query(ms, inx, name, NoName) =>
        query.ms = ms /\ query.inx = inx /\ query.name = name /\ query.key = NoName
    BY DEF Query
<1>2. /\ msiNcGetAttNameInInqOut(inx, name) = Given({Str_(<<a.name>>) : a \in SaidByInx(inx, name)})
      /\ AttByInx(inx, name) = AttVals(SaidByInx(inx, name))
    BY DEF msiNcGetAttNameInInqOut, AttByInx, SaidByInx
<1>3. ASSUME query = Query("msiNcGetAttNameInInqOut", inx, name, NoName)
      PROVE  Right(msiNcGetAttNameInInqOut(inx, name))
    BY <1>1, <1>2, <1>3, InxSaid, AttNamesRight
<1>4. ASSUME query = Query("msiNcGetAttValStrInInqOut", inx, name, NoName)
      PROVE  Right(AttByInx(inx, name))
    BY <1>1, <1>2, <1>4, InxSaid, AttValsRight
<1> QED
    BY <1>3, <1>4

\* What msiNcGetAttValStrInInqOut finds by the name of an attribute of a variable.
Near(v, key) == {a \in Named(v.att, key) : a.id < O.ngatts}

\* The attributes of a variable are searched up to the number of global ones.
LEMMA AttOfVarAnswers ==
    ASSUME NEW f, f = Source("inq"), HasFile(O, f), NEW key, key # NoName,
           NEW name, name # "null",
           query = Query("msiNcGetAttValStrInInqOut", 0, name, key),
           NEW k \in DOMAIN f.var, Named(O.var, name) = {VarOf(f, k)},
           VarsNamed(name) = {f.var[k]}
    PROVE  Right(AttByName(key, name))
<1> DEFINE s == f.var[k].att
           n == Len(f.gatt)
<1>1. query.ms = "msiNcGetAttValStrInInqOut" /\ query.name = name /\ query.key = key
    BY DEF Query
<1>2. /\ IsAtts(s) /\ IsAtts(f.gatt) /\ O.ngatts = n
      /\ VarOf(f, k).att = Atts(s) /\ VarOf(f, k).natts = Len(s)
    BY DEF HasFile, HasVars, IsFile, VarOf
<1> HIDE DEF s
<1>3. n \in Nat /\ Len(s) \in Nat /\ DOMAIN s = 1 .. Len(s)
    BY <1>2, AttsSeq
<1> HIDE DEF n
<1>4. AttsOf(name) = {s}
    BY DEF AttsOf, s
<1>5. AttsMeant = {a \in ToSet(s) : a.name = key}
    BY <1>1, <1>4 DEF AttsMeant
<1>6. \A j, a : /\ AttOut(j, a).name = a.name /\ AttOut(j, a).dataType = a.dataType
                /\ AttOut(j, a).value = a.value /\ AttOut(j, a).id = j
    BY DEF AttOut
<1> DEFINE as == {a \in Named(Atts(s), key) : a.id < n}
<1>7. AttsSaid(as)
    <2>1. ASSUME NEW a \in as
          PROVE  \E b \in AttsMeant :
                    a.name = b.name /\ a.dataType = b.dataType /\ a.value = b.value
        <3>1. PICK j \in DOMAIN s : a = AttOut(j - 1, s[j]) /\ s[j].name = key
            BY <1>2, AttsNamed
        <3>2. s[j] \in AttsMeant
            BY <1>5, <3>1 DEF ToSet
        <3> QED
            BY <1>6, <3>1, <3>2
    <2> QED
        BY <2>1 DEF AttsSaid
<1>8. ASSUME as = {}, NEW b \in AttsMeant
      PROVE  \E j \in IdsOf(s, key) : j >= n
    <2>1. PICK j \in DOMAIN s : b = s[j] /\ s[j].name = key
        BY <1>5 DEF ToSet
    <2>2. AttOut(j - 1, s[j]) \in Named(Atts(s), key)
        BY <1>2, <2>1, AttsNamed
    <2>3. ~(j - 1 < n)
        BY <1>6, <1>8, <2>2
    <2>4. PICK id \in 0 .. Len(s) - 1 : id + 1 = j
        <3>1. j - 1 \in 0 .. Len(s) - 1 /\ j - 1 + 1 = j
            BY <1>3
        <3> QED
            BY <3>1
    <2>5. id \in IdsOf(s, key)
        BY <2>1, <2>4 DEF IdsOf
    <2> QED
        BY <1>3, <2>3, <2>4, <2>5
<1>9. as = {} => TooShort \/ AttsMeant = {}
    <2>1. ASSUME as = {}, AttsMeant # {}
          PROVE  TooShort
        <3>1. \E j \in IdsOf(s, key) : j >= n
            BY <1>8, <2>1
        <3>2. \A u \in AttsOf(name) : \E j \in IdsOf(u, key) : j >= n
            BY <1>4, <3>1
        <3> QED
            BY <1>1, <3>2 DEF TooShort, n
    <2> QED
        BY <2>1
<1>10. CASE as = {} /\ n > Len(s)
    <2>1. AttsMeant = {}
        <3>1. \A j \in IdsOf(s, key) : j < n
            BY <1>3, <1>10 DEF IdsOf
        <3>2. IdsOf(s, key) \subseteq Int
            BY DEF IdsOf
        <3> QED
            BY <1>3, <1>8, <1>10, <3>1, <3>2
    <2>2. Beyond
        BY <1>1, <1>4, <1>10, <2>1 DEF Beyond, n
    <2> QED
        BY <2>2, BeyondRight
<1>11. CASE ~(as = {} /\ n > Len(s))
    <2>1. Right(AttVals(as))
        BY <1>1, <1>7, <1>9, AttValsRight
    <2>2. Near(VarOf(f, k), key) = as /\ UNION {as} = as
        BY <1>2 DEF Near
    <2> HIDE DEF as
    <2>3. AttByName(key, name) =
            IF \E v \in Named(O.var, name) : Near(v, key) = {} /\ O.ngatts > v.natts
            THEN Astray({}) ELSE AttVals(UNION {Near(v, key) : v \in Named(O.var, name)})
        BY DEF AttByName, Near
    <2>4. ~\E v \in Named(O.var, name) : Near(v, key) = {} /\ O.ngatts > v.natts
        BY <1>2, <1>11, <2>2
    <2>5. UNION {Near(v, key) : v \in Named(O.var, name)} = as
        BY <2>2
    <2> QED
        BY <2>1, <2>3, <2>4, <2>5
<1> QED
    BY <1>10, <1>11

\* msiNcGetAttValStrInInqOut by the name of an attribute.
LEMMA AttByNameAnswers ==
    ASSUME NEW f, f = Source("inq"), HasFile(O, f), NEW key, key # NoName, NEW name,
           query = Query("msiNcGetAttValStrInInqOut", 0, name, key)
    PROVE  Right(AttByName(key, name))
<1>1. query.ms = "msiNcGetAttValStrInInqOut" /\ query.name = name /\ query.key = key
    BY DEF Query
<1>2. \A j, a : /\ AttOut(j, a).name = a.name /\ AttOut(j, a).dataType = a.dataType
                /\ AttOut(j, a).value = a.value
    BY DEF AttOut
<1>3. CASE name = "null"
    <2> DEFINE s == f.gatt
               as == Named(Atts(s), key)
    <2>1. IsAtts(s) /\ O.gatt = Atts(s)
        BY DEF HasFile, HasVars, IsFile
    <2>2. AttsMeant = {a \in ToSet(s) : a.name = key}
        BY <1>1, <1>3 DEF AttsMeant, AttsOf
    <2> HIDE DEF s
    <2>3. AttsSaid(as)
        <3>1. ASSUME NEW a \in as
              PROVE  \E b \in AttsMeant :
                        a.name = b.name /\ a.dataType = b.dataType /\ a.value = b.value
            <4>1. PICK j \in DOMAIN s : a = AttOut(j - 1, s[j]) /\ s[j].name = key
                BY <2>1, AttsNamed
            <4>2. s[j] \in AttsMeant
                BY <2>2, <4>1 DEF ToSet
            <4> QED
                BY <1>2, <4>1, <4>2
        <3> QED
            BY <3>1 DEF AttsSaid
    <2>4. as = {} => AttsMeant = {}
        BY <2>1, <2>2, AttsNamed DEF ToSet
    <2>5. Right(AttVals(as))
        BY <1>1, <2>3, <2>4, AttValsRight
    <2> QED
        BY <1>3, <2>1, <2>5 DEF AttByName
<1>4. CASE name # "null"
    <2>1. CASE Named(O.var, name) = {} /\ VarsNamed(name) = {}
        <3>1. AttByName(key, name) = AttVals({})
            BY <1>4, <2>1 DEF AttByName
        <3>2. AttsMeant = {}
            BY <1>1, <1>4, <2>1 DEF AttsMeant, AttsOf
        <3>3. Right(AttVals({}))
            BY <1>1, <3>2, AttValsRight DEF AttsSaid
        <3> QED
            BY <3>1, <3>3
    <2> QED
        BY <1>4, <2>1, VarMeant, AttOfVarAnswers DEF HasFile
<1> QED
    BY <1>3, <1>4
-----------------------------------------------------------------------------
(* Variables *)

\* The variable of an id, and the id of a variable.
LEMMA VarById ==
    ASSUME NEW f, HasVars(O, f), NEW inx \in Int
    PROVE  \/ ById(O.var, inx) = {} /\ ById(f.var, inx) = {}
           \/ \E k \in DOMAIN f.var :
                ById(O.var, inx) = {VarOf(f, k)} /\ ById(f.var, inx) = {f.var[k]}
BY VarsSeq DEF ById

LEMMA VarId ==
    ASSUME NEW f, f = Source("inq"), HasVars(O, f), NEW k \in DOMAIN f.var
    PROVE  IdsOf(f.var, f.var[k].name) = {k - 1}
<1> DEFINE name == f.var[k].name
<1>1. f.var[k] \in VarsNamed(name)
    BY DEF VarsNamed, ToSet
<1> HIDE DEF name
<1>2. PICK j \in DOMAIN f.var : f.var[j].name = name /\ IdsOf(f.var, name) = {j - 1}
    BY <1>1, VarMeant
<1>3. j = k
    BY <1>2, VarsSeq DEF Unique, name
<1> QED
    BY <1>2, <1>3 DEF name

\* msiNcGetVarIdInInqOut, msiNcGetVarNameInInqOut and msiNcGetVarTypeInInqOut.
LEMMA VarAnswers ==
    ASSUME NEW f, f = Source("inq"), HasFile(O, f), NEW inx \in Int, NEW name
    PROVE  /\ query = Query("msiNcGetVarIdInInqOut", inx, name, NoName) /\ name # NoName =>
                Right(msiNcGetVarIdInInqOut(inx, name))
           /\ query = Query("msiNcGetVarNameInInqOut", inx, NoName, NoName) =>
                Right(msiNcGetVarNameInInqOut(inx))
           /\ query = Query("msiNcGetVarTypeInInqOut", 0, name, NoName) =>
                Right(msiNcGetVarTypeInInqOut(name))
<1>1. \A ms, i, n : query = Query(ms, i, n, NoName) =>
        query.ms = ms /\ query.inx = i /\ query.name = n
    BY DEF Query
<1>2. HasVars(O, f)
    BY DEF HasFile
<1>3. \A k : /\ VarOf(f, k).id = k - 1 /\ VarOf(f, k).name = f.var[k].name
             /\ VarOf(f, k).dataType = f.var[k].dataType
    BY DEF VarOf
<1>4. \A x : Int_(x).val # None /\ Int_(x).val[1] = x /\ Str_(x).val # None /\ Str_(x).val[1] = x
    BY DEF Int_, Str_, Of, None
<1>5. ASSUME query = Query("msiNcGetVarIdInInqOut", inx, name, NoName), name # NoName
      PROVE  Right(msiNcGetVarIdInInqOut(inx, name))
    <2> DEFINE vs == IF name = "null" THEN ById(O.var, inx) ELSE Named(O.var, name)
               outs == {Int_(v.id) : v \in vs}
    <2>1. Facts = UNION {IdsOf(f.var, v.name) : v \in VarsMeant}
        BY <1>1, <1>5 DEF Facts
    <2>2. VarsMeant = IF name = "null" THEN ById(f.var, inx) ELSE VarsNamed(name)
        BY <1>1, <1>5 DEF VarsMeant
    <2>3. \/ vs = {} /\ VarsMeant = {}
          \/ \E k \in DOMAIN f.var : vs = {VarOf(f, k)} /\ VarsMeant = {f.var[k]}
        <3>1. CASE name = "null"
            BY <1>2, <2>2, <3>1, VarById
        <3>2. CASE name # "null"
            BY <1>2, <2>2, <3>2, VarMeant
        <3> QED
            BY <3>1, <3>2
    <2> HIDE DEF vs
    <2>4. CASE vs = {} /\ VarsMeant = {}
        <3>1. outs = {} /\ Facts = {}
            BY <2>1, <2>4
        <3> QED
            BY <3>1, GivenRight DEF msiNcGetVarIdInInqOut, vs
    <2>5. ASSUME NEW k \in DOMAIN f.var, vs = {VarOf(f, k)}, VarsMeant = {f.var[k]}
          PROVE  Right(msiNcGetVarIdInInqOut(inx, name))
        <3>1. Facts = {k - 1}
            BY <1>2, <2>1, <2>5, VarId
        <3>2. outs = {Int_(k - 1)}
            BY <1>3, <2>5
        <3> HIDE DEF outs
        <3>3. Right(Given(outs))
            BY <1>4, <3>1, <3>2, GivenRight
        <3> QED
            BY <3>3 DEF msiNcGetVarIdInInqOut, vs, outs
    <2> QED
        BY <2>3, <2>4, <2>5
<1>6. ASSUME query = Query("msiNcGetVarNameInInqOut", inx, NoName, NoName)
      PROVE  Right(msiNcGetVarNameInInqOut(inx))
    <2> DEFINE outs == {Str_(<<v.name>>) : v \in ById(O.var, inx)}
    <2>1. Facts = {<<v.name>> : v \in ById(f.var, inx)}
        <3>1. VarsMeant = ById(f.var, inx)
            BY <1>1, <1>6 DEF VarsMeant
        <3> QED
            BY <1>1, <1>6, <3>1 DEF Facts
    <2>2. CASE ById(O.var, inx) = {} /\ ById(f.var, inx) = {}
        <3>1. outs = {} /\ Facts = {}
            BY <2>1, <2>2
        <3> QED
            BY <3>1, GivenRight DEF msiNcGetVarNameInInqOut
    <2>3. ASSUME NEW k \in DOMAIN f.var, ById(O.var, inx) = {VarOf(f, k)},
                 ById(f.var, inx) = {f.var[k]}
          PROVE  Right(msiNcGetVarNameInInqOut(inx))
        <3>1. Facts = {<<f.var[k].name>>}
            BY <2>1, <2>3
        <3>2. outs = {Str_(<<f.var[k].name>>)}
            BY <1>3, <2>3
        <3> HIDE DEF outs
        <3>3. Right(Given(outs))
            BY <1>4, <3>1, <3>2, GivenRight
        <3> QED
            BY <3>3 DEF msiNcGetVarNameInInqOut, outs
    <2> QED
        BY <1>2, <2>2, <2>3, VarById
<1>7. ASSUME query = Query("msiNcGetVarTypeInInqOut", 0, name, NoName)
      PROVE  Right(msiNcGetVarTypeInInqOut(name))
    <2> DEFINE outs == {Int_(v.dataType) : v \in Named(O.var, name)}
    <2>1. Facts = {v.dataType : v \in VarsNamed(name)}
        BY <1>1, <1>7 DEF Facts
    <2>2. CASE Named(O.var, name) = {} /\ VarsNamed(name) = {}
        <3>1. outs = {} /\ Facts = {}
            BY <2>1, <2>2
        <3> QED
            BY <3>1, GivenRight DEF msiNcGetVarTypeInInqOut
    <2>3. ASSUME NEW k \in DOMAIN f.var, Named(O.var, name) = {VarOf(f, k)},
                 VarsNamed(name) = {f.var[k]}
          PROVE  Right(msiNcGetVarTypeInInqOut(name))
        <3>1. Facts = {f.var[k].dataType}
            BY <2>1, <2>3
        <3>2. outs = {Int_(f.var[k].dataType)}
            BY <1>3, <2>3
        <3> HIDE DEF outs
        <3>3. Right(Given(outs))
            BY <1>4, <3>1, <3>2, GivenRight
        <3> QED
            BY <3>3 DEF msiNcGetVarTypeInInqOut, outs
    <2> QED
        BY <1>2, <2>2, <2>3, VarMeant
<1> QED
    BY <1>5, <1>6, <1>7

\* msiNcGetNdimsInInqOut, msiNcGetNattsInInqOut, msiNcGetNvarsInInqOut and
\* msiNcGetFormatInInqOut.
LEMMA NumberAnswers ==
    ASSUME NEW f, f = Source("inq"), HasFile(O, f), NEW name
    PROVE  /\ query = Query("msiNcGetNdimsInInqOut", 0, name, NoName) =>
                Right(msiNcGetNdimsInInqOut(name))
           /\ query = Query("msiNcGetNattsInInqOut", 0, name, NoName) =>
                Right(msiNcGetNattsInInqOut(name))
           /\ query = Query("msiNcGetNvarsInInqOut", 0, NoName, NoName) =>
                Right(msiNcGetNvarsInInqOut)
           /\ query = Query("msiNcGetFormatInInqOut", 0, NoName, NoName) =>
                Right(msiNcGetFormatInInqOut)
<1>1. \A ms, i, n : query = Query(ms, i, n, NoName) =>
        query.ms = ms /\ query.inx = i /\ query.name = n
    BY DEF Query
<1>2. HasVars(O, f) /\ IsFile(f)
    BY DEF HasFile, HasVars
<1>3. \A k \in DOMAIN f.var : /\ Len(VarOf(f, k).dimId) = Len(f.var[k].shape)
                              /\ VarOf(f, k).natts = Len(f.var[k].att)
    BY <1>2 DEF VarOf, IsFile
<1>4. \A x : Int_(x).val # None /\ Int_(x).val[1] = x
    BY DEF Int_, Of, None
<1>5. \A x : Facts = {x} => Right(Given({Int_(x)}))
    BY <1>4, GivenRight
<1>6. ASSUME query = Query("msiNcGetNdimsInInqOut", 0, name, NoName)
      PROVE  Right(msiNcGetNdimsInInqOut(name))
    <2>1. Facts = IF name = "null" THEN {OwnDims(f)} ELSE {Len(v.shape) : v \in VarsNamed(name)}
        BY <1>1, <1>6 DEF Facts, OwnDims
    <2>2. CASE name = "null"
        BY <1>5, <2>1, <2>2 DEF HasFile, msiNcGetNdimsInInqOut
    <2>3. CASE name # "null" /\ Named(O.var, name) = {} /\ VarsNamed(name) = {}
        <3>1. Facts = {} /\ msiNcGetNdimsInInqOut(name) = Given({})
            BY <2>1, <2>3 DEF msiNcGetNdimsInInqOut
        <3> QED
            BY <3>1, GivenRight
    <2>4. ASSUME name # "null", NEW k \in DOMAIN f.var, Named(O.var, name) = {VarOf(f, k)},
                 VarsNamed(name) = {f.var[k]}
          PROVE  Right(msiNcGetNdimsInInqOut(name))
        <3>1. /\ Facts = {Len(f.var[k].shape)}
              /\ msiNcGetNdimsInInqOut(name) = Given({Int_(Len(f.var[k].shape))})
            <4>1. msiNcGetNdimsInInqOut(name) = Given({Int_(Len(VarOf(f, k).dimId))})
                BY <2>4 DEF msiNcGetNdimsInInqOut
            <4>2. Facts = {Len(f.var[k].shape)}
                BY <2>1, <2>4
            <4>3. Len(VarOf(f, k).dimId) = Len(f.var[k].shape)
                BY <1>3
            <4> QED
                BY <4>1, <4>2, <4>3
        <3> QED
            BY <1>5, <3>1
    <2> QED
        BY <1>2, <2>2, <2>3, <2>4, VarMeant
<1>7. ASSUME query = Query("msiNcGetNattsInInqOut", 0, name, NoName)
      PROVE  Right(msiNcGetNattsInInqOut(name))
    <2>1. Facts = {Len(s) : s \in AttsOf(name)}
        BY <1>1, <1>7 DEF Facts
    <2>2. CASE name = "null"
        <3>1. Facts = {Len(f.gatt)}
            BY <2>1, <2>2 DEF AttsOf
        <3> QED
            BY <1>5, <2>2, <3>1 DEF HasFile, msiNcGetNattsInInqOut
    <2>3. CASE name # "null" /\ Named(O.var, name) = {} /\ VarsNamed(name) = {}
        <3>1. Facts = {} /\ msiNcGetNattsInInqOut(name) = Given({})
            BY <2>1, <2>3 DEF msiNcGetNattsInInqOut, AttsOf
        <3> QED
            BY <3>1, GivenRight
    <2>4. ASSUME name # "null", NEW k \in DOMAIN f.var, Named(O.var, name) = {VarOf(f, k)},
                 VarsNamed(name) = {f.var[k]}
          PROVE  Right(msiNcGetNattsInInqOut(name))
        <3>1. /\ Facts = {Len(f.var[k].att)}
              /\ msiNcGetNattsInInqOut(name) = Given({Int_(Len(f.var[k].att))})
            <4>1. msiNcGetNattsInInqOut(name) = Given({Int_(VarOf(f, k).natts)})
                BY <2>4 DEF msiNcGetNattsInInqOut
            <4>2. Facts = {Len(f.var[k].att)}
                BY <2>1, <2>4 DEF AttsOf
            <4>3. VarOf(f, k).natts = Len(f.var[k].att)
                BY <1>3
            <4> QED
                BY <4>1, <4>2, <4>3
        <3> QED
            BY <1>5, <3>1
    <2> QED
        BY <1>2, <2>2, <2>3, <2>4, VarMeant
<1>8. ASSUME query = Query("msiNcGetNvarsInInqOut", 0, NoName, NoName)
      PROVE  Right(msiNcGetNvarsInInqOut)
    <2>1. Facts = {Len(f.var)}
        BY <1>1, <1>8 DEF Facts
    <2> QED
        BY <1>5, <2>1 DEF HasFile, msiNcGetNvarsInInqOut
<1>9. ASSUME query = Query("msiNcGetFormatInInqOut", 0, NoName, NoName)
      PROVE  Right(msiNcGetFormatInInqOut)
    <2>1. Facts = {f.format}
        BY <1>1, <1>9 DEF Facts
    <2> QED
        BY <1>5, <2>1 DEF HasFile, msiNcGetFormatInInqOut
<1> QED
    BY <1>6, <1>7, <1>8, <1>9
-----------------------------------------------------------------------------
(* Groups and items *)

\* msiNcGetNGrpsInInqOut and msiNcGetGrpInInqOut.
LEMMA GrpAnswers ==
    ASSUME GrpsFrom, files.grps # None, NEW inx
    PROVE  /\ query = Query("msiNcGetNGrpsInInqOut", 0, NoName, NoName) =>
                Right(msiNcGetNGrpsInInqOut)
           /\ query = Query("msiNcGetGrpInInqOut", inx, NoName, NoName) =>
                Right(msiNcGetGrpInInqOut(inx))
<1> DEFINE s == Source("grps").grpName
<1>1. \A ms, i, n : query = Query(ms, i, n, NoName) =>
        query.ms = ms /\ query.inx = i /\ query.name = n
    BY DEF Query
<1>2. \A x : Int_(x).val # None /\ Int_(x).val[1] = x /\ Str_(x).val # None /\ Str_(x).val[1] = x
    BY DEF Int_, Str_, Of, None
<1>3. param.grps.val[1] = s
    BY DEF GrpsFrom
<1>4. ASSUME query = Query("msiNcGetNGrpsInInqOut", 0, NoName, NoName)
      PROVE  Right(msiNcGetNGrpsInInqOut)
    <2>1. Facts = {Len(s)}
        BY <1>1, <1>4 DEF Facts
    <2> HIDE DEF s
    <2>2. Right(Given({Int_(Len(s))}))
        BY <1>2, <2>1, GivenRight
    <2> QED
        BY <1>3, <2>2 DEF msiNcGetNGrpsInInqOut
<1>5. ASSUME query = Query("msiNcGetGrpInInqOut", inx, NoName, NoName)
      PROVE  Right(msiNcGetGrpInInqOut(inx))
    <2>1. Facts = {<<g>> : g \in ById(s, inx)}
        BY <1>1, <1>5 DEF Facts
    <2> HIDE DEF s
    <2> DEFINE outs == {Str_(<<g>>) : g \in ById(s, inx)}
    <2>2. \A p \in outs : p.val # None /\ p.val[1] \in Facts
        <3>1. ASSUME NEW g \in ById(s, inx)
              PROVE  Str_(<<g>>).val # None /\ Str_(<<g>>).val[1] \in Facts
            BY <1>2, <2>1
        <3> QED
            BY <3>1
    <2>3. outs = {} => Facts = {}
        BY <2>1
    <2> HIDE DEF outs
    <2>4. Right(Given(outs))
        BY <2>2, <2>3, GivenRight
    <2> QED
        BY <1>3, <2>4 DEF msiNcGetGrpInInqOut, outs
<1> QED
    BY <1>4, <1>5

\* The microservices that look into an item of msiNcInqWithId.
LEMMA ItemAnswers ==
    ASSUME ItemFrom, files.item # None, NEW inx
    PROVE  /\ query = Query("msiNcGetNumDim", 0, NoName, NoName) => Right(msiNcGetNumDim)
           /\ query = Query("msiNcGetDataType", 0, "item", NoName) =>
                Right(msiNcGetDataType("item"))
           /\ query = Query("msiNcGetArrayLen", 0, "item", NoName) =>
                Right(msiNcGetArrayLen("item"))
           /\ query = Query("msiNcGetElementInArray", inx, "item", NoName) =>
                Right(msiNcGetElementInArray("item", inx))
<1> DEFINE f == Source("item")
           t == files.item[1].paramType
           s == Items(files.item[1], f)
<1>1. \A ms, i, n : query = Query(ms, i, n, NoName) =>
        query.ms = ms /\ query.inx = i /\ query.name = n
    BY DEF Query
<1>2. \A x : Int_(x).val # None /\ Int_(x).val[1] = x
    BY DEF Int_, Of, None
<1>3. \A x : Facts = {x} => Right(Given({Int_(x)}))
    BY <1>2, GivenRight
<1>4. IsFile(f) /\ t \in {{"dim"}, {"var"}} /\ ~IsNull("item")
    BY DEF ItemFrom, IsNull
<1>5. PICK i : Item = ItemStruct(t, i) /\ ItemMeant = i
    BY DEF ItemFrom
<1>6. s = (IF t = {"dim"} THEN f.dim ELSE f.var)
    BY <1>4 DEF Items, IsFile
<1>7. ItemMeant = i /\ \E k \in DOMAIN s : i = s[k]
    BY <1>5 DEF ItemFrom, ItemMeant
<1>8. ItemIsVar <=> t = {"var"}
    BY DEF ItemIsVar
<1>9. CASE t = {"dim"}
    <2>1. ~ItemIsVar /\ Item.intArray = <<>> /\ Item.mylong = i.arrayLen /\ Item.dataType = 0
        BY <1>5, <1>8, <1>9 DEF ItemStruct
    <2>2. ASSUME query = Query("msiNcGetNumDim", 0, NoName, NoName)
          PROVE  Right(msiNcGetNumDim)
        BY <1>1, <1>3, <2>1, <2>2 DEF Facts, msiNcGetNumDim
    <2>3. ASSUME query = Query("msiNcGetDataType", 0, "item", NoName)
          PROVE  Right(msiNcGetDataType("item"))
        BY <1>1, <1>3, <1>4, <2>1, <2>3 DEF Facts, msiNcGetDataType, Item
    <2>4. ASSUME query = Query("msiNcGetArrayLen", 0, "item", NoName)
          PROVE  Right(msiNcGetArrayLen("item"))
        <3>1. Facts = {i.arrayLen} /\ query.ms = "msiNcGetArrayLen" /\ query.name = "item"
            BY <1>1, <1>7, <2>1, <2>4 DEF Facts
        <3>2. msiNcGetArrayLen("item") = Given({Int_(ToInt(i.arrayLen))})
            BY <1>4, <2>1 DEF msiNcGetArrayLen
        <3>3. i.arrayLen \in Nat
            BY <1>4, <1>6, <1>7, <1>9, DimLens
        <3>4. CASE i.arrayLen <= INT_MAX
            BY <1>3, <3>1, <3>2, <3>4 DEF ToInt
        <3>5. CASE ~(i.arrayLen <= INT_MAX)
            <4>1. Misled
                BY <1>7, <2>1, <3>1, <3>3, <3>5, MsAssumption DEF Misled
            <4> QED
                BY <3>2, <4>1, GivenRight
        <3> QED
            BY <3>4, <3>5
    <2>5. ASSUME query = Query("msiNcGetElementInArray", inx, "item", NoName)
          PROVE  Right(msiNcGetElementInArray("item", inx))
        <3>1. Facts = {}
            BY <1>1, <2>1, <2>5 DEF Facts
        <3>2. msiNcGetElementInArray("item", inx) = Given({})
            <4>1. {inx + 1} \intersect DOMAIN Item.intArray = {}
                BY <2>1
            <4>2. msiNcGetElementInArray("item", inx) =
                    Given({Int_(Item.intArray[k]) :
                            k \in {inx + 1} \intersect DOMAIN Item.intArray})
                BY <1>4 DEF msiNcGetElementInArray
            <4> QED
                BY <4>1, <4>2
        <3> QED
            BY <3>1, <3>2, GivenRight
    <2> QED
        BY <2>2, <2>3, <2>4, <2>5
<1>10. CASE t = {"var"}
    <2>1. ItemIsVar /\ Item.intArray = i.dimId /\ Item.mylong = 0 /\ Item.dataType = i.dataType
        BY <1>5, <1>8, <1>10 DEF ItemStruct
    <2>2. i.dimId \in Seq(Nat) /\ Len(i.shape) = Len(i.dimId)
        <3>1. PICK k \in DOMAIN f.var : i = f.var[k]
            BY <1>6, <1>7, <1>10
        <3> QED
            BY <1>4, <3>1 DEF IsFile
    <2>3. ASSUME query = Query("msiNcGetNumDim", 0, NoName, NoName)
          PROVE  Right(msiNcGetNumDim)
        BY <1>1, <1>3, <1>7, <2>1, <2>2, <2>3 DEF Facts, msiNcGetNumDim
    <2>4. ASSUME query = Query("msiNcGetDataType", 0, "item", NoName)
          PROVE  Right(msiNcGetDataType("item"))
        BY <1>1, <1>3, <1>4, <1>7, <2>1, <2>4 DEF Facts, msiNcGetDataType, Item
    <2>5. ASSUME query = Query("msiNcGetArrayLen", 0, "item", NoName)
          PROVE  Right(msiNcGetArrayLen("item"))
        <3>1. ToInt(0) = 0
            BY MsAssumption DEF ToInt
        <3> QED
            BY <1>1, <1>3, <1>4, <2>1, <2>5, <3>1 DEF Facts, msiNcGetArrayLen
    <2>6. ASSUME query = Query("msiNcGetElementInArray", inx, "item", NoName)
          PROVE  Right(msiNcGetElementInArray("item", inx))
        <3> DEFINE ks == {inx + 1} \intersect DOMAIN i.dimId
                   outs == {Int_(i.dimId[k]) : k \in ks}
        <3>1. Facts = {i.dimId[k] : k \in ks}
            <4>1. Facts = ById(i.dimId, inx)
                BY <1>1, <1>7, <2>1, <2>6 DEF Facts
            <4> QED
                BY <4>1 DEF ById
        <3>2. msiNcGetElementInArray("item", inx) = Given(outs)
            BY <1>4, <2>1 DEF msiNcGetElementInArray
        <3> HIDE DEF ks
        <3>3. \A p \in outs : p.val # None /\ p.val[1] \in Facts
            BY <1>2, <3>1
        <3>4. outs = {} => Facts = {}
            BY <3>1
        <3> HIDE DEF outs
        <3> QED
            BY <3>2, <3>3, <3>4, GivenRight
    <2> QED
        BY <2>3, <2>4, <2>5, <2>6
<1> QED
    BY <1>4, <1>9, <1>10
-----------------------------------------------------------------------------
(* The variables of a rule have what their files have *)

\* What a microservice waits for is what it has asked for.
AsksFor == call # None =>
    /\ call[1].ms = "msiNcInqGrps" => req.op = "inqGrps"
    /\ call[1].ms = "msiNcInqWithId" =>
        req.op = "inqWithId" /\ \E t \in ParamTypes : req.paramType = {t}

FromInv == FileFrom /\ GrpsFrom /\ ItemFrom /\ AsksFor

\* Files do not change, so that what is kept stays as it was in them.
LEMMA FileKept ==
    ASSUME FileFrom, files'["inq"] = files["inq"], world'.lib = world.lib,
           param'["inq"] = param["inq"]
    PROVE  FileFrom'
<1>1. O' = O /\ IsSet("inq")' = IsSet("inq")
    BY DEF O, IsSet, Unset
<1>2. Source("inq")' = Source("inq")
    BY DEF Source, FileOf
<1>3. HasFile(O, Source("inq"))' = HasFile(O, Source("inq"))
    BY <1>1, <1>2 DEF HasFile, HasVars
<1> QED
    BY <1>1, <1>3 DEF FileFrom

LEMMA GrpsKept ==
    ASSUME GrpsFrom, files'["grps"] = files["grps"], world'.lib = world.lib,
           param'["grps"] = param["grps"]
    PROVE  GrpsFrom'
<1>1. Source("grps")' = Source("grps") /\ IsSet("grps")' = IsSet("grps")
    BY DEF Source, FileOf, IsSet, Unset
<1> QED
    BY <1>1 DEF GrpsFrom

LEMMA ItemKept ==
    ASSUME ItemFrom, files'["item"] = files["item"], world'.lib = world.lib,
           param'["item"] = param["item"]
    PROVE  ItemFrom'
<1>1. Source("item")' = Source("item") /\ IsSet("item")' = IsSet("item") /\ Item' = Item
    BY DEF Source, FileOf, IsSet, Unset, Item
<1>2. Items(files.item[1], Source("item"))' = Items(files.item[1], Source("item"))
    BY <1>1 DEF Items
<1> QED
    BY <1>1, <1>2 DEF ItemFrom, ItemStruct, ItemMeant

LEMMA FilesKept ==
    ASSUME FromInv, UNCHANGED files, world'.lib = world.lib, AsksFor',
           \A x \in {"inq", "grps", "item"} : param'[x] = param[x]
    PROVE  FromInv'
BY FileKept, GrpsKept, ItemKept DEF FromInv

\* A microservice that gives none of them, and calls no handler.
LEMMA LocalKeeps ==
    ASSUME FromInv, NEW q, NEW r, NEW ps, Returns(q, r, ps), UNCHANGED files,
           world'.lib = world.lib, req' = req,
           DOMAIN ps \intersect {"inq", "grps", "item"} = {}
    PROVE  FromInv'
<1>1. \A x \in {"inq", "grps", "item"} : param'[x] = param[x]
    BY DEF Returns, Params
<1>2. AsksFor'
    BY DEF Returns, FromInv, AsksFor
<1> QED
    BY <1>1, <1>2, FilesKept

\* Descriptors come and go; the files behind them stay.
LEMMA EnterKeeps ==
    ASSUME RuleInv, FromInv, msiNcOpen \/ msiNcCreate \/ msiNcOpenGroup \/ msiNcClose
    PROVE  FromInv'
<1>1. world = [l1desc |-> world.l1desc, lib |-> world.lib]
    BY DEF RuleInv, InqInv, IsWorld
<1>2. CASE msiNcClose
    <2>1. PICK r : Returns(NoQuery, r, <<>>)
        BY <1>2 DEF msiNcClose
    <2>2. world'.lib = world.lib /\ req' = req /\ UNCHANGED files /\ DOMAIN <<>> = {}
        BY <1>1, <1>2 DEF msiNcClose
    <2> QED
        BY <2>1, <2>2, LocalKeeps
<1>3. CASE msiNcOpen \/ msiNcCreate \/ msiNcOpenGroup
    <2>1. PICK h, n : Enter(h, n)
        BY <1>3 DEF msiNcOpen, msiNcCreate, msiNcOpenGroup
    <2>2. PICK x : /\ world' = [world EXCEPT !.l1desc[x] = [inuse |-> TRUE, host |-> h, ncid |-> n]]
                   /\ Returns(NoQuery, "ok", [ncid |-> Int_(x)])
                   /\ req' = req /\ UNCHANGED files
        BY <2>1 DEF Enter
    <2>3. world'.lib = world.lib
        BY <1>1, <2>2
    <2> QED
        BY <2>2, <2>3, LocalKeeps
<1> QED
    BY <1>2, <1>3

\* A look gives no more than an output.
LEMMA LooksKeeps ==
    ASSUME FromInv, NEW ms, NEW x, NEW inx, NEW name, NEW key, NEW answers, IsAnswers(answers),
           Looks(ms, x, inx, name, key, answers)
    PROVE  FromInv'
<1>1. PICK a \in answers : Returns(Query(ms, inx, name, key), a.ret, a.ps)
    BY DEF Looks
<1>2. /\ DOMAIN a.ps \intersect {"inq", "grps", "item"} = {}
      /\ UNCHANGED <<files, world, req>>
    BY DEF Looks, Locally, IsAnswers, NoHandler, vars
<1> QED
    BY <1>1, <1>2, LocalKeeps

LEMMA LookKeeps ==
    ASSUME FromInv, InInqOut \/ InArray \/ msiNcIntDataTypeToStr \/ msiFloatToString
    PROVE  FromInv'
<1>1. CASE InInqOut
    BY <1>1, AnswersOfFile, LooksKeeps DEF InInqOut
<1>2. CASE InArray
    BY <1>2, AnswersOfArray, LooksKeeps DEF InArray
<1>3. CASE msiNcIntDataTypeToStr \/ msiFloatToString
    BY <1>3, AnswerSets, LooksKeeps DEF msiNcIntDataTypeToStr, msiFloatToString
<1> QED
    BY <1>1, <1>2, <1>3

\* A call notes what it asks for.
LEMMA CallsKeep ==
    ASSUME FromInv, NEW q, NEW r, NEW name, NEW c, Calls(q, r, name, c),
           c.ms = "msiNcInqGrps" => r.op = "inqGrps",
           c.ms = "msiNcInqWithId" =>
            r.op = "inqWithId" /\ \E t \in ParamTypes : r.paramType = {t}
    PROVE  FromInv'
<1>1. req' = r /\ call' = <<c>> /\ UNCHANGED <<world, param, files>>
    BY DEF Calls
<1>2. AsksFor'
    BY <1>1 DEF AsksFor
<1> QED
    BY <1>1, <1>2, FilesKept

LEMMA CallKeeps ==
    ASSUME RuleInv, FromInv,
           \/ msiNcInq \/ msiNcInqGrps
           \/ \E t \in ParamTypes : msiNcInqWithId(t) \/ \E n \in Names : msiNcInqId(t, n)
    PROVE  FromInv'
<1>1. \A op, types, id, name : /\ Request(op, types, id, name).op = op
                               /\ Request(op, types, id, name).paramType = types
    BY DEF Request
<1>2. CASE msiNcInq \/ msiNcInqGrps
    BY <1>1, <1>2, CallsKeep DEF msiNcInq, msiNcInqGrps
<1>3. ASSUME NEW t \in ParamTypes, NEW n, msiNcInqId(t, n)
      PROVE  FromInv'
    BY <1>3, CallsKeep DEF msiNcInqId
<1>4. ASSUME NEW t \in ParamTypes, msiNcInqWithId(t)
      PROVE  FromInv'
    <2>1. PICK means : Calls(NoQuery, Request("inqWithId", {t}, param.id.val[1], NoName), means,
                             [ms |-> "msiNcInqWithId"])
        BY <1>4 DEF msiNcInqWithId
    <2> QED
        BY <1>1, <2>1, CallsKeep
<1> QED
    BY <1>2, <1>3, <1>4

\* A read asks for a variable, or returns at once.
LEMMA VarsRead ==
    ASSUME msiNcGetVarsByType \/ msiNcSubsetVar
    PROVE  \E q : /\ q.ms \in {"msiNcGetVarsByType", "msiNcSubsetVar"}
                  /\ \/ \E v, t, b : Read(q, v, t, b)
                     \/ \E r : Returns(q, r, <<>>) /\ Locally
<1>1. CASE msiNcGetVarsByType
    <2>1. PICK k \in DOMAIN O.var, j \in DOMAIN O.var, p \in Passable :
        LET v == O.var[k]
            b == p.passed
            q == [Query("msiNcGetVarsByType", 0, v.name, NoName) EXCEPT !.bounds = p.meant]
        IN  \/ Read(q, v, O.var[j].dataType, b)
            \/ Returns(q, "error", <<>>) /\ Locally
        BY <1>1 DEF msiNcGetVarsByType
    <2> DEFINE q == [Query("msiNcGetVarsByType", 0, O.var[k].name, NoName)
                        EXCEPT !.bounds = p.meant]
    <2>2. q.ms = "msiNcGetVarsByType"
        BY DEF Query
    <2>3. \/ Read(q, O.var[k], O.var[j].dataType, p.passed)
          \/ Returns(q, "error", <<>>) /\ Locally
        BY <2>1
    <2> HIDE DEF q
    <2> QED
        BY <2>2, <2>3
<1>2. CASE msiNcSubsetVar
    <2>1. PICK n \in Names, conds \in SubsetStrs :
        LET q == [Query("msiNcSubsetVar", 0, n, NoName) EXCEPT !.conds = conds]
        IN  \/ \E v \in Named(O.var, n) : Read(q, v, v.dataType, SubsetBounds(v, conds))
            \/ Returns(q, "fault", <<>>) /\ Locally
            \/ Returns(q, "error", <<>>) /\ Locally
        BY <1>2 DEF msiNcSubsetVar
    <2> DEFINE q == [Query("msiNcSubsetVar", 0, n, NoName) EXCEPT !.conds = conds]
    <2>2. q.ms = "msiNcSubsetVar"
        BY DEF Query
    <2>3. \/ \E v \in Named(O.var, n) : Read(q, v, v.dataType, SubsetBounds(v, conds))
          \/ Returns(q, "fault", <<>>) /\ Locally
          \/ Returns(q, "error", <<>>) /\ Locally
        BY <2>1
    <2> HIDE DEF q
    <2> QED
        BY <2>2, <2>3
<1> QED
    BY <1>1, <1>2

LEMMA VarsKeep ==
    ASSUME FromInv, msiNcGetVarsByType \/ msiNcSubsetVar
    PROVE  FromInv'
<1>1. PICK q : /\ q.ms \in {"msiNcGetVarsByType", "msiNcSubsetVar"}
               /\ \/ \E v, t, b : Read(q, v, t, b)
                  \/ \E r : Returns(q, r, <<>>) /\ Locally
    BY VarsRead
<1>2. ASSUME NEW v, NEW t, NEW b, Read(q, v, t, b)
      PROVE  FromInv'
    <2> DEFINE c == [ms |-> q.ms, dataType |-> t, bounds |-> b]
    <2>1. PICK r, name : Calls(q, r, name, c)
        BY <1>2 DEF Read
    <2>2. c.ms = q.ms
        OBVIOUS
    <2> HIDE DEF c
    <2> QED
        BY <1>1, <2>1, <2>2, CallsKeep
<1>3. ASSUME NEW r, Returns(q, r, <<>>), Locally
      PROVE  FromInv'
    <2>1. UNCHANGED <<files, world, req>> /\ DOMAIN <<>> = {}
        BY <1>3 DEF Locally, NoHandler, vars
    <2> QED
        BY <1>3, <2>1, LocalKeeps
<1> QED
    BY <1>1, <1>2, <1>3

\* A read is not a look.
LEMMA VarsQuery ==
    ASSUME msiNcGetVarsByType \/ msiNcSubsetVar
    PROVE  query'.ms \in {"msiNcGetVarsByType", "msiNcSubsetVar"}
<1>1. PICK q : /\ q.ms \in {"msiNcGetVarsByType", "msiNcSubsetVar"}
               /\ \/ \E v, t, b : Read(q, v, t, b)
                  \/ \E r : Returns(q, r, <<>>) /\ Locally
    BY VarsRead
<1>2. query' = q
    BY <1>1 DEF Read, Calls, Returns
<1> QED
    BY <1>1, <1>2

\* What is done to arrays leaves inquiries alone.
LEMMA ArrayReturns ==
    ASSUME NEW x,
           \/ msiFreeNcStruct(x)
           \/ \E n \in Numbers, inx \in Literals : msiAddToNcArray(x, n, inx)
    PROVE  \E r, p : /\ Returns(NoQuery, r, p) /\ DOMAIN p \subseteq {x}
                     /\ NoHandler /\ UNCHANGED files
<1>1. DOMAIN <<>> = {}
    OBVIOUS
<1>2. CASE msiFreeNcStruct(x)
    BY <1>2 DEF msiFreeNcStruct
<1>3. ASSUME NEW n, NEW inx, msiAddToNcArray(x, n, inx)
      PROVE  \E r, p : /\ Returns(NoQuery, r, p) /\ DOMAIN p \subseteq {x}
                       /\ NoHandler /\ UNCHANGED files
    BY <1>1, <1>3 DEF msiAddToNcArray
<1> QED
    BY <1>2, <1>3

LEMMA MicroserviceKeeps ==
    ASSUME RuleInv, FromInv, Microservice
    PROVE  FromInv'
<1>1. DOMAIN <<>> = {}
    OBVIOUS
<1>2. NoHandler => UNCHANGED <<world, req>>
    BY DEF NoHandler, vars
<1>3. CASE Refuse \/ msiNcRegGlobalAttr
    <2>1. PICK q, r, p : /\ Returns(q, r, p) /\ DOMAIN p \subseteq {"out"}
                         /\ NoHandler /\ UNCHANGED files
        BY <1>1, <1>3 DEF Refuse, msiNcRegGlobalAttr, Locally
    <2> QED
        BY <1>2, <2>1, LocalKeeps
<1>4. CASE msiNcOpen \/ msiNcCreate \/ msiNcOpenGroup \/ msiNcClose
    BY <1>4, EnterKeeps
<1>5. CASE \/ msiNcInq \/ msiNcInqGrps
           \/ \E t \in ParamTypes : msiNcInqWithId(t) \/ \E n \in Names : msiNcInqId(t, n)
    BY <1>5, CallKeeps
<1>6. CASE InInqOut \/ InArray \/ msiNcIntDataTypeToStr \/ msiFloatToString
    BY <1>6, LookKeeps
<1>7. CASE \E x \in Arrays \union {"vars"} :
            msiFreeNcStruct(x) \/ \E n \in Numbers, inx \in Literals : msiAddToNcArray(x, n, inx)
    <2> PICK x \in Arrays \union {"vars"} :
            msiFreeNcStruct(x) \/ \E n \in Numbers, inx \in Literals : msiAddToNcArray(x, n, inx)
        BY <1>7
    <2>1. PICK r, p : /\ Returns(NoQuery, r, p) /\ DOMAIN p \subseteq {x}
                      /\ NoHandler /\ UNCHANGED files
        BY ArrayReturns
    <2>2. x \notin {"inq", "grps", "item"}
        BY DEF Arrays
    <2> QED
        BY <1>2, <2>1, <2>2, LocalKeeps
<1>8. CASE msiNcGetVarsByType \/ msiNcSubsetVar
    BY <1>8, VarsKeep
<1> QED
    BY <1>3, <1>4, <1>5, <1>6, <1>7, <1>8 DEF Microservice

\* What microservices give.
LEMMA GiveKeeps ==
    ASSUME RuleInv, NEW ms, NEW x, NEW p, NEW source, Give(ms, x, p, source)
    PROVE  /\ AsksFor' /\ UNCHANGED world
           /\ x \in Params => param'[x] = p
           /\ x \in {"inq", "grps", "id", "item", "vars"} => files'[x] = <<source>>
           /\ \A y \in {"inq", "grps", "item"} \ {x} : param'[y] = param[y] /\ files'[y] = files[y]
BY DEF Give, Returned, AsksFor, RuleInv, MsInv, Params

\* An id and what was read are in variables of their own.
LEMMA GiveOtherKeeps ==
    ASSUME RuleInv, FromInv, NEW ms, NEW x \in {"id", "vars"}, NEW p, NEW source,
           Give(ms, x, p, source)
    PROVE  FromInv'
<1>1. /\ AsksFor' /\ UNCHANGED world
      /\ \A y \in {"inq", "grps", "item"} : param'[y] = param[y] /\ files'[y] = files[y]
    BY GiveKeeps
<1> QED
    BY <1>1, FileKept, GrpsKept, ItemKept DEF FromInv

\* A whole inquiry has all there is of its file.
LEMMA InqGives ==
    ASSUME RuleInv, Ok("inq"), req.paramType = {}
    PROVE  HasFile(Out, FileOf(Entry))
<1> DEFINE f == FileOf(Entry)
<1>1. IsFile(f) /\ IsRequest(req) /\ AtFile /\ Gathered(Out, f, inp, "done")
    BY FileIsFile DEF RuleInv, InqInv, AtFile, Ok
<1>2. Wanted = ParamTypes
    BY DEF Wanted
<1>3. Everything /\ {"dim", "var", "att"} \subseteq Wanted
    BY <1>2, Cardinalities DEF Everything, ParamTypes
<1>4. AllFlag(inp) /\ Types(inp) = ParamTypes
    BY <1>1, <1>2, <1>3, AskedOf DEF Ok
<1> HIDE DEF f
<1>5. /\ Out.dim = [k \in 1 .. OwnDims(f) |->
            [id |-> k - 1, name |-> f.dim[k].name, arrayLen |-> f.dim[k].arrayLen]]
      /\ Out.var = [k \in DOMAIN f.var |->
            [id |-> k - 1, name |-> f.var[k].name, dataType |-> f.var[k].dataType,
             dimId |-> f.var[k].dimId,
             natts |-> Len(f.var[k].att), att |-> Atts(f.var[k].att)]]
      /\ Out.gatt = Atts(f.gatt)
    BY <1>1, <1>4, WholeAnswer DEF ParamTypes
<1>6. HasVars(Out, f)
    BY <1>1, <1>5 DEF HasVars
<1>7. Out.dim = [k \in 1 .. OwnDims(f) |-> DimOf(f, k)]
    BY <1>5 DEF DimOf
<1>8. /\ Out.unlimdimid = f.unlimdim /\ Out.format = f.format
      /\ Out.ndims = NumOf(inp, "dim", OwnDims(f)) /\ Out.nvars = NumOf(inp, "var", Len(f.var))
      /\ Out.ngatts = NumOf(inp, "att", Len(f.gatt))
    BY <1>1 DEF Gathered, Header
<1>9. Out.ndims = OwnDims(f) /\ Out.nvars = Len(f.var) /\ Out.ngatts = Len(f.gatt)
    BY <1>4, <1>8 DEF NumOf, ParamTypes
<1>10. HasFile(Out, f)
    BY <1>5, <1>6, <1>7, <1>8, <1>9 DEF HasFile
<1> QED
    BY <1>10 DEF f

\* msiNcInq, msiNcInqGrps and msiNcInqWithId.
LEMMA GiveFileKeeps ==
    ASSUME RuleInv, FromInv, Give("msiNcInq", "inq", Of("NcInqOut_PI", Out), Where(req.ncid))
    PROVE  FromInv'
<1>1. /\ AsksFor' /\ UNCHANGED world
      /\ param'["inq"] = Of("NcInqOut_PI", Out) /\ files'["inq"] = <<Where(req.ncid)>>
      /\ \A y \in {"grps", "item"} : param'[y] = param[y] /\ files'[y] = files[y]
    BY GiveKeeps DEF Params
<1>2. GrpsFrom' /\ ItemFrom'
    BY <1>1, GrpsKept, ItemKept DEF FromInv
<1>3. Ok("inq") /\ req.paramType = {}
    BY DEF Give, Returned, RuleInv, MsInv, CallIs, Ok
<1>4. HasFile(Out, FileOf(Entry))
    BY <1>3, InqGives
<1>5. O' = Out /\ files'["inq"] # None
    BY <1>1 DEF O, Of, None
<1>6. Source("inq")' = FileOf(Entry)
    BY <1>1 DEF Source, FileOf, Where, Entry
<1>7. HasFile(O, Source("inq"))'
    BY <1>4, <1>5, <1>6 DEF HasFile, HasVars
<1> QED
    BY <1>1, <1>2, <1>5, <1>7 DEF FromInv, FileFrom

LEMMA GiveGrpsKeeps ==
    ASSUME RuleInv, FromInv,
           Give("msiNcInqGrps", "grps", Of("NcInqGrpsOut_PI", Out), Where(req.ncid))
    PROVE  FromInv'
<1>1. /\ AsksFor' /\ UNCHANGED world
      /\ param'["grps"] = Of("NcInqGrpsOut_PI", Out) /\ files'["grps"] = <<Where(req.ncid)>>
      /\ \A y \in {"inq", "item"} : param'[y] = param[y] /\ files'[y] = files[y]
    BY GiveKeeps DEF Params
<1>2. FileFrom' /\ ItemFrom'
    BY <1>1, FileKept, ItemKept DEF FromInv
<1>3. Ok("inqGrps")
    BY DEF Give, Returned, FromInv, AsksFor, Ok
<1>4. Out = FileOf(Entry).grpName /\ IsFile(FileOf(Entry))
    BY <1>3, InqInvWhole, FileIsFile DEF InqWhole, RuleInv, InqInv, AtFile
<1>5. (param.grps.val[1])' = Out /\ files'["grps"] # None
    BY <1>1 DEF Of, None
<1>6. Source("grps")' = FileOf(Entry)
    BY <1>1, SMTT(30) DEF Source, FileOf, Where, Entry
<1>7. GrpsFrom'
    BY <1>4, <1>5, <1>6 DEF GrpsFrom
<1> QED
    BY <1>1, <1>2, <1>7 DEF FromInv

LEMMA GiveItemKeeps ==
    ASSUME RuleInv, FromInv,
           Give("msiNcInqWithId", "item",
                Of("NcInqWithIdOut_PI", ItemStruct(req.paramType, Out)),
                [host |-> Entry.host, ncid |-> Entry.ncid,
                 paramType |-> req.paramType, myid |-> req.myid])
    PROVE  FromInv'
<1> DEFINE i == ItemStruct(req.paramType, Out)
           d == [host |-> Entry.host, ncid |-> Entry.ncid,
                 paramType |-> req.paramType, myid |-> req.myid]
<1>1. /\ AsksFor' /\ UNCHANGED world
      /\ param'["item"] = Of("NcInqWithIdOut_PI", i) /\ files'["item"] = <<d>>
      /\ \A y \in {"inq", "grps"} : param'[y] = param[y] /\ files'[y] = files[y]
    BY GiveKeeps DEF Params
<1>2. FileFrom' /\ GrpsFrom'
    BY <1>1, FileKept, GrpsKept DEF FromInv
<1>3. Ok("inqWithId") /\ \E t \in ParamTypes : req.paramType = {t}
    BY DEF Give, Returned, FromInv, AsksFor, Ok
<1>4. InUse /\ Out \in ById(Items(req, FileOf(Entry)), req.myid) /\ IsFile(FileOf(Entry))
    BY <1>3, FileIsFile DEF RuleInv, IdInv, InqInv
<1>5. /\ req.myid + 1 \in DOMAIN Items(req, FileOf(Entry)) /\ req.myid \in Nat
      /\ Out = Items(req, FileOf(Entry))[req.myid + 1]
    BY <1>4 DEF ById, RuleInv, InqInv, IsRequest
<1>6. req.paramType \in {{"dim"}, {"var"}}
    BY <1>4 DEF Items, ById
<1>7. FileOf(d) = FileOf(Entry) /\ Items(d, FileOf(d)) = Items(req, FileOf(Entry))
    BY DEF FileOf, Items
<1>8. d.paramType = req.paramType /\ d.myid = req.myid
    OBVIOUS
<1> HIDE DEF d, i
<1>9. /\ Item' = i /\ (param.item.val)' # None /\ files'["item"] # None /\ (files.item[1])' = d
    <2>1. param'["item"].val = <<i>> /\ files'["item"] = <<d>>
        BY <1>1 DEF Of
    <2>2. Item' = i
        BY <2>1 DEF Item
    <2>4. (param.item.val)' # None
        <3>1. (param.item.val)' = param'["item"].val
            OBVIOUS
        <3>2. param'["item"].val # None
            BY <2>1, SMT DEF None
        <3> QED
            BY <3>1, <3>2
    <2>3. files'["item"] # None /\ (files.item[1])' = d
        BY <2>1 DEF None
    <2> QED
        BY <2>2, <2>3, <2>4
<1>10. Source("item")' = FileOf(d)
    BY <1>1, <1>9 DEF Source, FileOf
<1>11. Items(files.item[1], Source("item"))' = Items(d, FileOf(d))
    BY <1>9, <1>10 DEF Items
<1>12. i = ItemStruct(d.paramType, Items(d, FileOf(d))[d.myid + 1])
    BY <1>5, <1>7, <1>8 DEF i
<1>13. ItemFrom'
    BY <1>4, <1>5, <1>6, <1>7, <1>8, <1>9, <1>10, <1>11, <1>12
        DEF ItemFrom, ItemStruct, ItemMeant
<1> QED
    BY <1>1, <1>2, <1>13 DEF FromInv

\* An error leaves the variables as they are.
LEMMA ReturnErrorKeeps ==
    ASSUME FromInv, Returned, UNCHANGED <<param, files>>
    PROVE  FromInv'
<1>1. UNCHANGED world /\ AsksFor'
    BY DEF Returned, AsksFor
<1> QED
    BY <1>1, FilesKept

\* The handler works on its answer only.
LEMMA StillKeeps ==
    ASSUME RuleInv, FromInv, Next \/ UNCHANGED vars, UNCHANGED msVars, req' = req \/ call = None
    PROVE  FromInv'
<1>1. UNCHANGED world
    BY NextKeepsWorld DEF RuleInv, vars
<1>2. UNCHANGED <<param, files, call>>
    BY DEF msVars
<1>3. AsksFor'
    BY <1>2 DEF FromInv, AsksFor
<1> QED
    BY <1>1, <1>2, <1>3, FilesKept

LEMMA FromNext ==
    ASSUME RuleInv, FromInv, [MsNext]_allVars
    PROVE  FromInv'
<1>1. CASE client = "program" /\ Next /\ UNCHANGED msVars
    BY <1>1, StillKeeps DEF RuleInv, MsInv, CallIs
<1>2. CASE Microservice
    BY <1>2, MicroserviceKeeps
<1>3. CASE client = "rule" /\ Handle /\ UNCHANGED msVars
    BY <1>3, HandleKeepsRequest, StillKeeps DEF Next
<1>4. CASE ReturnError \/ ReturnVarsError
    BY <1>4, ReturnErrorKeeps DEF ReturnError, ReturnVarsError
<1>5. CASE ReturnInq
    BY <1>5, GiveFileKeeps, GiveGrpsKeeps, GiveItemKeeps, GiveOtherKeeps DEF ReturnInq
<1>6. CASE ReturnVars
    BY <1>6, GiveOtherKeeps DEF ReturnVars
<1>7. CASE Ended \/ UNCHANGED allVars
    BY <1>7, StillKeeps DEF Ended, allVars, vars
<1> QED
    BY <1>1, <1>2, <1>3, <1>4, <1>5, <1>6, <1>7 DEF MsNext, Serve

LEMMA FromStart ==
    ASSUME MsInit
    PROVE  FromInv
<1>1. /\ param = [x \in Params |-> Unset] /\ call = None
      /\ files = [x \in {"inq", "grps", "id", "item", "vars"} |-> None]
    BY DEF MsInit
<1>2. /\ ~IsSet("inq") /\ ~IsSet("grps") /\ ~IsSet("item")
      /\ files.inq = None /\ files.grps = None /\ files.item = None
    BY <1>1 DEF IsSet, Params
<1> QED
    BY <1>1, <1>2 DEF FromInv, FileFrom, GrpsFrom, ItemFrom, AsksFor
-----------------------------------------------------------------------------
(* The last call has returned one of the answers there may be *)

LookedAt(ms, x, inx, name, key, answers) ==
    /\ query = Query(ms, inx, name, key) /\ IsSet(x)
    /\ \E a \in answers : ret = a.ret /\ ("out" \in DOMAIN a.ps => param["out"] = a.ps["out"])

LookedInq ==
    LET names == Names \union {"null"}
    IN  \/ \E inx \in Literals, n \in names :
            \/ LookedAt("msiNcGetDimNameInInqOut", "inq", inx, n, NoName,
                        msiNcGetDimNameInInqOut(inx, n))
            \/ LookedAt("msiNcGetDimLenInInqOut", "inq", inx, n, NoName,
                        msiNcGetDimLenInInqOut(inx, n))
            \/ LookedAt("msiNcGetAttNameInInqOut", "inq", inx, n, NoName,
                        msiNcGetAttNameInInqOut(inx, n))
            \/ LookedAt("msiNcGetAttValStrInInqOut", "inq", inx, n, NoName, AttByInx(inx, n))
            \/ LookedAt("msiNcGetVarIdInInqOut", "inq", inx, n, NoName,
                        msiNcGetVarIdInInqOut(inx, n))
        \/ \E key \in Names, n \in names :
            LookedAt("msiNcGetAttValStrInInqOut", "inq", 0, n, key, AttByName(key, n))
        \/ \E inx \in Literals :
            LookedAt("msiNcGetVarNameInInqOut", "inq", inx, NoName, NoName,
                     msiNcGetVarNameInInqOut(inx))
        \/ \E n \in names :
            \/ LookedAt("msiNcGetVarTypeInInqOut", "inq", 0, n, NoName, msiNcGetVarTypeInInqOut(n))
            \/ LookedAt("msiNcGetNdimsInInqOut", "inq", 0, n, NoName, msiNcGetNdimsInInqOut(n))
            \/ LookedAt("msiNcGetNattsInInqOut", "inq", 0, n, NoName, msiNcGetNattsInInqOut(n))
        \/ LookedAt("msiNcGetNvarsInInqOut", "inq", 0, NoName, NoName, msiNcGetNvarsInInqOut)
        \/ LookedAt("msiNcGetFormatInInqOut", "inq", 0, NoName, NoName, msiNcGetFormatInInqOut)

LookedGrps ==
    \/ \E inx \in Literals :
        LookedAt("msiNcGetGrpInInqOut", "grps", inx, NoName, NoName, msiNcGetGrpInInqOut(inx))
    \/ LookedAt("msiNcGetNGrpsInInqOut", "grps", 0, NoName, NoName, msiNcGetNGrpsInInqOut)

LookedItem ==
    \/ LookedAt("msiNcGetDataType", "item", 0, "item", NoName, msiNcGetDataType("item"))
    \/ LookedAt("msiNcGetArrayLen", "item", 0, "item", NoName, msiNcGetArrayLen("item"))
    \/ \E inx \in Literals :
        LookedAt("msiNcGetElementInArray", "item", inx, "item", NoName,
                 msiNcGetElementInArray("item", inx))
    \/ LookedAt("msiNcGetNumDim", "item", 0, NoName, NoName, msiNcGetNumDim)

AnswerInv == AboutFile =>
    client = "rule" /\ pc = "idle" /\ (LookedInq \/ LookedGrps \/ LookedItem)

\* What is looked into is still there after the look.
LEMMA LooksLooked ==
    ASSUME NEW ms, NEW x \in Params \ {"out"}, NEW inx, NEW name, NEW key, NEW answers,
           IsAnswers(answers), Looks(ms, x, inx, name, key, answers)
    PROVE  /\ query' = Query(ms, inx, name, key) /\ IsSet(x)'
           /\ \E a \in answers :
                ret' = a.ret /\ ("out" \in DOMAIN a.ps => param'["out"] = a.ps["out"])
           /\ \A y \in {"inq", "grps", "item"} : param'[y] = param[y]
           /\ client' = "rule" /\ pc' = "idle"
<1>1. PICK a \in answers : Returns(Query(ms, inx, name, key), a.ret, a.ps)
    BY DEF Looks
<1>2. DOMAIN a.ps \subseteq {"out"}
    BY DEF IsAnswers
<1>3. /\ \A y \in Params \ {"out"} : param'[y] = param[y]
      /\ "out" \in DOMAIN a.ps => param'["out"] = a.ps["out"]
      /\ ret' = a.ret /\ query' = Query(ms, inx, name, key)
    BY <1>1, <1>2 DEF Returns, Params
<1>4. client' = "rule" /\ pc' = "idle"
    BY <1>1 DEF Looks, Uses, Locally, NoHandler, vars, Returns
<1>5. IsSet(x)'
    BY <1>3 DEF Looks, IsSet, Unset
<1> QED
    BY <1>3, <1>4, <1>5 DEF Params

\* Answers depend on what is looked into.
LEMMA AnswersStay ==
    ASSUME \A y \in {"inq", "grps", "item"} : param'[y] = param[y]
    PROVE  /\ \A inx, n :
                /\ msiNcGetDimNameInInqOut(inx, n)' = msiNcGetDimNameInInqOut(inx, n)
                /\ msiNcGetDimLenInInqOut(inx, n)' = msiNcGetDimLenInInqOut(inx, n)
                /\ msiNcGetAttNameInInqOut(inx, n)' = msiNcGetAttNameInInqOut(inx, n)
                /\ AttByInx(inx, n)' = AttByInx(inx, n)
                /\ AttByName(inx, n)' = AttByName(inx, n)
                /\ msiNcGetVarIdInInqOut(inx, n)' = msiNcGetVarIdInInqOut(inx, n)
           /\ \A inx :
                /\ msiNcGetVarNameInInqOut(inx)' = msiNcGetVarNameInInqOut(inx)
                /\ msiNcGetGrpInInqOut(inx)' = msiNcGetGrpInInqOut(inx)
                /\ msiNcGetElementInArray("item", inx)' = msiNcGetElementInArray("item", inx)
           /\ \A n :
                /\ msiNcGetVarTypeInInqOut(n)' = msiNcGetVarTypeInInqOut(n)
                /\ msiNcGetNdimsInInqOut(n)' = msiNcGetNdimsInInqOut(n)
                /\ msiNcGetNattsInInqOut(n)' = msiNcGetNattsInInqOut(n)
           /\ msiNcGetNvarsInInqOut' = msiNcGetNvarsInInqOut
           /\ msiNcGetFormatInInqOut' = msiNcGetFormatInInqOut
           /\ msiNcGetNGrpsInInqOut' = msiNcGetNGrpsInInqOut
           /\ msiNcGetDataType("item")' = msiNcGetDataType("item")
           /\ msiNcGetArrayLen("item")' = msiNcGetArrayLen("item")
           /\ msiNcGetNumDim' = msiNcGetNumDim
<1>1. O' = O /\ Item' = Item
    BY DEF O, Item
<1>2. ASSUME NEW inx, NEW n
      PROVE  /\ msiNcGetDimNameInInqOut(inx, n)' = msiNcGetDimNameInInqOut(inx, n)
             /\ msiNcGetDimLenInInqOut(inx, n)' = msiNcGetDimLenInInqOut(inx, n)
    BY <1>1 DEF msiNcGetDimNameInInqOut, msiNcGetDimLenInInqOut, DimInInqOut, DimsToFind
<1>3. ASSUME NEW inx, NEW n
      PROVE  /\ msiNcGetAttNameInInqOut(inx, n)' = msiNcGetAttNameInInqOut(inx, n)
             /\ AttByInx(inx, n)' = AttByInx(inx, n)
             /\ AttByName(inx, n)' = AttByName(inx, n)
             /\ msiNcGetVarIdInInqOut(inx, n)' = msiNcGetVarIdInInqOut(inx, n)
    BY <1>1 DEF msiNcGetAttNameInInqOut, AttByInx, AttByName, msiNcGetVarIdInInqOut
<1>4. ASSUME NEW inx
      PROVE  /\ msiNcGetVarNameInInqOut(inx)' = msiNcGetVarNameInInqOut(inx)
             /\ msiNcGetGrpInInqOut(inx)' = msiNcGetGrpInInqOut(inx)
             /\ msiNcGetElementInArray("item", inx)' = msiNcGetElementInArray("item", inx)
             /\ msiNcGetVarTypeInInqOut(inx)' = msiNcGetVarTypeInInqOut(inx)
             /\ msiNcGetNdimsInInqOut(inx)' = msiNcGetNdimsInInqOut(inx)
             /\ msiNcGetNattsInInqOut(inx)' = msiNcGetNattsInInqOut(inx)
    BY <1>1 DEF msiNcGetVarNameInInqOut, msiNcGetGrpInInqOut, msiNcGetElementInArray, IsNull,
        msiNcGetVarTypeInInqOut, msiNcGetNdimsInInqOut, msiNcGetNattsInInqOut
<1>5. /\ msiNcGetNvarsInInqOut' = msiNcGetNvarsInInqOut
      /\ msiNcGetFormatInInqOut' = msiNcGetFormatInInqOut
      /\ msiNcGetNGrpsInInqOut' = msiNcGetNGrpsInInqOut
      /\ msiNcGetDataType("item")' = msiNcGetDataType("item")
      /\ msiNcGetArrayLen("item")' = msiNcGetArrayLen("item")
      /\ msiNcGetNumDim' = msiNcGetNumDim
    BY <1>1 DEF msiNcGetNvarsInInqOut, msiNcGetFormatInInqOut, msiNcGetNGrpsInInqOut,
        msiNcGetDataType, msiNcGetArrayLen, msiNcGetNumDim, IsNull
<1> QED
    BY <1>2, <1>3, <1>4, <1>5

\* No step that leaves the variables alone changes the answer.
LEMMA LookedStays ==
    ASSUME UNCHANGED <<query, ret, param>>, LookedInq \/ LookedGrps \/ LookedItem
    PROVE  LookedInq' \/ LookedGrps' \/ LookedItem'
<1>1. \A x : IsSet(x)' = IsSet(x)
    BY DEF IsSet, Unset
<1>2. ASSUME NEW ms, NEW x, NEW inx, NEW name, NEW key, NEW A, NEW B, B = A,
             LookedAt(ms, x, inx, name, key, A)
      PROVE  /\ query' = Query(ms, inx, name, key) /\ IsSet(x)'
             /\ \E a \in B : ret' = a.ret /\ ("out" \in DOMAIN a.ps => param'["out"] = a.ps["out"])
    BY <1>1, <1>2 DEF LookedAt
<1>3. CASE LookedInq
    BY <1>2, <1>3, AnswersStay DEF LookedInq, LookedAt
<1>4. CASE LookedGrps
    BY <1>2, <1>4, AnswersStay DEF LookedGrps, LookedAt
<1>5. CASE LookedItem
    BY <1>2, <1>5, AnswersStay DEF LookedItem, LookedAt
<1> QED
    BY <1>3, <1>4, <1>5

After == client' = "rule" /\ pc' = "idle"

\* After a look, its answer is one of those there may be.
LEMMA LookedByInx ==
    ASSUME NEW inx, NEW n
    PROVE  /\ Looks("msiNcGetDimNameInInqOut", "inq", inx, n, NoName,
                    msiNcGetDimNameInInqOut(inx, n)) =>
                After /\ LookedAt("msiNcGetDimNameInInqOut", "inq", inx, n, NoName,
                                  msiNcGetDimNameInInqOut(inx, n))'
           /\ Looks("msiNcGetDimLenInInqOut", "inq", inx, n, NoName,
                    msiNcGetDimLenInInqOut(inx, n)) =>
                After /\ LookedAt("msiNcGetDimLenInInqOut", "inq", inx, n, NoName,
                                  msiNcGetDimLenInInqOut(inx, n))'
           /\ Looks("msiNcGetAttNameInInqOut", "inq", inx, n, NoName,
                    msiNcGetAttNameInInqOut(inx, n)) =>
                After /\ LookedAt("msiNcGetAttNameInInqOut", "inq", inx, n, NoName,
                                  msiNcGetAttNameInInqOut(inx, n))'
           /\ Looks("msiNcGetAttValStrInInqOut", "inq", inx, n, NoName, AttByInx(inx, n)) =>
                After /\ LookedAt("msiNcGetAttValStrInInqOut", "inq", inx, n, NoName,
                                  AttByInx(inx, n))'
           /\ Looks("msiNcGetVarIdInInqOut", "inq", inx, n, NoName,
                    msiNcGetVarIdInInqOut(inx, n)) =>
                After /\ LookedAt("msiNcGetVarIdInInqOut", "inq", inx, n, NoName,
                                  msiNcGetVarIdInInqOut(inx, n))'
           /\ Looks("msiNcGetVarNameInInqOut", "inq", inx, NoName, NoName,
                    msiNcGetVarNameInInqOut(inx)) =>
                After /\ LookedAt("msiNcGetVarNameInInqOut", "inq", inx, NoName, NoName,
                                  msiNcGetVarNameInInqOut(inx))'
<1> DEFINE Kept == \A y \in {"inq", "grps", "item"} : param'[y] = param[y]
<1>1. ASSUME NEW ms, NEW x \in {"inq", "grps", "item"}, NEW i, NEW m, NEW k, NEW A, NEW B,
             IsAnswers(A), Looks(ms, x, i, m, k, A), Kept => B = A
      PROVE  /\ After /\ query' = Query(ms, i, m, k) /\ IsSet(x)'
             /\ \E a \in B : ret' = a.ret /\ ("out" \in DOMAIN a.ps => param'["out"] = a.ps["out"])
    BY <1>1, LooksLooked DEF Params, After
<1>2. /\ IsAnswers(msiNcGetDimNameInInqOut(inx, n))
      /\ Kept => msiNcGetDimNameInInqOut(inx, n)' = msiNcGetDimNameInInqOut(inx, n)
      /\ IsAnswers(msiNcGetDimLenInInqOut(inx, n))
      /\ Kept => msiNcGetDimLenInInqOut(inx, n)' = msiNcGetDimLenInInqOut(inx, n)
      /\ IsAnswers(msiNcGetAttNameInInqOut(inx, n))
      /\ Kept => msiNcGetAttNameInInqOut(inx, n)' = msiNcGetAttNameInInqOut(inx, n)
      /\ IsAnswers(AttByInx(inx, n)) /\ (Kept => AttByInx(inx, n)' = AttByInx(inx, n))
      /\ IsAnswers(msiNcGetVarIdInInqOut(inx, n))
      /\ Kept => msiNcGetVarIdInInqOut(inx, n)' = msiNcGetVarIdInInqOut(inx, n)
      /\ IsAnswers(msiNcGetVarNameInInqOut(inx))
      /\ Kept => msiNcGetVarNameInInqOut(inx)' = msiNcGetVarNameInInqOut(inx)
    BY AnswersOfFile, AnswersStay
<1> HIDE DEF Kept
<1>3. ASSUME Looks("msiNcGetDimNameInInqOut", "inq", inx, n, NoName,
                   msiNcGetDimNameInInqOut(inx, n))
      PROVE  After /\ LookedAt("msiNcGetDimNameInInqOut", "inq", inx, n, NoName,
                               msiNcGetDimNameInInqOut(inx, n))'
    BY <1>1, <1>2, <1>3 DEF LookedAt
<1>4. ASSUME Looks("msiNcGetDimLenInInqOut", "inq", inx, n, NoName, msiNcGetDimLenInInqOut(inx, n))
      PROVE  After /\ LookedAt("msiNcGetDimLenInInqOut", "inq", inx, n, NoName,
                               msiNcGetDimLenInInqOut(inx, n))'
    BY <1>1, <1>2, <1>4 DEF LookedAt
<1>5. ASSUME Looks("msiNcGetAttNameInInqOut", "inq", inx, n, NoName,
                   msiNcGetAttNameInInqOut(inx, n))
      PROVE  After /\ LookedAt("msiNcGetAttNameInInqOut", "inq", inx, n, NoName,
                               msiNcGetAttNameInInqOut(inx, n))'
    BY <1>1, <1>2, <1>5 DEF LookedAt
<1>6. ASSUME Looks("msiNcGetAttValStrInInqOut", "inq", inx, n, NoName, AttByInx(inx, n))
      PROVE  After /\ LookedAt("msiNcGetAttValStrInInqOut", "inq", inx, n, NoName,
                               AttByInx(inx, n))'
    BY <1>1, <1>2, <1>6, ZenonT(40) DEF LookedAt
<1>7. ASSUME Looks("msiNcGetVarIdInInqOut", "inq", inx, n, NoName, msiNcGetVarIdInInqOut(inx, n))
      PROVE  After /\ LookedAt("msiNcGetVarIdInInqOut", "inq", inx, n, NoName,
                               msiNcGetVarIdInInqOut(inx, n))'
    BY <1>1, <1>2, <1>7, ZenonT(40) DEF LookedAt
<1>8. ASSUME Looks("msiNcGetVarNameInInqOut", "inq", inx, NoName, NoName,
                   msiNcGetVarNameInInqOut(inx))
      PROVE  After /\ LookedAt("msiNcGetVarNameInInqOut", "inq", inx, NoName, NoName,
                               msiNcGetVarNameInInqOut(inx))'
    BY <1>1, <1>2, <1>8 DEF LookedAt
<1> QED
    BY <1>3, <1>4, <1>5, <1>6, <1>7, <1>8

LEMMA LookedByName ==
    ASSUME NEW n, NEW key
    PROVE  /\ Looks("msiNcGetAttValStrInInqOut", "inq", 0, n, key, AttByName(key, n)) =>
                After /\ LookedAt("msiNcGetAttValStrInInqOut", "inq", 0, n, key, AttByName(key, n))'
           /\ Looks("msiNcGetVarTypeInInqOut", "inq", 0, n, NoName, msiNcGetVarTypeInInqOut(n)) =>
                After /\ LookedAt("msiNcGetVarTypeInInqOut", "inq", 0, n, NoName,
                                  msiNcGetVarTypeInInqOut(n))'
           /\ Looks("msiNcGetNdimsInInqOut", "inq", 0, n, NoName, msiNcGetNdimsInInqOut(n)) =>
                After /\ LookedAt("msiNcGetNdimsInInqOut", "inq", 0, n, NoName,
                                  msiNcGetNdimsInInqOut(n))'
           /\ Looks("msiNcGetNattsInInqOut", "inq", 0, n, NoName, msiNcGetNattsInInqOut(n)) =>
                After /\ LookedAt("msiNcGetNattsInInqOut", "inq", 0, n, NoName,
                                  msiNcGetNattsInInqOut(n))'
           /\ Looks("msiNcGetNvarsInInqOut", "inq", 0, NoName, NoName, msiNcGetNvarsInInqOut) =>
                After /\ LookedAt("msiNcGetNvarsInInqOut", "inq", 0, NoName, NoName,
                                  msiNcGetNvarsInInqOut)'
           /\ Looks("msiNcGetFormatInInqOut", "inq", 0, NoName, NoName, msiNcGetFormatInInqOut) =>
                After /\ LookedAt("msiNcGetFormatInInqOut", "inq", 0, NoName, NoName,
                                  msiNcGetFormatInInqOut)'
<1> DEFINE Kept == \A y \in {"inq", "grps", "item"} : param'[y] = param[y]
<1>1. ASSUME NEW ms, NEW x \in {"inq", "grps", "item"}, NEW i, NEW m, NEW k, NEW A, NEW B,
             IsAnswers(A), Looks(ms, x, i, m, k, A), Kept => B = A
      PROVE  /\ After /\ query' = Query(ms, i, m, k) /\ IsSet(x)'
             /\ \E a \in B : ret' = a.ret /\ ("out" \in DOMAIN a.ps => param'["out"] = a.ps["out"])
    BY <1>1, LooksLooked DEF Params, After
<1>2. /\ IsAnswers(AttByName(key, n)) /\ (Kept => AttByName(key, n)' = AttByName(key, n))
      /\ IsAnswers(msiNcGetVarTypeInInqOut(n))
      /\ Kept => msiNcGetVarTypeInInqOut(n)' = msiNcGetVarTypeInInqOut(n)
      /\ IsAnswers(msiNcGetNdimsInInqOut(n))
      /\ Kept => msiNcGetNdimsInInqOut(n)' = msiNcGetNdimsInInqOut(n)
      /\ IsAnswers(msiNcGetNattsInInqOut(n))
      /\ Kept => msiNcGetNattsInInqOut(n)' = msiNcGetNattsInInqOut(n)
      /\ IsAnswers(msiNcGetNvarsInInqOut)
      /\ Kept => msiNcGetNvarsInInqOut' = msiNcGetNvarsInInqOut
      /\ IsAnswers(msiNcGetFormatInInqOut)
      /\ Kept => msiNcGetFormatInInqOut' = msiNcGetFormatInInqOut
    BY AnswersOfFile, AnswersStay
<1> HIDE DEF Kept
<1>3. ASSUME Looks("msiNcGetAttValStrInInqOut", "inq", 0, n, key, AttByName(key, n))
      PROVE  After /\ LookedAt("msiNcGetAttValStrInInqOut", "inq", 0, n, key, AttByName(key, n))'
    BY <1>1, <1>2, <1>3, ZenonT(40) DEF LookedAt
<1>4. ASSUME Looks("msiNcGetVarTypeInInqOut", "inq", 0, n, NoName, msiNcGetVarTypeInInqOut(n))
      PROVE  After /\ LookedAt("msiNcGetVarTypeInInqOut", "inq", 0, n, NoName,
                               msiNcGetVarTypeInInqOut(n))'
    BY <1>1, <1>2, <1>4 DEF LookedAt
<1>5. ASSUME Looks("msiNcGetNdimsInInqOut", "inq", 0, n, NoName, msiNcGetNdimsInInqOut(n))
      PROVE  After /\ LookedAt("msiNcGetNdimsInInqOut", "inq", 0, n, NoName,
                               msiNcGetNdimsInInqOut(n))'
    BY <1>1, <1>2, <1>5 DEF LookedAt
<1>6. ASSUME Looks("msiNcGetNattsInInqOut", "inq", 0, n, NoName, msiNcGetNattsInInqOut(n))
      PROVE  After /\ LookedAt("msiNcGetNattsInInqOut", "inq", 0, n, NoName,
                               msiNcGetNattsInInqOut(n))'
    BY <1>1, <1>2, <1>6, ZenonT(40) DEF LookedAt
<1>7. ASSUME Looks("msiNcGetNvarsInInqOut", "inq", 0, NoName, NoName, msiNcGetNvarsInInqOut)
      PROVE  After /\ LookedAt("msiNcGetNvarsInInqOut", "inq", 0, NoName, NoName,
                               msiNcGetNvarsInInqOut)'
    BY <1>1, <1>2, <1>7 DEF LookedAt
<1>8. ASSUME Looks("msiNcGetFormatInInqOut", "inq", 0, NoName, NoName, msiNcGetFormatInInqOut)
      PROVE  After /\ LookedAt("msiNcGetFormatInInqOut", "inq", 0, NoName, NoName,
                               msiNcGetFormatInInqOut)'
    BY <1>1, <1>2, <1>8 DEF LookedAt
<1> QED
    BY <1>3, <1>4, <1>5, <1>6, <1>7, <1>8

LEMMA LookedOther ==
    ASSUME NEW inx
    PROVE  /\ Looks("msiNcGetGrpInInqOut", "grps", inx, NoName, NoName, msiNcGetGrpInInqOut(inx)) =>
                After /\ LookedAt("msiNcGetGrpInInqOut", "grps", inx, NoName, NoName,
                                  msiNcGetGrpInInqOut(inx))'
           /\ Looks("msiNcGetNGrpsInInqOut", "grps", 0, NoName, NoName, msiNcGetNGrpsInInqOut) =>
                After /\ LookedAt("msiNcGetNGrpsInInqOut", "grps", 0, NoName, NoName,
                                  msiNcGetNGrpsInInqOut)'
           /\ Looks("msiNcGetDataType", "item", 0, "item", NoName, msiNcGetDataType("item")) =>
                After /\ LookedAt("msiNcGetDataType", "item", 0, "item", NoName,
                                  msiNcGetDataType("item"))'
           /\ Looks("msiNcGetArrayLen", "item", 0, "item", NoName, msiNcGetArrayLen("item")) =>
                After /\ LookedAt("msiNcGetArrayLen", "item", 0, "item", NoName,
                                  msiNcGetArrayLen("item"))'
           /\ Looks("msiNcGetElementInArray", "item", inx, "item", NoName,
                    msiNcGetElementInArray("item", inx)) =>
                After /\ LookedAt("msiNcGetElementInArray", "item", inx, "item", NoName,
                                  msiNcGetElementInArray("item", inx))'
           /\ Looks("msiNcGetNumDim", "item", 0, NoName, NoName, msiNcGetNumDim) =>
                After /\ LookedAt("msiNcGetNumDim", "item", 0, NoName, NoName, msiNcGetNumDim)'
<1> DEFINE Kept == \A y \in {"inq", "grps", "item"} : param'[y] = param[y]
<1>1. ASSUME NEW ms, NEW x \in {"inq", "grps", "item"}, NEW i, NEW m, NEW k, NEW A, NEW B,
             IsAnswers(A), Looks(ms, x, i, m, k, A), Kept => B = A
      PROVE  /\ After /\ query' = Query(ms, i, m, k) /\ IsSet(x)'
             /\ \E a \in B : ret' = a.ret /\ ("out" \in DOMAIN a.ps => param'["out"] = a.ps["out"])
    BY <1>1, LooksLooked DEF Params, After
<1>2. /\ IsAnswers(msiNcGetGrpInInqOut(inx))
      /\ Kept => msiNcGetGrpInInqOut(inx)' = msiNcGetGrpInInqOut(inx)
      /\ IsAnswers(msiNcGetNGrpsInInqOut)
      /\ Kept => msiNcGetNGrpsInInqOut' = msiNcGetNGrpsInInqOut
      /\ IsAnswers(msiNcGetDataType("item"))
      /\ Kept => msiNcGetDataType("item")' = msiNcGetDataType("item")
      /\ IsAnswers(msiNcGetArrayLen("item"))
      /\ Kept => msiNcGetArrayLen("item")' = msiNcGetArrayLen("item")
      /\ IsAnswers(msiNcGetElementInArray("item", inx))
      /\ Kept => msiNcGetElementInArray("item", inx)' = msiNcGetElementInArray("item", inx)
      /\ IsAnswers(msiNcGetNumDim) /\ (Kept => msiNcGetNumDim' = msiNcGetNumDim)
    BY AnswersOfFile, AnswersOfArray, AnswersStay
<1> HIDE DEF Kept
<1>3. ASSUME Looks("msiNcGetGrpInInqOut", "grps", inx, NoName, NoName, msiNcGetGrpInInqOut(inx))
      PROVE  After /\ LookedAt("msiNcGetGrpInInqOut", "grps", inx, NoName, NoName,
                               msiNcGetGrpInInqOut(inx))'
    BY <1>1, <1>2, <1>3, ZenonT(40) DEF LookedAt
<1>4. ASSUME Looks("msiNcGetNGrpsInInqOut", "grps", 0, NoName, NoName, msiNcGetNGrpsInInqOut)
      PROVE  After /\ LookedAt("msiNcGetNGrpsInInqOut", "grps", 0, NoName, NoName,
                               msiNcGetNGrpsInInqOut)'
    BY <1>1, <1>2, <1>4 DEF LookedAt
<1>5. ASSUME Looks("msiNcGetDataType", "item", 0, "item", NoName, msiNcGetDataType("item"))
      PROVE  After /\ LookedAt("msiNcGetDataType", "item", 0, "item", NoName,
                               msiNcGetDataType("item"))'
    BY <1>1, <1>2, <1>5, ZenonT(40) DEF LookedAt
<1>6. ASSUME Looks("msiNcGetArrayLen", "item", 0, "item", NoName, msiNcGetArrayLen("item"))
      PROVE  After /\ LookedAt("msiNcGetArrayLen", "item", 0, "item", NoName,
                               msiNcGetArrayLen("item"))'
    BY <1>1, <1>2, <1>6, ZenonT(40) DEF LookedAt
<1>7. ASSUME Looks("msiNcGetElementInArray", "item", inx, "item", NoName,
                   msiNcGetElementInArray("item", inx))
      PROVE  After /\ LookedAt("msiNcGetElementInArray", "item", inx, "item", NoName,
                               msiNcGetElementInArray("item", inx))'
    BY <1>1, <1>2, <1>7 DEF LookedAt
<1>8. ASSUME Looks("msiNcGetNumDim", "item", 0, NoName, NoName, msiNcGetNumDim)
      PROVE  After /\ LookedAt("msiNcGetNumDim", "item", 0, NoName, NoName, msiNcGetNumDim)'
    BY <1>1, <1>2, <1>8, ZenonT(40) DEF LookedAt
<1> QED
    BY <1>3, <1>4, <1>5, <1>6, <1>7, <1>8

\* A microservice that looks into an inquiry, or whose answer is of no file.
LEMMA LookLooked ==
    ASSUME InInqOut \/ InArray \/ msiNcIntDataTypeToStr \/ msiFloatToString
    PROVE  AnswerInv'
<1> DEFINE Goes == client' = "rule" /\ pc' = "idle" /\ (LookedInq' \/ LookedGrps' \/ LookedItem')
<1>1. Goes => AnswerInv'
    BY DEF AnswerInv
<1>2. CASE InInqOut
    <2> DEFINE names == Names \union {"null"}
    <2> HIDE DEF Goes, names
    <2>1. ASSUME NEW inx \in Literals, NEW n \in names,
            \/ Looks("msiNcGetDimNameInInqOut", "inq", inx, n, NoName,
                     msiNcGetDimNameInInqOut(inx, n))
            \/ Looks("msiNcGetDimLenInInqOut", "inq", inx, n, NoName,
                     msiNcGetDimLenInInqOut(inx, n))
            \/ Looks("msiNcGetAttNameInInqOut", "inq", inx, n, NoName,
                     msiNcGetAttNameInInqOut(inx, n))
            \/ Looks("msiNcGetAttValStrInInqOut", "inq", inx, n, NoName, AttByInx(inx, n))
            \/ Looks("msiNcGetVarIdInInqOut", "inq", inx, n, NoName, msiNcGetVarIdInInqOut(inx, n))
          PROVE  Goes
        BY <2>1, LookedByInx DEF LookedInq, After, Goes, names
    <2>2. ASSUME NEW key \in Names, NEW n \in names,
            Looks("msiNcGetAttValStrInInqOut", "inq", 0, n, key, AttByName(key, n))
          PROVE  Goes
        BY <2>2, LookedByName DEF LookedInq, After, Goes, names
    <2>3. ASSUME NEW inx \in Literals,
            \/ Looks("msiNcGetVarNameInInqOut", "inq", inx, NoName, NoName,
                     msiNcGetVarNameInInqOut(inx))
            \/ Looks("msiNcGetGrpInInqOut", "grps", inx, NoName, NoName, msiNcGetGrpInInqOut(inx))
          PROVE  Goes
        BY <2>3, LookedByInx, LookedOther DEF LookedInq, LookedGrps, After, Goes
    <2>4. ASSUME NEW n \in names,
            \/ Looks("msiNcGetVarTypeInInqOut", "inq", 0, n, NoName, msiNcGetVarTypeInInqOut(n))
            \/ Looks("msiNcGetNdimsInInqOut", "inq", 0, n, NoName, msiNcGetNdimsInInqOut(n))
            \/ Looks("msiNcGetNattsInInqOut", "inq", 0, n, NoName, msiNcGetNattsInInqOut(n))
          PROVE  Goes
        BY <2>4, LookedByName DEF LookedInq, After, Goes, names
    <2>5. ASSUME
            \/ Looks("msiNcGetNvarsInInqOut", "inq", 0, NoName, NoName, msiNcGetNvarsInInqOut)
            \/ Looks("msiNcGetFormatInInqOut", "inq", 0, NoName, NoName, msiNcGetFormatInInqOut)
          PROVE  Goes
        BY <2>5, LookedByName DEF LookedInq, After, Goes
    <2>6. ASSUME Looks("msiNcGetNGrpsInInqOut", "grps", 0, NoName, NoName, msiNcGetNGrpsInInqOut)
          PROVE  Goes
        BY <2>6, LookedOther DEF LookedGrps, After, Goes
    <2>7. Goes
        BY <1>2, <2>1, <2>2, <2>3, <2>4, <2>5, <2>6 DEF InInqOut, names
    <2> QED
        BY <1>1, <2>7
<1>3. ASSUME NEW ms, NEW x, NEW inx, NEW name, NEW answers,
             Looks(ms, x, inx, name, NoName, answers),
             \/ ms \in {"msiNcVarStat", "msiNcIntDataTypeToStr", "msiFloatToString"}
             \/ /\ ms \in {"msiNcGetDataType", "msiNcGetArrayLen", "msiNcGetElementInArray"}
                /\ name # "item"
      PROVE  AnswerInv'
    <2>1. query'.ms = ms /\ query'.name = name
        BY <1>3 DEF Looks, Returns, Query
    <2>2. ~AboutFile'
        BY <1>3, <2>1 DEF AboutFile
    <2> QED
        BY <2>2 DEF AnswerInv
<1>4. CASE InArray
    <2> HIDE DEF Goes
    <2>1. ASSUME
            \/ Looks("msiNcGetDataType", "item", 0, "item", NoName, msiNcGetDataType("item"))
            \/ Looks("msiNcGetArrayLen", "item", 0, "item", NoName, msiNcGetArrayLen("item"))
            \/ Looks("msiNcGetNumDim", "item", 0, NoName, NoName, msiNcGetNumDim)
          PROVE  Goes
        BY <2>1, LookedOther DEF LookedItem, After, Goes
    <2>2. ASSUME NEW inx \in Literals,
            Looks("msiNcGetElementInArray", "item", inx, "item", NoName,
                  msiNcGetElementInArray("item", inx))
          PROVE  Goes
        BY <2>2, LookedOther DEF LookedItem, After, Goes
    <2>3. ASSUME NEW inx,
            \/ Looks("msiNcGetDataType", "vars", 0, "vars", NoName, msiNcGetDataType("vars"))
            \/ Looks("msiNcGetArrayLen", "vars", 0, "vars", NoName, msiNcGetArrayLen("vars"))
            \/ Looks("msiNcGetElementInArray", "vars", inx, "vars", NoName,
                     msiNcGetElementInArray("vars", inx))
            \/ Looks("msiNcVarStat", "vars", 0, NoName, NoName, msiNcVarStat("vars"))
          PROVE  AnswerInv'
        BY <1>3, <2>3
    <2> QED
        BY <1>1, <1>4, <2>1, <2>2, <2>3 DEF InArray
<1>5. CASE msiNcIntDataTypeToStr \/ msiFloatToString
    BY <1>3, <1>5 DEF msiNcIntDataTypeToStr, msiFloatToString
<1> QED
    BY <1>2, <1>4, <1>5

\* A handler has something to do.
LEMMA HandleFromPc ==
    ASSUME Handle
    PROVE  pc # "idle"
<1> USE DEF Started
<1>1. CASE InqStart \/ GrpsStart \/ InqId \/ InqWithId \/ GetVars
    BY <1>1 DEF InqStart, GrpsStart, InqId, InqWithId, GetVars
<1>2. CASE InqDim \/ DimsDone \/ InqVar \/ InqVarAtt \/ VarAttsDone \/ VarsDone \/ InqGatt
    BY <1>2 DEF InqDim, DimsDone, InqVar, InqVarAtt, VarAttsDone, VarsDone, InqGatt
<1>3. CASE GattsDone \/ InqGattError \/ InqGrp \/ GrpsDone \/ GrpsError
    BY <1>3 DEF GattsDone, InqGattError, InqGrp, GrpsDone, GrpsError
<1>4. CASE Refused \/ InqError \/ AnswerLost
    BY <1>4 DEF Refused, InqError, AnswerLost
<1> QED
    BY <1>1, <1>2, <1>3, <1>4 DEF Handle

\* Every other step leaves no answer of a file as the last call.
LEMMA AnswerNext ==
    ASSUME RuleInv, AnswerInv, [MsNext]_allVars
    PROVE  AnswerInv'
<1>1. NoQuery.ms = "none"
    BY DEF NoQuery, Query
<1>2. ASSUME query' = NoQuery
      PROVE  AnswerInv'
    BY <1>1, <1>2 DEF AnswerInv, AboutFile
<1>3. ASSUME query'.ms \in {"msiNcGetVarsByType", "msiNcSubsetVar"}
      PROVE  AnswerInv'
    BY <1>3 DEF AnswerInv, AboutFile
<1>4. ASSUME query' = query, pc # "idle" \/ client # "rule"
      PROVE  AnswerInv'
    BY <1>4 DEF AnswerInv, AboutFile
<1>5. CASE Microservice
    <2>1. CASE InInqOut \/ InArray \/ msiNcIntDataTypeToStr \/ msiFloatToString
        BY <2>1, LookLooked
    <2>2. CASE \/ Refuse \/ msiNcOpen \/ msiNcCreate \/ msiNcOpenGroup \/ msiNcClose
               \/ msiNcRegGlobalAttr \/ msiNcInq \/ msiNcInqGrps
        <3>1. query' = NoQuery
            BY <2>2 DEF Refuse, msiNcOpen, msiNcCreate, msiNcOpenGroup, msiNcClose,
                msiNcRegGlobalAttr, msiNcInq, msiNcInqGrps, Enter, Returns, Calls
        <3> QED
            BY <1>2, <3>1
    <2>3. CASE \E t \in ParamTypes : msiNcInqWithId(t) \/ \E n \in Names : msiNcInqId(t, n)
        <3>1. query' = NoQuery
            BY <2>3 DEF msiNcInqWithId, msiNcInqId, Calls
        <3> QED
            BY <1>2, <3>1
    <2>4. CASE \E x \in Arrays \union {"vars"} :
                \/ msiFreeNcStruct(x)
                \/ \E n \in Numbers, inx \in Literals : msiAddToNcArray(x, n, inx)
        <3>1. query' = NoQuery
            BY <2>4, ArrayReturns DEF Returns
        <3> QED
            BY <1>2, <3>1
    <2>5. CASE msiNcGetVarsByType \/ msiNcSubsetVar
        <3>1. query'.ms \in {"msiNcGetVarsByType", "msiNcSubsetVar"}
            BY <2>5, VarsQuery
        <3> QED
            BY <1>3, <3>1
    <2> QED
        BY <1>5, <2>1, <2>2, <2>3, <2>4, <2>5 DEF Microservice
<1>6. CASE client = "program" /\ Next /\ UNCHANGED msVars
    BY <1>4, <1>6 DEF msVars
<1>7. CASE client = "rule" /\ Handle /\ UNCHANGED msVars
    <2>1. query' = query /\ pc # "idle"
        BY <1>7, HandleFromPc DEF msVars
    <2> QED
        BY <1>4, <2>1
<1>8. CASE ReturnError \/ ReturnInq \/ ReturnVars \/ ReturnVarsError
    <2>1. query' = query /\ pc # "idle"
        BY <1>8 DEF ReturnError, ReturnInq, ReturnVars, ReturnVarsError, Give, Returned
    <2> QED
        BY <1>4, <2>1
<1>9. CASE Ended \/ UNCHANGED allVars
    <2>1. UNCHANGED <<query, client, pc, ret, param>>
        BY <1>9 DEF Ended, allVars, msVars, vars
    <2> QED
        BY <2>1, LookedStays DEF AnswerInv, AboutFile
<1> QED
    BY <1>5, <1>6, <1>7, <1>8, <1>9 DEF MsNext, Serve

LEMMA AnswerStart ==
    ASSUME MsInit
    PROVE  AnswerInv
<1>1. query.ms = "none"
    BY DEF MsInit, NoQuery, Query
<1> QED
    BY <1>1 DEF AnswerInv, AboutFile

\* If each answer there may be is right, the one returned is.
LEMMA RightIsExact ==
    ASSUME NEW ms, NEW x, NEW inx, NEW name, NEW key, NEW answers, Right(answers),
           LookedAt(ms, x, inx, name, key, answers)
    PROVE  AnswerExact
<1>1. PICK a \in answers : ret = a.ret /\ ("out" \in DOMAIN a.ps => param["out"] = a.ps["out"])
    BY DEF LookedAt
<1>2. CASE ret = "ok"
    <2>1. CASE Beyond \/ Misled
        BY <1>2, <2>1 DEF AnswerExact
    <2>2. CASE \E p : a.ps = [out |-> p] /\ p.val # None /\ p.val[1] \in Facts
        <3>1. PICK p : a.ps = [out |-> p] /\ p.val # None /\ p.val[1] \in Facts
            BY <2>2
        <3>2. param["out"] = p
            BY <1>1, <3>1
        <3>3. ~IsNull("out") /\ param.out.val[1] \in Facts
            BY <3>1, <3>2 DEF IsNull
        <3> QED
            BY <1>2, <3>3 DEF AnswerExact
    <2> QED
        BY <1>1, <1>2, <2>1, <2>2 DEF Right
<1>3. CASE ret = "error"
    <2>1. Beyond \/ TooShort \/ Facts = {}
        BY <1>1, <1>3 DEF Right
    <2> QED
        BY <1>3, <2>1 DEF AnswerExact
<1>4. CASE ret \notin {"ok", "error"}
    <2>1. Beyond
        BY <1>1, <1>4 DEF Right
    <2> QED
        BY <1>4, <2>1 DEF AnswerExact
<1> QED
    BY <1>2, <1>3, <1>4

\* Each of the microservices is right.
LEMMA LookedIsExact ==
    ASSUME FromInv, LookedInq
    PROVE  AnswerExact
<1> DEFINE f == Source("inq")
           names == Names \union {"null"}
<1>1. ASSUME NEW ms, NEW inx, NEW name, NEW key, NEW answers,
             LookedAt(ms, "inq", inx, name, key, answers)
      PROVE  /\ HasFile(O, f) /\ query = Query(ms, inx, name, key)
             /\ Right(answers) => AnswerExact
    BY <1>1, RightIsExact DEF FromInv, FileFrom, LookedAt
<1>2. Literals \subseteq Int /\ NoName \notin names /\ 0 \in Int
    BY InqAssumption, MsAssumption
<1> HIDE DEF names
<1>3. ASSUME NEW inx \in Literals, NEW n \in names,
             \/ LookedAt("msiNcGetDimNameInInqOut", "inq", inx, n, NoName,
                         msiNcGetDimNameInInqOut(inx, n))
             \/ LookedAt("msiNcGetDimLenInInqOut", "inq", inx, n, NoName,
                         msiNcGetDimLenInInqOut(inx, n))
      PROVE  AnswerExact
    BY <1>1, <1>2, <1>3, DimAnswers
<1>4. ASSUME NEW inx \in Literals, NEW n \in names,
             \/ LookedAt("msiNcGetAttNameInInqOut", "inq", inx, n, NoName,
                         msiNcGetAttNameInInqOut(inx, n))
             \/ LookedAt("msiNcGetAttValStrInInqOut", "inq", inx, n, NoName, AttByInx(inx, n))
      PROVE  AnswerExact
    BY <1>1, <1>2, <1>4, AttByInxAnswers
<1>5. ASSUME NEW inx \in Literals, NEW n \in names,
             LookedAt("msiNcGetVarIdInInqOut", "inq", inx, n, NoName,
                      msiNcGetVarIdInInqOut(inx, n))
      PROVE  AnswerExact
    BY <1>1, <1>2, <1>5, VarAnswers
<1>6. ASSUME NEW key \in Names, NEW n \in names,
             LookedAt("msiNcGetAttValStrInInqOut", "inq", 0, n, key, AttByName(key, n))
      PROVE  AnswerExact
    <2>1. key # NoName
        BY InqAssumption
    <2> QED
        BY <1>1, <1>6, <2>1, AttByNameAnswers
<1>7. ASSUME NEW inx \in Literals,
             LookedAt("msiNcGetVarNameInInqOut", "inq", inx, NoName, NoName,
                      msiNcGetVarNameInInqOut(inx))
      PROVE  AnswerExact
    BY <1>1, <1>2, <1>7, VarAnswers
<1>8. ASSUME NEW n,
             LookedAt("msiNcGetVarTypeInInqOut", "inq", 0, n, NoName, msiNcGetVarTypeInInqOut(n))
      PROVE  AnswerExact
    BY <1>1, <1>2, <1>8, VarAnswers
<1>9. ASSUME NEW n,
             \/ LookedAt("msiNcGetNdimsInInqOut", "inq", 0, n, NoName, msiNcGetNdimsInInqOut(n))
             \/ LookedAt("msiNcGetNattsInInqOut", "inq", 0, n, NoName, msiNcGetNattsInInqOut(n))
      PROVE  AnswerExact
    BY <1>1, <1>9, NumberAnswers
<1>10. CASE \/ LookedAt("msiNcGetNvarsInInqOut", "inq", 0, NoName, NoName, msiNcGetNvarsInInqOut)
            \/ LookedAt("msiNcGetFormatInInqOut", "inq", 0, NoName, NoName, msiNcGetFormatInInqOut)
    BY <1>1, <1>10, NumberAnswers
<1> QED
    BY <1>3, <1>4, <1>5, <1>6, <1>7, <1>8, <1>9, <1>10 DEF LookedInq, names

LEMMA LookedGrpsIsExact ==
    ASSUME FromInv, LookedGrps
    PROVE  AnswerExact
<1>1. ASSUME NEW ms, NEW inx, NEW answers,
             LookedAt(ms, "grps", inx, NoName, NoName, answers)
      PROVE  /\ GrpsFrom /\ files.grps # None /\ query = Query(ms, inx, NoName, NoName)
             /\ Right(answers) => AnswerExact
    BY <1>1, RightIsExact DEF FromInv, GrpsFrom, LookedAt
<1> QED
    BY <1>1, GrpAnswers DEF LookedGrps

LEMMA LookedItemIsExact ==
    ASSUME FromInv, LookedItem
    PROVE  AnswerExact
<1>1. ASSUME NEW ms, NEW inx, NEW name, NEW answers,
             LookedAt(ms, "item", inx, name, NoName, answers)
      PROVE  /\ ItemFrom /\ files.item # None /\ query = Query(ms, inx, name, NoName)
             /\ Right(answers) => AnswerExact
    BY <1>1, RightIsExact DEF FromInv, ItemFrom, LookedAt
<1> QED
    BY <1>1, ItemAnswers DEF LookedItem

LEMMA AnswerOfInv ==
    ASSUME FromInv, AnswerInv
    PROVE  AnswerExact
<1>1. CASE ~AboutFile
    BY <1>1 DEF AnswerExact
<1>2. CASE AboutFile
    BY <1>2, LookedIsExact, LookedGrpsIsExact, LookedItemIsExact DEF AnswerInv
<1> QED
    BY <1>1, <1>2

\* For any rules, agents, worlds and bounds: however a rule has come by an
\* NcInqOut, a list of groups or an item of msiNcInqWithId, and whatever was
\* opened and closed since, what the microservices msiNcGet... find in it is what
\* the file has, and they find all of it; only the calls of Beyond and TooShort,
\* whose bounds are wrong in the code, may answer something else.
THEOREM MsAnswersExact == MsSpec => []AnswerExact
<1>1. MsInit => FromInv /\ AnswerInv
    BY FromStart, AnswerStart
<1>2. RuleInv /\ FromInv /\ AnswerInv /\ [MsNext]_allVars => (FromInv /\ AnswerInv)'
    BY FromNext, AnswerNext
<1>3. FromInv /\ AnswerInv => AnswerExact
    BY AnswerOfInv
<1> QED
    BY <1>1, <1>2, <1>3, RuleInvariant, PTL DEF MsSpec
-----------------------------------------------------------------------------
(* Types *)

\* The state of the handler a program or a microservice has called.  When ncInq
\* ends at a global attribute, what it has put together so far stays.
HandlerTypes ==
    /\ asked \in Names \union {NoName}
    /\ pc \in {"idle", "request", "dim", "var", "varAtt", "gatt", "grps", "done"}
    /\ host \in Hosts /\ gattFreed \in BOOLEAN /\ status \in {"ok", "error"}
    /\ ncInqOut = None \/ ncInqOut = <<Out>>
    /\ pc \in {"idle", "request"} => ncInqOut = None
    /\ pc \notin {"idle", "request", "done"} => ncInqOut # None
    /\ status = "error" /\ req.op = "inq" /\ ncInqOut # None =>
        AtFile /\ Gathered(Out, FileOf(Entry), inp, "gatt")
    /\ req.op = "inqId" /\ ncInqOut # None => Out \in Nat

LEMMA AnsweredIs ==
    ASSUME NEW st \in {"ok", "error"}, NEW a, a = None \/ a = <<a[1]>>, HandlerTypes, Answer(st, a),
           a # None => /\ req.op = "inqId" => a[1] \in Nat
                       /\ st = "error" /\ req.op = "inq" =>
                            AtFile /\ Gathered(a[1], FileOf(Entry), inp, "gatt")
    PROVE  HandlerTypes'
<1>1. /\ pc' = "done" /\ status' = st /\ ncInqOut' = a /\ Out' = a[1]
      /\ UNCHANGED <<world, req, asked, host, inp, gattFreed>>
    BY DEF Answer, Fixed, Out
<1>2. /\ AtFile' = AtFile /\ (FileOf(Entry))' = FileOf(Entry)
    BY <1>1 DEF AtFile, InUse, Entry, FileOf, Passed
<1>3. (Gathered(Out, FileOf(Entry), inp, "gatt"))' = Gathered(a[1], FileOf(Entry), inp, "gatt")
    BY <1>1, <1>2 
<1> QED
    BY <1>1, <1>2, <1>3 DEF HandlerTypes

LEMMA FailTypes == HandlerTypes /\ Fail => HandlerTypes'
BY AnsweredIs DEF Fail, None

LEMMA ContinueTypes ==
    ASSUME HandlerTypes, status # "error", req.op # "inqId",
           NEW next \in {"dim", "var", "varAtt", "gatt", "grps"}, NEW o, Continue(next, o)
    PROVE  HandlerTypes'
<1>1. /\ pc' = next /\ ncInqOut' = <<o>> /\ Out' = o
      /\ UNCHANGED <<world, req, asked, host, inp, gattFreed, status>>
    BY DEF Continue, Fixed, Out
<1> QED
    BY <1>1 DEF HandlerTypes, None

LEMMA StartTypes ==
    ASSUME HandlerTypes, InqInv, InqStart \/ GrpsStart \/ InqId \/ InqWithId \/ GetVars
    PROVE  HandlerTypes'
<1>1. PICK next \in {"dim", "grps", "done"} : Started(next)
    BY DEF InqStart, GrpsStart, InqId, InqWithId, GetVars
<1>2. /\ pc = "request" /\ pc' = next /\ host' = Entry.host
      /\ UNCHANGED <<world, req, asked, gattFreed, status>>
    BY <1>1 DEF Started
<1>3. status = "ok" /\ Entry.host \in Hosts
    <2>1. IsWorld(world) /\ InUse /\ status # "error"
        BY <1>1 DEF InqInv, Started
    <2> QED
        BY <2>1 DEF IsWorld, InUse, Entry, HandlerTypes
<1>4. ncInqOut' = <<Out'>> /\ (req.op = "inqId" => Out' \in Nat)
    <2>1. CASE InqStart
        BY <2>1 DEF InqStart, Out
    <2>2. CASE GrpsStart
        BY <2>2 DEF GrpsStart, Out
    <2>3. CASE InqId
        <3>1. PICK id \in ItemIdsOf(inp', File') : ncInqOut' = <<id>>
            BY <2>3 DEF InqId
        <3>2. IsFile(File')
            BY <1>1, StartedAtFile, FileIsFile DEF InqInv
        <3>3. id \in Nat
            BY <3>1, <3>2, IdsLead
        <3> QED
            BY <3>1, <3>3 DEF Out
    <2>4. CASE InqWithId
        BY <2>4 DEF InqWithId, Out
    <2>5. CASE GetVars
        BY <2>5 DEF GetVars, Out
    <2> QED
        BY <2>1, <2>2, <2>3, <2>4, <2>5
<1> QED
    BY <1>2, <1>3, <1>4 DEF HandlerTypes, None

LEMMA HandlerTypesStep ==
    ASSUME HandlerTypes, IdInv, InqInv, [Next]_vars
    PROVE  HandlerTypes'
<1> USE DEF None
<1>1. CASE InqStart \/ GrpsStart \/ InqId \/ InqWithId \/ GetVars
    BY <1>1, StartTypes
<1>2. CASE InqDim \/ DimsDone \/ InqVar \/ InqVarAtt \/ VarAttsDone \/ VarsDone \/ InqGatt \/ InqGrp
    <2>1. pc \in {"dim", "var", "varAtt", "gatt", "grps"}
        BY <1>2 DEF InqDim, DimsDone, InqVar, InqVarAtt, VarAttsDone, VarsDone, InqGatt, InqGrp
    <2>2. status # "error" /\ req.op # "inqId"
        BY <2>1 DEF IdInv, InqInv
    <2>3. \E next \in {"dim", "var", "varAtt", "gatt", "grps"} : \E o : Continue(next, o)
        BY <1>2 DEF InqDim, DimsDone, InqVar, InqVarAtt, VarAttsDone, VarsDone, InqGatt, InqGrp
    <2> QED
        BY <2>2, <2>3, ContinueTypes
<1>3. CASE GattsDone \/ GrpsDone \/ GrpsError
    <2>1. pc \in {"gatt", "grps"} /\ (pc = "gatt" => GattsDone)
        BY <1>3 DEF GattsDone, GrpsDone, GrpsError
    <2>2. req.op \in {"inq", "inqGrps"} /\ (pc = "grps" => req.op = "inqGrps")
        BY <2>1 DEF IdInv
    <2>3. \/ Answer("ok", <<Out>>) \/ Fail
          \/ pc = "grps" /\ Answer("error", <<Out>>)
        BY <1>3 DEF GattsDone, GrpsDone, GrpsError
    <2>4. <<Out>>[1] = Out
        OBVIOUS
    <2> QED
        BY <2>2, <2>3, <2>4, AnsweredIs, FailTypes
<1>4. CASE InqGattError
    <2>1. req.op = "inq" /\ AtFile /\ Gathered(Out, FileOf(Entry), inp, "gatt") /\ pc = "gatt"
        BY <1>4 DEF InqGattError, InqInv, Gathering
    <2>2. /\ pc' = "done" /\ status' = "error" /\ gattFreed' = TRUE /\ ncInqOut' = ncInqOut
          /\ UNCHANGED <<world, req, asked, host, inp>> /\ Out' = Out
        BY <1>4 DEF InqGattError, Fixed, Out
    <2>3. AtFile' = AtFile /\ (FileOf(Entry))' = FileOf(Entry)
        BY <2>2 DEF AtFile, InUse, Entry, FileOf, Passed
    <2>4. (Gathered(Out, FileOf(Entry), inp, "gatt"))'
        BY <2>1, <2>2, <2>3
    <2> QED
        BY <2>1, <2>2, <2>3, <2>4 DEF HandlerTypes
<1>5. CASE Refused \/ InqError \/ AnswerLost
    BY <1>5, FailTypes DEF Refused, InqError, AnswerLost
<1>6. CASE UseId
    <2>1. /\ pc' = "request" /\ ncInqOut' = None /\ host' = "here" /\ asked' = req.name
          /\ UNCHANGED <<gattFreed, status>> /\ status = "ok"
        BY <1>6 DEF UseId
    <2>2. req.name \in Names \union {NoName}
        BY DEF InqInv, IsRequest
    <2> QED
        BY <2>1, <2>2 DEF HandlerTypes, Hosts
<1>7. CASE UNCHANGED vars
    <2>1. UNCHANGED <<world, req, asked, pc, inp, host, ncInqOut, gattFreed, status>> /\ Out' = Out
        BY <1>7 DEF vars, Out
    <2>2. AtFile' = AtFile /\ (FileOf(Entry))' = FileOf(Entry)
        BY <2>1 DEF AtFile, InUse, Entry, FileOf, Passed
    <2>3. (Gathered(Out, FileOf(Entry), inp, "gatt"))' = Gathered(Out, FileOf(Entry), inp, "gatt")
        BY <2>1, <2>2
    <2> QED
        BY <2>1, <2>2, <2>3 DEF HandlerTypes
<1> QED
    BY <1>1, <1>2, <1>3, <1>4, <1>5, <1>6, <1>7 DEF Next, Handle, Terminated

\* What is gathered is an answer about the file.
LEMMA GatheredIsOut ==
    ASSUME InqInv, AtFile, NEW o, NEW p, Gathered(o, FileOf(Entry), inp, p)
    PROVE  IsOut(o)
<1> DEFINE f == FileOf(Entry)
<1>1. File = f
    BY AtFileFile DEF InqInv
<1>2. ASSUME NEW k \in DOMAIN o.dim
      PROVE  o.dim[k].id < Len(f.dim)
    <2>1. o.dim \in Seq(DimRecs(f))
        BY DEF Gathered, DimPart
    <2>2. o.dim[k] \in DimRecs(f)
        BY <2>1, ElementIn
    <2>3. PICK id \in 0 .. Len(f.dim) - 1 : o.dim[k] = DimRec(f, id)
        BY <2>2 DEF DimRecs
    <2> QED
        BY <2>3 DEF DimRec
<1>3. ASSUME NEW k \in DOMAIN o.var
      PROVE  o.var[k].id < Len(f.var) /\ Len(o.var[k].att) <= o.var[k].natts
    <2>1. o.var \in Seq(VarRecs(f)) /\ AttPart(o.var[k], f, k)
        BY DEF Gathered, VarPart
    <2>2. o.var[k] \in VarRecs(f)
        BY <2>1, ElementIn
    <2>3. PICK id \in 0 .. Len(f.var) - 1 : \E att : o.var[k] = VarRec(f, id, att)
        BY <2>2 DEF VarRecs
    <2>4. o.var[k].id = id
        BY <2>3 DEF VarRec
    <2> QED
        BY <2>1, <2>4 DEF AttPart
<1>4. Len(o.dim) <= o.ndims /\ Len(o.var) <= o.nvars /\ Len(o.gatt) <= o.ngatts
    BY DEF Gathered, Header, DimPart, VarPart, GattPart
<1> QED
    BY <1>1, <1>2, <1>3, <1>4 DEF IsOut

LEMMA HandlerIsTyped == HandlerTypes /\ IdInv /\ InqInv => TypeOK
<1> SUFFICES ASSUME HandlerTypes, IdInv, InqInv PROVE TypeOK
    OBVIOUS
<1>1. Len(ncInqOut) <= 1
    BY DEF HandlerTypes, None
<1>2. ASSUME ncInqOut # None, req.op = "inq" PROVE IsOut(Out)
    <2>1. status = "ok" => pc \in Gathering \/ Ok("inq")
        BY <1>2 DEF HandlerTypes, Ok, Gathering, IdInv
    <2>2. PICK p : AtFile /\ Gathered(Out, FileOf(Entry), inp, p)
        BY <1>2, <2>1 DEF HandlerTypes, InqInv
    <2> QED
        BY <2>2, GatheredIsOut
<1> QED
    BY <1>1, <1>2 DEF TypeOK, HandlerTypes, InqInv
-----------------------------------------------------------------------------
(* The arrays a rule puts together *)

\* What Elements makes of the elements d.
Made(d) ==
    IF DOMAIN d = {} THEN <<>>
    ELSE [k \in 1 .. Max(DOMAIN d) + 1 |-> IF k - 1 \in DOMAIN d THEN d[k - 1] ELSE 0]

LEMMA MadeIs ==
    ASSUME NEW m \in Nat, NEW d, DOMAIN d \subseteq 0 .. m - 1,
           \A k \in DOMAIN d : d[k] \in Nat
    PROVE  /\ Made(d) \in Seq(Nat) /\ Len(Made(d)) \in 0 .. m
           /\ Len(Made(d)) = IF DOMAIN d = {} THEN 0 ELSE Max(DOMAIN d) + 1
           /\ \A k \in 1 .. Len(Made(d)) : Made(d)[k] = IF k - 1 \in DOMAIN d THEN d[k - 1] ELSE 0
<1>1. CASE DOMAIN d = {}
    BY <1>1 DEF Made
<1>2. CASE DOMAIN d # {}
    <2>1. m - 1 \in Nat
        BY <1>2
    <2>2. Max(DOMAIN d) \in 0 .. m - 1
        BY <1>2, <2>1, MaxOf
    <2> DEFINE x == Max(DOMAIN d) + 1
    <2>3. x \in 1 .. m
        BY <2>2
    <2> HIDE DEF x
    <2>4. Made(d) = [k \in 1 .. x |-> IF k - 1 \in DOMAIN d THEN d[k - 1] ELSE 0]
        BY <1>2 DEF Made, x
    <2>5. \A k \in 1 .. x : (IF k - 1 \in DOMAIN d THEN d[k - 1] ELSE 0) \in Nat
        OBVIOUS
    <2>6. Made(d) \in [1 .. x -> Nat] /\ x \in Nat
        BY <2>3, <2>4, <2>5
    <2>7. Made(d) \in Seq(Nat) /\ Len(Made(d)) = x
        BY <2>6
    <2> QED
        BY <1>2, <2>3, <2>4, <2>7 DEF x
<1> QED
    BY <1>1, <1>2

\* An element goes to its place, and what is not there yet is zero.
LEMMA PutMakes ==
    ASSUME NEW m \in Nat, NEW d, DOMAIN d \subseteq 0 .. m - 1, \A k \in DOMAIN d : d[k] \in Nat,
           NEW i \in 0 .. m - 1, NEW n \in Nat
    PROVE  /\ DOMAIN With(d, i, n) = DOMAIN d \union {i}
           /\ \A k \in DOMAIN With(d, i, n) : With(d, i, n)[k] \in Nat
           /\ Put(Made(d), i, n) = Made(With(d, i, n))
<1> DEFINE e == With(d, i, n)
           buf == Made(d)
<1>1. e = [k \in DOMAIN d \union {i} |-> IF k = i THEN n ELSE d[k]]
    BY DEF With
<1>2. /\ DOMAIN e = DOMAIN d \union {i} /\ DOMAIN e \subseteq 0 .. m - 1 /\ DOMAIN e # {}
      /\ \A k \in DOMAIN e : e[k] = (IF k = i THEN n ELSE d[k]) /\ e[k] \in Nat
    BY <1>1
<1> HIDE DEF e
<1>3. /\ Len(Made(e)) = Max(DOMAIN e) + 1 /\ Made(e) \in Seq(Nat)
      /\ \A k \in 1 .. Len(Made(e)) : Made(e)[k] = IF k - 1 \in DOMAIN e THEN e[k - 1] ELSE 0
    BY <1>2, MadeIs
<1>4. /\ Len(buf) = IF DOMAIN d = {} THEN 0 ELSE Max(DOMAIN d) + 1
      /\ Len(buf) \in Nat /\ Len(buf) <= m
      /\ \A k \in 1 .. Len(buf) : buf[k] = IF k - 1 \in DOMAIN d THEN d[k - 1] ELSE 0
    <2>1. /\ Len(buf) = IF DOMAIN d = {} THEN 0 ELSE Max(DOMAIN d) + 1
          /\ Len(buf) \in 0 .. m
          /\ \A k \in 1 .. Len(buf) : buf[k] = IF k - 1 \in DOMAIN d THEN d[k - 1] ELSE 0
        BY MadeIs, Zenon
    <2> HIDE DEF buf
    <2> QED
        BY <2>1
<1> HIDE DEF buf
<1>5. m - 1 \in Nat /\ Max(DOMAIN e) \in DOMAIN e /\ \A k \in DOMAIN e : k <= Max(DOMAIN e)
    BY <1>2, MaxOf
<1>6. DOMAIN d # {} => Max(DOMAIN d) \in DOMAIN d /\ \A k \in DOMAIN d : k <= Max(DOMAIN d)
    BY <1>5, MaxOf
<1>7. LET s == {Len(buf), i + 1} IN Max(s) \in s /\ \A k \in s : k <= Max(s)
    <2> DEFINE s == {Len(buf), i + 1}
    <2>1. s \subseteq 0 .. m /\ s # {}
        BY <1>4
    <2> HIDE DEF s
    <2>2. Max(s) \in s /\ \A k \in s : Max(s) >= k
        BY <2>1, MaxOf
    <2> QED
        BY <2>1, <2>2 DEF s
<1>8. Max({Len(buf), i + 1}) = Max(DOMAIN e) + 1
    <2> DEFINE x == Max({Len(buf), i + 1})
               y == Max(DOMAIN e)
    <2>1. x \in {Len(buf), i + 1} /\ Len(buf) <= x /\ i + 1 <= x
        BY <1>7
    <2>2. y \in DOMAIN e /\ \A k \in DOMAIN e : k <= y
        BY <1>5
    <2> HIDE DEF x, y
    <2>3. x \in Nat /\ y \in 0 .. m - 1
        BY <1>2, <1>4, <2>1, <2>2
    <2>4. y + 1 <= x
        <3>1. CASE y = i
            BY <2>1, <3>1
        <3>2. CASE y \in DOMAIN d
            <4>1. Len(buf) = Max(DOMAIN d) + 1 /\ y <= Max(DOMAIN d) /\ Max(DOMAIN d) \in 0 .. m - 1
                BY <1>4, <1>6, <3>2
            <4> QED
                BY <2>1, <2>3, <4>1
        <3> QED
            BY <1>2, <2>2, <3>1, <3>2
    <2>5. x <= y + 1
        <3>1. i <= y
            BY <1>2, <2>2
        <3>2. CASE DOMAIN d = {}
            BY <1>4, <2>1, <2>3, <3>1, <3>2
        <3>3. CASE DOMAIN d # {}
            <4>1. Len(buf) = Max(DOMAIN d) + 1 /\ Max(DOMAIN d) <= y /\ Max(DOMAIN d) \in 0 .. m - 1
                BY <1>2, <1>4, <1>6, <2>2, <3>3
            <4> QED
                BY <2>1, <2>3, <3>1, <4>1
        <3> QED
            BY <3>2, <3>3
    <2> QED
        BY <2>3, <2>4, <2>5 DEF x, y
<1>9. Put(buf, i, n) = [k \in 1 .. Len(Made(e)) |->
            IF k = i + 1 THEN n ELSE IF k <= Len(buf) THEN buf[k] ELSE 0]
    BY <1>3, <1>8 DEF Put
<1>10. ASSUME NEW k \in 1 .. Len(Made(e))
       PROVE  Made(e)[k] = IF k = i + 1 THEN n ELSE IF k <= Len(buf) THEN buf[k] ELSE 0
    <2>1. Made(e)[k] = IF k - 1 \in DOMAIN e THEN e[k - 1] ELSE 0
        BY <1>3
    <2>2. k \in Nat \ {0}
        BY <1>3
    <2>3. CASE k = i + 1
        BY <1>2, <2>1, <2>2, <2>3
    <2>4. CASE k # i + 1 /\ k <= Len(buf)
        <3>1. k - 1 # i /\ k \in 1 .. Len(buf)
            BY <2>2, <2>4, <1>4
        <3>2. (k - 1 \in DOMAIN e) <=> (k - 1 \in DOMAIN d)
            BY <1>2, <3>1
        <3> QED
            BY <1>2, <1>4, <2>1, <2>4, <3>1, <3>2
    <2>5. CASE k # i + 1 /\ ~ (k <= Len(buf))
        <3>1. k - 1 \notin DOMAIN d
            BY <1>4, <1>6, <2>2, <2>5
        <3>2. k - 1 \notin DOMAIN e
            BY <1>2, <2>2, <2>5, <3>1
        <3> QED
            BY <2>1, <2>5, <3>2
    <2> QED
        BY <2>3, <2>4, <2>5
<1>11. Made(e) = [k \in 1 .. Len(Made(e)) |-> Made(e)[k]]
    BY <1>3
<1>12. Put(buf, i, n) = Made(e)
    BY <1>9, <1>10, <1>11
<1> QED
    BY <1>2, <1>12 DEF e, buf

\* A variable of the rule is empty or has one thing in it.
IsValue(p) == p.val = None \/ p.val = <<p.val[1]>>

\* What a rule has put into an array is what the array has.
ArrayIs(x) ==
    /\ DOMAIN added[x] \subseteq 0 .. NC_MAX_DIMS - 1 /\ \A k \in DOMAIN added[x] : added[x][k] \in Nat
    /\ param[x].type \in {"NULL", "NcGetVarOut_PI"}
    /\ IsNull(x) => DOMAIN added[x] = {}
    /\ ~IsNull(x) => /\ DOMAIN added[x] # {}
                     /\ Array(x) = [dataType |-> 4, buf |-> Elements(x), cap |-> NC_MAX_DIMS]

ArraysAre == DOMAIN added = Arrays /\ \A x \in Arrays : ArrayIs(x)

RuleTypes ==
    /\ client \in {"program", "rule"} /\ rule \in {a.rule : a \in Agents} \union {{}}
    /\ \A x \in Params : IsValue(param[x])
    /\ ret \in {"ok", "error", "fault"}
    /\ call = None \/ call = <<call[1]>>
    /\ client = "rule" => (call # None <=> pc # "idle")
    /\ ArraysAre

TypesInv == HandlerTypes /\ RuleTypes

LEMMA ElementsAre ==
    ASSUME NEW x, ArrayIs(x)
    PROVE  /\ Elements(x) = Made(added[x]) /\ Elements(x) \in Seq(Nat)
           /\ Len(Elements(x)) \in 0 .. NC_MAX_DIMS
           /\ DOMAIN added[x] # {} => Len(Elements(x)) \in 1 .. NC_MAX_DIMS
<1>1. Elements(x) = Made(added[x])
    BY DEF Elements, Made
<1>2. /\ NC_MAX_DIMS \in Nat /\ DOMAIN added[x] \subseteq 0 .. NC_MAX_DIMS - 1
      /\ \A k \in DOMAIN added[x] : added[x][k] \in Nat
    BY MsAssumption DEF ArrayIs
<1> DEFINE d == added[x]
<1>3. /\ Made(d) \in Seq(Nat) /\ Len(Made(d)) \in 0 .. NC_MAX_DIMS
      /\ Len(Made(d)) = IF DOMAIN d = {} THEN 0 ELSE Max(DOMAIN d) + 1
    BY <1>2, MadeIs
<1>4. ASSUME DOMAIN d # {} PROVE Len(Made(d)) \in 1 .. NC_MAX_DIMS
    <2>1. Max(DOMAIN d) \in DOMAIN d
        <3>1. NC_MAX_DIMS - 1 \in Nat
            BY MsAssumption
        <3> QED
            BY <1>2, <1>4, <3>1, MaxOf
    <2>2. Max(DOMAIN d) \in 0 .. NC_MAX_DIMS - 1
        BY <1>2, <2>1
    <2> QED
        BY <1>2, <1>3, <1>4, <2>2
<1> QED
    BY <1>1, <1>3, <1>4

LEMMA TypesGiveTypeOK == RuleInv /\ TypesInv => MsTypeOK
<1> SUFFICES ASSUME RuleInv, TypesInv PROVE MsTypeOK
    OBVIOUS
<1>1. TypeOK
    BY HandlerIsTyped DEF RuleInv, TypesInv
<1>2. \A x \in Params : Len(param[x].val) <= 1
    <2> TAKE x \in Params
    <2>1. param[x].val = <<>> \/ param[x].val = <<param[x].val[1]>>
        BY DEF TypesInv, RuleTypes, IsValue, None
    <2>2. \A v : (v = <<>> \/ v = <<v[1]>>) => Len(v) <= 1
        OBVIOUS
    <2> QED
        BY <2>1, <2>2
<1>3. Len(call) <= 1
    <2>1. call = None \/ call = <<call[1]>>
        BY DEF TypesInv, RuleTypes
    <2> QED
        BY <2>1 DEF None
<1>4. ASSUME NEW x \in Arrays, param[x].val # None
      PROVE  param[x].val[1].cap = NC_MAX_DIMS /\ Len(param[x].val[1].buf) \in 1 .. NC_MAX_DIMS
    <2>1. ArrayIs(x)
        BY DEF TypesInv, RuleTypes, ArraysAre
    <2>2. Array(x) = [dataType |-> 4, buf |-> Elements(x), cap |-> NC_MAX_DIMS] /\ DOMAIN added[x] # {}
        BY <1>4, <2>1 DEF ArrayIs, IsNull
    <2>3. Array(x).cap = NC_MAX_DIMS /\ Array(x).buf = Elements(x)
        BY <2>2
    <2> QED
        BY <2>1, <2>2, <2>3, ElementsAre DEF Array
<1>5. /\ client \in {"program", "rule"} /\ rule \in {a.rule : a \in Agents} \union {{}}
      /\ DOMAIN param = Params /\ ret \in {"ok", "error", "fault"}
      /\ client = "rule" => (call # None <=> pc # "idle")
    BY DEF TypesInv, RuleTypes, RuleInv, MsInv
<1>6. \A x \in Arrays : /\ param[x].type \in {"NULL", "NcGetVarOut_PI"}
                        /\ DOMAIN added[x] \subseteq 0 .. NC_MAX_DIMS - 1
    BY DEF TypesInv, RuleTypes, ArraysAre, ArrayIs
<1> QED
    BY <1>1, <1>2, <1>3, <1>4, <1>5, <1>6 DEF MsTypeOK
-----------------------------------------------------------------------------
(* What steps keep *)

LEMMA ArrayStays ==
    ASSUME NEW x, ArrayIs(x), UNCHANGED added, param'[x] = param[x]
    PROVE  ArrayIs(x)'
<1>1. Elements(x)' = Elements(x) /\ Array(x)' = Array(x) /\ IsNull(x)' = IsNull(x)
    BY DEF Elements, Array, IsNull
<1> QED
    BY <1>1 DEF ArrayIs

\* A microservice that calls no handler returns.
LEMMA ReturnsTypes ==
    ASSUME RuleTypes, NEW q, NEW r \in {"ok", "error", "fault"}, NEW ps, Returns(q, r, ps),
           DOMAIN ps \intersect Arrays = {}, \A x \in DOMAIN ps : IsValue(ps[x]),
           UNCHANGED <<pc, added>>
    PROVE  RuleTypes'
<1>1. \A x \in Params : param'[x] = IF x \in DOMAIN ps THEN ps[x] ELSE param[x]
    BY DEF Returns
<1>2. \A x \in Params : IsValue(param'[x])
    BY <1>1 DEF RuleTypes
<1>3. \A x \in Arrays : param'[x] = param[x]
    BY <1>1 DEF Params
<1>4. ArraysAre'
    BY <1>3, ArrayStays DEF RuleTypes, ArraysAre
<1>5. UNCHANGED <<client, rule, call, pc>> /\ ret' = r
    BY DEF Returns
<1> QED
    BY <1>2, <1>4, <1>5 DEF RuleTypes, IsValue

LEMMA IdleHandlerTypes ==
    ASSUME HandlerTypes, pc = "idle", CallIs, client = "rule",
           UNCHANGED <<req, asked, pc, inp, host, ncInqOut, gattFreed, status>>
    PROVE  HandlerTypes'
<1>1. ncInqOut = None /\ status = "ok"
    BY DEF HandlerTypes, CallIs
<1> QED
    BY <1>1 DEF HandlerTypes, None

LEMMA LocallyTypes ==
    ASSUME TypesInv, RuleInv, NEW q, NEW r \in {"ok", "error", "fault"}, NEW ps, Returns(q, r, ps),
           DOMAIN ps \intersect Arrays = {}, \A x \in DOMAIN ps : IsValue(ps[x]), Locally
    PROVE  TypesInv'
<1>1. HandlerTypes'
    BY HandlerTypesStep DEF TypesInv, RuleInv, Locally, NoHandler
<1>2. UNCHANGED <<pc, added>>
    BY DEF Locally, NoHandler, vars
<1> QED
    BY <1>1, <1>2, ReturnsTypes DEF TypesInv

LEMMA ValuesAre ==
    /\ \A t, s : IsValue(Of(t, s))
    /\ \A n : IsValue(Int_(n)) /\ IsValue(Str_(n))
    /\ \A t : IsValue(Garbage(t))
    /\ \A d, what : IsValue(DimOut(d, what))
    /\ IsValue(Unset)
<1>1. \A t, s : IsValue(Of(t, s))
    <2> TAKE t, s
    <2>1. Of(t, s).val = <<s>> /\ <<s>>[1] = s
        BY DEF Of
    <2> QED
        BY <2>1 DEF IsValue
<1>2. \A n : IsValue(Int_(n)) /\ IsValue(Str_(n))
    BY <1>1 DEF Int_, Str_
<1>3. (\A t : IsValue(Garbage(t))) /\ IsValue(Unset)
    BY DEF IsValue, Garbage, Unset
<1> QED
    BY <1>1, <1>2, <1>3 DEF DimOut
-----------------------------------------------------------------------------
(* What the microservices that look into a variable return *)

AreValues(answers) == \A a \in answers :
    /\ a.ret \in {"ok", "error", "fault"}
    /\ DOMAIN a.ps \subseteq {"out"} /\ \A x \in DOMAIN a.ps : IsValue(a.ps[x])

LEMMA ValueSets ==
    /\ AreValues(Missing)
    /\ \A outs : (\A p \in outs : IsValue(p)) => AreValues(Given(outs)) /\ AreValues(Astray(outs))
<1>1. DOMAIN <<>> = {}
    OBVIOUS
<1>2. AreValues(Missing)
    BY <1>1 DEF AreValues, Missing
<1>3. ASSUME NEW outs, \A p \in outs : IsValue(p)
      PROVE  AreValues(Given(outs))
    <2>1. \A p \in outs : LET a == [ret |-> "ok", ps |-> [out |-> p]]
                          IN  a.ret = "ok" /\ DOMAIN a.ps = {"out"} /\ a.ps["out"] = p
        OBVIOUS
    <2>2. AreValues({[ret |-> "ok", ps |-> [out |-> p]] : p \in outs})
        BY <1>3, <2>1 DEF AreValues
    <2> QED
        BY <1>2, <2>2 DEF Given
<1>4. AreValues({[ret |-> "fault", ps |-> <<>>]})
    BY <1>1 DEF AreValues
<1>5. \A a, b : AreValues(a) /\ AreValues(b) => AreValues(a \union b)
    BY Zenon DEF AreValues
<1> QED
    BY <1>2, <1>3, <1>4, <1>5 DEF Astray

LEMMA ValuesOfFile ==
    ASSUME NEW inx, NEW name, NEW key
    PROVE  /\ AreValues(msiNcGetDimNameInInqOut(inx, name))
           /\ AreValues(msiNcGetDimLenInInqOut(inx, name))
           /\ AreValues(msiNcGetAttNameInInqOut(inx, name))
           /\ AreValues(AttByInx(inx, name)) /\ AreValues(AttByName(key, name))
           /\ AreValues(msiNcGetVarIdInInqOut(inx, name))
           /\ AreValues(msiNcGetVarNameInInqOut(inx)) /\ AreValues(msiNcGetVarTypeInInqOut(name))
           /\ AreValues(msiNcGetNdimsInInqOut(name)) /\ AreValues(msiNcGetNattsInInqOut(name))
           /\ AreValues(msiNcGetNvarsInInqOut) /\ AreValues(msiNcGetFormatInInqOut)
           /\ AreValues(msiNcGetNGrpsInInqOut) /\ AreValues(msiNcGetGrpInInqOut(inx))
<1>1. \A what : AreValues(DimInInqOut(inx, name, what))
    <2> TAKE what
    <2>1. \A D : \A p \in {DimOut(d, what) : d \in D} : IsValue(p)
        BY ValuesAre
    <2>2. \A p \in {Garbage("INT_PI")} : IsValue(p)
        BY ValuesAre
    <2> QED
        BY <2>1, <2>2, ValueSets DEF DimInInqOut
<1>2. \A a : AreValues(AttValStr(a))
    <2> TAKE a
    <2>1. \A s : \A p \in {Str_(s)} : IsValue(p)
        BY ValuesAre
    <2>2. \A p \in {Garbage("STR_PI")} : IsValue(p)
        BY ValuesAre
    <2> QED
        BY <2>1, <2>2, ValueSets DEF AttValStr
<1>3. \A as : AreValues(AttVals(as))
    BY <1>2, ValueSets DEF AttVals, AreValues
<1>4. AreValues(AttByInx(inx, name)) /\ AreValues(AttByName(key, name))
    BY <1>3, ValueSets DEF AttByInx, AttByName
<1>5. /\ AreValues(msiNcGetDimNameInInqOut(inx, name))
      /\ AreValues(msiNcGetDimLenInInqOut(inx, name))
    BY <1>1, ValueSets DEF msiNcGetDimNameInInqOut, msiNcGetDimLenInInqOut
<1>6. AreValues(msiNcGetAttNameInInqOut(inx, name)) /\ AreValues(msiNcGetVarIdInInqOut(inx, name))
    BY ValuesAre, ValueSets DEF msiNcGetAttNameInInqOut, msiNcGetVarIdInInqOut
<1>7. AreValues(msiNcGetVarNameInInqOut(inx)) /\ AreValues(msiNcGetVarTypeInInqOut(name))
    BY ValuesAre, ValueSets DEF msiNcGetVarNameInInqOut, msiNcGetVarTypeInInqOut
<1>8. AreValues(msiNcGetNdimsInInqOut(name)) /\ AreValues(msiNcGetNattsInInqOut(name))
    BY ValuesAre, ValueSets DEF msiNcGetNdimsInInqOut, msiNcGetNattsInInqOut
<1>9. AreValues(msiNcGetNvarsInInqOut) /\ AreValues(msiNcGetFormatInInqOut)
    BY ValuesAre, ValueSets DEF msiNcGetNvarsInInqOut, msiNcGetFormatInInqOut
<1>10. AreValues(msiNcGetNGrpsInInqOut) /\ AreValues(msiNcGetGrpInInqOut(inx))
    BY ValuesAre, ValueSets DEF msiNcGetNGrpsInInqOut, msiNcGetGrpInInqOut
<1> QED
    BY <1>4, <1>5, <1>6, <1>7, <1>8, <1>9, <1>10

LEMMA ValuesOfArray ==
    ASSUME NEW x, NEW inx
    PROVE  /\ AreValues(msiNcGetDataType(x)) /\ AreValues(msiNcGetArrayLen(x))
           /\ AreValues(msiNcGetElementInArray(x, inx)) /\ AreValues(msiNcGetNumDim)
           /\ AreValues(msiNcVarStat(x))
<1>1. AreValues(msiNcGetDataType(x)) /\ AreValues(msiNcGetArrayLen(x)) /\ AreValues(msiNcGetNumDim)
    BY ValuesAre, ValueSets DEF msiNcGetDataType, msiNcGetArrayLen, msiNcGetNumDim
<1>2. AreValues(msiNcGetElementInArray(x, inx))
    <2>1. \A p \in {Int_(Item.intArray[k]) : k \in {inx + 1} \intersect DOMAIN Item.intArray} : IsValue(p)
        BY ValuesAre
    <2>2. \A p \in {Garbage("DOUBLE_PI")} : IsValue(p)
        BY ValuesAre
    <2>3. \A t, s : \A p \in {Of(t, s)} : IsValue(p)
        BY ValuesAre
    <2> QED
        BY <2>1, <2>2, <2>3, ValueSets DEF msiNcGetElementInArray
<1>3. AreValues(msiNcVarStat(x))
    <2>1. \A s : \A p \in {Str_(s)} : IsValue(p)
        BY ValuesAre
    <2> QED
        BY <2>1, ValueSets, Zenon DEF msiNcVarStat
<1> QED
    BY <1>1, <1>2, <1>3

LEMMA LooksTypes ==
    ASSUME TypesInv, RuleInv, NEW ms, NEW x, NEW inx, NEW name, NEW key, NEW answers,
           AreValues(answers), Looks(ms, x, inx, name, key, answers)
    PROVE  TypesInv'
<1>1. PICK a \in answers : Returns(Query(ms, inx, name, key), a.ret, a.ps)
    BY DEF Looks
<1>2. Locally /\ "out" \notin Arrays
    BY DEF Looks, Arrays
<1>3. /\ a.ret \in {"ok", "error", "fault"} /\ DOMAIN a.ps \intersect Arrays = {}
      /\ \A y \in DOMAIN a.ps : IsValue(a.ps[y])
    BY <1>2 DEF AreValues
<1> QED
    BY <1>1, <1>2, <1>3, LocallyTypes

LEMMA LookTypes ==
    ASSUME TypesInv, RuleInv, InInqOut \/ InArray \/ msiNcIntDataTypeToStr \/ msiFloatToString
    PROVE  TypesInv'
<1>1. CASE InInqOut
    BY <1>1, ValuesOfFile, LooksTypes DEF InInqOut
<1>2. CASE InArray
    BY <1>2, ValuesOfArray, LooksTypes DEF InArray
<1>3. CASE msiNcIntDataTypeToStr \/ msiFloatToString
    <2>1. \A s : AreValues(Given({Str_(s)}))
        BY ValuesAre, ValueSets
    <2> QED
        BY <1>3, <2>1, ValueSets, LooksTypes DEF msiNcIntDataTypeToStr, msiFloatToString
<1> QED
    BY <1>1, <1>2, <1>3
-----------------------------------------------------------------------------
(* The other microservices *)

LEMMA EnterTypes ==
    ASSUME TypesInv, RuleInv, client = "rule", pc = "idle",
           \/ \E h, n : Enter(h, n)
           \/ msiNcClose
    PROVE  TypesInv'
<1>1. PICK r, ps : /\ r \in {"ok", "error"} /\ Returns(NoQuery, r, ps) /\ DOMAIN ps \subseteq {"ncid"}
                                       /\ \A x \in DOMAIN ps : IsValue(ps[x])
    <2>1. CASE \E h, n : Enter(h, n)
        <3>1. PICK x \in Slots : Returns(NoQuery, "ok", [ncid |-> Int_(x)])
            BY <2>1 DEF Enter
        <3>2. LET ps == [ncid |-> Int_(x)] IN DOMAIN ps = {"ncid"} /\ \A y \in DOMAIN ps : IsValue(ps[y])
            BY ValuesAre
        <3> QED
            BY <3>1, <3>2
    <2>2. CASE msiNcClose
        <3>1. DOMAIN <<>> = {}
            OBVIOUS
        <3> QED
            BY <2>2, <3>1 DEF msiNcClose
    <2> QED
        BY <2>1, <2>2
<1>2. UNCHANGED <<req, asked, pc, inp, host, ncInqOut, gattFreed, status, added>>
    BY DEF Enter, msiNcClose
<1>3. HandlerTypes'
    BY <1>2, IdleHandlerTypes DEF TypesInv, RuleInv, MsInv
<1>4. "ncid" \notin Arrays
    BY DEF Arrays
<1> QED
    BY <1>1, <1>2, <1>3, <1>4, ReturnsTypes DEF TypesInv

LEMMA OpenTypes ==
    ASSUME TypesInv, RuleInv, msiNcOpen \/ msiNcCreate \/ msiNcOpenGroup \/ msiNcClose
    PROVE  TypesInv'
<1>1. client = "rule" /\ pc = "idle"
    BY DEF msiNcOpen, msiNcCreate, msiNcOpenGroup, msiNcClose, Uses
<1>2. (\E h, n : Enter(h, n)) \/ msiNcClose
    BY DEF msiNcOpen, msiNcCreate, msiNcOpenGroup
<1> QED
    BY <1>1, <1>2, EnterTypes

LEMMA CallsTypes ==
    ASSUME TypesInv, RuleInv, client = "rule", pc = "idle",
           NEW q, NEW r, NEW name \in Names \union {NoName}, NEW c, Calls(q, r, name, c)
    PROVE  TypesInv'
<1>1. /\ asked' = name /\ pc' = "request" /\ call' = <<c>>
      /\ UNCHANGED <<world, host, ncInqOut, gattFreed, status, client, rule, param, ret, files, added>>
    BY DEF Calls
<1>2. ncInqOut = None /\ status = "ok"
    BY DEF TypesInv, HandlerTypes, RuleInv, MsInv, CallIs
<1>3. HandlerTypes'
    BY <1>1, <1>2 DEF TypesInv, HandlerTypes
<1>4. ArraysAre'
    BY <1>1, ArrayStays DEF TypesInv, RuleTypes, ArraysAre
<1>5. RuleTypes'
    BY <1>1, <1>4 DEF TypesInv, RuleTypes, IsValue, None
<1> QED
    BY <1>3, <1>5 DEF TypesInv

LEMMA CallTypes ==
    ASSUME TypesInv, RuleInv,
           \/ msiNcInq \/ msiNcInqGrps
           \/ \E t \in ParamTypes : msiNcInqWithId(t) \/ \E n \in Names : msiNcInqId(t, n)
    PROVE  TypesInv'
<1>1. CASE msiNcInq \/ msiNcInqGrps
    BY <1>1, CallsTypes DEF msiNcInq, msiNcInqGrps, Uses
<1>2. ASSUME NEW t \in ParamTypes, NEW n \in Names, msiNcInqId(t, n)
      PROVE  TypesInv'
    BY <1>2, CallsTypes DEF msiNcInqId, Uses
<1>3. ASSUME NEW t \in ParamTypes, msiNcInqWithId(t)
      PROVE  TypesInv'
    <2> DEFINE d == files.id[1]
    <2>1. client = "rule" /\ pc = "idle" /\ IsSet("id")
        BY <1>3 DEF msiNcInqWithId, Uses
    <2>2. PICK r, c, means : Calls(NoQuery, r, means, c) /\ means =
            IF OfFile("id") /\ d.paramType = {t} THEN d.name ELSE NoName
        BY <1>3 DEF msiNcInqWithId
    <2>3. ASSUME OfFile("id") PROVE d.name \in Names
        <3> DEFINE f == FileOf(d)
                   s == Items(d, f)
        <3>1. PICK id : id \in ItemIdsOf(d, f)
            BY <2>1 DEF RuleInv, MsInv, IdFrom
        <3>2. IsFile(f)
            <4>1. Ncid \in Slots /\ world.l1desc[Ncid].inuse /\ f = FileOf(world.l1desc[Ncid])
                BY <2>3 DEF OfFile, InUseAt, FileOf, Where
            <4>2. IsWorld(world)
                BY DEF RuleInv, InqInv
            <4> HIDE DEF f
            <4> QED
                BY <4>1, <4>2 DEF IsWorld, Slots, FileOf
        <3>3. \A k \in DOMAIN s : s[k].name \in Names
            <4>1. s \in {f.dim, f.var, <<>>}
                BY DEF Items
            <4>2. f.dim \in Seq([name : Names, arrayLen : Nat])
                BY <3>2, Zenon DEF IsFile
            <4> HIDE DEF f, s
            <4>3. \A k \in DOMAIN f.dim : f.dim[k].name \in Names
                <5>1. \A k \in DOMAIN f.dim : f.dim[k] \in [name : Names, arrayLen : Nat]
                    BY <4>2, ElementIn
                <5> QED
                    BY <5>1
            <4>4. \A k \in DOMAIN f.var : f.var[k].name \in Names
                BY <3>2 DEF IsFile
            <4>5. CASE s = f.dim
                BY <4>3, <4>5
            <4>6. CASE s = f.var
                BY <4>4, <4>6
            <4>7. CASE s = <<>>
                BY <4>7
            <4> QED
                BY <4>1, <4>5, <4>6, <4>7
        <3>4. id + 1 \in DOMAIN s /\ s[id + 1].name = d.name
            BY <3>1, <3>2, IdsInItems
        <3> QED
            BY <3>3, <3>4
    <2> HIDE DEF d
    <2> QED
        BY <2>1, <2>2, <2>3, CallsTypes
<1> QED
    BY <1>1, <1>2, <1>3

\* A rule fills an array, or frees one.
LEMMA AddTypes ==
    ASSUME TypesInv, RuleInv, NEW x \in Arrays \union {"vars"}, NEW n \in Numbers, NEW inx,
           msiAddToNcArray(x, n, inx)
    PROVE  TypesInv'
<1> DEFINE new == IsNull(x)
           a == IF new THEN [dataType |-> 4, buf |-> <<>>, cap |-> NC_MAX_DIMS] ELSE Array(x)
           cell == IF a.dataType = 5 THEN 0 ELSE n
           p == Of("NcGetVarOut_PI", [a EXCEPT !.buf = Put(@, inx, cell)])
           d == added[x]
<1>1. /\ inx \in 0 .. NC_MAX_DIMS - 1 /\ NC_MAX_DIMS \in Nat /\ n \in Nat
      /\ NoHandler /\ client = "rule" /\ pc = "idle"
    BY MsAssumption DEF msiAddToNcArray, Uses
<1>2. HandlerTypes' /\ pc' = pc
    BY <1>1, HandlerTypesStep DEF TypesInv, RuleInv, NoHandler, vars
<1>3. CASE Returns(NoQuery, "fault", <<>>) /\ UNCHANGED added
    <2>1. DOMAIN <<>> = {}
        OBVIOUS
    <2> QED
        BY <1>2, <1>3, <2>1, ReturnsTypes DEF TypesInv
<1>4. CASE /\ Returns(NoQuery, "ok", [y \in {x} |-> p])
           /\ added' = IF x \in Arrays THEN [added EXCEPT ![x] = With(@, inx, n)] ELSE added
    <2> DEFINE ps == [y \in {x} |-> p]
    <2>1. IsValue(p) /\ DOMAIN ps = {x} /\ ps[x] = p
        BY ValuesAre
    <2>2. CASE x \notin Arrays
        <3> HIDE DEF p
        <3>1. DOMAIN ps \intersect Arrays = {} /\ \A y \in DOMAIN ps : IsValue(ps[y])
            BY <2>1, <2>2
        <3> HIDE DEF ps
        <3> QED
            BY <1>2, <1>4, <2>2, <3>1, ReturnsTypes DEF TypesInv, ps
    <2>3. CASE x \in Arrays
        <3>1. ArrayIs(x) /\ DOMAIN added = Arrays
            BY <2>3 DEF TypesInv, RuleTypes, ArraysAre
        <3>2. a = [dataType |-> 4, buf |-> Made(d), cap |-> NC_MAX_DIMS]
            <4>1. CASE IsNull(x)
                BY <3>1, <4>1 DEF ArrayIs, Made
            <4>2. CASE ~IsNull(x)
                BY <3>1, <4>2, ElementsAre DEF ArrayIs
            <4> QED
                BY <4>1, <4>2
        <3>3. cell = n
            BY <3>2
        <3>4. [a EXCEPT !.buf = Put(@, inx, cell)] =
                [dataType |-> 4, buf |-> Put(Made(d), inx, n), cap |-> NC_MAX_DIMS]
            BY <3>2, <3>3
        <3>5. /\ DOMAIN With(d, inx, n) = DOMAIN d \union {inx}
              /\ \A k \in DOMAIN With(d, inx, n) : With(d, inx, n)[k] \in Nat
              /\ Put(Made(d), inx, n) = Made(With(d, inx, n))
            <4>1. DOMAIN d \subseteq 0 .. NC_MAX_DIMS - 1 /\ \A k \in DOMAIN d : d[k] \in Nat
                BY <3>1 DEF ArrayIs
            <4> HIDE DEF d
            <4> QED
                BY <1>1, <4>1, PutMakes
        <3>6. p = Of("NcGetVarOut_PI", [dataType |-> 4, buf |-> Made(With(d, inx, n)), cap |-> NC_MAX_DIMS])
            BY <3>4, <3>5
        <3> HIDE DEF p, d, a, cell, new
        <3>7. added' = [added EXCEPT ![x] = With(d, inx, n)]
            BY <1>4, <2>3 DEF d
        <3>8. added'[x] = With(d, inx, n) /\ DOMAIN added' = Arrays
              /\ \A y \in Arrays \ {x} : added'[y] = added[y]
            BY <2>3, <3>1, <3>7
        <3>9. \A y \in Params : param'[y] = IF y = x THEN p ELSE param[y]
            BY <1>4, <2>1 DEF Returns
        <3>10. x \in Params
            BY DEF Params
        <3>11. (ArrayIs(x))'
            <4>1. (param[x])' = p
                BY <3>9, <3>10
            <4>2. /\ p.type = "NcGetVarOut_PI"
                  /\ p.val = <<[dataType |-> 4, buf |-> Made(With(d, inx, n)), cap |-> NC_MAX_DIMS]>>
                BY <3>6 DEF Of
            <4>3. /\ IsNull(x)' = FALSE
                  /\ Array(x)' = [dataType |-> 4, buf |-> Made(With(d, inx, n)), cap |-> NC_MAX_DIMS]
                BY <4>1, <4>2 DEF IsNull, Array, None
            <4>4. Elements(x)' = Made(With(d, inx, n))
                BY <3>8 DEF Elements, Made
            <4>5. DOMAIN added'[x] \subseteq 0 .. NC_MAX_DIMS - 1 /\ DOMAIN added'[x] # {}
                  /\ \A k \in DOMAIN added'[x] : added'[x][k] \in Nat
                BY <1>1, <3>1, <3>5, <3>8 DEF ArrayIs, d
            <4> QED
                BY <4>1, <4>2, <4>3, <4>4, <4>5 DEF ArrayIs
        <3>12. ASSUME NEW y \in Arrays, y # x PROVE (ArrayIs(y))'
            <4>1. param'[y] = param[y] /\ added'[y] = added[y] /\ ArrayIs(y)
                BY <3>8, <3>9, <3>12 DEF Params, TypesInv, RuleTypes, ArraysAre
            <4>2. Elements(y)' = Elements(y) /\ Array(y)' = Array(y) /\ IsNull(y)' = IsNull(y)
                BY <4>1 DEF Elements, Array, IsNull
            <4> QED
                BY <4>1, <4>2 DEF ArrayIs
        <3>13. ArraysAre'
            BY <3>8, <3>11, <3>12 DEF ArraysAre
        <3>14. \A y \in Params : IsValue(param'[y])
            BY <2>1, <3>9 DEF TypesInv, RuleTypes
        <3>15. UNCHANGED <<client, rule, call>> /\ ret' = "ok"
            BY <1>4 DEF Returns
        <3>16. RuleTypes'
            BY <1>2, <3>13, <3>14, <3>15 DEF TypesInv, RuleTypes, IsValue
        <3> QED
            BY <1>2, <3>16 DEF TypesInv
    <2> QED
        BY <2>2, <2>3
<1> QED
    BY <1>3, <1>4 DEF msiAddToNcArray

LEMMA FreeTypes ==
    ASSUME TypesInv, RuleInv, NEW x \in Arrays \union {"vars"}, msiFreeNcStruct(x)
    PROVE  TypesInv'
<1> DEFINE p == [param[x] EXCEPT !.val = None]
<1>1. NoHandler /\ Returns(NoQuery, "ok", [y \in {x} |-> p]) /\ param[x].type = "NcGetVarOut_PI"
      /\ added' = IF x \in Arrays THEN [added EXCEPT ![x] = <<>>] ELSE added
    BY DEF msiFreeNcStruct
<1>2. HandlerTypes' /\ pc' = pc
    BY <1>1, HandlerTypesStep DEF TypesInv, RuleInv, NoHandler, vars
<1>3. \A y \in Params : param'[y] = IF y = x THEN p ELSE param[y]
    BY <1>1 DEF Returns
<1>4. x \in Params /\ DOMAIN <<>> = {}
    BY DEF Params
<1>5. IsValue(p)
    <2>1. p.val = None \/ p.val = param[x].val
        OBVIOUS
    <2>2. IsValue(param[x])
        BY <1>4 DEF TypesInv, RuleTypes
    <2> QED
        BY <2>1, <2>2 DEF IsValue
<1>6. ASSUME NEW y \in Arrays PROVE ArrayIs(y)'
    <2>1. ArrayIs(y) /\ y \in Params /\ DOMAIN added = Arrays
        BY DEF TypesInv, RuleTypes, ArraysAre, Params
    <2>2. CASE y = x
        <3>1. (param[y])' = p /\ (added[y])' = <<>>
            BY <1>1, <1>3, <2>1, <2>2
        <3>2. p.type \in {"NULL", "NcGetVarOut_PI"}
            <4>1. p.type = param[x].type
                OBVIOUS
            <4> QED
                BY <1>1, <4>1
        <3>3. p.val = None
            OBVIOUS
        <3> HIDE DEF p
        <3> QED
            BY <1>4, <3>1, <3>2, <3>3 DEF ArrayIs, IsNull
    <2>3. CASE y # x
        <3>1. param'[y] = param[y] /\ added'[y] = added[y]
            BY <1>1, <1>3, <2>1, <2>3
        <3>2. Elements(y)' = Elements(y) /\ Array(y)' = Array(y) /\ IsNull(y)' = IsNull(y)
            BY <3>1 DEF Elements, Array, IsNull
        <3> QED
            BY <2>1, <3>1, <3>2 DEF ArrayIs
    <2> QED
        BY <2>2, <2>3
<1>7. DOMAIN added' = Arrays
    BY <1>1 DEF TypesInv, RuleTypes, ArraysAre
<1>8. UNCHANGED <<client, rule, call>> /\ ret' = "ok"
    BY <1>1 DEF Returns
<1>9. \A y \in Params : IsValue(param'[y])
    BY <1>3, <1>5 DEF TypesInv, RuleTypes
<1>10. RuleTypes'
    BY <1>2, <1>6, <1>7, <1>8, <1>9 DEF TypesInv, RuleTypes, IsValue, ArraysAre
<1> QED
    BY <1>2, <1>10 DEF TypesInv

\* A read asks for a variable there is in the answer, or returns an error or ends.
LEMMA VarsReadIn ==
    ASSUME RuleInv, msiNcGetVarsByType \/ msiNcSubsetVar
    PROVE  \E q : \/ \E k \in DOMAIN O.var : \E t, b : Read(q, O.var[k], t, b)
                  \/ \E r \in {"error", "fault"} : Returns(q, r, <<>>) /\ Locally
<1>1. CASE msiNcGetVarsByType
    <2>1. PICK k \in DOMAIN O.var, j \in DOMAIN O.var, p \in Passable :
        LET v == O.var[k]
            b == p.passed
            q == [Query("msiNcGetVarsByType", 0, v.name, NoName) EXCEPT !.bounds = p.meant]
        IN  \/ Read(q, v, O.var[j].dataType, b)
            \/ Returns(q, "error", <<>>) /\ Locally
        BY <1>1 DEF msiNcGetVarsByType
    <2> QED
        BY <2>1
<1>2. CASE msiNcSubsetVar
    <2>1. PICK n \in Names, conds \in SubsetStrs :
        LET q == [Query("msiNcSubsetVar", 0, n, NoName) EXCEPT !.conds = conds]
        IN  \/ \E v \in Named(O.var, n) : Read(q, v, v.dataType, SubsetBounds(v, conds))
            \/ Returns(q, "fault", <<>>) /\ Locally
            \/ Returns(q, "error", <<>>) /\ Locally
        BY <1>2, Zenon DEF msiNcSubsetVar
    <2> DEFINE q == [Query("msiNcSubsetVar", 0, n, NoName) EXCEPT !.conds = conds]
    <2>2. \/ \E v \in Named(O.var, n) : Read(q, v, v.dataType, SubsetBounds(v, conds))
          \/ Returns(q, "fault", <<>>) /\ Locally
          \/ Returns(q, "error", <<>>) /\ Locally
        BY <2>1
    <2> HIDE DEF q
    <2>3. HasVars(O, FileOf(files.inq[1]))
        BY <1>2, Zenon DEF msiNcSubsetVar, RuleInv, MsInv, InqFrom
    <2> QED
        BY <2>2, <2>3, NamedInVars, ZenonT(40)
<1> QED
    BY <1>1, <1>2

LEMMA VarsTypes ==
    ASSUME TypesInv, RuleInv, msiNcGetVarsByType \/ msiNcSubsetVar
    PROVE  TypesInv'
<1>1. client = "rule" /\ pc = "idle" /\ IsSet("inq")
    BY DEF msiNcGetVarsByType, msiNcSubsetVar, Uses
<1>2. PICK q : \/ \E k \in DOMAIN O.var : \E t, b : Read(q, O.var[k], t, b)
               \/ \E r \in {"error", "fault"} : Returns(q, r, <<>>) /\ Locally
    BY VarsReadIn
<1>3. ASSUME NEW k \in DOMAIN O.var, NEW t, NEW b, Read(q, O.var[k], t, b)
      PROVE  TypesInv'
    <2>1. O.var[k].name \in Names
        <3> DEFINE f == FileOf(files.inq[1])
        <3>1. HasVars(O, f)
            BY <1>1 DEF RuleInv, MsInv, InqFrom
        <3> HIDE DEF f
        <3>2. k \in DOMAIN f.var /\ O.var[k].name = f.var[k].name
            <4>1. /\ k \in DOMAIN f.var
                  /\ O.var[k] = [id |-> k - 1, name |-> f.var[k].name, dataType |-> f.var[k].dataType,
                      dimId |-> f.var[k].dimId, natts |-> Len(f.var[k].att),
                      att |-> Atts(f.var[k].att)]
                BY <3>1, <1>3 DEF HasVars
            <4> QED
                BY <4>1
        <3> QED
            <4>1. IsFile(f)
                BY <3>1 DEF HasVars
            <4>2. \A j \in DOMAIN f.var : f.var[j].name \in Names
                BY <4>1 DEF IsFile
            <4> QED
                BY <3>2, <4>2
    <2> DEFINE means == IF OfFile("inq") THEN O.var[k].name ELSE NoName
    <2>2. means \in Names \union {NoName}
        BY <2>1
    <2>3. PICK r, c : Calls(q, r, means, c)
        BY <1>3 DEF Read
    <2> HIDE DEF means
    <2> QED
        BY <1>1, <2>2, <2>3, CallsTypes
<1>4. ASSUME NEW r \in {"error", "fault"}, Returns(q, r, <<>>), Locally
      PROVE  TypesInv'
    <2>1. DOMAIN <<>> = {}
        OBVIOUS
    <2> QED
        BY <1>4, <2>1, LocallyTypes
<1> QED
    BY <1>2, <1>3, <1>4

LEMMA MicroserviceTypes ==
    ASSUME TypesInv, RuleInv, Microservice
    PROVE  TypesInv'
<1>1. DOMAIN <<>> = {}
    OBVIOUS
<1>2. CASE Refuse
    BY <1>1, <1>2, LocallyTypes DEF Refuse
<1>3. CASE msiNcRegGlobalAttr
    <2>1. PICK r, n : r \in {"ok", "error"} /\ Returns(NoQuery, r, [out |-> Int_(n)])
        BY <1>3 DEF msiNcRegGlobalAttr
    <2>2. /\ DOMAIN [out |-> Int_(n)] \intersect Arrays = {}
          /\ \A y \in DOMAIN [out |-> Int_(n)] : IsValue([out |-> Int_(n)][y])
        BY ValuesAre DEF Arrays
    <2>3. Locally
        BY <1>3 DEF msiNcRegGlobalAttr
    <2> QED
        BY <2>1, <2>2, <2>3, LocallyTypes
<1>4. CASE msiNcOpen \/ msiNcCreate \/ msiNcOpenGroup \/ msiNcClose
    BY <1>4, OpenTypes
<1>5. CASE \/ msiNcInq \/ msiNcInqGrps
           \/ \E t \in ParamTypes : msiNcInqWithId(t) \/ \E n \in Names : msiNcInqId(t, n)
    BY <1>5, CallTypes
<1>6. CASE InInqOut \/ InArray \/ msiNcIntDataTypeToStr \/ msiFloatToString
    BY <1>6, LookTypes
<1>7. CASE \E x \in Arrays \union {"vars"} :
            msiFreeNcStruct(x) \/ \E n \in Numbers, inx \in Literals : msiAddToNcArray(x, n, inx)
    BY <1>7, AddTypes, FreeTypes
<1>8. CASE msiNcGetVarsByType \/ msiNcSubsetVar
    BY <1>8, VarsTypes
<1> QED
    BY <1>2, <1>3, <1>4, <1>5, <1>6, <1>7, <1>8 DEF Microservice
-----------------------------------------------------------------------------
(* Answers *)

\* A microservice that has its answer; it gives no array.
LEMMA ReturnedTypes ==
    ASSUME TypesInv, Returned, ret' \in {"ok", "error", "fault"},
           \A x \in Params : IsValue(param'[x]), \A x \in Arrays : param'[x] = param[x]
    PROVE  TypesInv'
<1>1. HandlerTypes'
    BY DEF Returned, NoReq, HandlerTypes, None, Hosts, TypesInv
<1>2. ArraysAre'
    BY ArrayStays DEF TypesInv, RuleTypes, ArraysAre, Returned
<1>3. /\ pc' = "idle" /\ call' = None /\ UNCHANGED <<client, rule>>
    BY DEF Returned
<1>4. RuleTypes'
    BY <1>2, <1>3 DEF TypesInv, RuleTypes, IsValue
<1> QED
    BY <1>1, <1>4 DEF TypesInv

LEMMA GiveTypes ==
    ASSUME TypesInv, RuleInv, NEW ms, NEW x \in {"inq", "grps", "id", "item", "vars"}, NEW p,
           IsValue(p), NEW source, Give(ms, x, p, source)
    PROVE  TypesInv'
<1>1. /\ Returned /\ ret' = "ok" /\ param' = [param EXCEPT ![x] = p] /\ DOMAIN param = Params
    BY DEF Give, RuleInv, MsInv
<1>2. \A y \in Params : param'[y] = IF y = x THEN p ELSE param[y]
    BY <1>1
<1>3. /\ \A y \in Params : IsValue(param'[y])
      /\ \A y \in Arrays : param'[y] = param[y]
    BY <1>2 DEF TypesInv, RuleTypes, Arrays, Params
<1> QED
    BY <1>1, <1>3, ReturnedTypes

LEMMA ServeTypes ==
    ASSUME TypesInv, RuleInv, Serve
    PROVE  TypesInv'
<1>1. CASE client = "rule" /\ Handle /\ UNCHANGED msVars
    <2>1. HandlerTypes'
        BY <1>1, HandlerTypesStep DEF TypesInv, RuleInv, Next
    <2>2. UNCHANGED <<client, rule, param, call, ret, added>> /\ pc' # "idle" /\ pc # "idle"
        <3>1. pc # "idle"
            BY <1>1, HandleFromPc DEF Handle
        <3> QED
            BY <1>1, <3>1, HandleKeepsRequest DEF msVars
    <2>3. ArraysAre'
        BY <2>2, ArrayStays DEF TypesInv, RuleTypes, ArraysAre
    <2>4. RuleTypes'
        BY <2>2, <2>3 DEF TypesInv, RuleTypes, IsValue
    <2> QED
        BY <2>1, <2>4 DEF TypesInv
<1>2. CASE ReturnError \/ ReturnVarsError
    <2>1. Returned /\ UNCHANGED param /\ ret' \in {"error", "fault"}
        BY <1>2 DEF ReturnError, ReturnVarsError
    <2> QED
        BY <2>1, ReturnedTypes DEF TypesInv, RuleTypes, IsValue
<1>3. CASE ReturnInq
    BY <1>3, ValuesAre, GiveTypes DEF ReturnInq
<1>4. CASE ReturnVars
    BY <1>4, ValuesAre, GiveTypes DEF ReturnVars
<1> QED
    BY <1>1, <1>2, <1>3, <1>4 DEF Serve

\* A program has no rule; its handler may be anywhere.
LEMMA StillTypes ==
    ASSUME TypesInv, RuleInv, [Next]_vars, UNCHANGED msVars, client = "program" \/ UNCHANGED vars
    PROVE  TypesInv'
<1>1. HandlerTypes'
    BY HandlerTypesStep DEF TypesInv, RuleInv
<1>2. UNCHANGED <<client, rule, param, call, ret, added>> /\ (client = "program" \/ pc' = pc)
    BY DEF msVars, vars
<1>3. ArraysAre'
    BY <1>2, ArrayStays DEF TypesInv, RuleTypes, ArraysAre
<1>4. RuleTypes'
    BY <1>2, <1>3 DEF TypesInv, RuleTypes, IsValue
<1> QED
    BY <1>1, <1>4 DEF TypesInv

LEMMA TypesNext ==
    ASSUME TypesInv, RuleInv, [MsNext]_allVars
    PROVE  TypesInv'
<1>1. CASE client = "program" /\ Next /\ UNCHANGED msVars
    BY <1>1, StillTypes
<1>2. CASE Microservice
    BY <1>2, MicroserviceTypes
<1>3. CASE Serve
    BY <1>3, ServeTypes
<1>4. CASE Ended \/ UNCHANGED allVars
    BY <1>4, StillTypes DEF Ended, allVars
<1> QED
    BY <1>1, <1>2, <1>3, <1>4 DEF MsNext

LEMMA StartsTyped == Init => HandlerTypes
BY DEF Init, HandlerTypes, None, Hosts

LEMMA TypesStart ==
    ASSUME MsInit
    PROVE  TypesInv
<1>1. /\ param = [x \in Params |-> Unset] /\ call = None /\ ret = "ok"
      /\ added = [x \in Arrays |-> <<>>]
    BY DEF MsInit
<1>2. \A x \in Params : IsValue(param[x])
    BY <1>1, ValuesAre
<1>3. ASSUME NEW x \in Arrays PROVE ArrayIs(x)
    <2>1. param[x] = Unset /\ added[x] = <<>> /\ DOMAIN <<>> = {}
        BY <1>1 DEF Params
    <2> QED
        BY <2>1 DEF ArrayIs, IsNull, Unset
<1>4. ArraysAre
    BY <1>1, <1>3 DEF ArraysAre
<1>5. /\ HandlerTypes /\ client \in {"program", "rule"} /\ rule \in {a.rule : a \in Agents} \union {{}}
      /\ client = "rule" => pc = "idle"
    <2>1. CASE client = "program" /\ rule = {} /\ Init
        BY <2>1, StartsTyped
    <2>2. CASE client = "rule" /\ (\E a \in Agents : rule = a.rule /\ world = a.world) /\ Idle
        BY <2>2 DEF Idle, NoReq, HandlerTypes, None, Hosts
    <2> QED
        BY <2>1, <2>2 DEF MsInit
<1> QED
    BY <1>1, <1>2, <1>4, <1>5 DEF TypesInv, RuleTypes

LEMMA TypesInvariant == MsSpec => []TypesInv
<1>1. MsInit => TypesInv
    BY TypesStart
<1>2. RuleInv /\ TypesInv /\ [MsNext]_allVars => TypesInv'
    BY TypesNext
<1> QED
    BY <1>1, <1>2, RuleInvariant, PTL DEF MsSpec

\* For any rules, agents, files and bounds: whatever the microservices are called
\* with, fail at or are refused, the variables of the rule and the handler that
\* is called keep their types.  An array that a rule puts together element by
\* element (msiAddToNcArray) has at least one, has room for NC_MAX_DIMS and never
\* more than that, and a microservice waits exactly as long as its handler works.
THEOREM MsStateIsTyped == MsSpec => []MsTypeOK
BY TypesInvariant, RuleInvariant, TypesGiveTypeOK, PTL

\* For any table of entries, files and request of a program: at each call of the
\* library, what ncInq has put together so far has its type: the ids in it are of
\* the file and no array of it has more elements than were announced.
THEOREM InquiryIsTyped == Spec => []TypeOK
<1> DEFINE I == HandlerTypes /\ IdInv /\ InqInv
<1>1. Init => I
    BY StartsTyped, InqAssumption DEF Init, IdInv, InqInv, Ok, ErrorLeavesNothing, Gathering
<1>2. I /\ [Next]_vars => I'
    BY HandlerTypesStep, IdNext, InqNext
<1>3. I => TypeOK
    BY HandlerIsTyped
<1> QED
    BY <1>1, <1>2, <1>3, PTL DEF Spec
-----------------------------------------------------------------------------
(* What is read *)

\* A start, count and stride for each dimension of v.
IsBounds(b, v) == \A x \in Arrays : b[x] \in Seq(Nat) /\ Len(b[x]) = Len(v.shape)

\* v has a value for each of its cells, and no more.
HasData(v) ==
    /\ v.shape \in Seq(Nat)
    /\ DOMAIN v.data = ToSet(Slab([j \in DOMAIN v.shape |-> 0], v.shape))

LEMMA PaddedSame ==
    ASSUME NEW v, NEW s, v.shape \in Seq(Nat), s \in Seq(Nat), Len(s) = Len(v.shape)
    PROVE  Padded(s, v) = s
<1>1. PICK n \in Nat : n = Len(s) /\ DOMAIN s = 1 .. n /\ DOMAIN v.shape = 1 .. n
    OBVIOUS
<1>2. Padded(s, v) = [j \in 1 .. n |-> s[j]]
    BY <1>1 DEF Padded
<1>3. s = [j \in 1 .. n |-> s[j]]
    BY <1>1
<1> QED
    BY <1>2, <1>3

\* The cells of v between what p says for each dimension.
Between(v, p) == {x \in DOMAIN v.data : \A j \in DOMAIN x : x[j] \in p[j].from .. p[j].to}

\* p says s and c for each dimension, and that fits in v.
Bounded(p, s, c, v) == \A j \in DOMAIN v.shape :
    s[j] + c[j] <= v.shape[j] /\ p[j].from = s[j] /\ p[j].to = s[j] + c[j] - 1

\* The cells between the bounds are those of the slab.
LEMMA CellsAsked ==
    ASSUME NEW v, NEW s, NEW c, HasData(v), s \in Seq(Nat), c \in Seq(Nat),
           Len(s) = Len(v.shape), Len(c) = Len(v.shape), NEW p, Bounded(p, s, c, v)
    PROVE  Between(v, p) = ToSet(Slab(s, c))
<1>1. PICK n \in Nat : n = Len(v.shape) /\ DOMAIN v.shape = 1 .. n
    BY DEF HasData
<1>0. \A j \in 1 .. n :
          s[j] + c[j] <= v.shape[j] /\ p[j].from = s[j] /\ p[j].to = s[j] + c[j] - 1
    BY <1>1 DEF Bounded
<1>2. PICK z : z = [j \in 1 .. n |-> 0]
    OBVIOUS
<1>3. z \in Seq(Nat) /\ Len(z) = n
    BY <1>2
<1>11. \A j \in 1 .. n : s[j] \in Nat /\ c[j] \in Nat /\ v.shape[j] \in Nat
    <2>1. v.shape \in Seq(Nat)
        BY DEF HasData
    <2>2. DOMAIN s = 1 .. n /\ DOMAIN c = 1 .. n
        BY <1>1
    <2> QED
        BY <1>1, <2>1, <2>2, SMTT(30)
<1>4. \A x : x \in DOMAIN v.data <=> InSlab(x, z, v.shape)
    BY <1>1, <1>2, <1>3, SlabHas DEF HasData
<1>5. \A x : x \in ToSet(Slab(s, c)) <=> InSlab(x, s, c)
    BY SlabHas
<1>6. ASSUME NEW x \in Seq(Nat), Len(x) = n
      PROVE  /\ DOMAIN x = 1 .. n
             /\ InSlab(x, z, v.shape) <=> \A j \in 1 .. n : x[j] < v.shape[j]
             /\ InSlab(x, s, c) <=> \A j \in 1 .. n : x[j] \in p[j].from .. p[j].to
    <2>1. DOMAIN x = 1 .. n /\ \A j \in 1 .. n : x[j] \in Nat
        BY <1>6
    <2>2. \A j \in 1 .. n : v.shape[j] \in Nat
        BY <1>1, SMTT(30) DEF HasData
    <2>3. \A j \in 1 .. n : z[j] <= x[j] /\ (x[j] < z[j] + v.shape[j] <=> x[j] < v.shape[j])
        <3> TAKE j \in 1 .. n
        <3>1. PICK a, l \in Nat : a = x[j] /\ l = v.shape[j]
            BY <2>1, <2>2
        <3>2. z[j] = 0
            BY <1>2
        <3>3. 0 <= a /\ (a < 0 + l <=> a < l)
            OBVIOUS
        <3> QED
            BY <3>1, <3>2, <3>3
    <2>4. InSlab(x, z, v.shape) <=> \A j \in 1 .. n : x[j] < v.shape[j]
        BY <1>1, <1>6, <2>3 DEF InSlab
    <2>5. \A j \in 1 .. n : (s[j] <= x[j] /\ x[j] < s[j] + c[j]) <=> x[j] \in p[j].from .. p[j].to
        <3> TAKE j \in 1 .. n
        <3>1. PICK a, d, l \in Nat : a = x[j] /\ d = s[j] /\ l = c[j]
            BY <1>11, <2>1
        <3>2. p[j].from = d /\ p[j].to = d + l - 1
            BY <1>0, <3>1
        <3>3. (d <= a /\ a < d + l) <=> a \in d .. d + l - 1
            OBVIOUS
        <3> QED
            BY <3>1, <3>2, <3>3
    <2>6. InSlab(x, s, c) <=> \A j \in 1 .. n : x[j] \in p[j].from .. p[j].to
        BY <1>1, <1>6, <2>5 DEF InSlab
    <2> QED
        BY <2>1, <2>4, <2>6
<1>7. \A x : InSlab(x, z, v.shape) => x \in Seq(Nat) /\ Len(x) = n
    BY <1>1 DEF InSlab
<1>8. \A x : InSlab(x, s, c) => x \in Seq(Nat) /\ Len(x) = n
    BY <1>1 DEF InSlab
<1>9. ASSUME NEW x, InSlab(x, s, c) PROVE InSlab(x, z, v.shape)
    <2>1. x \in Seq(Nat) /\ Len(x) = n
        BY <1>8, <1>9
    <2>2. \A j \in 1 .. n : x[j] < v.shape[j]
        <3> TAKE j \in 1 .. n
        <3>1. PICK a, d, e, l \in Nat : a = x[j] /\ d = s[j] /\ e = c[j] /\ l = v.shape[j]
            <4>1. x[j] \in Nat
                BY <2>1
            <4>2. s[j] \in Nat /\ c[j] \in Nat /\ v.shape[j] \in Nat
                BY <1>11
            <4> QED
                BY <4>1, <4>2
        <3>2. d + e <= l
            BY <1>0, <3>1
        <3>3. a < d + e
            BY <1>1, <1>9, <3>1 DEF InSlab
        <3> QED
            BY <3>1, <3>2, <3>3, SMTT(30)
    <2> QED
        BY <1>6, <2>1, <2>2
<1>10. ASSUME NEW x
       PROVE  (x \in DOMAIN v.data /\ \A j \in DOMAIN x : x[j] \in p[j].from .. p[j].to)
                  <=> x \in ToSet(Slab(s, c))
    <2>1. CASE InSlab(x, s, c) \/ InSlab(x, z, v.shape)
        <3>1. x \in Seq(Nat) /\ Len(x) = n
            BY <1>7, <1>8, <2>1
        <3> QED
            BY <1>4, <1>5, <1>6, <1>9, <3>1
    <2>2. CASE ~InSlab(x, s, c) /\ ~InSlab(x, z, v.shape)
        BY <1>4, <1>5, <2>2
    <2> QED
        BY <2>1, <2>2
<1> QED
    BY <1>10 DEF Between

\* With strides of one the cells asked for are read, in row order.
LEMMA CellsRead ==
    ASSUME NEW v, NEW t, NEW b, HasData(v), IsBounds(b, v), CanRead(v, t, b),
           \A j \in DOMAIN v.shape : b.stride[j] <= 1,
           NEW p, \A j \in DOMAIN v.shape :
               p[j].from = b.start[j] /\ p[j].to = b.start[j] + b.count[j] - 1,
           NEW cells, cells = Between(v, p)
    PROVE  /\ Len(Filled(v, b)) = Cardinality(cells)
           /\ \A x \in cells :
                  Filled(v, b)[Cardinality({d \in cells : Before(d, x)}) + 1] = v.data[x]
<1>1. PICK s, c, e \in Seq(Nat) :
          /\ s = b.start /\ c = b.count /\ e = b.stride
          /\ Len(s) = Len(v.shape) /\ Len(c) = Len(v.shape) /\ Len(e) = Len(v.shape)
    BY DEF IsBounds, Arrays
<1>2. PICK n \in Nat : n = Len(v.shape) /\ DOMAIN v.shape = 1 .. n
    BY DEF HasData
<1>3. DOMAIN c = 1 .. n /\ DOMAIN s = 1 .. n
    BY <1>1, <1>2
<1>4. Padded(s, v) = s /\ Padded(c, v) = c
    BY <1>1, PaddedSame DEF HasData
<1>5. \A j \in 1 .. n : c[j] > 0 /\ s[j] + c[j] <= v.shape[j]
    BY <1>1, <1>2, <1>3, <1>4 DEF CanRead
<1>6. cells = ToSet(Slab(s, c))
    <2>1. \A j \in DOMAIN v.shape : s[j] + c[j] <= v.shape[j]
        BY <1>2, <1>5
    <2>2. Bounded(p, s, c, v)
        BY <1>1, <2>1, Zenon DEF Bounded
    <2>4. HasData(v) /\ s \in Seq(Nat) /\ c \in Seq(Nat) /\ Len(s) = Len(v.shape) /\ Len(c) = Len(v.shape)
        BY <1>1
    <2>3. Between(v, p) = ToSet(Slab(s, c))
        BY <2>2, <2>4, CellsAsked, Zenon
    <2> QED
        BY <2>3, Zenon
<1>7. PICK vol \in Nat : vol = Volume(c)
    BY VolumeNat
<1>8. PICK slab : slab = Slab(s, c) /\ DOMAIN slab = 1 .. vol
    BY <1>1, <1>7, SlabIs
<1>9. \A k \in 1 .. vol : slab[k] \in Seq(Nat) /\ Len(slab[k]) = n
    <2> TAKE k \in 1 .. vol
    <2>1. k \in 1 .. Volume(c) /\ Len(s) = Len(c)
        BY <1>1, <1>7
    <2>2. Slab(s, c)[k] \in Seq(Nat) /\ Len(Slab(s, c)[k]) = Len(c)
        BY <2>1, SlabIs, Zenon
    <2> QED
        BY <1>1, <1>2, <1>8, <2>2
<1>10. \A k, m \in 1 .. vol : k < m =>
           Before(slab[k], slab[m]) /\ slab[k] # slab[m] /\ ~Before(slab[m], slab[k])
    <2> SUFFICES ASSUME NEW k \in 1 .. vol, NEW m \in 1 .. vol, k < m
                 PROVE  Before(slab[k], slab[m]) /\ slab[k] # slab[m] /\ ~Before(slab[m], slab[k])
        OBVIOUS
    <2>1. Before(slab[k], slab[m])
        <3>1. k \in 1 .. Volume(c) /\ m \in 1 .. Volume(c) /\ Len(s) = Len(c)
            BY <1>1, <1>7
        <3>2. Before(Slab(s, c)[k], Slab(s, c)[m])
            BY <3>1, SlabOrder
        <3> QED
            BY <1>8, <3>2
    <2> QED
        BY <1>9, <2>1, BeforeOne
<1>11. \A k \in 1 .. vol : ~Before(slab[k], slab[k])
    BY <1>9, BeforeOne
<1>12. /\ Cardinality(cells) = vol
       /\ \A k \in 1 .. vol : Cardinality({d \in cells : Before(d, slab[k])}) = k - 1
    <2>1. InOrder(slab, vol)
        BY <1>10, <1>11 DEF InOrder
    <2>2. Ranked(slab, vol)
        BY <1>8, <2>1, BeforeCount
    <2>3. cells = ToSet(slab)
        BY <1>6, <1>8, Zenon
    <2> QED
        BY <2>2, <2>3, Zenon DEF Ranked
<1>13. Size(c, e) = vol
    <2>1. DOMAIN c = DOMAIN v.shape
        BY <1>2, <1>3
    <2>2. \A j \in DOMAIN c : c[j] > 0 /\ e[j] <= 1
        BY <1>1, <1>3, <1>5, <2>1
    <2> QED
        BY <1>1, <1>7, <2>2, UnitSize
<1>14. Filled(v, b) = [k \in 1 .. vol |-> IF k <= Len(slab) THEN v.data[slab[k]] ELSE 0]
    <2>1. Slab(Padded(b.start, v), Padded(b.count, v)) = slab /\ Size(b.count, b.stride) = vol
        BY <1>1, <1>4, <1>8, <1>13
    <2> QED
        BY <2>1 DEF Filled
<1>15. Len(slab) = vol
    BY <1>8
<1>16. Filled(v, b) = [k \in 1 .. vol |-> v.data[slab[k]]]
    BY <1>14, <1>15
<1>17. Len(Filled(v, b)) = vol
    BY <1>16
<1>18. ASSUME NEW x \in cells
       PROVE  Filled(v, b)[Cardinality({d \in cells : Before(d, x)}) + 1] = v.data[x]
    <2>1. PICK k \in 1 .. vol : x = slab[k]
        BY <1>6, <1>8 DEF ToSet
    <2>2. Cardinality({d \in cells : Before(d, x)}) = k - 1
        BY <1>12, <2>1
    <2>3. (k - 1) + 1 = k
        OBVIOUS
    <2>4. Filled(v, b)[k] = v.data[x]
        BY <1>16, <2>1
    <2> QED
        BY <2>2, <2>3, <2>4
<1> QED
    BY <1>12, <1>17, <1>18

\* The variable that is read is that of the id.
VarsAnswered == Ok("getVars") => InUse /\ Out \in ById(FileOf(Entry).var, req.myid)

Reads == {"msiNcGetVarsByType", "msiNcSubsetVar"}

\* Every variable has the values of its cells.
DataIn(lib) == \A h \in Hosts : \A x \in DOMAIN lib[h] : \A v \in ToSet(lib[h][x].var) :
    DOMAIN v.data = ToSet(Slab([j \in DOMAIN v.shape |-> 0], v.shape))

DataThere == client = "rule" => DataIn(world.lib)

\* What the call q is about, of the dimension j of v.
PartOf(q, f, v, j) ==
    IF q.ms = "msiNcGetVarsByType"
    THEN [from |-> q.bounds.start[j], to |-> q.bounds.start[j] + q.bounds.count[j] - 1,
          every |-> q.bounds.stride[j] <= 1]
    ELSE LET d == f.dim[v.dimId[j] + 1]
             about == {k \in DOMAIN q.conds : q.conds[k].name = d.name}
         IN  IF about = {} THEN [from |-> 0, to |-> d.arrayLen - 1, every |-> TRUE]
             ELSE LET c == q.conds[CHOOSE k \in about : \A i \in about : k <= i]
                  IN  [from |-> c.start, to |-> c.end, every |-> c.stride <= 1]

\* s, c and z are the start, count and stride of the part p.
Says(p, s, c, z) == p.from = s /\ p.to = s + c - 1 /\ (p.every => z <= 1)

\* The bounds b are what the call q says of the variable v of f.
AsksRead(q, f, v, b) ==
    /\ q.ms \in Reads /\ q.name = v.name /\ IsBounds(b, v)
    /\ \A x \in DOMAIN q.bounds : Len(q.bounds[x]) = Len(v.shape)
    /\ \A j \in DOMAIN v.shape : Says(PartOf(q, f, v, j), b.start[j], b.count[j], b.stride[j])

AsksVar(q, r, f, b) == \E k \in DOMAIN f.var : r.myid = k - 1 /\ AsksRead(q, f, f.var[k], b)

\* The call that waits for its handler is the last one.
CallAsks == call # None /\ (call[1].ms \in Reads \/ query.ms \in Reads) =>
    /\ call[1].ms = query.ms /\ req.op = "getVars"
    /\ AsksVar(query, req, Source("inq"), call[1].bounds)

\* buf has what the call q asked for of a variable of f.
HasRead(q, f, buf) ==
    IsFile(f) /\ \E v \in ToSet(f.var) : \E t, b :
        AsksRead(q, f, v, b) /\ HasData(v) /\ CanRead(v, t, b) /\ buf = Filled(v, b)

ReadDone == pc = "idle" /\ ret = "ok" /\ query.ms \in Reads /\ files.inq = files.vars =>
    HasRead(query, Source("vars"), Array("vars").buf)

ReadInv ==
    /\ VarsAnswered /\ DataThere /\ (query.ms \in Reads => client = "rule")
    /\ CallAsks /\ ReadDone
-----------------------------------------------------------------------------
(* Handlers *)

LEMMA GetVarsStep ==
    ASSUME IdInv, GetVars
    PROVE  VarsAnswered'
<1> USE DEF None
<1>1. /\ req.op = "getVars" /\ Started("done")
      /\ \E v \in ById(File'.var, inp'.myid) : ncInqOut' = <<v>>
    BY DEF GetVars
<1>2. /\ File' = FileOf(Entry) /\ inp' = Passed(req, Entry) /\ Entry' = Entry /\ InUse'
      /\ UNCHANGED <<world, req, asked, status>> /\ pc' = "done"
    BY <1>1, StartedAtFile DEF IdInv, AtFile
<1>3. inp'.myid = req.myid
    BY <1>1, <1>2, PassedKeeps DEF IdInv
<1>4. Out' \in ById(FileOf(Entry).var, req.myid)
    BY <1>1, <1>2, <1>3 DEF Out
<1>5. (FileOf(Entry))' = FileOf(Entry)
    BY <1>2 DEF FileOf
<1>6. (ById(FileOf(Entry).var, req.myid))' = ById(FileOf(Entry).var, req.myid)
    BY <1>2, <1>5 DEF ById
<1> QED
    BY <1>2, <1>4, <1>6 DEF VarsAnswered, Ok

LEMMA VarsAnsweredNext ==
    ASSUME IdInv, VarsAnswered, [Next]_vars
    PROVE  VarsAnswered'
<1> USE DEF Answer, Fail, Continue, Fixed, VarsAnswered, Ok
<1>1. CASE GetVars
    BY <1>1, GetVarsStep
<1>2. CASE Refused \/ InqError \/ AnswerLost
    BY <1>2 DEF Refused, InqError, AnswerLost
<1>3. CASE InqStart \/ GrpsStart \/ InqId \/ InqWithId
    BY <1>3 DEF InqStart, GrpsStart, InqId, InqWithId, Started
<1>4. CASE InqDim \/ DimsDone \/ InqVar \/ InqVarAtt \/ VarAttsDone \/ VarsDone
    BY <1>4 DEF InqDim, DimsDone, InqVar, InqVarAtt, VarAttsDone, VarsDone
<1>5. CASE InqGatt \/ GattsDone \/ InqGattError
    BY <1>5 DEF IdInv, InqGatt, GattsDone, InqGattError
<1>6. CASE InqGrp \/ GrpsDone \/ GrpsError
    BY <1>6 DEF IdInv, InqGrp, GrpsDone, GrpsError
<1>7. CASE UseId
    BY <1>7 DEF UseId
<1>8. CASE Terminated \/ UNCHANGED vars
    <2>1. UNCHANGED <<world, req, pc, status, ncInqOut>>
        BY <1>8 DEF Terminated, vars
    <2> QED
        BY <2>1, LedStays DEF Out, ById
<1> QED
    BY <1>1, <1>2, <1>3, <1>4, <1>5, <1>6, <1>7, <1>8 DEF Next, Handle
-----------------------------------------------------------------------------
(* Microservices *)

\* A look is no read.
LEMMA LooksQuery ==
    ASSUME InInqOut \/ InArray \/ msiNcIntDataTypeToStr \/ msiFloatToString
    PROVE  /\ query'.ms \notin Reads
           /\ UNCHANGED <<client, call, world, pc>> /\ client = "rule" /\ pc = "idle"
<1>1. ASSUME NEW ms, NEW x, NEW inx, NEW name, NEW key, NEW answers,
             Looks(ms, x, inx, name, key, answers), ms \notin Reads
      PROVE  /\ query'.ms \notin Reads
             /\ UNCHANGED <<client, call, world, pc>> /\ client = "rule" /\ pc = "idle"
    BY <1>1 DEF Looks, Returns, Query, Locally, NoHandler, vars, Uses
<1>2. CASE InInqOut
    BY <1>1, <1>2 DEF InInqOut, Reads
<1>3. CASE InArray
    BY <1>1, <1>3 DEF InArray, Reads
<1>4. CASE msiNcIntDataTypeToStr \/ msiFloatToString
    BY <1>1, <1>4 DEF msiNcIntDataTypeToStr, msiFloatToString, Reads
<1> QED
    BY <1>2, <1>3, <1>4

\* No other microservice reads.
LEMMA OtherQuery ==
    ASSUME TypesInv, RuleInv, Microservice, ~(msiNcGetVarsByType \/ msiNcSubsetVar)
    PROVE  /\ query'.ms \notin Reads /\ client = "rule" /\ client' = "rule"
           /\ world'.lib = world.lib /\ pc' # "done"
           /\ call' # None => call'[1].ms \notin Reads
<1>0. NoQuery.ms \notin Reads
    BY DEF NoQuery, Query, Reads
<1>1. \A ms : client = "rule" /\ pc = "idle" => call = None
    BY DEF TypesInv, RuleTypes
<1>2. CASE \/ Refuse \/ msiNcRegGlobalAttr
           \/ \E x \in Arrays \union {"vars"} :
                msiFreeNcStruct(x) \/ \E n \in Numbers, inx \in Literals : msiAddToNcArray(x, n, inx)
    <2>1. client = "rule" /\ pc = "idle"
        BY <1>2 DEF Refuse, msiNcRegGlobalAttr, msiFreeNcStruct, msiAddToNcArray, Uses
    <2>2. \E r, p : Returns(NoQuery, r, p) /\ NoHandler
        BY <1>2, ArrayReturns DEF Refuse, msiNcRegGlobalAttr, Locally
    <2>3. query' = NoQuery /\ UNCHANGED <<client, call, world, pc>>
        BY <2>2 DEF Returns, NoHandler, vars
    <2> QED
        BY <1>0, <1>1, <2>1, <2>3
<1>3. CASE msiNcOpen \/ msiNcCreate \/ msiNcOpenGroup \/ msiNcClose
    <2>1. client = "rule" /\ pc = "idle" /\ pc' = pc /\ query' = NoQuery /\ UNCHANGED <<client, call>>
        BY <1>3 DEF msiNcOpen, msiNcCreate, msiNcOpenGroup, msiNcClose, Uses, Enter, Returns
    <2>2. world = [l1desc |-> world.l1desc, lib |-> world.lib]
        BY DEF RuleInv, InqInv, IsWorld
    <2>3. world'.lib = world.lib
        BY <1>3, <2>2 DEF msiNcOpen, msiNcCreate, msiNcOpenGroup, msiNcClose, Enter
    <2> QED
        BY <1>0, <1>1, <2>1, <2>3
<1>4. CASE \/ msiNcInq \/ msiNcInqGrps
           \/ \E t \in ParamTypes : msiNcInqWithId(t) \/ \E n \in Names : msiNcInqId(t, n)
    <2>1. client = "rule" /\ \E r, name, c : Calls(NoQuery, r, name, c) /\ c.ms \notin Reads
        <3>1. \A ms : [ms |-> ms].ms = ms
            OBVIOUS
        <3>2. CASE msiNcInq \/ msiNcInqGrps
            BY <3>1, <3>2 DEF msiNcInq, msiNcInqGrps, Uses, Reads
        <3>3. ASSUME NEW t, msiNcInqWithId(t) \/ \E n \in Names : msiNcInqId(t, n)
              PROVE  client = "rule" /\ \E r, name, c : Calls(NoQuery, r, name, c) /\ c.ms \notin Reads
            BY <3>1, <3>3 DEF msiNcInqWithId, msiNcInqId, Uses, Reads
        <3> QED
            BY <1>4, <3>2, <3>3
    <2>2. query' = NoQuery /\ UNCHANGED <<client, world>> /\ pc' = "request"
          /\ call'[1].ms \notin Reads
        BY <2>1 DEF Calls
    <2> QED
        BY <1>0, <2>1, <2>2
<1>5. CASE InInqOut \/ InArray \/ msiNcIntDataTypeToStr \/ msiFloatToString
    <2>1. /\ query'.ms \notin Reads
          /\ UNCHANGED <<client, call, world, pc>> /\ client = "rule" /\ pc = "idle"
        BY <1>5, LooksQuery
    <2> QED
        BY <1>1, <2>1
<1> QED
    BY <1>2, <1>3, <1>4, <1>5 DEF Microservice
-----------------------------------------------------------------------------
(* What is asked for *)

\* An array that is not empty is passed as it is meant.
LEMMA PassedIsMeant ==
    ASSUME ArraysAre, NEW p \in Passable, \A x \in Arrays : p.passed[x] # <<>>
    PROVE  DOMAIN p.meant = Arrays /\ \A x \in Arrays : p.meant[x] = p.passed[x] /\ p.meant[x] \in Seq(Nat)
<1>1. CASE p \in {[passed |-> b, meant |-> b] : b \in [Arrays -> Lists]}
    <2>1. PICK b \in [Arrays -> Lists] : p = [passed |-> b, meant |-> b]
        BY <1>1
    <2>2. \A x \in Arrays : b[x] \in Seq(Nat)
        BY MsAssumption
    <2> QED
        BY <2>1, <2>2
<1>2. CASE p = [passed |-> [x \in Arrays |-> IF IsNull(x) THEN <<>> ELSE Array(x).buf],
                meant |-> [x \in Arrays |-> Elements(x)]]
    <2>1. \A x \in Arrays : ~IsNull(x)
        BY <1>2
    <2>2. \A x \in Arrays : Array(x).buf = Elements(x)
        BY <2>1 DEF ArraysAre, ArrayIs
    <2>3. \A x \in Arrays : Elements(x) \in Seq(Nat)
        BY ElementsAre DEF ArraysAre
    <2> QED
        BY <1>2, <2>1, <2>2, <2>3
<1> QED
    BY <1>1, <1>2 DEF Passable

\* What a variable of an answer says of one of the file.
LEMMA VarAnswered ==
    ASSUME NEW o, NEW f, HasFile(o, f), NEW k \in DOMAIN o.var
    PROVE  /\ k \in DOMAIN f.var /\ o.var[k] = VarOf(f, k)
           /\ o.var[k].id = k - 1 /\ o.var[k].name = f.var[k].name
           /\ o.var[k].dimId = f.var[k].dimId /\ o.var[k].dimId \in Seq(Nat)
           /\ f.var[k].shape \in Seq(Nat) /\ Len(f.var[k].shape) = Len(f.var[k].dimId)
           /\ f.var[k].dimId \in Seq(Nat)
<1>1. HasVars(o, f) /\ IsFile(f)
    BY DEF HasFile, HasVars
<1>2. k \in DOMAIN f.var /\ o.var[k] = VarOf(f, k)
    BY <1>1, VarsSeq
<1>3. /\ f.var[k].dimId \in Seq(Nat) /\ f.var[k].shape \in Seq(Nat)
      /\ Len(f.var[k].shape) = Len(f.var[k].dimId)
    BY <1>1, <1>2 DEF IsFile
<1>4. VarOf(f, k).id = k - 1 /\ VarOf(f, k).name = f.var[k].name /\ VarOf(f, k).dimId = f.var[k].dimId
    BY DEF VarOf
<1> QED
    BY <1>2, <1>3, <1>4

\* msiNcGetVarsByType.
LEMMA TypeAsks ==
    ASSUME ArraysAre, NEW f, HasFile(O, f), NEW k \in DOMAIN O.var, NEW p \in Passable,
           \A x \in Arrays : p.passed[x] # <<>> /\ Len(p.passed[x]) = Len(O.var[k].dimId),
           NEW q, q = [Query("msiNcGetVarsByType", 0, O.var[k].name, NoName) EXCEPT !.bounds = p.meant]
    PROVE  k \in DOMAIN f.var /\ O.var[k].id = k - 1 /\ AsksRead(q, f, f.var[k], p.passed)
<1>1. /\ k \in DOMAIN f.var /\ O.var[k].id = k - 1 /\ O.var[k].name = f.var[k].name
      /\ O.var[k].dimId = f.var[k].dimId
      /\ Len(f.var[k].shape) = Len(f.var[k].dimId)
    BY VarAnswered
<1>2. q.ms = "msiNcGetVarsByType" /\ q.name = O.var[k].name /\ q.bounds = p.meant
    BY DEF Query
<1>3. DOMAIN p.meant = Arrays /\ \A x \in Arrays : p.meant[x] = p.passed[x] /\ p.meant[x] \in Seq(Nat)
    BY PassedIsMeant
<1> DEFINE v == f.var[k]
<1>4. IsBounds(p.passed, v)
    BY <1>1, <1>3 DEF IsBounds
<1>5. \A x \in DOMAIN q.bounds : Len(q.bounds[x]) = Len(v.shape)
    BY <1>1, <1>2, <1>3
<1>6. p.meant.start = p.passed.start /\ p.meant.count = p.passed.count /\ p.meant.stride = p.passed.stride
    BY <1>3 DEF Arrays
<1> HIDE DEF v
<1>7. \A j \in DOMAIN v.shape :
        Says(PartOf(q, f, v, j), p.passed.start[j], p.passed.count[j], p.passed.stride[j])
    BY <1>2, <1>6, Zenon DEF PartOf, Says
<1>8. q.name = v.name /\ q.ms \in Reads
    BY <1>1, <1>2 DEF v, Reads
<1>9. AsksRead(q, f, v, p.passed)
    BY <1>4, <1>5, <1>7, <1>8 DEF AsksRead
<1> QED
    BY <1>1, <1>9 DEF v

\* A condition that fits in its dimension says where to start and how many.
LEMMA CondFits ==
    ASSUME NEW conds, IsSubsetStr(conds), NEW name, CondsOn(conds, name) # {}, NEW d,
           InDim(Cond(conds, name), d), NEW c, c = Cond(conds, name)
    PROVE  /\ c = conds[CHOOSE k \in CondsOn(conds, name) : \A i \in CondsOn(conds, name) : k <= i]
           /\ c.start \in Nat /\ c.end - c.start + 1 \in Nat /\ c.stride \in Nat
           /\ c.start + (c.end - c.start + 1) - 1 = c.end
<1> DEFINE S == CondsOn(conds, name)
           R == [ok : BOOLEAN, name : Names, start : Nat, stride : Nat, end : Nat]
<1>1. conds \in Seq(R)
    BY DEF IsSubsetStr
<1>2. S \subseteq DOMAIN conds /\ DOMAIN conds \subseteq Nat
    <2>1. S \subseteq DOMAIN conds
        BY DEF CondsOn
    <2> HIDE DEF S, R
    <2> QED
        BY <1>1, <2>1
<1>3. Min(S) = CHOOSE k \in S : \A i \in S : k <= i
    BY DEF Min
<1>4. Min(S) \in S
    <2> HIDE DEF S
    <2>1. S # {}
        BY DEF S
    <2> QED
        BY <1>2, <2>1, MinOf
<1>5. c = conds[Min(S)]
    BY DEF Cond
<1> HIDE DEF S
<1>6. c \in R
    <2> HIDE DEF R
    <2> QED
        BY <1>1, <1>2, <1>4, <1>5
<1>7. c.start \in Nat /\ c.end \in Nat /\ c.stride \in Nat
    BY <1>6
<1>8. c.start <= c.end
    BY DEF InDim
<1>9. c.end - c.start + 1 \in Nat /\ c.start + (c.end - c.start + 1) - 1 = c.end
    BY <1>7, <1>8
<1>10. c = conds[CHOOSE k \in S : \A i \in S : k <= i]
    BY <1>3, <1>5
<1> QED
    BY <1>7, <1>9, <1>10 DEF S

\* A function on the first n places is a sequence.
LEMMA NatSeq ==
    ASSUME NEW n \in Nat, NEW s, DOMAIN s = 1 .. n, s = [j \in 1 .. n |-> s[j]],
           \A j \in 1 .. n : s[j] \in Nat
    PROVE  s \in Seq(Nat) /\ Len(s) = n
<1>1. [j \in 1 .. n |-> s[j]] \in Seq(Nat) /\ Len([j \in 1 .. n |-> s[j]]) = n
    OBVIOUS
<1> QED
    BY <1>1

\* The part of a dimension without a condition, and of one with a condition.
LEMMA PartAll ==
    ASSUME NEW q, NEW f, NEW v, NEW j, q.ms = "msiNcSubsetVar", NEW d, d = f.dim[v.dimId[j] + 1],
           CondsOn(q.conds, d.name) = {}
    PROVE  d.arrayLen \in Nat => Says(PartOf(q, f, v, j), 0, d.arrayLen, 1)
<1>1. {k \in DOMAIN q.conds : q.conds[k].name = d.name} = {}
    BY DEF CondsOn
<1>2. PartOf(q, f, v, j) = [from |-> 0, to |-> d.arrayLen - 1, every |-> TRUE]
    BY <1>1, Zenon DEF PartOf
<1>3. d.arrayLen \in Nat => 0 + d.arrayLen - 1 = d.arrayLen - 1 /\ 1 <= 1
    OBVIOUS
<1> QED
    BY <1>2, <1>3 DEF Says

LEMMA PartCond ==
    ASSUME NEW q, NEW f, NEW v, NEW j, q.ms = "msiNcSubsetVar", NEW d, d = f.dim[v.dimId[j] + 1],
           NEW about, about = CondsOn(q.conds, d.name), about # {},
           NEW e, e = q.conds[CHOOSE k \in about : \A i \in about : k <= i]
    PROVE  e.start + (e.end - e.start + 1) - 1 = e.end =>
               Says(PartOf(q, f, v, j), e.start, e.end - e.start + 1, e.stride)
<1>1. about = {k \in DOMAIN q.conds : q.conds[k].name = f.dim[v.dimId[j] + 1].name}
    BY DEF CondsOn
<1>2. PartOf(q, f, v, j) = [from |-> e.start, to |-> e.end, every |-> e.stride <= 1]
    BY <1>1, Zenon DEF PartOf
<1>3. PICK p : p = [from |-> e.start, to |-> e.end, every |-> e.stride <= 1]
    BY Zenon
<1>4. p.from = e.start /\ p.to = e.end /\ (p.every => e.stride <= 1)
    BY <1>3, Zenon
<1>5. PartOf(q, f, v, j) = p
    BY <1>2, <1>3, Zenon
<1> QED
    BY <1>4, <1>5, Zenon DEF Says

\* msiNcSubsetVar.
LEMMA SubsetAsks ==
    ASSUME NEW f, HasFile(O, f), NEW k \in DOMAIN O.var, NEW conds \in SubsetStrs, NEW n,
           O.var[k].name = n,
           \A j \in DOMAIN O.var[k].dimId : O.var[k].dimId[j] < Len(O.dim),
           \A j \in DOMAIN O.var[k].dimId :
               LET d == O.dim[O.var[k].dimId[j] + 1]
               IN  CondsOn(conds, d.name) # {} => InDim(Cond(conds, d.name), d),
           NEW q, q = [Query("msiNcSubsetVar", 0, n, NoName) EXCEPT !.conds = conds]
    PROVE  /\ k \in DOMAIN f.var /\ O.var[k].id = k - 1
           /\ AsksRead(q, f, f.var[k], SubsetBounds(O.var[k], conds))
<1> DEFINE v == f.var[k]
           u == O.var[k]
           b == SubsetBounds(u, conds)
<1>1. /\ k \in DOMAIN f.var /\ u.id = k - 1 /\ u.name = v.name
      /\ u.dimId = v.dimId /\ v.dimId \in Seq(Nat) /\ v.shape \in Seq(Nat)
      /\ Len(v.shape) = Len(v.dimId)
    BY VarAnswered
<1>2. q.ms = "msiNcSubsetVar" /\ q.name = n /\ q.bounds = <<>> /\ q.conds = conds
    BY DEF Query
<1>3. IsSubsetStr(conds)
    BY MsAssumption
<1>4. PICK m \in Nat : m = Len(v.shape) /\ DOMAIN v.shape = 1 .. m /\ DOMAIN v.dimId = 1 .. m
    BY <1>1, SMTT(30)
<1> DEFINE dim(j) == O.dim[v.dimId[j] + 1]
           all(j) == CondsOn(conds, dim(j).name) = {}
           c(j) == Cond(conds, dim(j).name)
<1>5. /\ b.start = [j \in 1 .. m |-> IF all(j) THEN 0 ELSE c(j).start]
      /\ b.count = [j \in 1 .. m |-> IF all(j) THEN dim(j).arrayLen ELSE c(j).end - c(j).start + 1]
      /\ b.stride = [j \in 1 .. m |-> IF all(j) THEN 1 ELSE c(j).stride]
      /\ b = [start |-> b.start, count |-> b.count, stride |-> b.stride]
    <2> HIDE DEF v
    <2>1. u.dimId = v.dimId /\ DOMAIN u.dimId = 1 .. m
        BY <1>1, <1>4
    <2> HIDE DEF u
    <2> QED
        BY <2>1 DEF SubsetBounds
<1>6. ASSUME NEW j \in 1 .. m
      PROVE  /\ v.dimId[j] + 1 \in DOMAIN f.dim
             /\ dim(j) = DimOf(f, v.dimId[j] + 1)
             /\ f.dim[v.dimId[j] + 1].arrayLen \in Nat
    <2>1. IsFile(f)
        BY Zenon DEF HasFile, HasVars
    <2>2. f.dim \in Seq([name : Names, arrayLen : Nat])
        BY <2>1, FileSeqs
    <2>3. PICK l \in Nat : l = Len(f.dim) /\ DOMAIN f.dim = 1 .. l
        <3> DEFINE R == [name : Names, arrayLen : Nat]
                   s == f.dim
        <3>1. s \in Seq(R)
            BY <2>2
        <3> HIDE DEF R, s
        <3>2. Len(s) \in Nat /\ DOMAIN s = 1 .. Len(s)
            BY <3>1
        <3> QED
            BY <3>2 DEF s
    <2>4. PICK p \in Nat :
            /\ p = OwnDims(f) /\ p <= l /\ Len(O.dim) = p
            /\ \A i \in 1 .. p : O.dim[i] = DimOf(f, i)
        BY <2>3, DimsSeq, Zenon
    <2>5. PICK i \in Nat : i = v.dimId[j] /\ i < p
        <3>1. v.dimId[j] \in Nat
            BY <1>1, <1>4, SMTT(30)
        <3>2. v.dimId[j] < Len(O.dim)
            BY <1>1, <1>4
        <3> QED
            BY <2>4, <3>1, <3>2
    <2>6. i + 1 \in DOMAIN f.dim
        BY <2>3, <2>4, <2>5, SMTT(30)
    <2>7. f.dim[i + 1] \in [name : Names, arrayLen : Nat]
        <3> DEFINE R == [name : Names, arrayLen : Nat]
        <3>1. f.dim \in Seq(R)
            BY <2>2
        <3> HIDE DEF R
        <3>2. f.dim[i + 1] \in R
            BY <2>6, <3>1
        <3> QED
            BY <3>2 DEF R
    <2>8. O.dim[i + 1] = DimOf(f, i + 1)
        <3>1. i + 1 \in 1 .. p
            BY <2>5, SMTT(30)
        <3> QED
            BY <2>4, <3>1
    <2> HIDE DEF v
    <2> QED
        BY <2>5, <2>6, <2>7, <2>8
<1>7. ASSUME NEW j \in 1 .. m, ~all(j)
      PROVE  /\ c(j) = conds[CHOOSE h \in CondsOn(conds, dim(j).name) :
                                \A i \in CondsOn(conds, dim(j).name) : h <= i]
             /\ c(j).start \in Nat /\ c(j).end - c(j).start + 1 \in Nat /\ c(j).stride \in Nat
             /\ c(j).start + (c(j).end - c(j).start + 1) - 1 = c(j).end
    <2>1. InDim(c(j), dim(j))
        BY <1>1, <1>4, <1>7, Zenon
    <2> QED
        BY <1>3, <1>7, <2>1, CondFits, Zenon
<1>8. ASSUME NEW j \in 1 .. m
      PROVE  /\ b.start[j] \in Nat /\ b.count[j] \in Nat /\ b.stride[j] \in Nat
             /\ Says(PartOf(q, f, v, j), b.start[j], b.count[j], b.stride[j])
    <2>0. PICK d : d = f.dim[v.dimId[j] + 1]
        OBVIOUS
    <2>1. dim(j).name = d.name /\ dim(j).arrayLen = d.arrayLen /\ d.arrayLen \in Nat
        <3>1. dim(j) = DimOf(f, v.dimId[j] + 1) /\ d.arrayLen \in Nat
            BY <1>6, <2>0, Zenon
        <3>2. DimOf(f, v.dimId[j] + 1).name = d.name /\ DimOf(f, v.dimId[j] + 1).arrayLen = d.arrayLen
            BY <2>0 DEF DimOf
        <3> QED
            BY <3>1, <3>2, Zenon
    <2>2. PICK about : about = CondsOn(conds, d.name) /\ about = CondsOn(conds, dim(j).name)
                       /\ (about = {} <=> all(j))
        BY <2>1, Zenon
    <2>3. /\ b.start[j] = IF all(j) THEN 0 ELSE c(j).start
          /\ b.count[j] = IF all(j) THEN dim(j).arrayLen ELSE c(j).end - c(j).start + 1
          /\ b.stride[j] = IF all(j) THEN 1 ELSE c(j).stride
        BY <1>5, Zenon
    <2>4. PICK x, y, z : x = b.start[j] /\ y = b.count[j] /\ z = b.stride[j]
        OBVIOUS
    <2>5. PICK w : w = v
        OBVIOUS
    <2> SUFFICES x \in Nat /\ y \in Nat /\ z \in Nat
                 /\ Says(PartOf(q, f, w, j), x, y, z)
        BY <2>4, <2>5, Zenon
    <2>6. CASE all(j)
        <3>1. x = 0 /\ y = d.arrayLen /\ z = 1
            BY <2>1, <2>3, <2>4, <2>6, Zenon
        <3>2. Says(PartOf(q, f, w, j), 0, d.arrayLen, 1)
            <4>1. CondsOn(q.conds, d.name) = {} /\ d = f.dim[w.dimId[j] + 1]
                BY <1>2, <2>0, <2>2, <2>5, <2>6
            <4> QED
                BY <1>2, <2>1, <4>1, PartAll, Zenon
        <3> HIDE DEF b, v
        <3> QED
            BY <2>1, <3>1, <3>2
    <2>7. CASE ~all(j)
        <3>1. PICK e : e = c(j) /\ e = conds[CHOOSE h \in about : \A i \in about : h <= i]
            BY <1>7, <2>2, <2>7, Zenon
        <3>4. /\ e.start \in Nat /\ e.end - e.start + 1 \in Nat /\ e.stride \in Nat
              /\ e.start + (e.end - e.start + 1) - 1 = e.end
            BY <1>7, <2>7, <3>1, Zenon
        <3>2. Says(PartOf(q, f, w, j), e.start, e.end - e.start + 1, e.stride)
            <4>1. about = CondsOn(q.conds, d.name) /\ about # {} /\ d = f.dim[w.dimId[j] + 1]
                BY <1>2, <2>0, <2>2, <2>5, <2>7, Zenon
            <4>2. e = q.conds[CHOOSE h \in about : \A i \in about : h <= i]
                BY <1>2, <3>1
            <4> QED
                BY <1>2, <3>4, <4>1, <4>2, PartCond, Zenon
        <3>3. x = e.start /\ y = e.end - e.start + 1 /\ z = e.stride
            BY <2>3, <2>4, <2>7, <3>1, Zenon
        <3> HIDE DEF b, v
        <3> QED
            BY <3>2, <3>3, <3>4
    <2> QED
        BY <2>6, <2>7
<1>9. IsBounds(b, v)
    <2>1. /\ DOMAIN b.start = 1 .. m /\ b.start = [j \in 1 .. m |-> b.start[j]]
          /\ DOMAIN b.count = 1 .. m /\ b.count = [j \in 1 .. m |-> b.count[j]]
          /\ DOMAIN b.stride = 1 .. m /\ b.stride = [j \in 1 .. m |-> b.stride[j]]
        BY <1>5, Zenon
    <2> HIDE DEF b, v
    <2>2. /\ b.start \in Seq(Nat) /\ Len(b.start) = m
          /\ b.count \in Seq(Nat) /\ Len(b.count) = m
          /\ b.stride \in Seq(Nat) /\ Len(b.stride) = m
        BY <1>8, <2>1, NatSeq
    <2> QED
        BY <1>4, <2>2 DEF IsBounds, Arrays
<1>10. \A x \in DOMAIN q.bounds : Len(q.bounds[x]) = Len(v.shape)
    BY <1>2
<1>11. AsksRead(q, f, v, b)
    <2>1. q.name = v.name /\ q.ms \in Reads
        BY <1>1, <1>2 DEF Reads
    <2>2. DOMAIN v.shape = 1 .. m
        BY <1>4
    <2> HIDE DEF v, b
    <2> QED
        BY <1>8, <1>9, <1>10, <2>1, <2>2 DEF AsksRead
<1> QED
    BY <1>1, <1>11
-----------------------------------------------------------------------------
(* Steps *)

\* A read asks for what its call means, or returns no result.
LEMMA ReadAsks ==
    ASSUME RuleInv, FromInv, TypesInv, msiNcGetVarsByType \/ msiNcSubsetVar
    PROVE  \E q : /\ q.ms \in Reads
                  /\ \/ \E k \in DOMAIN O.var : \E t, b : /\ Read(q, O.var[k], t, b)
                                                          /\ k \in DOMAIN Source("inq").var
                                                          /\ O.var[k].id = k - 1
                                                          /\ AsksRead(q, Source("inq"), Source("inq").var[k], b)
                     \/ \E r \in {"error", "fault"} : Returns(q, r, <<>>) /\ Locally
<1> DEFINE f == Source("inq")
<1>1. HasFile(O, f)
    BY DEF msiNcGetVarsByType, msiNcSubsetVar, FromInv, FileFrom
<1>2. ArraysAre
    BY DEF TypesInv, RuleTypes
<1> HIDE DEF f
<1>3. CASE msiNcGetVarsByType
    <2>1. PICK k \in DOMAIN O.var, j \in DOMAIN O.var, p \in Passable :
        LET v == O.var[k]
            b == p.passed
            q == [Query("msiNcGetVarsByType", 0, v.name, NoName) EXCEPT !.bounds = p.meant]
        IN  IF \A x \in Arrays : b[x] # <<>> /\ Len(b[x]) = Len(v.dimId)
            THEN Read(q, v, O.var[j].dataType, b)
            ELSE Returns(q, "error", <<>>) /\ Locally
        BY <1>3 DEF msiNcGetVarsByType
    <2>2. PICK q : q = [Query("msiNcGetVarsByType", 0, O.var[k].name, NoName) EXCEPT !.bounds = p.meant]
        OBVIOUS
    <2>3. q.ms \in Reads
        BY <2>2 DEF Query, Reads
    <2>4. CASE \A x \in Arrays : p.passed[x] # <<>> /\ Len(p.passed[x]) = Len(O.var[k].dimId)
        <3>1. Read(q, O.var[k], O.var[j].dataType, p.passed)
            BY <2>1, <2>2, <2>4
        <3>2. k \in DOMAIN f.var /\ O.var[k].id = k - 1 /\ AsksRead(q, f, f.var[k], p.passed)
            BY <1>1, <1>2, <2>2, <2>4, TypeAsks
        <3> QED
            BY <2>3, <3>1, <3>2 DEF f
    <2>5. CASE ~\A x \in Arrays : p.passed[x] # <<>> /\ Len(p.passed[x]) = Len(O.var[k].dimId)
        <3>1. Returns(q, "error", <<>>) /\ Locally
            BY <2>1, <2>2, <2>5
        <3> QED
            BY <2>3, <3>1
    <2> QED
        BY <2>4, <2>5
<1>4. CASE msiNcSubsetVar
    <2>1. PICK n \in Names, conds \in SubsetStrs :
        LET q == [Query("msiNcSubsetVar", 0, n, NoName) EXCEPT !.conds = conds]
        IN  \/ \E v \in Named(O.var, n) :
                /\ ~\E j \in DOMAIN v.dimId : v.dimId[j] >= Len(O.dim)
                /\ \A j \in DOMAIN v.dimId :
                    LET d == O.dim[v.dimId[j] + 1]
                    IN  CondsOn(conds, d.name) # {} => InDim(Cond(conds, d.name), d)
                /\ Read(q, v, v.dataType, SubsetBounds(v, conds))
            \/ Returns(q, "fault", <<>>) /\ Locally
            \/ Returns(q, "error", <<>>) /\ Locally
        BY <1>4, ZenonT(40) DEF msiNcSubsetVar
    <2>2. PICK q : q = [Query("msiNcSubsetVar", 0, n, NoName) EXCEPT !.conds = conds]
        OBVIOUS
    <2>3. q.ms \in Reads
        BY <2>2 DEF Query, Reads
    <2>4. CASE \E r \in {"error", "fault"} : Returns(q, r, <<>>) /\ Locally
        BY <2>3, <2>4
    <2>5. CASE \E v \in Named(O.var, n) :
                /\ ~\E j \in DOMAIN v.dimId : v.dimId[j] >= Len(O.dim)
                /\ \A j \in DOMAIN v.dimId :
                    LET d == O.dim[v.dimId[j] + 1]
                    IN  CondsOn(conds, d.name) # {} => InDim(Cond(conds, d.name), d)
                /\ Read(q, v, v.dataType, SubsetBounds(v, conds))
        <3>1. PICK v \in Named(O.var, n) :
                /\ ~\E j \in DOMAIN v.dimId : v.dimId[j] >= Len(O.dim)
                /\ \A j \in DOMAIN v.dimId :
                    LET d == O.dim[v.dimId[j] + 1]
                    IN  CondsOn(conds, d.name) # {} => InDim(Cond(conds, d.name), d)
                /\ Read(q, v, v.dataType, SubsetBounds(v, conds))
            BY <2>5
        <3>2. HasVars(O, f)
            BY <1>1 DEF HasFile
        <3>3. PICK k \in DOMAIN O.var : v = O.var[k] /\ O.var[k].name = n
            <4>1. Unique(O.var) /\ \E R : O.var \in Seq(R)
                BY <3>2, VarsSeq
            <4>2. \E k \in DOMAIN O.var : O.var[k].name = n /\ Named(O.var, n) = {O.var[k]}
                BY <4>1, FirstNamed
            <4> QED
                BY <4>2
        <3>4. \A j \in DOMAIN v.dimId : v.dimId[j] < Len(O.dim)
            <4>1. v.dimId \in Seq(Nat)
                BY <1>1, <3>3, VarAnswered
            <4>2. Len(O.dim) \in Nat
                BY <1>1, DimsSeq
            <4>3. \A j \in DOMAIN v.dimId : v.dimId[j] \in Nat
                BY <4>1
            <4> QED
                BY <3>1, <4>2, <4>3
        <3>5. k \in DOMAIN f.var /\ O.var[k].id = k - 1
              /\ AsksRead(q, f, f.var[k], SubsetBounds(O.var[k], conds))
            BY <1>1, <2>2, <3>1, <3>3, <3>4, SubsetAsks
        <3> QED
            BY <2>3, <3>1, <3>3, <3>5 DEF f
    <2> QED
        BY <2>1, <2>2, <2>4, <2>5
<1> QED
    BY <1>3, <1>4

\* What a read keeps for the answer.
LEMMA ReadStarts ==
    ASSUME RuleInv, FromInv, TypesInv, ReadInv, msiNcGetVarsByType \/ msiNcSubsetVar
    PROVE  ReadInv'
<1>1. client = "rule" /\ pc = "idle" /\ call = None
    BY DEF msiNcGetVarsByType, msiNcSubsetVar, Uses, TypesInv, RuleTypes
<1>2. PICK q : /\ q.ms \in Reads
               /\ \/ \E k \in DOMAIN O.var : \E t, b : /\ Read(q, O.var[k], t, b)
                                                       /\ k \in DOMAIN Source("inq").var
                                                       /\ O.var[k].id = k - 1
                                                       /\ AsksRead(q, Source("inq"), Source("inq").var[k], b)
                  \/ \E r \in {"error", "fault"} : Returns(q, r, <<>>) /\ Locally
    BY ReadAsks
<1>3. CASE \E r \in {"error", "fault"} : Returns(q, r, <<>>) /\ Locally
    <2>1. /\ UNCHANGED <<world, client, call, pc>> /\ ret' # "ok"
        BY <1>3 DEF Returns, Locally, NoHandler, vars
    <2> QED
        BY <1>1, <2>1 DEF ReadInv, VarsAnswered, Ok, DataThere, CallAsks, ReadDone
<1>4. ASSUME NEW k \in DOMAIN O.var, NEW t, NEW b, Read(q, O.var[k], t, b),
             k \in DOMAIN Source("inq").var, O.var[k].id = k - 1,
             AsksRead(q, Source("inq"), Source("inq").var[k], b)
      PROVE  ReadInv'
    <2>1. /\ UNCHANGED <<world, client, files>> /\ pc' = "request" /\ query' = q
          /\ call' = <<[ms |-> q.ms, dataType |-> t, bounds |-> b]>>
          /\ req' = Request("getVars", {"var"}, O.var[k].id, NoName)
        BY <1>4 DEF Read, Calls
    <2>2. /\ VarsAnswered' /\ DataThere' /\ ReadDone' /\ (query'.ms \in Reads => client' = "rule")
        BY <1>1, <2>1 DEF ReadInv, VarsAnswered, Ok, DataThere, ReadDone
    <2>3. call'[1].ms = q.ms /\ call'[1].bounds = b /\ req'.op = "getVars" /\ req'.myid = k - 1
        BY <1>4, <2>1 DEF Request
    <2>4. PICK f : f = Source("inq") /\ Source("inq")' = f
        BY <2>1 DEF Source, FileOf
    <2>5. AsksRead(q, f, f.var[k], b) /\ k \in DOMAIN f.var
        BY <1>4, <2>4
    <2>6. AsksVar(q, req', f, b)
        BY <2>3, <2>5 DEF AsksVar
    <2>7. CallAsks'
        BY <2>1, <2>3, <2>4, <2>6 DEF CallAsks
    <2> QED
        BY <2>2, <2>7 DEF ReadInv
<1> QED
    BY <1>2, <1>3, <1>4
-----------------------------------------------------------------------------
(* The other microservices and the handlers *)

LEMMA OtherReads ==
    ASSUME RuleInv, TypesInv, ReadInv, Microservice, ~(msiNcGetVarsByType \/ msiNcSubsetVar)
    PROVE  ReadInv'
<1>1. /\ query'.ms \notin Reads /\ client = "rule" /\ client' = "rule"
      /\ world'.lib = world.lib /\ pc' # "done"
      /\ call' # None => call'[1].ms \notin Reads
    BY OtherQuery
<1>2. VarsAnswered' /\ CallAsks' /\ ReadDone'
    BY <1>1 DEF VarsAnswered, Ok, CallAsks, ReadDone
<1>3. DataThere'
    BY <1>1 DEF ReadInv, DataThere
<1> QED
    BY <1>1, <1>2, <1>3 DEF ReadInv

\* What is kept in the variables of the rule stays.
LEMMA SourceStays ==
    ASSUME UNCHANGED files, world'.lib = world.lib, NEW x
    PROVE  Source(x)' = Source(x)
BY DEF Source, FileOf

LEMMA HandleReads ==
    ASSUME RuleInv, ReadInv, client = "rule", Handle, UNCHANGED msVars
    PROVE  ReadInv'
<1>1. req' = req /\ pc' # "idle" /\ UNCHANGED world
    BY HandleFromPc, HandleKeepsRequest, NextKeepsWorld DEF Next, RuleInv, Handle
<1>2. UNCHANGED <<client, call, query, files>>
    BY DEF msVars
<1>3. VarsAnswered'
    BY VarsAnsweredNext DEF Next, RuleInv, ReadInv
<1>4. Source("inq")' = Source("inq")
    BY <1>1, <1>2, SourceStays
<1>5. CallAsks'
    BY <1>1, <1>2, <1>4 DEF ReadInv, CallAsks
<1>6. DataThere' /\ ReadDone'
    BY <1>1, <1>2 DEF ReadInv, DataThere, ReadDone
<1> QED
    BY <1>2, <1>3, <1>5, <1>6 DEF ReadInv
-----------------------------------------------------------------------------
(* Answers *)

\* A microservice that returns, and the last read if that was one.
LEMMA ReturnedReads ==
    ASSUME ReadInv, Returned, ReadDone'
    PROVE  ReadInv'
BY DEF ReadInv, Returned, VarsAnswered, Ok, DataThere, CallAsks, None

LEMMA ErrorReads ==
    ASSUME ReadInv, ReturnError \/ ReturnVarsError
    PROVE  ReadInv'
<1>1. Returned /\ ret' # "ok"
    BY DEF ReturnError, ReturnVarsError
<1> QED
    BY <1>1, ReturnedReads DEF ReadDone

\* An inquiry is no read.
LEMMA InqReads ==
    ASSUME ReadInv, ReturnInq
    PROVE  ReadInv'
<1>1. ASSUME NEW ms, NEW x, NEW p, NEW source, Give(ms, x, p, source), ms \notin Reads
      PROVE  ReadInv'
    <2>1. call # None /\ call[1].ms \notin Reads /\ Returned
        BY <1>1 DEF Give
    <2>2. query.ms \notin Reads /\ query' = query
        BY <2>1 DEF ReadInv, CallAsks, Returned, Reads
    <2> QED
        BY <2>1, <2>2, ReturnedReads DEF ReadDone
<1> QED
    BY <1>1 DEF ReturnInq, Reads

\* The variable that was read has the values of its cells.
LEMMA OutHasData ==
    ASSUME InqInv, VarsAnswered, DataThere, Ok("getVars"), client = "rule"
    PROVE  /\ IsFile(FileOf(Entry))
           /\ \E k \in DOMAIN FileOf(Entry).var : k - 1 = req.myid /\ Out = FileOf(Entry).var[k]
           /\ HasData(Out)
<1> DEFINE f == FileOf(Entry)
<1>1. InUse /\ Out \in ById(f.var, req.myid)
    BY DEF VarsAnswered
<1>2. IsFile(f)
    BY <1>1, FileIsFile DEF InqInv
<1>3. Entry.host \in Hosts /\ Entry.ncid \in DOMAIN world.lib[Entry.host]
    BY <1>1 DEF InqInv, IsWorld, InUse, Entry
<1>4. \A v \in ToSet(f.var) : DOMAIN v.data = ToSet(Slab([j \in DOMAIN v.shape |-> 0], v.shape))
    BY <1>3, Zenon DEF DataThere, DataIn, FileOf
<1> HIDE DEF f
<1>5. PICK k \in DOMAIN f.var : k - 1 = req.myid /\ Out = f.var[k]
    <2>1. req.myid + 1 \in DOMAIN f.var /\ Out = f.var[req.myid + 1]
        BY <1>1 DEF ById
    <2>2. req.myid \in Int
        BY DEF InqInv, IsRequest
    <2>3. (req.myid + 1) - 1 = req.myid
        BY <2>2
    <2> QED
        BY <2>1, <2>3
<1>6. HasData(Out)
    <2>1. f.var[k].shape \in Seq(Nat)
        BY <1>2, <1>5 DEF IsFile
    <2>2. f.var[k] \in ToSet(f.var)
        BY <1>5 DEF ToSet
    <2> QED
        BY <1>4, <1>5, <2>1, <2>2 DEF HasData
<1> QED
    BY <1>2, <1>5, <1>6 DEF f

\* What was read of the file that was inquired about is what was asked for.
LEMMA VarsReads ==
    ASSUME RuleInv, ReadInv, ReturnVars
    PROVE  ReadInv'
<1> DEFINE d == call[1]
           e == FileOf(Entry)
           buf == Filled(Out, d.bounds)
           val == [dataType |-> d.dataType, buf |-> buf, cap |-> Len(buf)]
<1>1. /\ status = "ok" /\ call # None /\ pc = "done" /\ d.ms \in Reads
      /\ CanRead(Out, d.dataType, d.bounds)
      /\ Give(d.ms, "vars", Of("NcGetVarOut_PI", val), Where(req.ncid))
    BY DEF ReturnVars, Reading, Reads
<1>2. /\ Returned /\ UNCHANGED <<world, query, client>>
      /\ param'["vars"] = Of("NcGetVarOut_PI", val) /\ files'["vars"] = <<Where(req.ncid)>>
      /\ files'["inq"] = files["inq"]
    <2>1. /\ Returned /\ param' = [param EXCEPT !["vars"] = Of("NcGetVarOut_PI", val)]
          /\ files' = [files EXCEPT !["vars"] = <<Where(req.ncid)>>]
        BY <1>1 DEF Give
    <2>2. "vars" \in DOMAIN param /\ "vars" \in DOMAIN files /\ "inq" \in DOMAIN files
        BY DEF RuleInv, MsInv, Params
    <2> QED
        BY <2>1, <2>2 DEF Returned
<1>3. Source("vars")' = e
    BY <1>2, SMTT(30) DEF Source, FileOf, Where, Entry
<1>4. Array("vars")'.buf = buf
    <2>1. param'["vars"].val = <<val>>
        BY <1>2 DEF Of
    <2> QED
        BY <2>1 DEF Array
<1>5. /\ d.ms = query.ms /\ req.op = "getVars" /\ query.ms \in Reads /\ client = "rule"
      /\ AsksVar(query, req, Source("inq"), d.bounds)
    BY <1>1 DEF ReadInv, CallAsks
<1>6. PICK k : k \in DOMAIN e.var /\ k - 1 = req.myid /\ Out = e.var[k] /\ IsFile(e) /\ HasData(Out)
    BY <1>1, <1>5, OutHasData DEF Ok, ReadInv, RuleInv
<1>7. ASSUME files'["inq"] = files'["vars"]
      PROVE  HasRead(query, e, buf)
    <2>1. Source("inq") = e
        BY <1>2, <1>7, SMTT(30) DEF Source, FileOf, Where, Entry
    <2>2. PICK j \in DOMAIN e.var : req.myid = j - 1 /\ AsksRead(query, e, e.var[j], d.bounds)
        BY <1>5, <2>1 DEF AsksVar
    <2>3. j = k
        <3>1. j \in Int /\ k \in Int
            BY <1>6, <2>2, FileSeqs
        <3> QED
            BY <1>6, <2>2, <3>1
    <2> HIDE DEF d, e, buf
    <2>4. Out \in ToSet(e.var)
        BY <1>6 DEF ToSet
    <2>5. AsksRead(query, e, Out, d.bounds) /\ buf = Filled(Out, d.bounds)
        BY <1>6, <2>2, <2>3 DEF buf
    <2> QED
        BY <1>1, <1>6, <2>4, <2>5 DEF HasRead
<1> HIDE DEF d, e, buf, val
<1>8. ReadDone'
    BY <1>2, <1>3, <1>4, <1>7 DEF ReadDone
<1> QED
    BY <1>2, <1>8, ReturnedReads
-----------------------------------------------------------------------------
\* Steps of a program, and none.
LEMMA ProgramReads ==
    ASSUME RuleInv, ReadInv, client = "program", Next, UNCHANGED msVars
    PROVE  ReadInv'
<1>1. UNCHANGED <<client, call, query>> /\ call = None /\ query.ms \notin Reads
    BY DEF msVars, RuleInv, MsInv, CallIs, ReadInv
<1>2. VarsAnswered'
    BY VarsAnsweredNext DEF RuleInv, ReadInv
<1> QED
    BY <1>1, <1>2 DEF ReadInv, DataThere, CallAsks, ReadDone

LEMMA StillReads ==
    ASSUME RuleInv, ReadInv, UNCHANGED allVars
    PROVE  ReadInv'
<1>1. UNCHANGED vars /\ UNCHANGED <<client, call, query, param, ret, files, world, req, pc>>
    BY DEF allVars, vars, msVars
<1>2. VarsAnswered'
    BY <1>1, VarsAnsweredNext DEF RuleInv, ReadInv
<1>3. Source("inq")' = Source("inq") /\ Source("vars")' = Source("vars")
    BY <1>1, SourceStays
<1>4. Array("vars")' = Array("vars")
    BY <1>1 DEF Array
<1>5. DataThere' /\ (query'.ms \in Reads => client' = "rule")
    BY <1>1 DEF ReadInv, DataThere
<1>6. CallAsks'
    BY <1>1, <1>3 DEF ReadInv, CallAsks
<1>7. ReadDone'
    BY <1>1, <1>3, <1>4 DEF ReadInv, ReadDone
<1> QED
    BY <1>2, <1>5, <1>6, <1>7 DEF ReadInv

LEMMA ReadNext ==
    ASSUME RuleInv, FromInv, TypesInv, ReadInv, [MsNext]_allVars
    PROVE  ReadInv'
<1>1. CASE client = "program" /\ Next /\ UNCHANGED msVars
    BY <1>1, ProgramReads
<1>2. CASE Microservice
    BY <1>2, ReadStarts, OtherReads
<1>3. CASE client = "rule" /\ Handle /\ UNCHANGED msVars
    BY <1>3, HandleReads
<1>4. CASE ReturnError \/ ReturnInq \/ ReturnVars \/ ReturnVarsError
    BY <1>4, ErrorReads, InqReads, VarsReads
<1>5. CASE Ended \/ UNCHANGED allVars
    BY <1>5, StillReads DEF Ended
<1> QED
    BY <1>1, <1>2, <1>3, <1>4, <1>5 DEF MsNext, Serve

LEMMA ReadStart ==
    ASSUME MsInit
    PROVE  ReadInv
<1>1. query.ms \notin Reads /\ call = None
    BY DEF MsInit, NoQuery, Query, Reads
<1>2. pc # "done" /\ (client = "rule" => \E a \in Agents : world = a.world)
    BY DEF MsInit, Init, Idle
<1>3. DataThere
    BY <1>2, MsAssumption, Zenon DEF DataThere, DataIn
<1> QED
    BY <1>1, <1>2, <1>3 DEF ReadInv, VarsAnswered, Ok, CallAsks, ReadDone
-----------------------------------------------------------------------------
\* The variable a call is about is the one of its name.
LEMMA ReadByName ==
    ASSUME NEW f, IsFile(f), NEW v \in ToSet(f.var), NEW n, v.name = n
    PROVE  (CHOOSE u \in ToSet(f.var) : u.name = n) = v
<1>1. Unique(f.var)
    BY DEF IsFile
<1>2. \A u \in ToSet(f.var) : u.name = n => u = v
    BY <1>1 DEF Unique, ToSet
<1> QED
    BY <1>2

LEMMA ReadIsAsked ==
    ASSUME ReadInv
    PROVE  ReadsAsked
<1> DEFINE f == Source("vars")
           buf == Array("vars").buf
           v == CHOOSE u \in ToSet(f.var) : u.name = query.name
           p == [j \in DOMAIN v.shape |-> Part(v, j)]
           cells == {c \in DOMAIN v.data : \A j \in DOMAIN c : c[j] \in p[j].from .. p[j].to}
<1>1. SUFFICES ASSUME pc = "idle", ret = "ok", query.ms \in Reads, files.inq = files.vars
               PROVE  /\ \A x \in DOMAIN query.bounds : Len(query.bounds[x]) = Len(v.shape)
                      /\ (\A j \in DOMAIN p : p[j].every) =>
                        /\ Len(buf) = Cardinality(cells)
                        /\ \A c \in cells :
                            buf[Cardinality({d \in cells : Before(d, c)}) + 1] = v.data[c]
    BY DEF ReadsAsked, Reads
<1>2. HasRead(query, f, buf)
    BY <1>1 DEF ReadInv, ReadDone
<1>3. PICK u, t, b :
        u \in ToSet(f.var) /\ AsksRead(query, f, u, b) /\ HasData(u) /\ CanRead(u, t, b) /\ buf = Filled(u, b)
    BY <1>2 DEF HasRead
<1>4. u = v
    BY <1>2, <1>3, ReadByName DEF HasRead, AsksRead
<1>5. \A j \in DOMAIN v.shape : p[j] = PartOf(query, f, v, j)
    BY Zenon DEF Part, PartOf
<1> HIDE DEF f, buf, v
<1>6. \A j \in DOMAIN v.shape : p[j] = PartOf(query, f, v, j) /\ Says(p[j], b.start[j], b.count[j], b.stride[j])
    BY <1>3, <1>4, <1>5 DEF AsksRead
<1>7. DOMAIN p = DOMAIN v.shape
    OBVIOUS
<1> HIDE DEF p
<1>8. cells = Between(v, p)
    BY DEF Between
<1>9. ASSUME \A j \in DOMAIN p : p[j].every
      PROVE  /\ Len(buf) = Cardinality(cells)
             /\ \A c \in cells : buf[Cardinality({d \in cells : Before(d, c)}) + 1] = v.data[c]
    <2>1. /\ \A j \in DOMAIN v.shape : b.stride[j] <= 1
          /\ \A j \in DOMAIN v.shape : p[j].from = b.start[j] /\ p[j].to = b.start[j] + b.count[j] - 1
        BY <1>6, <1>7, <1>9 DEF Says
    <2> HIDE DEF cells
    <2>2. HasData(v) /\ IsBounds(b, v) /\ CanRead(v, t, b) /\ buf = Filled(v, b)
        BY <1>3, <1>4 DEF AsksRead
    <2> QED
        BY <1>8, <2>1, <2>2, CellsRead
<1> QED
    BY <1>3, <1>4, <1>9 DEF AsksRead

LEMMA ReadInvariant == MsSpec => []ReadInv
<1>1. MsInit => FromInv /\ ReadInv
    BY FromStart, ReadStart
<1>2. RuleInv /\ TypesInv /\ FromInv /\ ReadInv /\ [MsNext]_allVars => (FromInv /\ ReadInv)'
    BY FromNext, ReadNext
<1> QED
    BY <1>1, <1>2, RuleInvariant, TypesInvariant, PTL DEF MsSpec

\* For any rules, agents, worlds, lists, subsets and bounds: what msiNcGetVarsByType
\* and msiNcSubsetVar give of a file that was inquired about are the values of the
\* cells the rule asked for, in row order, as many and no other, wherever the file
\* is, whatever was opened and closed in between and however the rule has put its
\* start, count and stride together, if it asked for every element.
THEOREM MsReadsAreAsked == MsSpec => []ReadsAsked
BY ReadInvariant, ReadIsAsked, PTL
===============================================================================
