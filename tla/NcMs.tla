--------------------------------- MODULE NcMs ---------------------------------
(***************************************************************************)
(* The netCDF microservices: a rule calls them one after the other in its  *)
(* agent, keeps what they give in its variables, and passes them on.  Some *)
(* call a handler (NcInq) and give what it answers; the others look into   *)
(* what is in a variable.                                                  *)
(***************************************************************************)
EXTENDS NcInq, NcSlab

CONSTANTS
    Agents,      \* of rules: the microservices the rule uses, and the world
    Literals,    \* indices in the text of a rule
    Numbers,     \* what it puts into arrays
    Lists,       \* lists of numbers in it, written "n%n"
    SubsetStrs,  \* its subsets, see IsSubsetStr
    NC_MAX_DIMS,
    NAME_LEN,
    INT_MAX,
    ValueStr     \* how a number of a type is shown, of which "%.2f" leaves out some

\* The elements of a subset string; one that parseNcSubset cannot read is not ok.
IsSubsetStr(s) == s \in Seq([ok : BOOLEAN, name : Names, start : Nat, stride : Nat, end : Nat])

\* A rule says "null" for the whole file.  data has the value of each cell.  Text
\* ends at its first NUL.
ASSUME MsAssumption ==
    /\ "null" \notin Names \union {NoName}
    /\ \A a \in Agents : IsWorld(a.world) /\ \A h \in Hosts :
        \A x \in DOMAIN a.world.lib[h] : \A v \in ToSet(a.world.lib[h][x].var) :
            DOMAIN v.data = ToSet(Slab([j \in DOMAIN v.shape |-> 0], v.shape))
    /\ Literals \subseteq Int /\ Numbers \subseteq Nat
    /\ \A l \in Lists : l \in Seq(Nat) /\ l # <<>>
    /\ \A s \in SubsetStrs : IsSubsetStr(s)
    /\ NC_MAX_DIMS \in Nat \ {0}
    /\ NAME_LEN \in Nat \ {0, 1} /\ INT_MAX \in Nat

VARIABLES
    client,  \* "program" or "rule"
    rule,    \* the microservices the rule uses, and "n%n" if it writes lists of numbers
    param,   \* the variables of the rule: type and inOutStruct, None for NULL
    call,    \* the microservice that waits for its handler, if any
    query,   \* the last call
    ret,     \* what it returned; "fault" if the agent ended in it
    files,   \* where what is in a variable comes from
    added    \* what was put into each array since it was new

msVars == <<client, rule, param, call, query, ret, files, added>>
allVars == <<vars, msVars>>

\* start, count and stride are the arrays a rule makes; vars has what was read.
Arrays == {"start", "count", "stride"}
Params == {"ncid", "inq", "grps", "id", "item", "vars", "out"} \union Arrays

Unset == [type |-> "NULL", val |-> None]
Of(t, s) == [type |-> t, val |-> <<s>>]
Int_(n) == Of("INT_PI", n)

\* A length as an int.
ToInt(n) ==
    IF n <= INT_MAX THEN n
    ELSE LET m == n % (2 * (INT_MAX + 1))
         IN  IF m <= INT_MAX THEN m ELSE m - 2 * (INT_MAX + 1)

Str_(s) == Of("STR_PI", s)  \* a sequence of what is in the text

\* What no file has: it was read past the end of an array.
Garbage(t) == [type |-> t, val |-> None]

IsSet(x) == param[x] # Unset
O == param.inq.val[1]

Query(ms, inx, name, key) ==
    [ms |-> ms, inx |-> inx, name |-> name, key |-> key, conds |-> <<>>, bounds |-> <<>>]
NoQuery == Query("none", 0, NoName, NoName)

NoReq == [op |-> "inq", ncid |-> -1, paramType |-> {}, myid |-> 0, name |-> NoName, all |-> FALSE]

MsTypeOK ==
    /\ TypeOK
    /\ client \in {"program", "rule"} /\ rule \in {a.rule : a \in Agents} \union {{}}
    /\ DOMAIN param = Params
    /\ \A x \in Params : Len(param[x].val) <= 1
    /\ \A x \in Arrays : param[x].type \in {"NULL", "NcGetVarOut_PI"}
    /\ \A x \in Arrays : param[x].val # None =>
        /\ param[x].val[1].cap = NC_MAX_DIMS
        /\ Len(param[x].val[1].buf) \in 1 .. NC_MAX_DIMS
    /\ ret \in {"ok", "error", "fault"}
    /\ Len(call) <= 1 /\ (client = "rule" => (call # None <=> pc # "idle"))
    /\ \A x \in Arrays : DOMAIN added[x] \subseteq 0 .. NC_MAX_DIMS - 1

Idle ==
    /\ req = NoReq /\ inp = NoReq /\ asked = NoName /\ pc = "idle" /\ host = "here"
    /\ ncInqOut = None /\ gattFreed = FALSE /\ status = "ok"

MsInit ==
    /\ param = [x \in Params |-> Unset]
    /\ call = None /\ query = NoQuery /\ ret = "ok"
    /\ files = [x \in {"inq", "grps", "id", "item", "vars"} |-> None]
    /\ added = [x \in Arrays |-> <<>>]
    /\ \/ client = "program" /\ rule = {} /\ Init
       \/ client = "rule" /\ (\E a \in Agents : rule = a.rule /\ world = a.world) /\ Idle

\* The rule goes on after an error, as a rule with a recovery does.
Uses(ms) == client = "rule" /\ pc = "idle" /\ ret # "fault" /\ ms \in rule

\* The microservice returns; ps are the variables it sets.
Returns(q, r, ps) ==
    /\ query' = q /\ ret' = r
    /\ param' = [x \in Params |-> IF x \in DOMAIN ps THEN ps[x] ELSE param[x]]
    /\ UNCHANGED <<client, rule, call>>

NoHandler == UNCHANGED vars
Locally == NoHandler /\ UNCHANGED <<files, added>>

\* An argument is unset or of a type the microservice does not take, or the
\* handler behind it fails before it has done anything.
Refuse == \E ms \in rule : Uses(ms) /\ Returns(NoQuery, "error", <<>>) /\ Locally
-----------------------------------------------------------------------------
(* Microservices that open and close; the handlers are in NcDesc *)

Slots == 2 .. NUM_L1_DESC - 1
InUseAt(n) == n \in Slots /\ world.l1desc[n].inuse
Where(n) == [host |-> world.l1desc[n].host, ncid |-> world.l1desc[n].ncid]
Ncid == param.ncid.val[1]

\* The first free entry stands for the file, and the rule gets its index.
Enter(h, n) ==
    \E x \in {y \in Slots : ~InUseAt(y)} :
        /\ \A y \in Slots : ~InUseAt(y) => x <= y
        /\ world' = [world EXCEPT !.l1desc[x] = [inuse |-> TRUE, host |-> h, ncid |-> n]]
        /\ Returns(NoQuery, "ok", [ncid |-> Int_(x)])
        /\ UNCHANGED <<req, asked, pc, inp, host, ncInqOut, gattFreed, status>>
        /\ UNCHANGED <<files, added>>

Groups(h) == UNION {ToSet(world.lib[h][n].grpNcid) : n \in DOMAIN world.lib[h]}

IsNew(f) == f.dim = <<>> /\ f.var = <<>> /\ f.gatt = <<>>

msiNcOpen ==
    /\ Uses("msiNcOpen")
    /\ \E h \in Hosts : \E n \in DOMAIN world.lib[h] \ Groups(h) : Enter(h, n)

msiNcCreate ==
    /\ Uses("msiNcCreate")
    /\ \E h \in Hosts : \E n \in DOMAIN world.lib[h] \ Groups(h) :
        IsNew(world.lib[h][n]) /\ Enter(h, n)

msiNcOpenGroup ==
    /\ Uses("msiNcOpenGroup") /\ IsSet("ncid") /\ InUseAt(Ncid)
    /\ LET d == Where(Ncid)
           f == FileOf(d)
       IN  \E k \in DOMAIN f.grpName : Enter(d.host, f.grpNcid[k])

\* The entry is free also after an error of the library or of the other host,
\* unless the host is not found.
msiNcClose ==
    /\ Uses("msiNcClose") /\ IsSet("ncid") /\ InUseAt(Ncid)
    /\ world' = [world EXCEPT !.l1desc[Ncid].inuse = FALSE]
    /\ \E r \in {"ok", "error"} : Returns(NoQuery, r, <<>>)
    /\ UNCHANGED <<req, asked, pc, inp, host, ncInqOut, gattFreed, status>>
    /\ UNCHANGED <<files, added>>

\* The handler opens and closes the file itself (NcWalk); its status is an
\* output of the microservice even if it is an error.
msiNcRegGlobalAttr ==
    /\ Uses("msiNcRegGlobalAttr")
    /\ \/ Returns(NoQuery, "ok", [out |-> Int_(0)])
       \/ Returns(NoQuery, "error", [out |-> Int_(-1)])
    /\ Locally
-----------------------------------------------------------------------------
(* Microservices that inquire *)

\* The microservice calls a handler; c is what it needs when that answers, and
\* name what the rule means by the id in r.
Calls(q, r, name, c) ==
    /\ req' = r /\ inp' = r /\ asked' = name /\ pc' = "request"
    /\ call' = <<c>> /\ query' = q
    /\ UNCHANGED <<world, host, ncInqOut, gattFreed, status>>
    /\ UNCHANGED <<client, rule, param, ret, files, added>>

Request(op, types, id, name) ==
    [op |-> op, ncid |-> Ncid, paramType |-> types, myid |-> id, name |-> name, all |-> FALSE]

\* Something that was inquired of the file the ncid now stands for.
OfFile(x) ==
    /\ files[x] # None /\ InUseAt(Ncid)
    /\ files[x][1].host = Where(Ncid).host /\ files[x][1].ncid = Where(Ncid).ncid

msiNcInq ==
    /\ Uses("msiNcInq") /\ IsSet("ncid")
    /\ Calls(NoQuery, Request("inq", {}, 0, NoName), NoName, [ms |-> "msiNcInq"])

msiNcInqGrps ==
    /\ Uses("msiNcInqGrps") /\ IsSet("ncid")
    /\ Calls(NoQuery, Request("inqGrps", {}, 0, NoName), NoName, [ms |-> "msiNcInqGrps"])

\* Only dimensions and variables have ids.
msiNcInqId(t, name) ==
    /\ Uses("msiNcInqId") /\ IsSet("ncid")
    /\ Calls(NoQuery, Request("inqId", {t}, 0, name), NoName, [ms |-> "msiNcInqId"])

msiNcInqWithId(t) ==
    /\ Uses("msiNcInqWithId") /\ IsSet("ncid") /\ IsSet("id")
    /\ LET means == IF OfFile("id") /\ files.id[1].paramType = {t}
                    THEN files.id[1].name ELSE NoName
       IN  Calls(NoQuery, Request("inqWithId", {t}, param.id.val[1], NoName), means,
                 [ms |-> "msiNcInqWithId"])

\* ncInqWithIdOut_t: what the other type has is zero.
ItemStruct(t, i) ==
    IF t = {"dim"}
    THEN [name |-> i.name, mylong |-> i.arrayLen, dataType |-> 0, intArray |-> <<>>]
    ELSE [name |-> i.name, mylong |-> 0, dataType |-> i.dataType, intArray |-> i.dimId]

Returned ==
    /\ pc = "done" /\ call # None
    /\ req' = NoReq /\ inp' = NoReq /\ asked' = NoName /\ pc' = "idle" /\ host' = "here"
    /\ ncInqOut' = None /\ gattFreed' = FALSE /\ status' = "ok" /\ call' = None
    /\ UNCHANGED <<world, client, rule, query, added>>

\* The variables of the rule stay as they are.
ReturnError ==
    /\ status = "error" /\ Returned
    /\ ret' = "error" /\ UNCHANGED <<param, files>>

\* What is in ncInqOut goes to a variable; source says what it is of.
Give(ms, x, p, source) ==
    /\ status = "ok" /\ call # None /\ call[1].ms = ms /\ Returned
    /\ ret' = "ok"
    /\ param' = [param EXCEPT ![x] = p]
    /\ files' = [files EXCEPT ![x] = <<source>>]

ReturnInq ==
    \/ Give("msiNcInq", "inq", Of("NcInqOut_PI", Out), Where(req.ncid))
    \/ Give("msiNcInqGrps", "grps", Of("NcInqGrpsOut_PI", Out), Where(req.ncid))
    \/ Give("msiNcInqId", "id", Int_(Out),
            [host |-> Entry.host, ncid |-> Entry.ncid,
             paramType |-> req.paramType, name |-> req.name])
    \/ Give("msiNcInqWithId", "item",
            Of("NcInqWithIdOut_PI", ItemStruct(req.paramType, Out)),
            [host |-> Entry.host, ncid |-> Entry.ncid,
             paramType |-> req.paramType, myid |-> req.myid])
-----------------------------------------------------------------------------
(* Microservices that look into an NcInqOut *)

Missing == {[ret |-> "error", ps |-> <<>>]}

\* The outputs there may be, if there are any.
Given(outs) == IF outs = {} THEN Missing ELSE {[ret |-> "ok", ps |-> [out |-> p]] : p \in outs}

\* A read past the end of an array.
Astray(outs) == Missing \union {[ret |-> "fault", ps |-> <<>>]} \union Given(outs)

Named(s, name) == {s[id + 1] : id \in IdsOf(s, name)}

\* The output of msiNcGetDimNameInInqOut or of msiNcGetDimLenInInqOut.
DimOut(d, what) == IF what = "name" THEN Str_(<<d.name>>) ELSE Int_(ToInt(d.arrayLen))

\* The dimensions there are to be found: a length of -1 means none.
DimsToFind(what) == {d \in ToSet(O.dim) : what = "name" \/ ToInt(d.arrayLen) # -1}

\* What they do alike, when inx is in its bounds.
DimInInqOut(inx, name, what) ==
    LET dims == DimsToFind(what)
        named == Named(O.var, name)
        outs(ds) == {DimOut(d, what) : d \in ds}
    IN  IF inx = -1
        THEN Given(outs({d \in dims : O.unlimdimid >= 0 /\ d.id = O.unlimdimid}))
        ELSE IF name = "null" THEN
            IF inx < Len(O.dim) THEN Given(outs({O.dim[inx + 1]})) ELSE Astray({Garbage("INT_PI")})
        ELSE IF \E v \in named : inx >= Len(v.dimId) THEN Astray(outs(dims))
        ELSE Given(outs({d \in dims : \E v \in named : d.id = v.dimId[inx + 1]}))

\* Mutant: the index is compared with the number of variables, as of a length.
DimNameInVars(inx, name) ==
    IF inx \in -1 .. O.nvars - 1
    THEN DimInInqOut(inx, name, "name") ELSE Missing

msiNcGetDimNameInInqOut(inx, name) ==
    IF inx \in -1 .. O.ndims - 1
    THEN DimInInqOut(inx, name, "name") ELSE Missing

\* The index is compared with the number of variables.
msiNcGetDimLenInInqOut(inx, name) ==
    IF inx \in -1 .. O.nvars - 1
    THEN DimInInqOut(inx, name, "arrayLen") ELSE Missing

msiNcGetAttNameInInqOut(inx, name) ==
    Given({Str_(<<a.name>>) : a \in
        IF name = "null" THEN ById(O.gatt, inx)
        ELSE UNION {ById(v.att, inx) : v \in Named(O.var, name)}})

NC_CHAR == 2
NC_STRING == 12

\* As much of a text as there is room for behind a quotation mark; what is longer
\* is cut without an error, and so is the second mark if there is no room for it.
Quoted(text) == IF Len(text) <= NAME_LEN - 2 THEN text ELSE SubSeq(text, 1, NAME_LEN - 2)

\* msiNcGetAttValStrInInqOut of the attribute a: text is one string, of an array
\* of strings it shows the bytes of a pointer, of numbers the first.
AttValStr(a) ==
    IF a.dataType = NC_CHAR THEN Given({Str_(Quoted(a.value))})
    ELSE IF a.dataType = NC_STRING \/ a.value = <<>> THEN Astray({Garbage("STR_PI")})
    ELSE Given({Str_(<<ValueStr[a.dataType, a.value[1]]>>)})

AttVals(as) == IF as = {} THEN Missing ELSE UNION {AttValStr(a) : a \in as}

AttByInx(inx, name) ==
    AttVals(IF name = "null" THEN ById(O.gatt, inx)
            ELSE UNION {ById(v.att, inx) : v \in Named(O.var, name)})

\* The attributes of a variable are searched as far as the file has global ones.
AttByName(key, name) ==
    IF name = "null" THEN AttVals(Named(O.gatt, key))
    ELSE LET near(v) == {a \in Named(v.att, key) : a.id < O.ngatts}
         IN  IF \E v \in Named(O.var, name) : near(v) = {} /\ O.ngatts > v.natts
             THEN Astray({}) ELSE AttVals(UNION {near(v) : v \in Named(O.var, name)})

msiNcGetVarIdInInqOut(inx, name) ==
    Given({Int_(v.id) : v \in IF name = "null" THEN ById(O.var, inx) ELSE Named(O.var, name)})

msiNcGetVarNameInInqOut(inx) == Given({Str_(<<v.name>>) : v \in ById(O.var, inx)})

msiNcGetVarTypeInInqOut(name) == Given({Int_(v.dataType) : v \in Named(O.var, name)})

msiNcGetNdimsInInqOut(name) ==
    Given(IF name = "null" THEN {Int_(O.ndims)}
          ELSE {Int_(Len(v.dimId)) : v \in Named(O.var, name)})

msiNcGetNattsInInqOut(name) ==
    Given(IF name = "null" THEN {Int_(O.ngatts)} ELSE {Int_(v.natts) : v \in Named(O.var, name)})

msiNcGetNvarsInInqOut == Given({Int_(O.nvars)})

msiNcGetFormatInInqOut == Given({Int_(O.format)})

msiNcGetNGrpsInInqOut == Given({Int_(Len(param.grps.val[1]))})

msiNcGetGrpInInqOut(inx) == Given({Str_(<<g>>) : g \in ById(param.grps.val[1], inx)})

\* One of the answers is returned.
Looks(ms, x, inx, name, key, answers) ==
    /\ Uses(ms) /\ IsSet(x)
    /\ \E a \in answers : Returns(Query(ms, inx, name, key), a.ret, a.ps)
    /\ Locally

InInqOut ==
    LET names == Names \union {"null"}
    IN  \/ \E inx \in Literals, n \in names :
            \/ Looks("msiNcGetDimNameInInqOut", "inq", inx, n, NoName,
                     msiNcGetDimNameInInqOut(inx, n))
            \/ Looks("msiNcGetDimLenInInqOut", "inq", inx, n, NoName,
                     msiNcGetDimLenInInqOut(inx, n))
            \/ Looks("msiNcGetAttNameInInqOut", "inq", inx, n, NoName,
                     msiNcGetAttNameInInqOut(inx, n))
            \/ Looks("msiNcGetAttValStrInInqOut", "inq", inx, n, NoName, AttByInx(inx, n))
            \/ Looks("msiNcGetVarIdInInqOut", "inq", inx, n, NoName,
                     msiNcGetVarIdInInqOut(inx, n))
        \/ \E key \in Names, n \in names :
            Looks("msiNcGetAttValStrInInqOut", "inq", 0, n, key, AttByName(key, n))
        \/ \E inx \in Literals :
            \/ Looks("msiNcGetVarNameInInqOut", "inq", inx, NoName, NoName,
                     msiNcGetVarNameInInqOut(inx))
            \/ Looks("msiNcGetGrpInInqOut", "grps", inx, NoName, NoName,
                     msiNcGetGrpInInqOut(inx))
        \/ \E n \in names :
            \/ Looks("msiNcGetVarTypeInInqOut", "inq", 0, n, NoName, msiNcGetVarTypeInInqOut(n))
            \/ Looks("msiNcGetNdimsInInqOut", "inq", 0, n, NoName, msiNcGetNdimsInInqOut(n))
            \/ Looks("msiNcGetNattsInInqOut", "inq", 0, n, NoName, msiNcGetNattsInInqOut(n))
        \/ Looks("msiNcGetNvarsInInqOut", "inq", 0, NoName, NoName, msiNcGetNvarsInInqOut)
        \/ Looks("msiNcGetFormatInInqOut", "inq", 0, NoName, NoName, msiNcGetFormatInInqOut)
        \/ Looks("msiNcGetNGrpsInInqOut", "grps", 0, NoName, NoName, msiNcGetNGrpsInInqOut)
-----------------------------------------------------------------------------
(* Microservices that look into an item or an array: x is the variable *)

Item == param.item.val[1]
Array(x) == param[x].val[1]
IsNull(x) == param[x].val = None

msiNcGetDataType(x) ==
    IF IsNull(x) THEN Missing ELSE Given({Int_(param[x].val[1].dataType)})

msiNcGetArrayLen(x) ==
    IF IsNull(x) THEN Missing
    ELSE Given({Int_(IF x = "item" THEN ToInt(Item.mylong) ELSE Len(Array(x).buf))})

msiNcGetNumDim == Given({Int_(Len(Item.intArray))})

NC_DOUBLE == 6
IntTypes == {4, 9}          \* NC_INT, NC_UINT
IntPI == IntTypes \union {5} \* arrays of floats are packed as such of ints

\* The type of an element as a variable of the rule; shorts cannot be taken out,
\* and of a double the bits are taken for an integer.
ElementType(t) == CASE t \in {1, 2, 7} -> "CHAR_PI"
                    [] t \in IntTypes -> "INT_PI"
                    [] t = 5 -> "FLOAT_PI"
                    [] t \in {10, 11, NC_DOUBLE} -> "DOUBLE_PI"
                    [] t = NC_STRING -> "STR_PI"
                    [] OTHER -> "none"

msiNcGetElementInArray(x, inx) ==
    IF IsNull(x) THEN Missing
    ELSE IF x = "item" THEN Given({Int_(Item.intArray[k]) : k \in {inx + 1} \intersect DOMAIN Item.intArray})
    ELSE IF inx \notin 0 .. Len(Array(x).buf) - 1 \/ ElementType(Array(x).dataType) = "none" THEN Missing
    ELSE IF Array(x).dataType = NC_DOUBLE THEN Given({Garbage("DOUBLE_PI")})
    ELSE Given({Of(ElementType(Array(x).dataType), Array(x).buf[inx + 1])})

\* Maximum, minimum, total and length.
msiNcVarStat(x) ==
    IF IsNull(x) \/ Array(x).dataType \in {1, 7, NC_CHAR, NC_STRING} THEN Missing
    ELSE LET buf == Array(x).buf
         IN  Given({Str_(<<Max(ToSet(buf)), Min(ToSet(buf)), FoldLeft(LAMBDA m, n : m + n, 0, buf), Len(buf)>>)})

InArray ==
    \/ \E x \in {"item", "vars"} :
        \/ Looks("msiNcGetDataType", x, 0, x, NoName, msiNcGetDataType(x))
        \/ Looks("msiNcGetArrayLen", x, 0, x, NoName, msiNcGetArrayLen(x))
        \/ \E inx \in Literals :
            Looks("msiNcGetElementInArray", x, inx, x, NoName, msiNcGetElementInArray(x, inx))
    \/ Looks("msiNcGetNumDim", "item", 0, NoName, NoName, msiNcGetNumDim)
    \/ Looks("msiNcVarStat", "vars", 0, NoName, NoName, msiNcVarStat("vars"))

\* getNcTypeStr knows no NC_USHORT.
msiNcIntDataTypeToStr ==
    /\ param.out.type = "INT_PI" /\ ~IsNull("out")
    /\ LET t == param.out.val[1]
       IN  Looks("msiNcIntDataTypeToStr", "out", t, NoName, NoName,
                 IF t \in NcTypes \ {8} THEN Given({Str_(<<t>>)}) ELSE Missing)

msiFloatToString ==
    /\ param.out.type = "FLOAT_PI"
    /\ Looks("msiFloatToString", "out", param.out.val[1], NoName, NoName, Given({Str_(param.out.val)}))
-----------------------------------------------------------------------------
(* Arrays *)

\* Mutant: the length is that of the last element added.
PutCuts(buf, inx, n) == [k \in 1 .. inx + 1 |->
    IF k = inx + 1 THEN n ELSE IF k <= Len(buf) THEN buf[k] ELSE 0]

Put(buf, inx, n) == [k \in 1 .. Max({Len(buf), inx + 1}) |->
    IF k = inx + 1 THEN n ELSE IF k <= Len(buf) THEN buf[k] ELSE 0]

\* d with n at i.
With(d, i, n) == [k \in DOMAIN d \union {i} |-> IF k = i THEN n ELSE d[k]]

\* A new array has room for NC_MAX_DIMS elements, one that was read for those it
\* has: more run over its end.
msiAddToNcArray(x, n, inx) ==
    LET new == IsNull(x)
        a == IF new THEN [dataType |-> 4, buf |-> <<>>, cap |-> NC_MAX_DIMS] ELSE Array(x)
        cell == IF a.dataType = 5 THEN 0 ELSE n  \* the bits of a small integer
    IN  /\ Uses("msiAddToNcArray") /\ (x = "vars" => IsSet(x))
        /\ inx \in 0 .. NC_MAX_DIMS - 1 /\ a.dataType \in IntPI
        /\ \/ /\ Returns(NoQuery, "ok", [y \in {x} |-> Of("NcGetVarOut_PI", [a EXCEPT !.buf = Put(@, inx, cell)])])
              /\ added' = IF x \in Arrays THEN [added EXCEPT ![x] = With(@, inx, n)] ELSE added
           \/ inx >= a.cap /\ Returns(NoQuery, "fault", <<>>) /\ UNCHANGED added
        /\ NoHandler /\ UNCHANGED files

\* The type of the variable stays.
msiFreeNcStruct(x) ==
    /\ Uses("msiFreeNcStruct") /\ param[x].type = "NcGetVarOut_PI"
    /\ Returns(NoQuery, "ok", [y \in {x} |-> [param[x] EXCEPT !.val = None]])
    /\ added' = IF x \in Arrays THEN [added EXCEPT ![x] = <<>>] ELSE added
    /\ NoHandler /\ UNCHANGED files
-----------------------------------------------------------------------------
(* Microservices that read variables *)

\* What a rule means by an array: the elements it has added, zero between them.
Elements(x) ==
    IF DOMAIN added[x] = {} THEN <<>>
    ELSE [k \in 1 .. Max(DOMAIN added[x]) + 1 |->
            IF k - 1 \in DOMAIN added[x] THEN added[x][k - 1] ELSE 0]

\* The start, count and stride a rule passes, and what it means by them: lists,
\* or its arrays, of which a freed one is taken for empty.
Passable ==
    (IF "n%n" \in rule THEN {[passed |-> b, meant |-> b] : b \in [Arrays -> Lists]} ELSE {})
    \union
    (IF \A x \in Arrays : IsSet(x)
     THEN {[passed |-> [x \in Arrays |-> IF IsNull(x) THEN <<>> ELSE Array(x).buf],
            meant |-> [x \in Arrays |-> Elements(x)]]}
     ELSE {})

Read(q, v, t, b) ==
    Calls(q, Request("getVars", {"var"}, v.id, NoName),
          IF OfFile("inq") THEN v.name ELSE NoName,
          [ms |-> q.ms, dataType |-> t, bounds |-> b])

\* The type may be that of another variable (netcdfTest1.r asks for it before it
\* goes on to the next).  Each of the bounds has to have an element for each
\* dimension; none has none.
msiNcGetVarsByType ==
    /\ Uses("msiNcGetVarsByType") /\ IsSet("ncid") /\ IsSet("inq")
    /\ \E k, j \in DOMAIN O.var, p \in Passable :
        LET v == O.var[k]
            b == p.passed
            q == [Query("msiNcGetVarsByType", 0, v.name, NoName) EXCEPT !.bounds = p.meant]
        IN  IF \A x \in Arrays : b[x] # <<>> /\ Len(b[x]) = Len(v.dimId)
            THEN Read(q, v, O.var[j].dataType, b)
            ELSE Returns(q, "error", <<>>) /\ Locally

\* The first condition on a dimension counts.
CondsOn(conds, name) == {k \in DOMAIN conds : conds[k].name = name}
Cond(conds, name) == conds[Min(CondsOn(conds, name))]

InDim(c, d) == c.start < d.arrayLen /\ c.end < d.arrayLen /\ c.start <= c.end

SubsetBounds(v, conds) ==
    LET dim(j) == O.dim[v.dimId[j] + 1]
        all(j) == CondsOn(conds, dim(j).name) = {}
        c(j) == Cond(conds, dim(j).name)
    IN  [start |-> [j \in DOMAIN v.dimId |-> IF all(j) THEN 0 ELSE c(j).start],
         count |-> [j \in DOMAIN v.dimId |->
                        IF all(j) THEN dim(j).arrayLen ELSE c(j).end - c(j).start + 1],
         stride |-> [j \in DOMAIN v.dimId |-> IF all(j) THEN 1 ELSE c(j).stride]]

\* ncSubsetVar goes by ids into dim, also of a group's variable, whose
\* dimensions may be those of a group around it.
msiNcSubsetVar ==
    /\ Uses("msiNcSubsetVar") /\ IsSet("ncid") /\ IsSet("inq")
    /\ \E n \in Names, conds \in SubsetStrs :
        LET q == [Query("msiNcSubsetVar", 0, n, NoName) EXCEPT !.conds = conds]
            ok == \A k \in DOMAIN conds : conds[k].ok
            named == IF ok THEN Named(O.var, n) ELSE {}
            past(v) == \E j \in DOMAIN v.dimId : v.dimId[j] >= Len(O.dim)
            fits(v) == ~past(v) /\ \A j \in DOMAIN v.dimId :
                LET d == O.dim[v.dimId[j] + 1]
                IN  CondsOn(conds, d.name) # {} => InDim(Cond(conds, d.name), d)
        IN  \/ \E v \in named : fits(v) /\ Read(q, v, v.dataType, SubsetBounds(v, conds))
            \/ \E v \in named : past(v) /\ Returns(q, "fault", <<>>) /\ Locally
            \/ /\ \A v \in named : ~fits(v)
               /\ Returns(q, "error", <<>>) /\ Locally

\* The library does not convert between text, strings and numbers.
Kind(t) == IF t \in {NC_CHAR, NC_STRING} THEN t ELSE 0

\* The bounds of the library's call: what is missing for a dimension is zero.
Padded(s, v) == [j \in DOMAIN v.shape |-> IF j <= Len(s) THEN s[j] ELSE 0]

CanRead(v, t, b) ==
    LET start == Padded(b.start, v)
        count == Padded(b.count, v)
    IN  /\ Kind(v.dataType) = Kind(t)
        /\ \A j \in DOMAIN b.count : b.count[j] > 0
        /\ \A j \in DOMAIN v.shape : start[j] + count[j] <= v.shape[j]

\* The cells that were read, and zeros behind them if they are too few.
Filled(v, b) ==
    LET slab == Slab(Padded(b.start, v), Padded(b.count, v))
    IN  [k \in 1 .. Size(b.count, b.stride) |-> IF k <= Len(slab) THEN v.data[slab[k]] ELSE 0]

Overruns(v, b) == Volume(Padded(b.count, v)) > Size(b.count, b.stride)

Reading == status = "ok" /\ call # None /\ pc = "done" /\ call[1].ms \in {"msiNcGetVarsByType", "msiNcSubsetVar"}

ReturnVars ==
    /\ Reading
    /\ LET c == call[1]
       IN  /\ CanRead(Out, c.dataType, c.bounds)
           /\ LET buf == Filled(Out, c.bounds)
              IN  Give(c.ms, "vars",
                       Of("NcGetVarOut_PI", [dataType |-> c.dataType, buf |-> buf, cap |-> Len(buf)]),
                       Where(req.ncid))

\* The library refuses, or an agent ends of what overruns the buffer: this one,
\* or one on another host, and the call fails here.
ReturnVarsError ==
    /\ Reading /\ Returned
    /\ UNCHANGED <<param, files>>
    /\ LET c == call[1]
       IN  \/ ~CanRead(Out, c.dataType, c.bounds) /\ ret' = "error"
           \/ /\ CanRead(Out, c.dataType, c.bounds) /\ Overruns(Out, c.bounds)
              /\ ret' = IF host = "here" THEN "fault" ELSE "error"
-----------------------------------------------------------------------------
Microservice ==
    \/ Refuse
    \/ msiNcOpen \/ msiNcCreate \/ msiNcOpenGroup \/ msiNcClose \/ msiNcRegGlobalAttr
    \/ msiNcInq \/ msiNcInqGrps
    \/ \E t \in ParamTypes : msiNcInqWithId(t) \/ \E n \in Names : msiNcInqId(t, n)
    \/ InInqOut \/ InArray \/ msiNcIntDataTypeToStr \/ msiFloatToString
    \/ \E x \in Arrays \union {"vars"} :
        msiFreeNcStruct(x) \/ \E n \in Numbers, inx \in Literals : msiAddToNcArray(x, n, inx)
    \/ msiNcGetVarsByType \/ msiNcSubsetVar

Serve ==
    \/ client = "rule" /\ Handle /\ UNCHANGED msVars
    \/ ReturnError \/ ReturnInq \/ ReturnVars \/ ReturnVarsError

Ended == ret = "fault" /\ UNCHANGED allVars

MsNext ==
    \/ client = "program" /\ Next /\ UNCHANGED msVars
    \/ Microservice \/ Serve \/ Ended

\* An agent goes on with the call it serves.
MsSpec == MsInit /\ [][MsNext]_allVars /\ WF_vars(Serve)
-----------------------------------------------------------------------------
(* Properties *)

\* The file an answer in the variable x is about.
Source(x) == FileOf(files[x][1])

VarsNamed(name) == {v \in ToSet(Source("inq").var) : v.name = name}

\* The attributes of the file, or of a variable.
AttsOf(name) ==
    IF name = "null" THEN {Source("inq").gatt} ELSE {v.att : v \in VarsNamed(name)}

\* The dimension a rule means by an index: the unlimited one by -1, else one of
\* a variable or of the group's own, in the order of their ids.
DimIdsMeant ==
    LET f == Source("inq")
    IN  IF query.inx = -1 THEN {f.unlimdim} \intersect f.own
        ELSE IF query.name = "null"
        THEN {id \in f.own : Cardinality({i \in f.own : i < id}) = query.inx}
        ELSE {v.dimId[query.inx + 1] :
                v \in {u \in VarsNamed(query.name) : query.inx + 1 \in DOMAIN u.dimId}}

DimsMeant == {Source("inq").dim[id + 1] : id \in DimIdsMeant}

AttsMeant ==
    UNION {IF query.key = NoName THEN ById(s, query.inx)
           ELSE {a \in ToSet(s) : a.name = query.key} : s \in AttsOf(query.name)}

VarsMeant == IF query.name \in {"null", NoName} THEN ById(Source("inq").var, query.inx)
             ELSE VarsNamed(query.name)

\* The dimension or variable in the variable item.
ItemMeant == Items(files.item[1], Source("item"))[files.item[1].myid + 1]
ItemIsVar == files.item[1].paramType = {"var"}

\* What the file says of what the last call asked for.
Facts == CASE
    query.ms = "msiNcGetDimNameInInqOut" -> {<<d.name>> : d \in DimsMeant}
 [] query.ms = "msiNcGetDimLenInInqOut" -> {d.arrayLen : d \in DimsMeant}
 [] query.ms = "msiNcGetAttNameInInqOut" -> {<<a.name>> : a \in AttsMeant}
 [] query.ms = "msiNcGetAttValStrInInqOut" ->
        {IF a.dataType = NC_CHAR THEN Quoted(a.value)
         ELSE <<ValueStr[a.dataType, Head(a.value)]>> : a \in AttsMeant}
 [] query.ms = "msiNcGetVarIdInInqOut" ->
        UNION {IdsOf(Source("inq").var, v.name) : v \in VarsMeant}
 [] query.ms = "msiNcGetVarNameInInqOut" -> {<<v.name>> : v \in VarsMeant}
 [] query.ms = "msiNcGetVarTypeInInqOut" -> {v.dataType : v \in VarsNamed(query.name)}
 [] query.ms = "msiNcGetNdimsInInqOut" ->
        IF query.name = "null" THEN {Cardinality(Source("inq").own)}
        ELSE {Len(v.shape) : v \in VarsNamed(query.name)}
 [] query.ms = "msiNcGetNattsInInqOut" -> {Len(s) : s \in AttsOf(query.name)}
 [] query.ms = "msiNcGetNvarsInInqOut" -> {Len(Source("inq").var)}
 [] query.ms = "msiNcGetFormatInInqOut" -> {Source("inq").format}
 [] query.ms = "msiNcGetNGrpsInInqOut" -> {Len(Source("grps").grpName)}
 [] query.ms = "msiNcGetGrpInInqOut" -> {<<g>> : g \in ById(Source("grps").grpName, query.inx)}
 [] query.ms = "msiNcGetNumDim" -> {IF ItemIsVar THEN Len(ItemMeant.shape) ELSE 0}
 [] query.ms = "msiNcGetDataType" -> {IF ItemIsVar THEN ItemMeant.dataType ELSE 0}
 [] query.ms = "msiNcGetArrayLen" -> {IF ItemIsVar THEN 0 ELSE ItemMeant.arrayLen}
 [] OTHER -> IF ItemIsVar THEN ById(ItemMeant.dimId, query.inx) ELSE {}

AboutFile ==
    \/ query.ms \in {"msiNcGetDimNameInInqOut", "msiNcGetDimLenInInqOut",
            "msiNcGetAttNameInInqOut", "msiNcGetAttValStrInInqOut", "msiNcGetVarIdInInqOut",
            "msiNcGetVarNameInInqOut", "msiNcGetVarTypeInInqOut", "msiNcGetNdimsInInqOut",
            "msiNcGetNattsInInqOut", "msiNcGetNvarsInInqOut", "msiNcGetFormatInInqOut",
            "msiNcGetNGrpsInInqOut", "msiNcGetGrpInInqOut", "msiNcGetNumDim"}
    \/ /\ query.ms \in {"msiNcGetDataType", "msiNcGetArrayLen", "msiNcGetElementInArray"}
       /\ query.name = "item"

\* The calls that read past an array, as msiNcGetDimLenInInqOut.cpp:72 and
\* msiNcGetAttValStrInInqOut.cpp:174 have the wrong bound, the dimensions of a
\* variable are bounded by those of the file, and an array of strings is shown
\* by its address.
Beyond ==
    LET f == Source("inq")
    IN  \/ /\ query.ms \in {"msiNcGetDimNameInInqOut", "msiNcGetDimLenInInqOut"}
           /\ IF query.name = "null"
              THEN query.ms = "msiNcGetDimLenInInqOut" /\ query.inx >= Cardinality(f.own)
              ELSE \E v \in VarsNamed(query.name) : query.inx >= Len(v.shape)
        \/ /\ query.ms = "msiNcGetAttValStrInInqOut"
           /\ \/ AttsMeant = {} /\ \E s \in AttsOf(query.name) : Len(f.gatt) > Len(s)
              \/ \E a \in AttsMeant : a.dataType = NC_STRING \/ a.value = <<>>

\* Those that do not find what is there, for the same bounds: a variable may have
\* more dimensions than the file, one of them twice, and a group ones whose ids
\* are past the number of its own.  A length may be narrowed to -1, for none.
TooShort ==
    LET f == Source("inq")
        n == Cardinality(f.own)
    IN  \/ query.ms = "msiNcGetDimLenInInqOut" /\ query.inx >= Len(f.var)
        \/ query.ms = "msiNcGetDimNameInInqOut" /\ query.inx >= n
        \/ /\ query.ms \in {"msiNcGetDimNameInInqOut", "msiNcGetDimLenInInqOut"}
           /\ \E id \in DimIdsMeant : id >= n
        \/ query.ms = "msiNcGetDimLenInInqOut" /\ \E d \in DimsMeant : ToInt(d.arrayLen) = -1
        \/ /\ query.ms = "msiNcGetAttValStrInInqOut" /\ query.key # NoName /\ query.name # "null"
           /\ \A s \in AttsOf(query.name) : \E id \in IdsOf(s, query.key) : id >= Len(f.gatt)

\* Those that answer something else: the dimensions of a group that do not come
\* first in the file, and lengths that do not fit an int.
Misled ==
    \/ /\ query.ms \in {"msiNcGetDimNameInInqOut", "msiNcGetDimLenInInqOut"}
       /\ query.name = "null" /\ query.inx # -1 /\ ~DimsFirst(Source("inq"))
    \/ query.ms = "msiNcGetDimLenInInqOut" /\ \E d \in DimsMeant : d.arrayLen > INT_MAX
    \/ /\ query.ms = "msiNcGetArrayLen" /\ query.name = "item"
       /\ ~ItemIsVar /\ ItemMeant.arrayLen > INT_MAX

\* However a rule has come by an NcInqOut, a list of groups or an item, and
\* wherever the file is, what the msiNcGet... find in it is what that file has,
\* text as far as there is room for it, and they find all of it; the agent does
\* not end.  Only Beyond, TooShort and Misled are different.
AnswerExact == pc = "idle" /\ AboutFile =>
    CASE ret = "ok" -> Beyond \/ Misled \/ (~IsNull("out") /\ param.out.val[1] \in Facts)
      [] ret = "error" -> Beyond \/ TooShort \/ Facts = {}
      [] OTHER -> Beyond

\* The part of each dimension of v that the last call is about: from, to and
\* whether it asked for every element.
Part(v, j) ==
    IF query.ms = "msiNcGetVarsByType"
    THEN [from |-> query.bounds.start[j], to |-> query.bounds.start[j] + query.bounds.count[j] - 1,
          every |-> query.bounds.stride[j] <= 1]
    ELSE LET d == Source("vars").dim[v.dimId[j] + 1]
             about == {k \in DOMAIN query.conds : query.conds[k].name = d.name}
         IN  IF about = {} THEN [from |-> 0, to |-> d.arrayLen - 1, every |-> TRUE]
             ELSE LET c == query.conds[CHOOSE k \in about : \A i \in about : k <= i]
                  IN  [from |-> c.start, to |-> c.end, every |-> c.stride <= 1]

\* A rule that reads a variable of a file it has inquired about, with lists or
\* with arrays it has put together element by element (msiNcGetVarsByType), or a
\* subset by the names of dimensions (msiNcSubsetVar), gets the values of the
\* cells it asked for, in their order, and no other.  (With a stride it does not:
\* StrideHonoured of NcDump.)
ReadsAsked ==
    /\ pc = "idle" /\ ret = "ok" /\ query.ms \in {"msiNcGetVarsByType", "msiNcSubsetVar"}
    /\ files.inq = files.vars
    => LET v == CHOOSE u \in ToSet(Source("vars").var) : u.name = query.name
           p == [j \in DOMAIN v.shape |-> Part(v, j)]
           cells == {c \in DOMAIN v.data : \A j \in DOMAIN c : c[j] \in p[j].from .. p[j].to}
           buf == Array("vars").buf
       IN  /\ \A x \in DOMAIN query.bounds : Len(query.bounds[x]) = Len(v.shape)
           /\ (\A j \in DOMAIN p : p[j].every) =>
            /\ Len(buf) = Cardinality(cells)
            /\ \A c \in cells : buf[Cardinality({d \in cells : Before(d, c)}) + 1] = v.data[c]

\* A microservice that calls a handler always returns to its rule, also if calls
\* of the library, the host of the file or the answer fail.
CallReturns == (call # None) ~> (call = None)
=============================================================================
