------------------------------- MODULE NcDesc -------------------------------
(***************************************************************************)
(* The descriptor table of one iRODS agent and what its entries stand for. *)
(*                                                                         *)
(* An agent is one single-threaded process that serves one client          *)
(* connection, so a handler is one atomic step.  rsNcOpen, rsNcCreate and  *)
(* rsNcOpenGroup fill an entry of the L1 table (L1desc) and answer its     *)
(* index as the "ncid"; rsNcClose empties it.  Behind an entry stands a    *)
(* file opened in the netCDF library of this host ("here") or of another   *)
(* server of the zone ("peer"), or an ncid of another zone.                *)
(*                                                                         *)
(* The L1 table's allocator, the catalogue, host resolution and the netCDF *)
(* library are outside the repository: each may answer whatever the        *)
(* handlers are prepared for.                                              *)
(***************************************************************************)
EXTENDS Integers, FiniteSets

CONSTANTS
    NUM_L1_DESC,  \* size of the L1 table
    Slots,        \* the indices the allocator hands out
    Objects,      \* data objects
    Place,        \* Place[o]: "here", "peer" or "zone", where o is stored
    Collections,  \* collections that hold an aggregate
    Groups,       \* full group paths; RootGroup names a file's root group
    RootGroup,
    FileIds,      \* ids the netCDF library of one host hands out (bounds it)
    ZoneIds,      \* ncids another zone hands out (bounds it)
    None          \* the zero of every field of a freed entry

Files == {"here", "peer"} \X FileIds

\* An ncid of the netCDF library names a group of an open file.
NcHandles == Files \X (Groups \union {RootGroup})

ASSUME TableAssumption ==
    /\ NUM_L1_DESC \in Nat
    /\ Slots \subseteq 2 .. NUM_L1_DESC - 1
    /\ Place \in [Objects -> {"here", "peer", "zone"}]
    /\ Groups \cap Objects = {}
    /\ None \notin Objects \union Groups \union NcHandles \union ZoneIds

VARIABLES
    l1desc,   \* the L1 table
    ncfiles,  \* files open in the netCDF libraries, <<host, id>>
    zoneNcids,\* ncids open in the other zone on behalf of this agent
    agent,    \* "up", or "faulted" once it has followed a bad pointer
    reply,    \* the answer to the last request
    held      \* ncids answered to the client and not yet passed to rsNcClose

vars == <<l1desc, ncfiles, zoneNcids, agent, reply, held>>

Desc == [inuseFlag : BOOLEAN,
         oprType : {"none", "NC_OPEN", "NC_CREATE", "NC_OPEN_GROUP"},
         dataObjInfo : Objects \union Groups \union {None},
         l3descInx : NcHandles \union {None},
         remoteL1descInx : ZoneIds \union {None},
         pluginData : {"empty", "openedAggInfo_t*"}]

FreeDesc == [inuseFlag |-> FALSE, oprType |-> "none", dataObjInfo |-> None,
             l3descInx |-> None, remoteL1descInx |-> None, pluginData |-> "empty"]

Statuses == {"ok", "error", "hostError", "noDescriptor", "outOfRange", "badDescriptor"}

Replies == [op : {"none", "open", "create", "openGroup", "close"},
            ncid : Int, status : Statuses]

TypeOK ==
    /\ l1desc \in [Slots -> Desc]
    /\ ncfiles \subseteq Files
    /\ zoneNcids \subseteq ZoneIds
    /\ agent \in {"up", "faulted"}
    /\ reply \in Replies
    /\ held \subseteq Slots

Init ==
    /\ l1desc = [s \in Slots |-> FreeDesc]
    /\ ncfiles = {}
    /\ zoneNcids = {}
    /\ agent = "up"
    /\ reply = [op |-> "none", ncid |-> 0, status |-> "ok"]
    /\ held = {}
-----------------------------------------------------------------------------
(* The table and the library. *)

InUse == {s \in Slots : l1desc[s].inuseFlag}
FreeSlots == Slots \ InUse

\* The entry of a data object opened with NO_OPEN_FLAG_KW, that is before its
\* file is; with its file opened; and of a data object of another zone.
ObjDesc(o) == [FreeDesc EXCEPT !.inuseFlag = TRUE, !.dataObjInfo = o]

FileDesc(o, f, opr) == [FreeDesc EXCEPT !.inuseFlag = TRUE, !.dataObjInfo = o,
                                        !.l3descInx = <<f, RootGroup>>, !.oprType = opr]

ZoneDesc(o, z, opr) == [FreeDesc EXCEPT !.inuseFlag = TRUE, !.dataObjInfo = o,
                                        !.remoteL1descInx = z, !.oprType = opr]

CollDesc == [FreeDesc EXCEPT !.inuseFlag = TRUE, !.pluginData = "openedAggInfo_t*"]

\* A group's: dataObjInfo is a new one that holds nothing but the group's name,
\* and oprType is left at zero.
GroupDesc(f, g) == [FreeDesc EXCEPT !.inuseFlag = TRUE, !.dataObjInfo = g,
                                    !.l3descInx = <<f, g>>]

FileOf(d) == d.l3descInx[1]

\* boost::any_cast<openedAggInfo_t>(&pluginData): the only value ever stored is
\* an openedAggInfo_t*, whose type is another one, so the cast answers NULL.
AnyCastAggInfo(d) == IF d.pluginData = "openedAggInfo_t" THEN "openedAggInfo_t" ELSE None

Answer(op, n, st) == reply' = [op |-> op, ncid |-> n, status |-> st]

Refuse(op, st) ==
    /\ Answer(op, -1, st)
    /\ UNCHANGED <<l1desc, ncfiles, zoneNcids, agent, held>>

Give(op, s) == Answer(op, s, "ok") /\ held' = held \union {s}

\* A handler that indexes the table with the allocator's negative answer, or
\* dereferences a null or freed pointer, ends the agent.
Fault(op) ==
    /\ agent' = "faulted"
    /\ Answer(op, -1, "error")

\* The file is opened on the object's host, by nc_open or nc_create here or
\* through the peer's handler, which calls it for NATIVE_NETCDF_CALL_KW.
SetFileDesc(op, opr, o) ==
    /\ \E s \in FreeSlots, f \in Files \ ncfiles :
        /\ f[1] = Place[o]
        /\ l1desc' = [l1desc EXCEPT ![s] = FileDesc(o, f, opr)]
        /\ ncfiles' = ncfiles \union {f}
        /\ Give(op, s)
    /\ UNCHANGED <<zoneNcids, agent>>

\* The object's host cannot be resolved or connected to: the handler returns
\* with the entry still in use.
LeaveDesc(op, o) ==
    /\ \E s \in FreeSlots : l1desc' = [l1desc EXCEPT ![s] = ObjDesc(o)]
    /\ Answer(op, -1, "hostError")
    /\ UNCHANGED <<ncfiles, zoneNcids, agent, held>>

\* Mutant: the allocator's negative answer is passed on as the ncid.
SetZoneDescUnchecked(op, o, z, table, opr) ==
    /\ zoneNcids' = zoneNcids \union {z}
    /\ IF FreeSlots = {}
       THEN Give(op, -1) /\ UNCHANGED l1desc
       ELSE \E s \in FreeSlots :
                /\ l1desc' = [table EXCEPT ![s] = ZoneDesc(o, z, opr)]
                /\ Give(op, s)
    /\ UNCHANGED <<ncfiles, agent>>

\* allocAndSetL1descForZoneOpr is not checked: with a full table the handler
\* writes oprType through a negative index.  table is the L1 table but for the
\* new entry.
SetZoneDesc(op, o, z, table, opr) ==
    /\ zoneNcids' = zoneNcids \union {z}
    /\ IF FreeSlots = {}
       THEN Fault(op) /\ UNCHANGED <<l1desc, held>>
       ELSE /\ \E s \in FreeSlots :
                /\ l1desc' = [table EXCEPT ![s] = ZoneDesc(o, z, opr)]
                /\ Give(op, s)
            /\ UNCHANGED agent
    /\ UNCHANGED ncfiles
-----------------------------------------------------------------------------
(* rsNcOpen *)

\* The path's zone is unreachable, DATA_OBJ_OPEN refuses, or the table is full.
NcOpenRefused == Refuse("open", "error")

NcOpenDataObj(o) == Place[o] # "zone" /\ SetFileDesc("open", "NC_OPEN", o)

\* Mutant: the entry is not freed.
NcOpenLibraryErrorLeaves(o) ==
    /\ Place[o] # "zone"
    /\ \E s \in FreeSlots : l1desc' = [l1desc EXCEPT ![s] = ObjDesc(o)]
    /\ Answer("open", -1, "error")
    /\ UNCHANGED <<ncfiles, zoneNcids, agent, held>>

\* nc_open, here or through the peer's rcNcOpen, fails: the entry is freed again.
NcOpenLibraryError(o) == Place[o] # "zone" /\ FreeSlots # {} /\ Refuse("open", "error")

NcOpenHostError(o) == Place[o] # "zone" /\ LeaveDesc("open", o)

NcOpenZone(o) ==
    /\ Place[o] = "zone"
    /\ \E z \in ZoneIds \ zoneNcids : SetZoneDesc("open", o, z, l1desc, "NC_OPEN")

\* A collection whose .aggInfo can be read.  _rsNcOpenColl stores a pointer in
\* pluginData, openAggrFile's any_cast of it answers NULL, so that it goes on
\* with a fresh openedAggInfo whose ncAggInfo is NULL and dereferences it.
NcOpenColl(c) ==
    /\ \E s \in FreeSlots :
        /\ l1desc' = [l1desc EXCEPT ![s] = CollDesc]
        /\ AnyCastAggInfo(CollDesc) = None
    /\ Fault("open")
    /\ UNCHANGED <<ncfiles, zoneNcids, held>>

NcOpenCollNoSlot(c) == FreeSlots = {} /\ Refuse("open", "noDescriptor")

rsNcOpen ==
    \/ NcOpenRefused
    \/ \E o \in Objects : \/ NcOpenDataObj(o)
                          \/ NcOpenLibraryError(o)
                          \/ NcOpenHostError(o)
                          \/ NcOpenZone(o)
    \/ \E c \in Collections : NcOpenColl(c) \/ NcOpenCollNoSlot(c)
-----------------------------------------------------------------------------
(* rsNcCreate *)

NcCreateRefused == Refuse("create", "error")

NcCreateDataObj(o) == Place[o] # "zone" /\ SetFileDesc("create", "NC_CREATE", o)

NcCreateLibraryError(o) == Place[o] # "zone" /\ FreeSlots # {} /\ Refuse("create", "error")

NcCreateHostError(o) == Place[o] # "zone" /\ LeaveDesc("create", o)

\* svrRegDataObj fails after nc_create: NC_CLOSE_AN closes the new file or fails
\* to, and unless it could not resolve the host it has freed the entry whose
\* dataObjInfo l3Unlink and the log are then given; the agent may fault on it.
NcCreateRegisterError(o) ==
    /\ Place[o] # "zone"
    /\ FreeSlots # {}
    /\ \E f \in Files \ ncfiles :
        /\ f[1] = Place[o]
        /\ ncfiles' \in {ncfiles, ncfiles \union {f}}
    /\ \/ Fault("create")
       \/ Answer("create", -1, "error") /\ UNCHANGED agent
    /\ UNCHANGED <<l1desc, zoneNcids, held>>

NcCreateZone(o) ==
    /\ Place[o] = "zone"
    /\ \E z \in ZoneIds \ zoneNcids : SetZoneDesc("create", o, z, l1desc, "NC_CREATE")

rsNcCreate ==
    \/ NcCreateRefused
    \/ \E o \in Objects : \/ NcCreateDataObj(o)
                          \/ NcCreateLibraryError(o)
                          \/ NcCreateHostError(o)
                          \/ NcCreateRegisterError(o)
                          \/ NcCreateZone(o)
-----------------------------------------------------------------------------
(* rsNcOpenGroup *)

NcOpenGroupRefused(n) ==
    \/ n \notin 2 .. NUM_L1_DESC - 1 /\ Refuse("openGroup", "outOfRange")
    \/ n \in (2 .. NUM_L1_DESC - 1) \ InUse /\ Refuse("openGroup", "badDescriptor")

\* Mutant: on an error the entry the group was to be opened from is freed.
NcOpenGroupErrorFrees(n) ==
    /\ n \in InUse
    /\ l1desc' = [l1desc EXCEPT ![n] = FreeDesc]
    /\ Answer("openGroup", -1, "error")
    /\ UNCHANGED <<ncfiles, zoneNcids, agent, held>>

\* The other zone refuses, nc_inq_grp_full_ncid fails, here or on the peer, or
\* the host of the entry's dataObjInfo cannot be resolved: nothing has changed.
NcOpenGroupError(n) ==
    /\ n \in InUse
    /\ \/ Refuse("openGroup", "error")
       \/ l1desc[n].remoteL1descInx = None /\ Refuse("openGroup", "hostError")

\* Mutant: oprType is set in the new entry only.
NcOpenGroupLocalOwn(n, g) ==
    /\ n \in InUse
    /\ l1desc[n].remoteL1descInx = None
    /\ l1desc[n].l3descInx # None
    /\ \E s \in FreeSlots :
        /\ l1desc' = [l1desc EXCEPT ![s] = [GroupDesc(FileOf(l1desc[n]), g)
                                            EXCEPT !.oprType = "NC_OPEN_GROUP"]]
        /\ Give("openGroup", s)
    /\ UNCHANGED <<ncfiles, zoneNcids, agent>>

\* oprType is set in the entry the group was opened from, not in the new one.
\* allocL1desc is not checked: a full table faults.
NcOpenGroupLocal(n, g) ==
    /\ n \in InUse
    /\ l1desc[n].remoteL1descInx = None
    /\ l1desc[n].l3descInx # None
    /\ FileOf(l1desc[n]) \in ncfiles
    /\ IF FreeSlots = {}
       THEN Fault("openGroup") /\ UNCHANGED <<l1desc, held>>
       ELSE /\ \E s \in FreeSlots :
                /\ l1desc' = [l1desc EXCEPT ![n].oprType = "NC_OPEN_GROUP",
                                            ![s] = GroupDesc(FileOf(l1desc[n]), g)]
                /\ Give("openGroup", s)
            /\ UNCHANGED agent
    /\ UNCHANGED <<ncfiles, zoneNcids>>

\* Mutant: the new entry takes the ncid it was opened from.
NcOpenGroupZoneShares(n) ==
    /\ n \in InUse
    /\ l1desc[n].remoteL1descInx \in zoneNcids
    /\ SetZoneDesc("openGroup", l1desc[n].dataObjInfo, l1desc[n].remoteL1descInx,
                   [l1desc EXCEPT ![n].oprType = "NC_OPEN_GROUP"], "none")

NcOpenGroupZone(n) ==
    /\ n \in InUse
    /\ l1desc[n].remoteL1descInx \in zoneNcids
    /\ \E z \in ZoneIds \ zoneNcids :
        SetZoneDesc("openGroup", l1desc[n].dataObjInfo, z,
                    [l1desc EXCEPT ![n].oprType = "NC_OPEN_GROUP"], "none")

rsNcOpenGroup(n) ==
    \/ NcOpenGroupRefused(n)
    \/ NcOpenGroupError(n)
    \/ NcOpenGroupZone(n)
    \/ \E g \in Groups : NcOpenGroupLocal(n, g)
-----------------------------------------------------------------------------
(* rsNcClose *)

Free(n) == l1desc' = [l1desc EXCEPT ![n] = FreeDesc]

\* The client gives the ncid up, whatever the answer.
CloseAnswer(n, st) == Answer("close", n, st) /\ held' = held \ {n}

NcCloseRefused(n) ==
    /\ \/ n \notin 2 .. NUM_L1_DESC - 1 /\ CloseAnswer(n, "outOfRange")
       \/ n \in (2 .. NUM_L1_DESC - 1) \ InUse /\ CloseAnswer(n, "badDescriptor")
    /\ UNCHANGED <<l1desc, ncfiles, zoneNcids, agent>>

\* The entry is freed whatever the other zone answers.
NcCloseZone(n) ==
    /\ l1desc[n].remoteL1descInx # None
    /\ \/ zoneNcids' = zoneNcids \ {l1desc[n].remoteL1descInx} /\ CloseAnswer(n, "ok")
       \/ UNCHANGED zoneNcids /\ CloseAnswer(n, "error")
    /\ Free(n)
    /\ UNCHANGED <<ncfiles, agent>>

NcCloseGroup(n) ==
    /\ l1desc[n].remoteL1descInx = None
    /\ l1desc[n].oprType = "NC_OPEN_GROUP"
    /\ Free(n)
    /\ CloseAnswer(n, "ok")
    /\ UNCHANGED <<ncfiles, zoneNcids, agent>>

\* Mutant: the status of nc_close is lost.
ncCloseDataObjIgnores(n) ==
    /\ Free(n)
    /\ ncfiles' \in {ncfiles, ncfiles \ {FileOf(l1desc[n])}}
    /\ CloseAnswer(n, "ok")
    /\ UNCHANGED <<zoneNcids, agent>>

\* The host is resolved and nc_close is called there.  It closes a file given
\* the ncid of its root group and fails on any other; the library may fail too.
\* rsDataObjClose then frees the entry, with either status.
ncCloseDataObj(n) ==
    /\ \/ UNCHANGED <<l1desc, ncfiles>> /\ CloseAnswer(n, "hostError")
       \/ Free(n) /\ UNCHANGED ncfiles /\ CloseAnswer(n, "error")
       \/ /\ l1desc[n].l3descInx \in ncfiles \X {RootGroup}
          /\ ncfiles' = ncfiles \ {FileOf(l1desc[n])}
          /\ Free(n)
          /\ \E st \in {"ok", "error"} : CloseAnswer(n, st)
    /\ UNCHANGED <<zoneNcids, agent>>

\* The branch for an aggregate (ncCloseColl) asks for AnyCastAggInfo(d) # None.
NcCloseLocal(n) ==
    /\ l1desc[n].remoteL1descInx = None
    /\ l1desc[n].oprType # "NC_OPEN_GROUP"
    /\ AnyCastAggInfo(l1desc[n]) = None
    /\ ncCloseDataObj(n)

rsNcClose(n) ==
    \/ NcCloseRefused(n)
    \/ n \in InUse /\ (NcCloseZone(n) \/ NcCloseGroup(n) \/ NcCloseLocal(n))
-----------------------------------------------------------------------------
\* The agent exits, after a fault or with its connection, and the client
\* connects to a new one: the table and the libraries' files go with it.
Reconnect ==
    /\ l1desc' = [s \in Slots |-> FreeDesc]
    /\ ncfiles' = {}
    /\ zoneNcids' = {}
    /\ agent' = "up"
    /\ Answer("none", 0, "ok")
    /\ held' = {}

\* What a client may pass as an ncid, in range or one beyond it.
Ncids == 1 .. NUM_L1_DESC

Request ==
    /\ agent = "up"
    /\ \/ rsNcOpen
       \/ rsNcCreate
       \/ \E n \in Ncids : rsNcOpenGroup(n) \/ rsNcClose(n)

Next == Request \/ Reconnect

Spec == Init /\ [][Next]_vars
-----------------------------------------------------------------------------
(* Properties *)

Named(f) == \E s \in InUse : l1desc[s].l3descInx # None /\ FileOf(l1desc[s]) = f

\* Every ncid the client holds is an entry in use: no request of the client, on
\* another ncid or failing halfway, frees an entry under it.
HeldInUse == held \subseteq InUse

\* Every entry stands for a file that is still open in the library of its host,
\* or an ncid still open in the other zone: the files of the entries a group
\* was opened from stay open as long as an entry of the file or its groups does.
HandlesLive ==
    \A s \in InUse :
        /\ l1desc[s].l3descInx # None => FileOf(l1desc[s]) \in ncfiles
        /\ l1desc[s].remoteL1descInx # None => l1desc[s].remoteL1descInx \in zoneNcids

\* No two entries stand for one ncid of the other zone, and only entries of one
\* group of one file for the same ncid of the library, so that closing an ncid
\* cannot close what another one reads.
OneOwner ==
    \A s, t \in InUse : s # t =>
        /\ \/ l1desc[s].remoteL1descInx # l1desc[t].remoteL1descInx
           \/ l1desc[s].remoteL1descInx = None
        /\ \/ l1desc[s].l3descInx # l1desc[t].l3descInx
           \/ l1desc[s].l3descInx = None
           \/ l1desc[s].dataObjInfo \in Groups

\* An entry becomes unreachable for the client, in use and not held, only in a
\* request that answered that the object's host could not be resolved, or that
\* ended the agent (rcNcOpen.cpp:127-129, rsNcCreate.cpp:84-86,
\* rsNcClose.cpp:104-106).
SlotLeakIsHostError ==
    [][\A s \in (InUse \ held)' :
        \/ s \in InUse \ held
        \/ reply'.status = "hostError"
        \/ agent' = "faulted"]_vars

\* A file is left open with no entry that names it only by a request that
\* answered an error, or by closing an entry a group was opened from.
FileLeakIsAnswered ==
    [][\A f \in ncfiles' :
        \/ Named(f)'
        \/ f \in ncfiles /\ ~Named(f)
        \/ reply'.status # "ok"
        \/ /\ reply'.op = "close"
           /\ l1desc[reply'.ncid].oprType = "NC_OPEN_GROUP"]_vars

\* rcNcClose is "equivalent to nc_close" (ncClose.hpp:39): when closing a data
\* object's ncid answers ok, its file is closed.
CloseReleasesFile ==
    [][reply' # reply /\ reply'.op = "close" /\ reply'.status = "ok" =>
        LET d == l1desc[reply'.ncid]
        IN  d.dataObjInfo \in Objects /\ d.l3descInx # None => FileOf(d) \notin ncfiles']_vars
=============================================================================
