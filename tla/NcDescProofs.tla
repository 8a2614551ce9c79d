---------------------------- MODULE NcDescProofs ----------------------------
(***************************************************************************)
(* Theorems about the descriptor table, for a table, an object set and     *)
(* libraries of any size.                                                  *)
(***************************************************************************)
EXTENDS NcDesc, TLAPS

\* An entry that names an ncid of the library is a data object's, on the root
\* group, or a group's; an entry of the other zone names none.
EntryShape ==
    \A s \in InUse :
        /\ \/ l1desc[s].l3descInx = None
           \/ l1desc[s].dataObjInfo \in Objects /\ l1desc[s].l3descInx[2] = RootGroup
           \/ l1desc[s].dataObjInfo \in Groups /\ l1desc[s].l3descInx[2] \in Groups
        /\ l1desc[s].remoteL1descInx # None =>
            l1desc[s].l3descInx = None /\ l1desc[s].dataObjInfo \in Objects

\* While a group of a file is open, the entry the file was opened with is
\* marked, so that closing it does not reach nc_close.
GroupsMarked ==
    \A s, t \in InUse :
        /\ l1desc[s].l3descInx # None
        /\ l1desc[t].l3descInx # None
        /\ FileOf(l1desc[s]) = FileOf(l1desc[t])
        /\ l1desc[s].dataObjInfo \in Objects
        /\ l1desc[t].dataObjInfo \in Groups
        => l1desc[s].oprType = "NC_OPEN_GROUP"

DescInv ==
    /\ TypeOK
    /\ HeldInUse
    /\ HandlesLive
    /\ OneOwner
    /\ EntryShape
    /\ GroupsMarked
-----------------------------------------------------------------------------
(* The entries, and the answers. *)

LEMMA Entries ==
    /\ FreeDesc \in Desc
    /\ \A o \in Objects : ObjDesc(o) \in Desc
    /\ \A o \in Objects, f \in Files, opr \in {"NC_OPEN", "NC_CREATE"} :
        FileDesc(o, f, opr) \in Desc
    /\ \A o \in Objects, z \in ZoneIds, opr \in {"none", "NC_OPEN", "NC_CREATE"} :
        ZoneDesc(o, z, opr) \in Desc
    /\ CollDesc \in Desc
    /\ \A f \in Files, g \in Groups : GroupDesc(f, g) \in Desc
<1>1. \A f \in Files, g \in Groups \union {RootGroup} : <<f, g>> \in NcHandles
    BY DEF NcHandles
<1> QED
    BY <1>1 DEF FreeDesc, ObjDesc, FileDesc, ZoneDesc, CollDesc, GroupDesc, Desc

LEMMA Numbers == Slots \subseteq Int /\ -1 \in Int /\ Ncids \subseteq Int
BY TableAssumption DEF Ncids

Ops == {"none", "open", "create", "openGroup", "close"}

LEMMA AnswerType ==
    ASSUME NEW op \in Ops, NEW n \in Int, NEW st \in Statuses, Answer(op, n, st)
    PROVE  reply' \in Replies
BY DEF Answer, Replies, Ops

\* A request that changes no more than the answer and what the client holds.
LEMMA NothingChanges ==
    ASSUME DescInv, UNCHANGED <<l1desc, ncfiles, zoneNcids, agent>>,
           reply' \in Replies, held' \subseteq held
    PROVE  DescInv'
<1>1. InUse' = InUse
    BY DEF InUse
<1> QED
    BY <1>1 DEF DescInv, TypeOK, HeldInUse, HandlesLive, OneOwner, EntryShape,
                GroupsMarked, FileOf

LEMMA RefuseInv ==
    ASSUME DescInv, NEW op \in Ops, NEW st \in Statuses, Refuse(op, st)
    PROVE  DescInv'
BY NothingChanges, AnswerType, Numbers DEF Refuse

\* The table, some of its entries marked NC_OPEN_GROUP: the mark breaks
\* nothing, it only keeps ncCloseDataObj from the entry.
Marks(table) ==
    /\ table \in [Slots -> Desc]
    /\ \A t \in Slots :
        /\ table[t].inuseFlag = l1desc[t].inuseFlag
        /\ table[t].l3descInx = l1desc[t].l3descInx
        /\ table[t].remoteL1descInx = l1desc[t].remoteL1descInx
        /\ table[t].dataObjInfo = l1desc[t].dataObjInfo
        /\ l1desc[t].oprType = "NC_OPEN_GROUP" => table[t].oprType = "NC_OPEN_GROUP"

LEMMA MarkInv ==
    ASSUME DescInv
    PROVE  /\ Marks(l1desc)
           /\ \A n \in InUse : Marks([l1desc EXCEPT ![n].oprType = "NC_OPEN_GROUP"])
<1>1. l1desc \in [Slots -> Desc] /\ InUse \subseteq Slots
    BY DEF DescInv, TypeOK, InUse
<1>2. \A t \in Slots : l1desc[t] \in Desc
    BY <1>1
<1> QED
    BY <1>1, <1>2 DEF Marks, Desc

\* A free entry is filled with one that neither shares an ncid nor names a
\* file that is not open.
LEMMA FillInv ==
    ASSUME DescInv,
           NEW s \in FreeSlots, NEW d \in Desc, NEW table,
           d.inuseFlag, Marks(table),
           l1desc' = [table EXCEPT ![s] = d],
           ncfiles \subseteq ncfiles', ncfiles' \subseteq Files,
           zoneNcids \subseteq zoneNcids', zoneNcids' \subseteq ZoneIds,
           agent' \in {"up", "faulted"}, reply' \in Replies,
           held' \subseteq held \union {s},
           d.l3descInx # None =>
                /\ FileOf(d) \in ncfiles' \ ncfiles
                /\ d.dataObjInfo \in Objects
                /\ d.l3descInx[2] = RootGroup
                /\ d.remoteL1descInx = None,
           d.remoteL1descInx # None =>
                /\ d.remoteL1descInx \in zoneNcids' \ zoneNcids
                /\ d.dataObjInfo \in Objects
    PROVE  DescInv'
<1>1. /\ s \in Slots /\ s \notin InUse
      /\ l1desc \in [Slots -> Desc]
    BY DEF FreeSlots, DescInv, TypeOK
<1>2. /\ InUse' = InUse \union {s}
      /\ l1desc'[s] = d
      /\ \A t \in InUse :
            /\ t \in Slots /\ t # s
            /\ l1desc'[t].l3descInx = l1desc[t].l3descInx
            /\ l1desc'[t].remoteL1descInx = l1desc[t].remoteL1descInx
            /\ l1desc'[t].dataObjInfo = l1desc[t].dataObjInfo
            /\ l1desc[t].oprType = "NC_OPEN_GROUP" => l1desc'[t].oprType = "NC_OPEN_GROUP"
    BY <1>1 DEF InUse, Marks
<1>3. TypeOK'
    BY <1>1 DEF DescInv, TypeOK, Marks
<1>4. HeldInUse'
    BY <1>2 DEF DescInv, HeldInUse
<1>5. HandlesLive'
    BY <1>2 DEF DescInv, HandlesLive, FileOf
<1>6. \A t \in InUse :
        /\ l1desc[t].l3descInx # None => FileOf(l1desc[t]) \in ncfiles
        /\ l1desc[t].remoteL1descInx # None => l1desc[t].remoteL1descInx \in zoneNcids
    BY DEF DescInv, HandlesLive
<1>7. OneOwner'
    BY <1>2, <1>6 DEF DescInv, OneOwner, FileOf
<1>8. EntryShape'
    BY <1>2 DEF DescInv, EntryShape
<1>9. d.l3descInx # None => d.dataObjInfo \notin Groups
    BY TableAssumption
<1>10. GroupsMarked'
    BY <1>2, <1>6, <1>9 DEF DescInv, GroupsMarked, FileOf
<1> QED
    BY <1>3, <1>4, <1>5, <1>7, <1>8, <1>10 DEF DescInv

LEMMA SetFileDescInv ==
    ASSUME DescInv, NEW op \in Ops, NEW opr \in {"NC_OPEN", "NC_CREATE"},
           NEW o \in Objects, SetFileDesc(op, opr, o)
    PROVE  DescInv'
<1>1. PICK s \in FreeSlots, f \in Files \ ncfiles :
        /\ l1desc' = [l1desc EXCEPT ![s] = FileDesc(o, f, opr)]
        /\ ncfiles' = ncfiles \union {f}
        /\ Give(op, s)
    BY DEF SetFileDesc
<1> DEFINE d == FileDesc(o, f, opr)
<1>2. d \in Desc
    BY Entries
<1>3. /\ d.inuseFlag
      /\ d.l3descInx = <<f, RootGroup>> /\ FileOf(d) = f
      /\ d.dataObjInfo = o
      /\ d.remoteL1descInx = None
    BY DEF FileDesc, FreeDesc, FileOf
<1>4. reply' \in Replies /\ held' \subseteq held \union {s}
    BY <1>1, AnswerType, Numbers DEF Give, Statuses, FreeSlots
<1>5. /\ UNCHANGED <<zoneNcids, agent>>
      /\ ncfiles \subseteq Files /\ zoneNcids \subseteq ZoneIds
      /\ agent \in {"up", "faulted"}
    BY DEF SetFileDesc, DescInv, TypeOK
<1> HIDE DEF d
<1>6. /\ d.l3descInx # None =>
            /\ FileOf(d) \in ncfiles' \ ncfiles
            /\ d.dataObjInfo \in Objects
            /\ d.l3descInx[2] = RootGroup
            /\ d.remoteL1descInx = None
      /\ l1desc' = [l1desc EXCEPT ![s] = d]
    BY <1>1, <1>3 DEF d
<1> QED
    BY <1>1, <1>2, <1>3, <1>4, <1>5, <1>6, FillInv, MarkInv

LEMMA LeaveDescInv ==
    ASSUME DescInv, NEW op \in Ops, NEW o \in Objects, LeaveDesc(op, o)
    PROVE  DescInv'
<1>1. PICK s \in FreeSlots : l1desc' = [l1desc EXCEPT ![s] = ObjDesc(o)]
    BY DEF LeaveDesc
<1>2. /\ ObjDesc(o) \in Desc /\ ObjDesc(o).inuseFlag
      /\ ObjDesc(o).l3descInx = None /\ ObjDesc(o).remoteL1descInx = None
    BY Entries DEF ObjDesc, FreeDesc
<1>3. reply' \in Replies /\ UNCHANGED <<ncfiles, zoneNcids, agent, held>>
    BY AnswerType, Numbers DEF LeaveDesc, Statuses
<1>4. /\ ncfiles \subseteq Files /\ zoneNcids \subseteq ZoneIds
      /\ agent \in {"up", "faulted"}
    BY DEF DescInv, TypeOK
<1> QED
    BY <1>1, <1>2, <1>3, <1>4, FillInv, MarkInv

LEMMA OpenCollInv ==
    ASSUME DescInv, NEW c \in Collections, NcOpenColl(c)
    PROVE  DescInv'
<1>1. PICK s \in FreeSlots : l1desc' = [l1desc EXCEPT ![s] = CollDesc]
    BY DEF NcOpenColl
<1>2. /\ CollDesc \in Desc /\ CollDesc.inuseFlag
      /\ CollDesc.l3descInx = None /\ CollDesc.remoteL1descInx = None
    BY Entries DEF CollDesc, FreeDesc
<1>3. reply' \in Replies /\ agent' = "faulted" /\ UNCHANGED <<ncfiles, zoneNcids, held>>
    BY AnswerType, Numbers DEF NcOpenColl, Fault, Statuses, Ops
<1>4. ncfiles \subseteq Files /\ zoneNcids \subseteq ZoneIds
    BY DEF DescInv, TypeOK
<1> QED
    BY <1>1, <1>2, <1>3, <1>4, FillInv, MarkInv

LEMMA SetZoneDescInv ==
    ASSUME DescInv, NEW op \in Ops, NEW opr \in {"none", "NC_OPEN", "NC_CREATE"},
           NEW o \in Objects, NEW z \in ZoneIds \ zoneNcids,
           NEW table, Marks(table), SetZoneDesc(op, o, z, table, opr)
    PROVE  DescInv'
<1>1. /\ zoneNcids' = zoneNcids \union {z} /\ UNCHANGED ncfiles
      /\ ncfiles \subseteq Files /\ zoneNcids \subseteq ZoneIds
      /\ agent \in {"up", "faulted"}
    BY DEF SetZoneDesc, DescInv, TypeOK
<1>2. CASE FreeSlots = {}
    <2>1. UNCHANGED <<l1desc, held>> /\ agent' = "faulted" /\ reply' \in Replies
        BY <1>2, AnswerType, Numbers DEF SetZoneDesc, Fault, Statuses
    <2>2. InUse' = InUse
        BY <2>1 DEF InUse
    <2> QED
        BY <1>1, <2>1, <2>2 DEF DescInv, TypeOK, HeldInUse, HandlesLive, OneOwner,
                                EntryShape, GroupsMarked, FileOf
<1>3. CASE FreeSlots # {}
    <2>1. PICK s \in FreeSlots : /\ l1desc' = [table EXCEPT ![s] = ZoneDesc(o, z, opr)]
                                 /\ Give(op, s)
        BY <1>3 DEF SetZoneDesc
    <2>2. /\ ZoneDesc(o, z, opr) \in Desc /\ ZoneDesc(o, z, opr).inuseFlag
          /\ ZoneDesc(o, z, opr).l3descInx = None
          /\ ZoneDesc(o, z, opr).remoteL1descInx = z
          /\ ZoneDesc(o, z, opr).dataObjInfo = o
        BY Entries DEF ZoneDesc, FreeDesc
    <2>3. reply' \in Replies /\ held' \subseteq held \union {s} /\ UNCHANGED agent
        BY <1>3, <2>1, AnswerType, Numbers DEF SetZoneDesc, Give, Statuses, FreeSlots
    <2> QED
        BY <1>1, <2>1, <2>2, <2>3, FillInv
<1> QED
    BY <1>2, <1>3

LEMMA OpenGroupLocalInv ==
    ASSUME RootGroup \notin Groups, DescInv,
           NEW n \in Ncids, NEW g \in Groups, NcOpenGroupLocal(n, g)
    PROVE  DescInv'
<1>1. /\ n \in InUse /\ n \in Slots
      /\ l1desc[n].remoteL1descInx = None
      /\ l1desc[n].l3descInx # None
      /\ FileOf(l1desc[n]) \in ncfiles
      /\ l1desc \in [Slots -> Desc]
      /\ UNCHANGED <<ncfiles, zoneNcids>>
    BY DEF NcOpenGroupLocal, InUse, DescInv, TypeOK
<1>2. CASE FreeSlots = {}
    <2>1. UNCHANGED <<l1desc, held>> /\ agent' = "faulted" /\ reply' \in Replies
        BY <1>2, AnswerType, Numbers DEF NcOpenGroupLocal, Fault, Statuses, Ops
    <2>2. InUse' = InUse
        BY <2>1 DEF InUse
    <2> QED
        BY <1>1, <2>1, <2>2 DEF DescInv, TypeOK, HeldInUse, HandlesLive, OneOwner,
                                EntryShape, GroupsMarked, FileOf
<1>3. CASE FreeSlots # {}
    <2> DEFINE f == FileOf(l1desc[n])
               d == GroupDesc(f, g)
               table == [l1desc EXCEPT ![n].oprType = "NC_OPEN_GROUP"]
    <2>1. PICK s \in FreeSlots : l1desc' = [table EXCEPT ![s] = d] /\ Give("openGroup", s)
        BY <1>3 DEF NcOpenGroupLocal
    <2>2. f \in Files
        BY <1>1 DEF DescInv, TypeOK
    <2>3. /\ d \in Desc /\ d.inuseFlag
          /\ d.l3descInx = <<f, g>> /\ FileOf(d) = f
          /\ d.dataObjInfo = g /\ d.remoteL1descInx = None
        BY <2>2, Entries DEF GroupDesc, FreeDesc, FileOf
    <2>4. Marks(table) /\ table[n].oprType = "NC_OPEN_GROUP"
        <3>1. l1desc[n] \in Desc
            BY <1>1
        <3> QED
            BY <1>1, <3>1, MarkInv DEF Desc
    <2>5. s \in Slots /\ s \notin InUse
        BY DEF FreeSlots
    <2> HIDE DEF d, table
    <2>6. /\ InUse' = InUse \union {s}
          /\ l1desc'[s] = d
          /\ \A t \in InUse :
                /\ t \in Slots /\ t # s
                /\ l1desc'[t].l3descInx = l1desc[t].l3descInx
                /\ l1desc'[t].remoteL1descInx = l1desc[t].remoteL1descInx
                /\ l1desc'[t].dataObjInfo = l1desc[t].dataObjInfo
                /\ l1desc[t].oprType = "NC_OPEN_GROUP" => l1desc'[t].oprType = "NC_OPEN_GROUP"
          /\ l1desc'[n].oprType = "NC_OPEN_GROUP"
        BY <1>1, <2>1, <2>3, <2>4, <2>5 DEF InUse, Marks
    <2>7. reply' \in Replies /\ held' = held \union {s} /\ UNCHANGED agent
        BY <1>3, <2>1, <2>5, AnswerType, Numbers DEF NcOpenGroupLocal, Give, Statuses, Ops
    <2>8. TypeOK'
        BY <1>1, <2>1, <2>3, <2>4, <2>5, <2>7 DEF DescInv, TypeOK, Marks
    <2>9. HeldInUse'
        BY <2>6, <2>7 DEF DescInv, HeldInUse
    <2>10. HandlesLive'
        BY <1>1, <2>3, <2>6 DEF DescInv, HandlesLive, FileOf
    <2>11. EntryShape'
        BY <2>3, <2>6 DEF DescInv, EntryShape
    <2>12. OneOwner'
        BY <2>3, <2>6 DEF DescInv, OneOwner, EntryShape
    <2>13. g \notin Objects
        BY TableAssumption
    <2>14. \A t \in InUse :
            /\ l1desc[t].l3descInx # None /\ FileOf(l1desc[t]) = f
            /\ l1desc[t].dataObjInfo \in Objects
            => l1desc'[t].oprType = "NC_OPEN_GROUP"
        <3> SUFFICES ASSUME NEW t \in InUse,
                            l1desc[t].l3descInx # None, FileOf(l1desc[t]) = f,
                            l1desc[t].dataObjInfo \in Objects
                     PROVE  l1desc'[t].oprType = "NC_OPEN_GROUP"
            OBVIOUS
        <3>1. CASE l1desc[n].dataObjInfo \in Groups
            BY <1>1, <2>6, <3>1 DEF DescInv, GroupsMarked
        <3>2. CASE l1desc[n].dataObjInfo \in Objects
            <4>1. /\ l1desc[t].l3descInx \in NcHandles /\ l1desc[t].l3descInx[2] = RootGroup
                  /\ l1desc[n].l3descInx \in NcHandles /\ l1desc[n].l3descInx[2] = RootGroup
                <5>1. l1desc[t] \in Desc /\ l1desc[n] \in Desc
                    BY <1>1, <2>6
                <5> QED
                    BY <5>1, <1>1, <3>2, TableAssumption DEF Desc, DescInv, EntryShape
            <4>2. l1desc[t].l3descInx = l1desc[n].l3descInx
                BY <4>1 DEF NcHandles, FileOf
            <4> QED
                BY <4>2, <1>1, <2>6, <3>2, TableAssumption DEF DescInv, OneOwner
        <3> QED
            BY <1>1, <3>1, <3>2 DEF DescInv, EntryShape
    <2>15. GroupsMarked'
        BY <2>3, <2>6, <2>13, <2>14 DEF DescInv, GroupsMarked, FileOf
    <2> QED
        BY <2>8, <2>9, <2>10, <2>11, <2>12, <2>15 DEF DescInv
<1> QED
    BY <1>2, <1>3

\* An entry in use is freed, and with it at most the ncid or the file that no
\* other entry names.
LEMMA FreeInv ==
    ASSUME DescInv, NEW n \in InUse, Free(n),
           ncfiles' \subseteq ncfiles, zoneNcids' \subseteq zoneNcids,
           UNCHANGED agent, reply' \in Replies, held' = held \ {n},
           \A t \in InUse \ {n} :
                /\ l1desc[t].l3descInx # None => FileOf(l1desc[t]) \in ncfiles'
                /\ l1desc[t].remoteL1descInx # None => l1desc[t].remoteL1descInx \in zoneNcids'
    PROVE  DescInv'
<1>1. n \in Slots /\ l1desc \in [Slots -> Desc] /\ FreeDesc \in Desc
    BY Entries DEF InUse, DescInv, TypeOK
<1>2. InUse' = InUse \ {n} /\ \A t \in InUse \ {n} : l1desc'[t] = l1desc[t]
    BY <1>1 DEF Free, InUse, FreeDesc
<1>3. TypeOK'
    BY <1>1 DEF DescInv, TypeOK, Free
<1>4. HeldInUse' /\ HandlesLive' /\ EntryShape'
    BY <1>2 DEF DescInv, HeldInUse, HandlesLive, EntryShape, FileOf
<1>5. OneOwner' /\ GroupsMarked'
    BY <1>2 DEF DescInv, OneOwner, GroupsMarked, FileOf
<1> QED
    BY <1>3, <1>4, <1>5 DEF DescInv

LEMMA CloseType ==
    ASSUME NEW n \in Ncids, NEW st \in Statuses, CloseAnswer(n, st)
    PROVE  reply' \in Replies /\ held' = held \ {n}
BY AnswerType, Numbers DEF CloseAnswer, Ops

LEMMA CloseZoneInv ==
    ASSUME DescInv, NEW n \in Ncids, n \in InUse, NcCloseZone(n)
    PROVE  DescInv'
<1>1. reply' \in Replies /\ held' = held \ {n}
    BY CloseType DEF NcCloseZone, Statuses
<1>2. \A t \in InUse \ {n} :
        l1desc[t].remoteL1descInx # None =>
            /\ l1desc[t].remoteL1descInx \in zoneNcids
            /\ l1desc[t].remoteL1descInx # l1desc[n].remoteL1descInx
    BY DEF DescInv, HandlesLive, OneOwner
<1>3. /\ Free(n) /\ UNCHANGED <<ncfiles, agent>> /\ zoneNcids' \subseteq zoneNcids
      /\ \A t \in InUse \ {n} :
            /\ l1desc[t].l3descInx # None => FileOf(l1desc[t]) \in ncfiles'
            /\ l1desc[t].remoteL1descInx # None => l1desc[t].remoteL1descInx \in zoneNcids'
    BY <1>2 DEF NcCloseZone, DescInv, HandlesLive
<1> QED
    BY <1>1, <1>3, FreeInv

LEMMA CloseGroupInv ==
    ASSUME DescInv, NEW n \in Ncids, n \in InUse, NcCloseGroup(n)
    PROVE  DescInv'
<1>1. reply' \in Replies /\ held' = held \ {n}
    BY CloseType DEF NcCloseGroup, Statuses
<1>2. /\ Free(n) /\ UNCHANGED <<ncfiles, zoneNcids, agent>>
      /\ \A t \in InUse \ {n} :
            /\ l1desc[t].l3descInx # None => FileOf(l1desc[t]) \in ncfiles'
            /\ l1desc[t].remoteL1descInx # None => l1desc[t].remoteL1descInx \in zoneNcids'
    BY DEF NcCloseGroup, DescInv, HandlesLive
<1> QED
    BY <1>1, <1>2, FreeInv

LEMMA CloseDataObjInv ==
    ASSUME RootGroup \notin Groups, DescInv,
           NEW n \in Ncids, n \in InUse, NcCloseLocal(n)
    PROVE  DescInv'
<1>1. /\ reply' \in Replies /\ held' = held \ {n}
      /\ UNCHANGED <<zoneNcids, agent>>
      /\ l1desc[n].oprType # "NC_OPEN_GROUP"
    BY CloseType DEF NcCloseLocal, ncCloseDataObj, Statuses
<1>2. CASE UNCHANGED <<l1desc, ncfiles>>
    BY <1>1, <1>2, NothingChanges
<1>3. CASE Free(n) /\ UNCHANGED ncfiles
    <2>1. \A t \in InUse \ {n} :
            /\ l1desc[t].l3descInx # None => FileOf(l1desc[t]) \in ncfiles'
            /\ l1desc[t].remoteL1descInx # None => l1desc[t].remoteL1descInx \in zoneNcids'
        BY <1>1, <1>3 DEF DescInv, HandlesLive
    <2> QED
        BY <1>1, <1>3, <2>1, FreeInv
<1>4. CASE /\ l1desc[n].l3descInx \in ncfiles \X {RootGroup}
           /\ ncfiles' = ncfiles \ {FileOf(l1desc[n])}
           /\ Free(n)
    <2>1. /\ n \in Slots
          /\ l1desc[n].l3descInx[2] = RootGroup
          /\ l1desc[n].l3descInx # None
          /\ \A t \in InUse : l1desc[t] \in Desc
        <3>1. None \notin ncfiles \X {RootGroup}
            BY TableAssumption DEF NcHandles, DescInv, TypeOK
        <3> QED
            BY <1>4, <3>1 DEF InUse, DescInv, TypeOK
    <2>2. l1desc[n].dataObjInfo \in Objects
        BY <2>1 DEF DescInv, EntryShape
    <2>3. ASSUME NEW t \in InUse \ {n}, l1desc[t].l3descInx # None
          PROVE  FileOf(l1desc[t]) # FileOf(l1desc[n])
        <3>1. CASE l1desc[t].dataObjInfo \in Groups
            BY <1>1, <2>1, <2>2, <2>3, <3>1 DEF DescInv, GroupsMarked
        <3>2. CASE /\ l1desc[t].dataObjInfo \in Objects
                   /\ l1desc[t].l3descInx[2] = RootGroup
            <4>1. l1desc[t].l3descInx \in NcHandles /\ l1desc[n].l3descInx \in NcHandles
                BY <2>1, <2>3 DEF Desc
            <4>2. l1desc[t].l3descInx # l1desc[n].l3descInx
                BY <2>2, <2>3, <3>2, TableAssumption DEF DescInv, OneOwner
            <4> QED
                BY <2>1, <3>2, <4>1, <4>2 DEF NcHandles, FileOf
        <3> QED
            BY <2>3, <3>1, <3>2 DEF DescInv, EntryShape
    <2>4. \A t \in InUse \ {n} :
            /\ l1desc[t].l3descInx # None => FileOf(l1desc[t]) \in ncfiles'
            /\ l1desc[t].remoteL1descInx # None => l1desc[t].remoteL1descInx \in zoneNcids'
        BY <1>1, <1>4, <2>3 DEF DescInv, HandlesLive
    <2> QED
        BY <1>1, <1>4, <2>4, FreeInv
<1> QED
    BY <1>2, <1>3, <1>4 DEF NcCloseLocal, ncCloseDataObj
-----------------------------------------------------------------------------
(* What a step does to the entries in use and to the files they name. *)

LEMMA Says ==
    ASSUME NEW op, NEW n, NEW st, Answer(op, n, st)
    PROVE  reply'.op = op /\ reply'.ncid = n /\ reply'.status = st
BY DEF Answer

LEMMA Filled ==
    ASSUME DescInv, NEW s \in FreeSlots, NEW d, d.inuseFlag,
           NEW table, Marks(table), l1desc' = [table EXCEPT ![s] = d]
    PROVE  /\ InUse' = InUse \union {s}
           /\ l1desc'[s] = d
           /\ \A t \in InUse : l1desc'[t].l3descInx = l1desc[t].l3descInx
<1>1. s \in Slots /\ s \notin InUse /\ l1desc \in [Slots -> Desc]
    BY DEF FreeSlots, DescInv, TypeOK
<1> QED
    BY <1>1 DEF InUse, Marks

LEMMA Freed ==
    ASSUME DescInv, NEW n \in InUse, Free(n)
    PROVE  InUse' = InUse \ {n} /\ \A t \in InUse \ {n} : l1desc'[t] = l1desc[t]
<1>1. n \in Slots /\ l1desc \in [Slots -> Desc]
    BY DEF InUse, DescInv, TypeOK
<1> QED
    BY <1>1 DEF Free, InUse, FreeDesc

LEMMA NamedKept ==
    ASSUME NEW f, Named(f), InUse \subseteq InUse',
           \A t \in InUse : l1desc'[t].l3descInx = l1desc[t].l3descInx
    PROVE  Named(f)'
BY DEF Named, FileOf

\* A request that leaves the table and the files alone.
LEMMA NamedSame ==
    ASSUME NEW f \in ncfiles', UNCHANGED <<l1desc, ncfiles>>
    PROVE  Named(f)' \/ (f \in ncfiles /\ ~Named(f))
BY DEF Named, InUse, FileOf

\* Every entry that a request fills and does not hand to the client it leaves
\* with hostError, or ends the agent with.
LEMMA SlotStep ==
    ASSUME DescInv, [Next]_vars, NEW s \in InUse', s \notin held'
    PROVE  \/ s \in InUse \ held
           \/ reply'.status = "hostError"
           \/ agent' = "faulted"
<1>1. ASSUME UNCHANGED <<l1desc, held>> PROVE s \in InUse \ held
    BY <1>1 DEF InUse
<1>2. ASSUME NEW q \in FreeSlots, NEW d, d.inuseFlag, NEW table, Marks(table),
             l1desc' = [table EXCEPT ![q] = d], NEW op, Give(op, q)
      PROVE  s \in InUse \ held
    BY <1>2, Filled DEF Give
<1>3. ASSUME NEW op, NEW opr, NEW o, SetFileDesc(op, opr, o)
      PROVE  s \in InUse \ held
    BY <1>2, <1>3, MarkInv DEF SetFileDesc, FileDesc, FreeDesc
<1>4. ASSUME NEW op, NEW o, LeaveDesc(op, o) PROVE reply'.status = "hostError"
    BY <1>4, Says DEF LeaveDesc
<1>5. ASSUME NEW op, NEW opr, NEW o, NEW z, NEW table, Marks(table),
             SetZoneDesc(op, o, z, table, opr)
      PROVE  s \in InUse \ held \/ agent' = "faulted"
    BY <1>2, <1>5 DEF SetZoneDesc, ZoneDesc, FreeDesc, Fault
<1>6. ASSUME NEW n \in Ncids, NEW g \in Groups, NcOpenGroupLocal(n, g)
      PROVE  s \in InUse \ held \/ agent' = "faulted"
    <2> DEFINE d == GroupDesc(FileOf(l1desc[n]), g)
               table == [l1desc EXCEPT ![n].oprType = "NC_OPEN_GROUP"]
    <2>1. Marks(table) /\ d.inuseFlag
        BY <1>6, MarkInv DEF NcOpenGroupLocal, GroupDesc, FreeDesc
    <2>2. CASE FreeSlots = {}
        BY <1>6, <2>2 DEF NcOpenGroupLocal, Fault
    <2>3. CASE FreeSlots # {}
        <3>1. PICK q \in FreeSlots : l1desc' = [table EXCEPT ![q] = d] /\ Give("openGroup", q)
            BY <1>6, <2>3 DEF NcOpenGroupLocal
        <3> HIDE DEF d, table
        <3> QED
            BY <1>2, <2>1, <3>1
    <2> QED
        BY <2>2, <2>3
<1>7. ASSUME NEW n \in InUse, Free(n), held' = held \ {n}
      PROVE  s \in InUse \ held
    BY <1>7, Freed
<1>8. CASE rsNcOpen
    BY <1>1, <1>3, <1>4, <1>5, <1>8, MarkInv
    DEF rsNcOpen, NcOpenRefused, NcOpenDataObj, NcOpenLibraryError, NcOpenHostError,
        NcOpenZone, NcOpenColl, NcOpenCollNoSlot, Refuse, Fault
<1>9. CASE rsNcCreate
    BY <1>1, <1>3, <1>4, <1>5, <1>9, MarkInv
    DEF rsNcCreate, NcCreateRefused, NcCreateDataObj, NcCreateLibraryError,
        NcCreateHostError, NcCreateRegisterError, NcCreateZone, Refuse
<1>10. ASSUME NEW n \in Ncids, rsNcOpenGroup(n)
       PROVE  s \in InUse \ held \/ agent' = "faulted"
    BY <1>1, <1>5, <1>6, <1>10, MarkInv
    DEF rsNcOpenGroup, NcOpenGroupRefused, NcOpenGroupError, NcOpenGroupZone, Refuse
<1>11. ASSUME NEW n \in Ncids, rsNcClose(n)
       PROVE  s \in InUse \ held \/ reply'.status = "hostError"
    <2>1. CASE NcCloseRefused(n)
        <3>1. n \notin InUse
            BY <2>1, TableAssumption DEF NcCloseRefused, InUse
        <3>2. UNCHANGED l1desc /\ held' = held \ {n}
            BY <2>1 DEF NcCloseRefused, CloseAnswer
        <3> QED
            BY <3>1, <3>2 DEF InUse
    <2>2. CASE n \in InUse /\ (NcCloseZone(n) \/ NcCloseGroup(n) \/ NcCloseLocal(n))
        BY <1>7, <2>2, Says
        DEF NcCloseZone, NcCloseGroup, NcCloseLocal, ncCloseDataObj, CloseAnswer
    <2> QED
        BY <1>11, <2>1, <2>2 DEF rsNcClose
<1>12. CASE Reconnect
    BY <1>12 DEF Reconnect, InUse, FreeDesc
<1> QED
    BY <1>1, <1>8, <1>9, <1>10, <1>11, <1>12 DEF Next, Request, vars

\* A request that answers ok names every file it opens, and leaves no file
\* without a name that had one but by closing an entry marked NC_OPEN_GROUP:
\* nc_close is given an entry's file only as the last to name it, so that no
\* other file's names are touched.
LEMMA FileStep ==
    ASSUME DescInv, [Next]_vars, NEW f \in ncfiles'
    PROVE  \/ Named(f)'
           \/ f \in ncfiles /\ ~Named(f)
           \/ reply'.status # "ok"
           \/ reply'.op = "close" /\ l1desc[reply'.ncid].oprType = "NC_OPEN_GROUP"
<1>1. ASSUME NEW q \in FreeSlots, NEW d, d.inuseFlag, NEW table, Marks(table),
             l1desc' = [table EXCEPT ![q] = d],
             f \in ncfiles \/ (d.l3descInx # None /\ FileOf(d) = f)
      PROVE  Named(f)' \/ (f \in ncfiles /\ ~Named(f))
    <2>1. /\ InUse' = InUse \union {q} /\ l1desc'[q] = d
          /\ \A t \in InUse : l1desc'[t].l3descInx = l1desc[t].l3descInx
        BY <1>1, Filled
    <2>2. CASE f \in ncfiles
        BY <2>1, <2>2, NamedKept
    <2>3. CASE d.l3descInx # None /\ FileOf(d) = f
        BY <2>1, <2>3 DEF Named, FileOf
    <2> QED
        BY <1>1, <2>2, <2>3
<1>2. ASSUME NEW op, NEW opr, NEW o, SetFileDesc(op, opr, o)
      PROVE  Named(f)' \/ (f \in ncfiles /\ ~Named(f))
    <2>1. PICK q \in FreeSlots, e \in Files \ ncfiles :
            /\ l1desc' = [l1desc EXCEPT ![q] = FileDesc(o, e, opr)]
            /\ ncfiles' = ncfiles \union {e}
        BY <1>2 DEF SetFileDesc
    <2>2. /\ FileDesc(o, e, opr).inuseFlag /\ FileOf(FileDesc(o, e, opr)) = e
          /\ FileDesc(o, e, opr).l3descInx = <<e, RootGroup>>
        BY DEF FileDesc, FreeDesc, FileOf
    <2>3. <<e, RootGroup>> # None
        BY TableAssumption DEF NcHandles
    <2> QED
        BY <1>1, <2>1, <2>2, <2>3, MarkInv
<1>3. ASSUME NEW op, NEW o, LeaveDesc(op, o) PROVE reply'.status # "ok"
    BY <1>3, Says DEF LeaveDesc
<1>4. ASSUME NEW op, NEW opr, NEW o, NEW z, NEW table, Marks(table),
             SetZoneDesc(op, o, z, table, opr)
      PROVE  Named(f)' \/ (f \in ncfiles /\ ~Named(f))
    BY <1>1, <1>4, NamedSame DEF SetZoneDesc, ZoneDesc, FreeDesc
<1>5. ASSUME NEW n \in Ncids, NEW g \in Groups, NcOpenGroupLocal(n, g)
      PROVE  Named(f)' \/ (f \in ncfiles /\ ~Named(f))
    <2> DEFINE d == GroupDesc(FileOf(l1desc[n]), g)
               table == [l1desc EXCEPT ![n].oprType = "NC_OPEN_GROUP"]
    <2>1. Marks(table) /\ d.inuseFlag /\ UNCHANGED ncfiles
        BY <1>5, MarkInv DEF NcOpenGroupLocal, GroupDesc, FreeDesc
    <2>2. CASE FreeSlots = {}
        BY <1>5, <2>2, NamedSame DEF NcOpenGroupLocal
    <2>3. CASE FreeSlots # {}
        <3>1. PICK q \in FreeSlots : l1desc' = [table EXCEPT ![q] = d]
            BY <1>5, <2>3 DEF NcOpenGroupLocal
        <3> HIDE DEF d, table
        <3> QED
            BY <1>1, <2>1, <3>1
    <2> QED
        BY <2>2, <2>3
<1>6. CASE rsNcOpen
    <2>1. ASSUME NEW c \in Collections, NcOpenColl(c) PROVE reply'.status # "ok"
        BY <2>1, Says DEF NcOpenColl, Fault
    <2> QED
        BY <1>2, <1>3, <1>4, <1>6, <2>1, MarkInv, NamedSame
        DEF rsNcOpen, NcOpenRefused, NcOpenDataObj, NcOpenLibraryError, NcOpenHostError,
            NcOpenZone, NcOpenCollNoSlot, Refuse
<1>7. CASE rsNcCreate
    <2>1. ASSUME NEW o \in Objects, NcCreateRegisterError(o) PROVE reply'.status # "ok"
        BY <2>1, Says DEF NcCreateRegisterError, Fault
    <2> QED
        BY <1>2, <1>3, <1>4, <1>7, <2>1, MarkInv, NamedSame
        DEF rsNcCreate, NcCreateRefused, NcCreateDataObj, NcCreateLibraryError,
            NcCreateHostError, NcCreateZone, Refuse
<1>8. ASSUME NEW n \in Ncids, rsNcOpenGroup(n)
      PROVE  Named(f)' \/ (f \in ncfiles /\ ~Named(f))
    BY <1>4, <1>5, <1>8, MarkInv, NamedSame
    DEF rsNcOpenGroup, NcOpenGroupRefused, NcOpenGroupError, NcOpenGroupZone, Refuse
<1>9. ASSUME NEW n \in InUse, Free(n), f \in ncfiles,
             l1desc[n].l3descInx # None => FileOf(l1desc[n]) # f
      PROVE  Named(f)' \/ (f \in ncfiles /\ ~Named(f))
    BY <1>9, Freed DEF Named, FileOf
<1>10. ASSUME NEW n \in Ncids, rsNcClose(n), reply'.status = "ok"
       PROVE  \/ Named(f)'
              \/ f \in ncfiles /\ ~Named(f)
              \/ reply'.op = "close" /\ l1desc[reply'.ncid].oprType = "NC_OPEN_GROUP"
    <2>1. CASE NcCloseRefused(n)
        BY <2>1, NamedSame DEF NcCloseRefused
    <2>2. CASE n \in InUse /\ NcCloseZone(n)
        <3>1. l1desc[n].l3descInx = None
            BY <2>2 DEF NcCloseZone, DescInv, EntryShape
        <3> QED
            BY <1>9, <2>2, <3>1 DEF NcCloseZone
    <2>3. CASE n \in InUse /\ NcCloseGroup(n)
        BY <2>3, Says DEF NcCloseGroup, CloseAnswer
    <2>4. CASE n \in InUse /\ NcCloseLocal(n)
        <3>1. ncfiles' = ncfiles \ {FileOf(l1desc[n])} /\ Free(n)
            BY <1>10, <2>4, Says DEF NcCloseLocal, ncCloseDataObj, CloseAnswer
        <3> QED
            BY <1>9, <2>4, <3>1
    <2> QED
        BY <1>10, <2>1, <2>2, <2>3, <2>4 DEF rsNcClose
<1>11. CASE Reconnect
    BY <1>11 DEF Reconnect
<1> QED
    BY <1>6, <1>7, <1>8, <1>10, <1>11, NamedSame DEF Next, Request, vars
-----------------------------------------------------------------------------
(* The theorems. *)

LEMMA OpenInv == ASSUME DescInv, rsNcOpen PROVE DescInv'
<1>1. CASE NcOpenRefused
    BY <1>1, RefuseInv DEF NcOpenRefused, Ops, Statuses
<1>2. ASSUME NEW o \in Objects, NcOpenDataObj(o) PROVE DescInv'
    BY <1>2, SetFileDescInv DEF NcOpenDataObj, Ops
<1>3. ASSUME NEW o \in Objects, NcOpenLibraryError(o) PROVE DescInv'
    BY <1>3, RefuseInv DEF NcOpenLibraryError, Ops, Statuses
<1>4. ASSUME NEW o \in Objects, NcOpenHostError(o) PROVE DescInv'
    BY <1>4, LeaveDescInv DEF NcOpenHostError, Ops
<1>5. ASSUME NEW o \in Objects, NcOpenZone(o) PROVE DescInv'
    BY <1>5, SetZoneDescInv, MarkInv DEF NcOpenZone, Ops
<1>6. ASSUME NEW c \in Collections, NcOpenCollNoSlot(c) PROVE DescInv'
    BY <1>6, RefuseInv DEF NcOpenCollNoSlot, Ops, Statuses
<1> QED
    BY <1>1, <1>2, <1>3, <1>4, <1>5, <1>6, OpenCollInv DEF rsNcOpen

LEMMA CreateInv == ASSUME DescInv, rsNcCreate PROVE DescInv'
<1>1. CASE NcCreateRefused
    BY <1>1, RefuseInv DEF NcCreateRefused, Ops, Statuses
<1>2. ASSUME NEW o \in Objects, NcCreateDataObj(o) PROVE DescInv'
    BY <1>2, SetFileDescInv DEF NcCreateDataObj, Ops
<1>3. ASSUME NEW o \in Objects, NcCreateLibraryError(o) PROVE DescInv'
    BY <1>3, RefuseInv DEF NcCreateLibraryError, Ops, Statuses
<1>4. ASSUME NEW o \in Objects, NcCreateHostError(o) PROVE DescInv'
    BY <1>4, LeaveDescInv DEF NcCreateHostError, Ops
<1>5. ASSUME NEW o \in Objects, NcCreateZone(o) PROVE DescInv'
    BY <1>5, SetZoneDescInv, MarkInv DEF NcCreateZone, Ops
<1>6. ASSUME NEW o \in Objects, NcCreateRegisterError(o) PROVE DescInv'
    <2>1. /\ ncfiles \subseteq ncfiles' /\ ncfiles' \subseteq Files
          /\ agent' \in {"up", "faulted"}
          /\ UNCHANGED <<l1desc, zoneNcids, held>>
        BY <1>6 DEF NcCreateRegisterError, Fault, DescInv, TypeOK
    <2>2. reply' \in Replies
        BY <1>6, AnswerType, Numbers DEF NcCreateRegisterError, Fault, Statuses, Ops
    <2>3. InUse' = InUse
        BY <2>1 DEF InUse
    <2> QED
        BY <2>1, <2>2, <2>3 DEF DescInv, TypeOK, HeldInUse, HandlesLive, OneOwner,
                                EntryShape, GroupsMarked, FileOf
<1> QED
    BY <1>1, <1>2, <1>3, <1>4, <1>5, <1>6 DEF rsNcCreate

LEMMA OpenGroupInv ==
    ASSUME RootGroup \notin Groups, DescInv, NEW n \in Ncids, rsNcOpenGroup(n)
    PROVE  DescInv'
<1>1. CASE NcOpenGroupRefused(n)
    BY <1>1, RefuseInv DEF NcOpenGroupRefused, Ops, Statuses
<1>2. CASE NcOpenGroupError(n)
    BY <1>2, RefuseInv DEF NcOpenGroupError, Ops, Statuses
<1>3. CASE NcOpenGroupZone(n)
    <2>1. l1desc[n].dataObjInfo \in Objects
        BY <1>3, TableAssumption DEF NcOpenGroupZone, DescInv, EntryShape, TypeOK
    <2> QED
        BY <1>3, <2>1, SetZoneDescInv, MarkInv DEF NcOpenGroupZone, Ops
<1> QED
    BY <1>1, <1>2, <1>3, OpenGroupLocalInv DEF rsNcOpenGroup

LEMMA CloseInv ==
    ASSUME RootGroup \notin Groups, DescInv, NEW n \in Ncids, rsNcClose(n)
    PROVE  DescInv'
<1>1. CASE NcCloseRefused(n)
    <2>1. UNCHANGED <<l1desc, ncfiles, zoneNcids, agent>>
        BY <1>1 DEF NcCloseRefused
    <2>2. reply' \in Replies /\ held' = held \ {n}
        BY <1>1, CloseType DEF NcCloseRefused, Statuses
    <2> QED
        BY <2>1, <2>2, NothingChanges
<1> QED
    BY <1>1, CloseZoneInv, CloseGroupInv, CloseDataObjInv DEF rsNcClose

LEMMA InitInv == Init => DescInv
<1> SUFFICES ASSUME Init PROVE DescInv
    OBVIOUS
<1>1. InUse = {}
    BY DEF Init, InUse, FreeDesc
<1>2. TypeOK
    BY Entries DEF Init, TypeOK, Replies, Statuses
<1> QED
    BY <1>1, <1>2 DEF Init, DescInv, HeldInUse, HandlesLive, OneOwner, EntryShape, GroupsMarked

LEMMA ReconnectInv == Reconnect => DescInv'
<1> SUFFICES ASSUME Reconnect PROVE DescInv'
    OBVIOUS
<1>1. InUse' = {}
    BY DEF Reconnect, InUse, FreeDesc
<1>2. TypeOK'
    BY Entries, AnswerType DEF Reconnect, TypeOK, Statuses, Ops
<1> QED
    BY <1>1, <1>2 DEF Reconnect, DescInv, HeldInUse, HandlesLive, OneOwner, EntryShape, GroupsMarked

LEMMA StepInv ==
    ASSUME RootGroup \notin Groups, DescInv, [Next]_vars
    PROVE  DescInv'
<1>1. CASE Request
    BY <1>1, OpenInv, CreateInv, OpenGroupInv, CloseInv DEF Request
<1>2. CASE Reconnect
    BY <1>2, ReconnectInv
<1>3. CASE UNCHANGED vars
    BY <1>3, NothingChanges DEF vars, DescInv, TypeOK
<1> QED
    BY <1>1, <1>2, <1>3 DEF Next

\* rsNcOpen, rsNcCreate, rsNcOpenGroup and rsNcClose keep the table typed,
\* whatever the catalogue, the hosts and the libraries answer.
THEOREM DescTypeOK ==
    ASSUME RootGroup \notin Groups
    PROVE  Spec => []TypeOK
<1>1. DescInv => TypeOK
    BY DEF DescInv
<1> QED
    BY <1>1, InitInv, StepInv, PTL DEF Spec

\* As long as no group open asks for the root group itself, every entry of the
\* table stands for a file, or an ncid of the other zone, that is still open:
\* no sequence of opens, group opens and closes closes a file under an entry.
THEOREM DescHandlesLive ==
    ASSUME RootGroup \notin Groups
    PROVE  Spec => []HandlesLive
<1>1. DescInv => HandlesLive
    BY DEF DescInv
<1> QED
    BY <1>1, InitInv, StepInv, PTL DEF Spec

\* Under the same condition no ncid of a library is owned by two entries.
THEOREM DescOneOwner ==
    ASSUME RootGroup \notin Groups
    PROVE  Spec => []OneOwner
<1>1. DescInv => OneOwner
    BY DEF DescInv
<1> QED
    BY <1>1, InitInv, StepInv, PTL DEF Spec

\* Under the same condition an ncid the client holds stays in use until it is
\* passed to rsNcClose.
THEOREM DescHeldInUse ==
    ASSUME RootGroup \notin Groups
    PROVE  Spec => []HeldInUse
<1>1. DescInv => HeldInUse
    BY DEF DescInv
<1> QED
    BY <1>1, InitInv, StepInv, PTL DEF Spec

\* An entry falls out of the client's reach, in use and not held, only in a
\* request that could not resolve a host or that ended the agent, under the
\* same condition (rsNcOpen, rsNcCreate, rsNcOpenGroup, rsNcClose).
THEOREM DescSlotLeakIsHostError ==
    ASSUME RootGroup \notin Groups
    PROVE  Spec => SlotLeakIsHostError
<1> DEFINE A == \A s \in (InUse \ held)' :
                    \/ s \in InUse \ held
                    \/ reply'.status = "hostError"
                    \/ agent' = "faulted"
<1>1. DescInv /\ [Next]_vars => [A]_vars
    BY SlotStep
<1>2. Spec => [][A]_vars
    <2> HIDE DEF A
    <2> QED
        BY InitInv, StepInv, <1>1, PTL DEF Spec
<1> QED
    BY <1>2 DEF SlotLeakIsHostError

\* A file is left open with no entry that names it only by a request that
\* answered an error, or by closing an entry a group was opened from, under the
\* same condition (ncCloseDataObj, rsNcClose.cpp:97-153).
THEOREM DescFileLeakIsAnswered ==
    ASSUME RootGroup \notin Groups
    PROVE  Spec => FileLeakIsAnswered
<1> DEFINE A == \A f \in ncfiles' :
                    \/ Named(f)'
                    \/ f \in ncfiles /\ ~Named(f)
                    \/ reply'.status # "ok"
                    \/ /\ reply'.op = "close"
                       /\ l1desc[reply'.ncid].oprType = "NC_OPEN_GROUP"
<1>1. DescInv /\ [Next]_vars => [A]_vars
    BY FileStep
<1>2. Spec => [][A]_vars
    <2> HIDE DEF A
    <2> QED
        BY InitInv, StepInv, <1>1, PTL DEF Spec
<1> QED
    BY <1>2 DEF FileLeakIsAnswered
=============================================================================
