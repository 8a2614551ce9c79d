---------------------------- MODULE H5DescProofs ----------------------------
(***************************************************************************)
(* Theorems about the HDF5 sessions, for any number of hosts and replicas  *)
(* and tables and libraries of any size.                                   *)
(***************************************************************************)
EXTENDS H5Desc, CommonLemmas

\* An entry that names a file is a replica's, which is on the host itself when
\* the table is a peer's.
EntryShape ==
    \A h \in Hosts, s \in Slots :
        l1desc[h][s].inuseFlag =>
            /\ l1desc[h][s].dataObjInfo \in Replicas
            /\ l1desc[h][s].l3descInx \in Fids
            /\ h # Here => l1desc[h][s].dataObjInfo[2] = h

\* No two entries of a table name one file.
OneEntry ==
    \A h \in Hosts : \A s, t \in Slots :
        /\ l1desc[h][s].inuseFlag /\ l1desc[h][t].inuseFlag
        /\ l1desc[h][s].l3descInx = l1desc[h][t].l3descInx
        /\ l1desc[h][s].dataObjInfo[2] = l1desc[h][t].dataObjInfo[2]
        => s = t

H5Inv == TypeOK /\ EntriesLive /\ EntryShape /\ OneEntry
-----------------------------------------------------------------------------
(* The entries, the file ids, and the answers. *)

LEMMA ReplicaHost == \A r \in Replicas : r \in Objects \X Hosts /\ r[2] \in Hosts /\ r # None
BY SessionAssumption

LEMMA FidsNat == Fids \subseteq Nat /\ 0 \notin Fids /\ Slots \subseteq Nat
BY SessionAssumption

LEMMA Entries ==
    /\ FreeDesc \in Desc /\ ~FreeDesc.inuseFlag
    /\ \A r \in Replicas, f \in Fids :
        /\ OpenDesc(r, f) \in Desc
        /\ OpenDesc(r, f).inuseFlag
        /\ OpenDesc(r, f).dataObjInfo = r
        /\ OpenDesc(r, f).l3descInx = f
BY DEF FreeDesc, OpenDesc, Desc

\* The entry that a request finds for a file id is one that has it.
LEMMA FoundEntry ==
    ASSUME NEW h \in Hosts, NEW f, ByFid(h, f) # {}
    PROVE  /\ getL1descInxByFid(h, f) \in Slots
           /\ l1desc[h][getL1descInxByFid(h, f)].inuseFlag
           /\ l1desc[h][getL1descInxByFid(h, f)].l3descInx = f
<1>1. ByFid(h, f) \subseteq Nat
    BY FidsNat DEF ByFid
<1>2. Min(ByFid(h, f)) \in ByFid(h, f)
    BY <1>1, MinOf
<1> QED
    BY <1>2 DEF getL1descInxByFid, ByFid

Ops == {"none", "open", "close"} \union Reads

LEMMA AnswerType ==
    ASSUME NEW op \in Ops, NEW k \in Handles \union {None}, NEW got \in Replicas \union {None},
           NEW st \in {"ok", "error", "badFid"}, Answer(op, k, got, st)
    PROVE  reply' \in Replies
BY DEF Answer, Replies, Ops

LEMMA NothingChanges ==
    ASSUME H5Inv, UNCHANGED <<l1desc, h5files>>,
           agent' \in {"up", "spinning", "faulted"},
           reply' \in Replies, held' \subseteq Handles
    PROVE  H5Inv'
BY DEF H5Inv, TypeOK, EntriesLive, EntryShape, OneEntry
-----------------------------------------------------------------------------
(* A file is opened under a file id that is not in use, and gets an entry in
   some of the tables of the client's host and its own. *)
LEMMA OpenedInv ==
    ASSUME H5Inv, NEW r \in Replicas, NEW f \in FreshFids(r[2]),
           l1desc' \in [Hosts -> [Slots -> Desc]],
           \A h \in Hosts, s \in Slots :
                \/ l1desc'[h][s] = l1desc[h][s]
                \/ h \in {Here, r[2]} /\ l1desc'[h][s] = OpenDesc(r, f),
           \A h \in Hosts : \A s, t \in Slots :
                l1desc'[h][s] = OpenDesc(r, f) /\ l1desc'[h][t] = OpenDesc(r, f) => s = t,
           h5files' = [h5files EXCEPT ![r[2]][f] = r],
           UNCHANGED agent, reply' \in Replies, held' \subseteq Handles
    PROVE  H5Inv'
<1>1. f \in Fids /\ h5files[r[2]][f] = None /\ r[2] \in Hosts /\ r # None
    BY ReplicaHost DEF FreshFids
<1>2. h5files \in [Hosts -> [Fids -> Replicas \union {None}]]
    BY DEF H5Inv, TypeOK
<1>3. /\ h5files' \in [Hosts -> [Fids -> Replicas \union {None}]]
      /\ h5files'[r[2]][f] = r
      /\ \A h \in Hosts, e \in Fids :
            h5files[h][e] # None => h5files'[h][e] = h5files[h][e]
    BY <1>1, <1>2
<1>4. TypeOK'
    BY <1>3 DEF H5Inv, TypeOK
<1>5. /\ OpenDesc(r, f).inuseFlag
      /\ OpenDesc(r, f).dataObjInfo = r
      /\ OpenDesc(r, f).l3descInx = f
    BY <1>1, Entries
<1>6. \A h \in Hosts, s \in Slots :
        l1desc[h][s].inuseFlag =>
            /\ l1desc[h][s].dataObjInfo \in Replicas
            /\ l1desc[h][s].dataObjInfo # None
            /\ l1desc[h][s].dataObjInfo[2] \in Hosts
            /\ l1desc[h][s].l3descInx \in Fids /\ l1desc[h][s].l3descInx # 0
            /\ h5files[l1desc[h][s].dataObjInfo[2]][l1desc[h][s].l3descInx] = l1desc[h][s].dataObjInfo
    BY ReplicaHost, FidsNat DEF H5Inv, EntryShape, EntriesLive
<1>7. EntryShape'
    BY <1>1, <1>5 DEF H5Inv, EntryShape
<1>8. EntriesLive'
    <2> SUFFICES ASSUME NEW h \in Hosts, NEW s \in Slots, l1desc'[h][s].inuseFlag
                 PROVE  h5files'[l1desc'[h][s].dataObjInfo[2]][l1desc'[h][s].l3descInx]
                            = l1desc'[h][s].dataObjInfo
        BY DEF EntriesLive
    <2>1. CASE l1desc'[h][s] = OpenDesc(r, f)
        BY <2>1, <1>3, <1>5
    <2>2. CASE l1desc'[h][s] = l1desc[h][s]
        BY <2>2, <1>3, <1>6
    <2> QED
        BY <2>1, <2>2
<1>9. \A h \in Hosts, s \in Slots :
        l1desc[h][s].inuseFlag =>
            ~ (l1desc[h][s].l3descInx = f /\ l1desc[h][s].dataObjInfo[2] = r[2])
    BY <1>1, <1>6
<1>10. OneEntry'
    <2> SUFFICES ASSUME NEW h \in Hosts, NEW s \in Slots, NEW t \in Slots,
                        l1desc'[h][s].inuseFlag, l1desc'[h][t].inuseFlag,
                        l1desc'[h][s].l3descInx = l1desc'[h][t].l3descInx,
                        l1desc'[h][s].dataObjInfo[2] = l1desc'[h][t].dataObjInfo[2]
                 PROVE  s = t
        BY DEF OneEntry
    <2>1. CASE l1desc'[h][s] = l1desc[h][s] /\ l1desc'[h][t] = l1desc[h][t]
        BY <2>1 DEF H5Inv, OneEntry
    <2>2. CASE l1desc'[h][s] = OpenDesc(r, f) /\ l1desc'[h][t] = OpenDesc(r, f)
        BY <2>2
    <2>3. CASE l1desc'[h][s] = OpenDesc(r, f) /\ l1desc'[h][t] = l1desc[h][t]
        BY <2>3, <1>5, <1>9
    <2>4. CASE l1desc'[h][s] = l1desc[h][s] /\ l1desc'[h][t] = OpenDesc(r, f)
        BY <2>4, <1>5, <1>9
    <2> QED
        BY <2>1, <2>2, <2>3, <2>4
<1> QED
    BY <1>4, <1>7, <1>8, <1>10 DEF H5Inv

LEMMA OpenAnswer ==
    ASSUME H5Inv, NEW r \in Replicas, NEW f \in Fids, Opened(r, f)
    PROVE  reply' \in Replies /\ held' \subseteq Handles
<1>1. [fid |-> f, rep |-> r] \in Handles
    BY DEF Handles
<1> QED
    BY <1>1, AnswerType DEF Opened, Ops, H5Inv, TypeOK

\* No entry names a file that is not open.
LEMMA NoEntryOfFresh ==
    ASSUME H5Inv, NEW r \in Replicas, NEW f \in FreshFids(r[2]),
           NEW h \in Hosts, NEW t \in Slots
    PROVE  l1desc[h][t] # OpenDesc(r, f)
<1> SUFFICES ASSUME l1desc[h][t] = OpenDesc(r, f)
             PROVE  FALSE
    OBVIOUS
<1>1. f \in Fids /\ h5files[r[2]][f] = None
    BY DEF FreshFids
<1>2. /\ l1desc[h][t].inuseFlag /\ l1desc[h][t].l3descInx = f
      /\ l1desc[h][t].dataObjInfo = r
    BY <1>1, Entries
<1>3. h5files[r[2]][f] = r
    BY <1>1, <1>2, FidsNat DEF H5Inv, EntriesLive
<1> QED
    BY <1>1, <1>3, ReplicaHost

LEMMA OpenLocalInv ==
    ASSUME H5Inv, NEW r \in Replicas, OpenLocal(r)
    PROVE  H5Inv'
<1>1. PICK s \in FreeSlots(Here), f \in FreshFids(Here) :
        /\ l1desc' = [l1desc EXCEPT ![Here][s] = OpenDesc(r, f)]
        /\ h5files' = [h5files EXCEPT ![Here][f] = r]
        /\ Opened(r, f)
    BY DEF OpenLocal
<1>2. r[2] = Here /\ UNCHANGED agent /\ Here \in Hosts
    BY SessionAssumption DEF OpenLocal
<1>3. s \in Slots /\ f \in Fids /\ f \in FreshFids(r[2])
    BY <1>2 DEF FreeSlots, FreshFids
<1>4. l1desc \in [Hosts -> [Slots -> Desc]]
    BY DEF H5Inv, TypeOK
<1>5. OpenDesc(r, f) \in Desc
    BY <1>3, Entries
<1>6. \A h \in Hosts, u \in Slots : l1desc[h][u] # OpenDesc(r, f)
    BY <1>3, NoEntryOfFresh
<1>7. /\ l1desc' \in [Hosts -> [Slots -> Desc]]
      /\ \A h \in Hosts, u \in Slots :
            l1desc'[h][u] = IF h = Here /\ u = s
                            THEN OpenDesc(r, f) ELSE l1desc[h][u]
    BY <1>1, <1>2, <1>3, <1>4, <1>5
<1>8. /\ \A h \in Hosts, u \in Slots :
            \/ l1desc'[h][u] = l1desc[h][u]
            \/ h \in {Here, r[2]} /\ l1desc'[h][u] = OpenDesc(r, f)
      /\ \A h \in Hosts : \A u, v \in Slots :
            l1desc'[h][u] = OpenDesc(r, f) /\ l1desc'[h][v] = OpenDesc(r, f) => u = v
    BY <1>2, <1>6, <1>7
<1>9. reply' \in Replies /\ held' \subseteq Handles
    BY <1>1, <1>3, OpenAnswer
<1>10. h5files' = [h5files EXCEPT ![r[2]][f] = r]
    BY <1>1, <1>2
<1> QED
    BY <1>2, <1>3, <1>7, <1>8, <1>9, <1>10, OpenedInv

LEMMA OpenPeerInv ==
    ASSUME H5Inv, NEW r \in Replicas, OpenPeer(r)
    PROVE  H5Inv'
<1> DEFINE p == r[2]
<1>1. PICK s \in FreeSlots(Here), t \in FreeSlots(p), f \in FreshFids(p) :
        /\ l1desc' = [l1desc EXCEPT ![Here][s] = OpenDesc(r, f), ![p][t] = OpenDesc(r, f)]
        /\ h5files' = [h5files EXCEPT ![p][f] = r]
        /\ Opened(r, f)
    BY DEF OpenPeer
<1>2. p # Here /\ p \in Hosts /\ UNCHANGED agent /\ Here \in Hosts
    BY SessionAssumption, ReplicaHost DEF OpenPeer
<1>3. s \in Slots /\ t \in Slots /\ f \in Fids
    BY DEF FreeSlots, FreshFids
<1>4. l1desc \in [Hosts -> [Slots -> Desc]]
    BY DEF H5Inv, TypeOK
<1>5. OpenDesc(r, f) \in Desc
    BY <1>3, Entries
<1>6. \A h \in Hosts, u \in Slots : l1desc[h][u] # OpenDesc(r, f)
    BY <1>3, NoEntryOfFresh
<1>7. /\ l1desc' \in [Hosts -> [Slots -> Desc]]
      /\ \A h \in Hosts, u \in Slots :
            l1desc'[h][u] = IF (h = Here /\ u = s) \/ (h = p /\ u = t)
                            THEN OpenDesc(r, f) ELSE l1desc[h][u]
    BY <1>1, <1>2, <1>3, <1>4, <1>5
<1>8. /\ \A h \in Hosts, u \in Slots :
            \/ l1desc'[h][u] = l1desc[h][u]
            \/ h \in {Here, r[2]} /\ l1desc'[h][u] = OpenDesc(r, f)
      /\ \A h \in Hosts : \A u, v \in Slots :
            l1desc'[h][u] = OpenDesc(r, f) /\ l1desc'[h][v] = OpenDesc(r, f) => u = v
    BY <1>2, <1>6, <1>7
<1>9. reply' \in Replies /\ held' \subseteq Handles
    BY <1>1, <1>3, OpenAnswer
<1> QED
    BY <1>1, <1>2, <1>7, <1>8, <1>9, OpenedInv

LEMMA OpenPeerReplyLostInv ==
    ASSUME H5Inv, NEW r \in Replicas, OpenPeerReplyLost(r)
    PROVE  H5Inv'
<1> DEFINE p == r[2]
<1>1. PICK t \in FreeSlots(p), f \in FreshFids(p) :
        /\ l1desc' = [l1desc EXCEPT ![p][t] = OpenDesc(r, f)]
        /\ h5files' = [h5files EXCEPT ![p][f] = r]
    BY DEF OpenPeerReplyLost
<1>2. p \in Hosts /\ UNCHANGED <<agent, held>>
    BY ReplicaHost DEF OpenPeerReplyLost
<1>3. t \in Slots /\ f \in Fids
    BY DEF FreeSlots, FreshFids
<1>4. l1desc \in [Hosts -> [Slots -> Desc]] /\ held' \subseteq Handles
    BY <1>2 DEF H5Inv, TypeOK
<1>5. OpenDesc(r, f) \in Desc
    BY <1>3, Entries
<1>6. \A h \in Hosts, u \in Slots : l1desc[h][u] # OpenDesc(r, f)
    BY <1>3, NoEntryOfFresh
<1>7. /\ l1desc' \in [Hosts -> [Slots -> Desc]]
      /\ \A h \in Hosts, u \in Slots :
            l1desc'[h][u] = IF h = p /\ u = t
                            THEN OpenDesc(r, f) ELSE l1desc[h][u]
    BY <1>1, <1>2, <1>3, <1>4, <1>5
<1>8. /\ \A h \in Hosts, u \in Slots :
            \/ l1desc'[h][u] = l1desc[h][u]
            \/ h \in {Here, r[2]} /\ l1desc'[h][u] = OpenDesc(r, f)
      /\ \A h \in Hosts : \A u, v \in Slots :
            l1desc'[h][u] = OpenDesc(r, f) /\ l1desc'[h][v] = OpenDesc(r, f) => u = v
    BY <1>2, <1>6, <1>7
<1>9. reply' \in Replies
    BY AnswerType DEF OpenPeerReplyLost, Ops
<1> QED
    BY <1>1, <1>2, <1>4, <1>7, <1>8, <1>9, OpenedInv
-----------------------------------------------------------------------------
(* Entries are freed, and the file that one of them named may be closed. *)

\* No table has an entry any more for a file that is closed.
LEMMA FreedInv ==
    ASSUME H5Inv, NEW p \in Hosts, NEW f \in Fids,
           l1desc' \in [Hosts -> [Slots -> Desc]],
           \A h \in Hosts, s \in Slots : l1desc'[h][s] \in {l1desc[h][s], FreeDesc},
           \/ UNCHANGED h5files
           \/ /\ h5files' = [h5files EXCEPT ![p][f] = None]
              /\ \A h \in Hosts, s \in Slots :
                    ~ /\ l1desc'[h][s].inuseFlag
                      /\ l1desc'[h][s].dataObjInfo[2] = p
                      /\ l1desc'[h][s].l3descInx = f,
           UNCHANGED agent, reply' \in Replies, held' \subseteq Handles
    PROVE  H5Inv'
<1>1. \A h \in Hosts, s \in Slots :
        l1desc'[h][s].inuseFlag => l1desc'[h][s] = l1desc[h][s]
    BY Entries
<1>2. h5files \in [Hosts -> [Fids -> Replicas \union {None}]]
    BY DEF H5Inv, TypeOK
<1>3. h5files' \in [Hosts -> [Fids -> Replicas \union {None}]]
    <2>1. CASE UNCHANGED h5files
        BY <1>2, <2>1
    <2>2. CASE h5files' = [h5files EXCEPT ![p][f] = None]
        BY <1>2, <2>2
    <2> QED
        BY <2>1, <2>2
<1>4. TypeOK'
    BY <1>3 DEF H5Inv, TypeOK
<1>5. EntryShape'
    BY <1>1 DEF H5Inv, EntryShape
<1>6. OneEntry'
    BY <1>1 DEF H5Inv, OneEntry
<1>7. EntriesLive'
    <2> SUFFICES ASSUME NEW h \in Hosts, NEW s \in Slots, l1desc'[h][s].inuseFlag
                 PROVE  h5files'[l1desc'[h][s].dataObjInfo[2]][l1desc'[h][s].l3descInx]
                            = l1desc'[h][s].dataObjInfo
        BY DEF EntriesLive
    <2> DEFINE q == l1desc[h][s].dataObjInfo[2]
               e == l1desc[h][s].l3descInx
    <2>1. l1desc'[h][s] = l1desc[h][s] /\ l1desc[h][s].inuseFlag
        BY <1>1
    <2>2. q \in Hosts /\ e \in Fids /\ e # 0
        BY <2>1, ReplicaHost, FidsNat DEF H5Inv, EntryShape
    <2>3. h5files[q][e] = l1desc[h][s].dataObjInfo
        BY <2>1, <2>2 DEF H5Inv, EntriesLive
    <2>4. h5files'[q][e] = h5files[q][e]
        <3>1. CASE UNCHANGED h5files
            BY <3>1
        <3>2. ASSUME h5files' = [h5files EXCEPT ![p][f] = None],
                     ~ (q = p /\ e = f)
              PROVE  h5files'[q][e] = h5files[q][e]
            BY <3>2, <1>2, <2>2
        <3> QED
            BY <3>1, <3>2, <2>1
    <2> QED
        BY <2>1, <2>3, <2>4
<1> QED
    BY <1>4, <1>5, <1>6, <1>7 DEF H5Inv

LEMMA CloseAnswerType ==
    ASSUME H5Inv, NEW k \in held, NEW st \in {"ok", "error"}, CloseAnswer(k, st)
    PROVE  reply' \in Replies /\ held' \subseteq Handles
<1>1. held \subseteq Handles
    BY DEF H5Inv, TypeOK
<1> QED
    BY <1>1, AnswerType DEF CloseAnswer, Ops

LEMMA CloseLocalInv ==
    ASSUME H5Inv, NEW k \in held, CloseLocal(k)
    PROVE  H5Inv'
<1> DEFINE s == getL1descInxByFid(Here, k.fid)
<1>1. k.fid \in Fids /\ Here \in Hosts /\ l1desc \in [Hosts -> [Slots -> Desc]]
    BY SessionAssumption DEF H5Inv, TypeOK, Handles
<1>2. s \in Slots /\ l1desc[Here][s].inuseFlag /\ l1desc[Here][s].l3descInx = k.fid
    BY <1>1, FoundEntry DEF CloseLocal
<1>3. /\ l1desc[Here][s].dataObjInfo[2] = Here
      /\ l1desc' = [l1desc EXCEPT ![Here][s] = FreeDesc]
      /\ UNCHANGED agent
      /\ \/ h5files' = [h5files EXCEPT ![Here][k.fid] = None]
         \/ UNCHANGED h5files
    BY DEF CloseLocal
<1>4. reply' \in Replies /\ held' \subseteq Handles
    BY CloseAnswerType DEF CloseLocal
<1> HIDE DEF s
<1>5. /\ l1desc' \in [Hosts -> [Slots -> Desc]]
      /\ \A h \in Hosts, t \in Slots :
            l1desc'[h][t] = IF h = Here /\ t = s THEN FreeDesc ELSE l1desc[h][t]
    BY <1>1, <1>2, <1>3, Entries
<1>6. \A h \in Hosts, t \in Slots :
        ~ /\ l1desc'[h][t].inuseFlag
          /\ l1desc'[h][t].dataObjInfo[2] = Here
          /\ l1desc'[h][t].l3descInx = k.fid
    <2> SUFFICES ASSUME NEW h \in Hosts, NEW t \in Slots, l1desc'[h][t].inuseFlag,
                        l1desc'[h][t].dataObjInfo[2] = Here,
                        l1desc'[h][t].l3descInx = k.fid
                 PROVE  FALSE
        OBVIOUS
    <2>1. l1desc'[h][t] = l1desc[h][t] /\ ~ (h = Here /\ t = s)
        BY <1>5, Entries
    <2>2. h = Here
        BY <2>1 DEF H5Inv, EntryShape
    <2> QED
        BY <2>1, <2>2, <1>2, <1>3 DEF H5Inv, OneEntry
<1> QED
    BY <1>1, <1>3, <1>4, <1>5, <1>6, FreedInv

LEMMA ClosePeerInv ==
    ASSUME H5Inv, NEW k \in held, ClosePeer(k)
    PROVE  H5Inv'
<1> DEFINE s == getL1descInxByFid(Here, k.fid)
           p == l1desc[Here][s].dataObjInfo[2]
           u == getL1descInxByFid(p, k.fid)
<1>1. k.fid \in Fids /\ Here \in Hosts /\ l1desc \in [Hosts -> [Slots -> Desc]]
    BY SessionAssumption DEF H5Inv, TypeOK, Handles
<1>2. s \in Slots /\ l1desc[Here][s].inuseFlag /\ l1desc[Here][s].l3descInx = k.fid
    BY <1>1, FoundEntry DEF ClosePeer
<1>3. p \in Hosts
    BY <1>1, <1>2, ReplicaHost DEF H5Inv, EntryShape
<1>4. u \in Slots /\ l1desc[p][u].inuseFlag /\ l1desc[p][u].l3descInx = k.fid
    BY <1>3, FoundEntry DEF ClosePeer
<1>5. /\ p # Here
      /\ l1desc' = [l1desc EXCEPT ![Here][s] = FreeDesc, ![p][u] = FreeDesc]
      /\ UNCHANGED agent
      /\ \/ h5files' = [h5files EXCEPT ![p][k.fid] = None]
         \/ UNCHANGED h5files
    BY DEF ClosePeer
<1>6. reply' \in Replies /\ held' \subseteq Handles
    BY CloseAnswerType DEF ClosePeer
<1> HIDE DEF s, u
<1>7. /\ l1desc' \in [Hosts -> [Slots -> Desc]]
      /\ \A h \in Hosts, t \in Slots :
            l1desc'[h][t] = IF (h = Here /\ t = s) \/ (h = p /\ t = u)
                            THEN FreeDesc ELSE l1desc[h][t]
    <2> HIDE DEF p
    <2> QED
        BY <1>1, <1>2, <1>3, <1>4, <1>5, Entries
<1>8. l1desc[p][u].dataObjInfo[2] = p
    BY <1>3, <1>4, <1>5 DEF H5Inv, EntryShape
<1>9. \A h \in Hosts, t \in Slots :
        ~ /\ l1desc'[h][t].inuseFlag
          /\ l1desc'[h][t].dataObjInfo[2] = p
          /\ l1desc'[h][t].l3descInx = k.fid
    <2> SUFFICES ASSUME NEW h \in Hosts, NEW t \in Slots, l1desc'[h][t].inuseFlag,
                        l1desc'[h][t].dataObjInfo[2] = p,
                        l1desc'[h][t].l3descInx = k.fid
                 PROVE  FALSE
        OBVIOUS
    <2>1. /\ l1desc'[h][t] = l1desc[h][t]
          /\ ~ (h = Here /\ t = s) /\ ~ (h = p /\ t = u)
        BY <1>7, Entries
    <2>2. h = Here \/ h = p
        BY <2>1 DEF H5Inv, EntryShape
    <2>3. CASE h = Here
        BY <2>1, <2>3, <1>2 DEF H5Inv, OneEntry
    <2>4. CASE h = p
        BY <2>1, <2>4, <1>3, <1>4, <1>8 DEF H5Inv, OneEntry
    <2> QED
        BY <2>2, <2>3, <2>4
<1>10. \A h \in Hosts, t \in Slots : l1desc'[h][t] \in {l1desc[h][t], FreeDesc}
    BY <1>7
<1> HIDE DEF p
<1>11. PICK q \in Hosts : q = p
    BY <1>3
<1>12. \/ UNCHANGED h5files
       \/ /\ h5files' = [h5files EXCEPT ![q][k.fid] = None]
          /\ \A h \in Hosts, t \in Slots :
                ~ /\ l1desc'[h][t].inuseFlag
                  /\ l1desc'[h][t].dataObjInfo[2] = q
                  /\ l1desc'[h][t].l3descInx = k.fid
    BY <1>5, <1>9, <1>11
<1>13. l1desc' \in [Hosts -> [Slots -> Desc]] /\ UNCHANGED agent
    BY <1>5, <1>7
<1>14. k.fid \in Fids
    BY <1>1
<1> QED
    BY <1>6, <1>10, <1>12, <1>13, <1>14, FreedInv

LEMMA ClosePeerUnreachableInv ==
    ASSUME H5Inv, NEW k \in held, ClosePeerUnreachable(k)
    PROVE  H5Inv'
<1> DEFINE s == getL1descInxByFid(Here, k.fid)
<1>1. k.fid \in Fids /\ Here \in Hosts /\ l1desc \in [Hosts -> [Slots -> Desc]]
    BY SessionAssumption DEF H5Inv, TypeOK, Handles
<1>2. s \in Slots
    BY <1>1, FoundEntry DEF ClosePeerUnreachable
<1>3. l1desc' = [l1desc EXCEPT ![Here][s] = FreeDesc] /\ UNCHANGED <<h5files, agent>>
    BY DEF ClosePeerUnreachable
<1>4. reply' \in Replies /\ held' \subseteq Handles
    BY CloseAnswerType DEF ClosePeerUnreachable
<1> HIDE DEF s
<1>5. /\ l1desc' \in [Hosts -> [Slots -> Desc]]
      /\ \A h \in Hosts, t \in Slots : l1desc'[h][t] \in {l1desc[h][t], FreeDesc}
    BY <1>1, <1>2, <1>3, Entries
<1> QED
    BY <1>1, <1>3, <1>4, <1>5, FreedInv
-----------------------------------------------------------------------------
(* The other requests change no table. *)

LEMMA SameTables ==
    ASSUME H5Inv, UNCHANGED <<l1desc, h5files, held>>,
           agent' \in {"up", "spinning", "faulted"}, reply' \in Replies
    PROVE  H5Inv'
<1>1. held \subseteq Handles
    BY DEF H5Inv, TypeOK
<1> QED
    BY <1>1, NothingChanges

LEMMA HostUnresolvedInv ==
    ASSUME H5Inv, NEW op \in Ops, HostUnresolved(op)
    PROVE  H5Inv'
BY SameTables, AnswerType DEF HostUnresolved

LEMMA OpenInv ==
    ASSUME H5Inv, agent = "up", msiH5File_open
    PROVE  H5Inv'
<1>1. ASSUME OpenError PROVE H5Inv'
    <2>1. reply' \in Replies
        BY <1>1, AnswerType DEF OpenError, Ops
    <2> QED
        BY <1>1, <2>1, SameTables DEF OpenError
<1>2. ASSUME OpenSpins PROVE H5Inv'
    <2>1. UNCHANGED <<l1desc, h5files, reply, held>> /\ agent' = "spinning"
        BY <1>2 DEF OpenSpins, Spins
    <2>2. reply' \in Replies
        BY <2>1 DEF H5Inv, TypeOK
    <2> QED
        BY <2>1, <2>2, SameTables
<1>3. ASSUME HostUnresolved("open") PROVE H5Inv'
    BY <1>3, HostUnresolvedInv DEF Ops
<1> QED
    BY <1>1, <1>2, <1>3, OpenLocalInv, OpenPeerInv, OpenPeerReplyLostInv DEF msiH5File_open

LEMMA CloseInv ==
    ASSUME H5Inv, agent = "up", msiH5File_close
    PROVE  H5Inv'
<1>1. ASSUME NEW f \in Fids, CloseBadFid(f) PROVE H5Inv'
    <2>1. reply' \in Replies
        BY <1>1, AnswerType DEF CloseBadFid, Ops
    <2> QED
        BY <1>1, <2>1, SameTables DEF CloseBadFid
<1>2. ASSUME HostUnresolved("close") PROVE H5Inv'
    BY <1>2, HostUnresolvedInv DEF Ops
<1> QED
    BY <1>1, <1>2, CloseLocalInv, ClosePeerInv, ClosePeerUnreachableInv DEF msiH5File_close

LEMMA ReadInv ==
    ASSUME H5Inv, agent = "up", NEW op \in Reads, Read(op)
    PROVE  H5Inv'
<1>1. op \in Ops
    BY DEF Ops
<1>2. ASSUME NEW f \in Fids, ReadBadFid(op, f) PROVE H5Inv'
    <2>1. reply' \in Replies
        BY <1>1, <1>2, AnswerType DEF ReadBadFid
    <2> QED
        BY <1>2, <2>1, SameTables DEF ReadBadFid
<1>3. ASSUME NEW k \in held, ReadError(op, k) PROVE H5Inv'
    <2>1. k \in Handles
        BY DEF H5Inv, TypeOK
    <2>2. reply' \in Replies
        BY <1>1, <1>3, <2>1, AnswerType DEF ReadError
    <2> QED
        BY <1>3, <2>2, SameTables DEF ReadError
<1>4. ASSUME NEW k \in held, ReadFile(op, k) PROVE H5Inv'
    <2> DEFINE s == getL1descInxByFid(Here, k.fid)
               h == l1desc[Here][s].dataObjInfo[2]
    <2>1. k \in Handles /\ k.fid \in Fids /\ Here \in Hosts
        BY SessionAssumption DEF H5Inv, TypeOK, Handles
    <2>2. s \in Slots /\ l1desc[Here][s].inuseFlag
        BY <2>1, <1>4, FoundEntry DEF ReadFile
    <2>3. h \in Hosts
        BY <2>1, <2>2, ReplicaHost DEF H5Inv, EntryShape
    <2>4. h5files[h][k.fid] \in Replicas \union {None}
        BY <2>1, <2>3 DEF H5Inv, TypeOK
    <2>5. Answer(op, k, h5files[h][k.fid], "ok") /\ UNCHANGED <<l1desc, h5files, agent, held>>
        BY <1>4 DEF ReadFile
    <2> HIDE DEF h
    <2>6. reply' \in Replies
        BY <1>1, <2>1, <2>4, <2>5, AnswerType
    <2> QED
        BY <2>5, <2>6, SameTables
<1>5. ASSUME HostUnresolved(op) PROVE H5Inv'
    BY <1>1, <1>5, HostUnresolvedInv
<1> QED
    BY <1>2, <1>3, <1>4, <1>5 DEF Read
-----------------------------------------------------------------------------
\* The invariant holds of the agents at their start.
THEOREM H5Initial == Init => H5Inv
<1> SUFFICES ASSUME Init PROVE H5Inv
    OBVIOUS
<1>1. /\ l1desc \in [Hosts -> [Slots -> Desc]]
      /\ \A h \in Hosts, s \in Slots : ~l1desc[h][s].inuseFlag
    BY Entries DEF Init
<1>2. reply \in Replies
    BY DEF Init, Replies
<1> QED
    BY <1>1, <1>2 DEF Init, H5Inv, TypeOK, EntriesLive, EntryShape, OneEntry

LEMMA ReconnectInv == Reconnect => H5Inv'
<1> SUFFICES ASSUME Reconnect PROVE H5Inv'
    OBVIOUS
<1>1. /\ l1desc' \in [Hosts -> [Slots -> Desc]]
      /\ \A h \in Hosts, s \in Slots : ~l1desc'[h][s].inuseFlag
    BY Entries DEF Reconnect
<1>2. reply' \in Replies
    BY AnswerType DEF Reconnect, Ops
<1> QED
    BY <1>1, <1>2 DEF Reconnect, H5Inv, TypeOK, EntriesLive, EntryShape, OneEntry

\* Each request keeps the invariant, whatever fails in it.
THEOREM H5Step == H5Inv /\ [Next]_vars => H5Inv'
<1> SUFFICES ASSUME H5Inv, [Next]_vars PROVE H5Inv'
    OBVIOUS
<1>1. ASSUME Request PROVE H5Inv'
    <2>1. ASSUME NEW op \in Reads, Read(op) PROVE H5Inv'
        BY <1>1, <2>1, ReadInv DEF Request
    <2>2. ASSUME msiH5Dataset_read \/ msiH5Dataset_read_attribute \/ msiH5Group_read_attribute
          PROVE  H5Inv'
        BY <2>1, <2>2 DEF msiH5Dataset_read, msiH5Dataset_read_attribute,
                          msiH5Group_read_attribute, Reads
    <2> QED
        BY <1>1, <2>2, OpenInv, CloseInv DEF Request
<1>2. CASE Reconnect
    BY <1>2, ReconnectInv
<1>3. CASE UNCHANGED vars
    <2>1. reply' \in Replies
        BY <1>3 DEF vars, H5Inv, TypeOK
    <2>2. agent' \in {"up", "spinning", "faulted"}
        BY <1>3 DEF vars, H5Inv, TypeOK
    <2> QED
        BY <1>3, <2>1, <2>2, SameTables DEF vars
<1> QED
    BY <1>1, <1>2, <1>3 DEF Next
-----------------------------------------------------------------------------
(* The client's handles and the entries they are served by. *)

HandlesWith(f) == {k \in held : k.fid = f}

\* To count them, both are finite: each request adds or takes at most one.
HandlesInv ==
    /\ \A f \in Fids : IsFiniteSet(HandlesWith(f)) /\ IsFiniteSet(ByFid(Here, f))
    /\ HandlesServed

LEMMA CountSame ==
    ASSUME HandlesInv, UNCHANGED held, l1desc'[Here] = l1desc[Here]
    PROVE  HandlesInv'
BY DEF HandlesInv, HandlesServed, HandlesWith, ByFid

\* A handle comes with an entry of its own.
LEMMA CountOpened ==
    ASSUME HandlesInv, NEW r \in Replicas, NEW f \in Fids, NEW s \in Slots,
           ~l1desc[Here][s].inuseFlag,
           \A u \in Slots :
                l1desc'[Here][u] = IF u = s THEN OpenDesc(r, f) ELSE l1desc[Here][u],
           held' = held \union {[fid |-> f, rep |-> r]}
    PROVE  HandlesInv'
<1> DEFINE k == [fid |-> f, rep |-> r]
<1>1. OpenDesc(r, f).inuseFlag /\ OpenDesc(r, f).l3descInx = f
    BY Entries
<1>2. ByFid(Here, f)' = ByFid(Here, f) \union {s} /\ s \notin ByFid(Here, f)
    BY <1>1 DEF ByFid
<1>3. HandlesWith(f)' = HandlesWith(f) \union {k}
    BY DEF HandlesWith
<1>4. \A g \in Fids \ {f} : ByFid(Here, g)' = ByFid(Here, g) /\ HandlesWith(g)' = HandlesWith(g)
    BY <1>1 DEF ByFid, HandlesWith
<1>5. /\ IsFiniteSet(HandlesWith(f)) /\ IsFiniteSet(ByFid(Here, f))
      /\ Cardinality(HandlesWith(f)) <= Cardinality(ByFid(Here, f))
    BY DEF HandlesInv, HandlesServed, HandlesWith
<1> HIDE DEF k
<1>6. /\ IsFiniteSet(HandlesWith(f))' /\ IsFiniteSet(ByFid(Here, f))'
      /\ Cardinality(ByFid(Here, f))' = Cardinality(ByFid(Here, f)) + 1
      /\ Cardinality(HandlesWith(f))' <= Cardinality(HandlesWith(f)) + 1
    <2>1. Cardinality(HandlesWith(f)) \in Nat
        BY <1>5, FS_CardinalityType
    <2>2. /\ IsFiniteSet(HandlesWith(f) \union {k})
          /\ Cardinality(HandlesWith(f) \union {k}) <= Cardinality(HandlesWith(f)) + 1
        <3>1. /\ IsFiniteSet(HandlesWith(f) \union {k})
              /\ \/ Cardinality(HandlesWith(f) \union {k}) = Cardinality(HandlesWith(f))
                 \/ Cardinality(HandlesWith(f) \union {k}) = Cardinality(HandlesWith(f)) + 1
            BY <1>5, FS_AddElement
        <3> QED
            BY <2>1, <3>1
    <2>3. /\ IsFiniteSet(ByFid(Here, f) \union {s})
          /\ Cardinality(ByFid(Here, f) \union {s}) = Cardinality(ByFid(Here, f)) + 1
        BY <1>2, <1>5, FS_AddElement
    <2> QED
        BY <1>2, <1>3, <2>2, <2>3
<1>7. Cardinality(HandlesWith(f)) \in Nat /\ Cardinality(ByFid(Here, f)) \in Nat
    BY <1>5, FS_CardinalityType
<1>8. Cardinality(HandlesWith(f))' \in Nat
    BY <1>6, FS_CardinalityType
<1>9. Cardinality(HandlesWith(f))' <= Cardinality(ByFid(Here, f))'
    BY <1>5, <1>6, <1>7, <1>8
<1>10. \A g \in Fids : /\ IsFiniteSet(HandlesWith(g))' /\ IsFiniteSet(ByFid(Here, g))'
                       /\ Cardinality(HandlesWith(g))' <= Cardinality(ByFid(Here, g))'
    <2> SUFFICES ASSUME NEW g \in Fids
                 PROVE  /\ IsFiniteSet(HandlesWith(g))' /\ IsFiniteSet(ByFid(Here, g))'
                        /\ Cardinality(HandlesWith(g))' <= Cardinality(ByFid(Here, g))'
        OBVIOUS
    <2>1. CASE g = f
        BY <1>6, <1>9, <2>1
    <2>2. CASE g # f
        BY <1>4, <2>2 DEF HandlesInv, HandlesServed, HandlesWith
    <2> QED
        BY <2>1, <2>2
<1> QED
    BY <1>10 DEF HandlesInv, HandlesServed, HandlesWith

\* A close takes one handle and one entry, though not always the handle's own.
LEMMA CountFreed ==
    ASSUME HandlesInv, held \subseteq Handles, NEW k \in held, NEW s \in ByFid(Here, k.fid),
           \A u \in Slots :
                l1desc'[Here][u] = IF u = s THEN FreeDesc ELSE l1desc[Here][u],
           held' = held \ {k}
    PROVE  HandlesInv'
<1>1. PICK f \in Fids : f = k.fid
    BY DEF Handles
<1>2. ByFid(Here, f)' = ByFid(Here, f) \ {s} /\ s \in ByFid(Here, f)
    BY <1>1, Entries DEF ByFid
<1>3. HandlesWith(f)' = HandlesWith(f) \ {k} /\ k \in HandlesWith(f)
    BY <1>1 DEF HandlesWith
<1>4. \A g \in Fids \ {f} : ByFid(Here, g)' = ByFid(Here, g) /\ HandlesWith(g)' = HandlesWith(g)
    BY <1>1, Entries DEF ByFid, HandlesWith
<1>5. /\ IsFiniteSet(HandlesWith(f)) /\ IsFiniteSet(ByFid(Here, f))
      /\ Cardinality(HandlesWith(f)) <= Cardinality(ByFid(Here, f))
    BY DEF HandlesInv, HandlesServed, HandlesWith
<1>6. /\ IsFiniteSet(HandlesWith(f))' /\ IsFiniteSet(ByFid(Here, f))'
      /\ Cardinality(ByFid(Here, f))' = Cardinality(ByFid(Here, f)) - 1
      /\ Cardinality(HandlesWith(f))' = Cardinality(HandlesWith(f)) - 1
    <2>1. /\ IsFiniteSet(HandlesWith(f) \ {k})
          /\ Cardinality(HandlesWith(f) \ {k}) = Cardinality(HandlesWith(f)) - 1
        BY <1>3, <1>5, FS_RemoveElement
    <2>2. /\ IsFiniteSet(ByFid(Here, f) \ {s})
          /\ Cardinality(ByFid(Here, f) \ {s}) = Cardinality(ByFid(Here, f)) - 1
        BY <1>2, <1>5, FS_RemoveElement
    <2> QED
        BY <1>2, <1>3, <2>1, <2>2
<1>7. Cardinality(HandlesWith(f)) \in Nat /\ Cardinality(ByFid(Here, f)) \in Nat
    BY <1>5, FS_CardinalityType
<1>8. Cardinality(HandlesWith(f))' <= Cardinality(ByFid(Here, f))'
    BY <1>5, <1>6, <1>7
<1>9. \A g \in Fids : /\ IsFiniteSet(HandlesWith(g))' /\ IsFiniteSet(ByFid(Here, g))'
                      /\ Cardinality(HandlesWith(g))' <= Cardinality(ByFid(Here, g))'
    <2> SUFFICES ASSUME NEW g \in Fids
                 PROVE  /\ IsFiniteSet(HandlesWith(g))' /\ IsFiniteSet(ByFid(Here, g))'
                        /\ Cardinality(HandlesWith(g))' <= Cardinality(ByFid(Here, g))'
        OBVIOUS
    <2>1. CASE g = f
        BY <1>6, <1>8, <2>1
    <2>2. CASE g # f
        BY <1>4, <2>2 DEF HandlesInv, HandlesServed, HandlesWith
    <2> QED
        BY <2>1, <2>2
<1> QED
    BY <1>9 DEF HandlesInv, HandlesServed, HandlesWith

\* What each request does to the table of the client's host and the handles.
LEMMA OpenHandles ==
    ASSUME H5Inv, HandlesInv, msiH5File_open
    PROVE  HandlesInv'
<1>0. l1desc \in [Hosts -> [Slots -> Desc]] /\ Here \in Hosts
    BY SessionAssumption DEF H5Inv, TypeOK
<1>1. ASSUME OpenError \/ OpenSpins \/ HostUnresolved("open") PROVE HandlesInv'
    <2>1. UNCHANGED <<l1desc, held>>
        BY <1>1 DEF OpenError, OpenSpins, Spins, HostUnresolved
    <2> QED
        BY <2>1, CountSame
<1>2. ASSUME NEW r \in Replicas, OpenLocal(r) PROVE HandlesInv'
    <2>1. PICK s \in FreeSlots(Here), f \in FreshFids(Here) :
            /\ l1desc' = [l1desc EXCEPT ![Here][s] = OpenDesc(r, f)]
            /\ Opened(r, f)
        BY <1>2 DEF OpenLocal
    <2>2. s \in Slots /\ ~l1desc[Here][s].inuseFlag /\ f \in Fids
        BY DEF FreeSlots, FreshFids
    <2>3. \A u \in Slots :
            l1desc'[Here][u] = IF u = s THEN OpenDesc(r, f) ELSE l1desc[Here][u]
        BY <1>0, <2>1, <2>2
    <2>4. held' = held \union {[fid |-> f, rep |-> r]}
        BY <2>1 DEF Opened
    <2> QED
        BY <2>2, <2>3, <2>4, CountOpened
<1>3. ASSUME NEW r \in Replicas, OpenPeer(r) PROVE HandlesInv'
    <2> DEFINE p == r[2]
    <2>0. p \in Hosts /\ p # Here
        BY <1>3, ReplicaHost DEF OpenPeer
    <2>1. PICK s \in FreeSlots(Here), t \in FreeSlots(p), f \in FreshFids(p) :
            /\ l1desc' = [l1desc EXCEPT ![Here][s] = OpenDesc(r, f), ![p][t] = OpenDesc(r, f)]
            /\ Opened(r, f)
        BY <1>3 DEF OpenPeer
    <2>2. s \in Slots /\ ~l1desc[Here][s].inuseFlag /\ f \in Fids
        BY DEF FreeSlots, FreshFids
    <2> HIDE DEF p
    <2>3. \A u \in Slots :
            l1desc'[Here][u] = IF u = s THEN OpenDesc(r, f) ELSE l1desc[Here][u]
        BY <1>0, <2>0, <2>1, <2>2
    <2>4. held' = held \union {[fid |-> f, rep |-> r]}
        BY <2>1 DEF Opened
    <2> QED
        BY <2>2, <2>3, <2>4, CountOpened
<1>4. ASSUME NEW r \in Replicas, OpenPeerReplyLost(r) PROVE HandlesInv'
    <2> DEFINE p == r[2]
    <2>0. p \in Hosts /\ p # Here
        BY <1>4, ReplicaHost DEF OpenPeerReplyLost
    <2>1. PICK t \in FreeSlots(p), f \in FreshFids(p) :
            l1desc' = [l1desc EXCEPT ![p][t] = OpenDesc(r, f)]
        BY <1>4 DEF OpenPeerReplyLost
    <2>2. UNCHANGED held
        BY <1>4 DEF OpenPeerReplyLost
    <2> HIDE DEF p
    <2>3. l1desc'[Here] = l1desc[Here]
        BY <1>0, <2>0, <2>1
    <2> QED
        BY <2>2, <2>3, CountSame
<1> QED
    BY <1>1, <1>2, <1>3, <1>4 DEF msiH5File_open

LEMMA CloseHandles ==
    ASSUME H5Inv, HandlesInv, msiH5File_close
    PROVE  HandlesInv'
<1>0. l1desc \in [Hosts -> [Slots -> Desc]] /\ Here \in Hosts /\ held \subseteq Handles
    BY SessionAssumption DEF H5Inv, TypeOK
<1>1. ASSUME (\E f \in Fids : CloseBadFid(f)) \/ HostUnresolved("close") PROVE HandlesInv'
    <2>1. UNCHANGED <<l1desc, held>>
        BY <1>1 DEF CloseBadFid, HostUnresolved
    <2> QED
        BY <2>1, CountSame
<1>2. ASSUME NEW k \in held, CloseLocal(k) \/ ClosePeer(k) \/ ClosePeerUnreachable(k)
      PROVE  HandlesInv'
    <2> DEFINE s == getL1descInxByFid(Here, k.fid)
               p == l1desc[Here][s].dataObjInfo[2]
               w == getL1descInxByFid(p, k.fid)
    <2>1. /\ s \in Slots /\ l1desc[Here][s].inuseFlag /\ l1desc[Here][s].l3descInx = k.fid
          /\ held' = held \ {k}
        BY <1>0, <1>2, FoundEntry
           DEF CloseLocal, ClosePeer, ClosePeerUnreachable, CloseAnswer
    <2>2. \/ l1desc' = [l1desc EXCEPT ![Here][s] = FreeDesc]
          \/ l1desc' = [l1desc EXCEPT ![Here][s] = FreeDesc, ![p][w] = FreeDesc] /\ p # Here
        BY <1>2 DEF CloseLocal, ClosePeer, ClosePeerUnreachable
    <2>3. s \in ByFid(Here, k.fid)
        BY <2>1 DEF ByFid
    <2> HIDE DEF p, w, s
    <2>4. \A u \in Slots :
            l1desc'[Here][u] = IF u = s THEN FreeDesc ELSE l1desc[Here][u]
        BY <1>0, <2>1, <2>2
    <2>5. PICK t \in ByFid(Here, k.fid) : t = s
        BY <2>3
    <2>6. \A u \in Slots :
            l1desc'[Here][u] = IF u = t THEN FreeDesc ELSE l1desc[Here][u]
        BY <2>4, <2>5
    <2> QED
        BY <1>0, <2>1, <2>6, CountFreed
<1> QED
    BY <1>1, <1>2 DEF msiH5File_close

LEMMA HandlesStep == H5Inv /\ HandlesInv /\ [Next]_vars => HandlesInv'
<1> SUFFICES ASSUME H5Inv, HandlesInv, [Next]_vars PROVE HandlesInv'
    OBVIOUS
<1>1. ASSUME NEW op, Read(op) PROVE HandlesInv'
    <2>1. UNCHANGED <<l1desc, held>>
        BY <1>1 DEF Read, ReadBadFid, ReadError, ReadFile, HostUnresolved
    <2> QED
        BY <2>1, CountSame
<1>2. ASSUME Reconnect PROVE HandlesInv'
    <2>1. \A f \in Fids : HandlesWith(f)' = {} /\ ByFid(Here, f)' = {}
        BY <1>2, SessionAssumption, Entries DEF Reconnect, HandlesWith, ByFid
    <2>2. \A f \in Fids : /\ IsFiniteSet(HandlesWith(f)') /\ IsFiniteSet(ByFid(Here, f)')
                          /\ Cardinality(HandlesWith(f)') <= Cardinality(ByFid(Here, f)')
        BY <2>1, FS_EmptySet
    <2> QED
        BY <2>2 DEF HandlesInv, HandlesServed, HandlesWith
<1>3. ASSUME UNCHANGED vars PROVE HandlesInv'
    BY <1>3, CountSame DEF vars
<1> QED
    BY <1>1, <1>2, <1>3, OpenHandles, CloseHandles
       DEF Next, Request, msiH5Dataset_read, msiH5Dataset_read_attribute,
           msiH5Group_read_attribute

LEMMA HandlesInitial == Init => HandlesInv
<1> SUFFICES ASSUME Init PROVE HandlesInv
    OBVIOUS
<1>1. \A f \in Fids : HandlesWith(f) = {} /\ ByFid(Here, f) = {}
    BY SessionAssumption, Entries DEF Init, HandlesWith, ByFid
<1>2. \A f \in Fids : /\ IsFiniteSet(HandlesWith(f)) /\ IsFiniteSet(ByFid(Here, f))
                      /\ Cardinality(HandlesWith(f)) <= Cardinality(ByFid(Here, f))
    BY <1>1, FS_EmptySet
<1> QED
    BY <1>2 DEF HandlesInv, HandlesServed, HandlesWith
-----------------------------------------------------------------------------
(* Files that no entry of the client's host stands for. *)

\* A file is opened with an entry for it.
LEMMA OpenedKept ==
    ASSUME H5Inv, NEW r \in Replicas, NEW f \in FreshFids(r[2]), NEW s \in Slots,
           ~l1desc[Here][s].inuseFlag,
           \A u \in Slots :
                l1desc'[Here][u] = IF u = s THEN OpenDesc(r, f) ELSE l1desc[Here][u],
           h5files' = [h5files EXCEPT ![r[2]][f] = r],
           NEW h \in Hosts, NEW g \in Fids, Lost(h, g)'
    PROVE  Lost(h, g)
<1>1. /\ OpenDesc(r, f).inuseFlag /\ OpenDesc(r, f).l3descInx = f
      /\ OpenDesc(r, f).dataObjInfo = r /\ f \in Fids /\ r[2] \in Hosts
    BY Entries, ReplicaHost DEF FreshFids
<1>2. s \in ByFid(Here, f)' /\ l1desc'[Here][s].dataObjInfo[2] = r[2]
    BY <1>1 DEF ByFid
<1>3. ~(h = r[2] /\ g = f)
    BY <1>2 DEF Lost
<1>4. h5files \in [Hosts -> [Fids -> Replicas \union {None}]]
    BY DEF H5Inv, TypeOK
<1>5. h5files'[h][g] = h5files[h][g]
    BY <1>1, <1>3, <1>4
<1>6. ASSUME NEW t \in ByFid(Here, g) PROVE t \in ByFid(Here, g)' /\ l1desc'[Here][t] = l1desc[Here][t]
    BY DEF ByFid
<1> QED
    BY <1>5, <1>6 DEF Lost

\* A close that frees an entry has closed its file.
LEMMA ClosedKept ==
    ASSUME H5Inv, NEW p \in Hosts, NEW f \in Fids, NEW s \in ByFid(Here, f),
           l1desc[Here][s].dataObjInfo[2] = p,
           \A u \in Slots :
                l1desc'[Here][u] = IF u = s THEN FreeDesc ELSE l1desc[Here][u],
           h5files' = [h5files EXCEPT ![p][f] = None],
           NEW h \in Hosts, NEW g \in Fids, Lost(h, g)'
    PROVE  Lost(h, g)
<1>1. h5files \in [Hosts -> [Fids -> Replicas \union {None}]]
    BY DEF H5Inv, TypeOK
<1>2. h5files'[p][f] = None
    BY <1>1
<1>3. ~(h = p /\ g = f)
    BY <1>2 DEF Lost
<1>4. h5files'[h][g] = h5files[h][g]
    BY <1>1, <1>3
<1>5. ASSUME NEW t \in ByFid(Here, g), t # s
      PROVE  t \in ByFid(Here, g)' /\ l1desc'[Here][t] = l1desc[Here][t]
    BY <1>5 DEF ByFid
<1>6. ASSUME s \in ByFid(Here, g) PROVE l1desc[Here][s].dataObjInfo[2] # h
    <2>1. g = f
        BY <1>6 DEF ByFid
    <2> QED
        BY <1>3, <2>1
<1> QED
    BY <1>4, <1>5, <1>6 DEF Lost

LEMMA LostStep ==
    ASSUME H5Inv, [Next]_vars, NEW h \in Hosts, NEW f \in Fids, Lost(h, f)'
    PROVE  Lost(h, f) \/ reply'.status = "error"
<1>0. /\ l1desc \in [Hosts -> [Slots -> Desc]] /\ Here \in Hosts /\ held \subseteq Handles
    BY SessionAssumption DEF H5Inv, TypeOK
<1>1. ASSUME UNCHANGED <<l1desc, h5files>> PROVE Lost(h, f)
    BY <1>1 DEF Lost, ByFid
<1>2. ASSUME NEW op, NEW k, NEW got, Answer(op, k, got, "error") PROVE reply'.status = "error"
    BY <1>2 DEF Answer
<1>3. ASSUME NEW r \in Replicas, OpenLocal(r) PROVE Lost(h, f)
    <2>1. PICK s \in FreeSlots(Here), e \in FreshFids(Here) :
            /\ l1desc' = [l1desc EXCEPT ![Here][s] = OpenDesc(r, e)]
            /\ h5files' = [h5files EXCEPT ![Here][e] = r]
        BY <1>3, ZenonT(60) DEF OpenLocal
    <2>2. s \in Slots /\ ~l1desc[Here][s].inuseFlag /\ e \in FreshFids(r[2]) /\ r[2] = Here
        BY <1>3 DEF FreeSlots, OpenLocal
    <2>3. \A u \in Slots :
            l1desc'[Here][u] = IF u = s THEN OpenDesc(r, e) ELSE l1desc[Here][u]
        BY <1>0, <2>1, <2>2
    <2>4. h5files' = [h5files EXCEPT ![r[2]][e] = r]
        BY <2>1, <2>2
    <2> QED
        BY <2>2, <2>3, <2>4, OpenedKept
<1>4. ASSUME NEW r \in Replicas, OpenPeer(r) PROVE Lost(h, f)
    <2>0. r[2] \in Hosts /\ r[2] # Here
        BY <1>4, ReplicaHost DEF OpenPeer
    <2>1. PICK s \in FreeSlots(Here), t \in FreeSlots(r[2]), e \in FreshFids(r[2]) :
            /\ l1desc' = [l1desc EXCEPT ![Here][s] = OpenDesc(r, e),
                                        ![r[2]][t] = OpenDesc(r, e)]
            /\ h5files' = [h5files EXCEPT ![r[2]][e] = r]
        BY <1>4 DEF OpenPeer
    <2>2. s \in Slots /\ ~l1desc[Here][s].inuseFlag
        BY DEF FreeSlots
    <2>3. \A u \in Slots :
            l1desc'[Here][u] = IF u = s THEN OpenDesc(r, e) ELSE l1desc[Here][u]
        BY <1>0, <2>0, <2>1, <2>2
    <2> QED
        BY <2>1, <2>2, <2>3, OpenedKept
<1>5. ASSUME NEW r \in Replicas, OpenPeerReplyLost(r) PROVE reply'.status = "error"
    BY <1>2, <1>5 DEF OpenPeerReplyLost
<1>6. ASSUME NEW k \in held, CloseLocal(k) \/ ClosePeer(k) \/ ClosePeerUnreachable(k),
             reply'.status # "error"
      PROVE  Lost(h, f)
    <2> DEFINE s == getL1descInxByFid(Here, k.fid)
               p == l1desc[Here][s].dataObjInfo[2]
               w == getL1descInxByFid(p, k.fid)
    <2>0. k.fid \in Fids
        BY <1>0 DEF Handles
    <2>1. s \in Slots /\ l1desc[Here][s].inuseFlag /\ l1desc[Here][s].l3descInx = k.fid
        BY <1>0, <1>6, FoundEntry DEF CloseLocal, ClosePeer, ClosePeerUnreachable
    <2>2. p \in Hosts
        BY <1>0, <2>1, ReplicaHost DEF H5Inv, EntryShape
    <2>3. ~ClosePeerUnreachable(k)
        BY <1>2, <1>6 DEF ClosePeerUnreachable, CloseAnswer
    <2>4. h5files' = [h5files EXCEPT ![p][k.fid] = None]
        <3>1. CASE CloseLocal(k)
            BY <1>2, <1>6, <3>1 DEF CloseLocal, CloseAnswer
        <3>2. CASE ClosePeer(k)
            BY <1>2, <1>6, <3>2 DEF ClosePeer, CloseAnswer
        <3> QED
            BY <1>6, <2>3, <3>1, <3>2
    <2>5. \/ l1desc' = [l1desc EXCEPT ![Here][s] = FreeDesc]
          \/ l1desc' = [l1desc EXCEPT ![Here][s] = FreeDesc, ![p][w] = FreeDesc] /\ p # Here
        BY <1>6 DEF CloseLocal, ClosePeer, ClosePeerUnreachable
    <2>6. PICK t \in ByFid(Here, k.fid), q \in Hosts, e \in Fids : t = s /\ q = p /\ e = k.fid
        BY <2>0, <2>1, <2>2 DEF ByFid
    <2>7. l1desc[Here][t].dataObjInfo[2] = q
        BY <2>6
    <2> HIDE DEF p, w, s
    <2>8. \A u \in Slots :
            l1desc'[Here][u] = IF u = t THEN FreeDesc ELSE l1desc[Here][u]
        BY <1>0, <2>1, <2>5, <2>6
    <2>9. h5files' = [h5files EXCEPT ![q][e] = None] /\ t \in ByFid(Here, e)
        BY <2>4, <2>6
    <2> QED
        BY <2>7, <2>8, <2>9, ClosedKept
<1>7. ASSUME Reconnect PROVE FALSE
    BY <1>7 DEF Reconnect, Lost
<1>8. ASSUME Request PROVE Lost(h, f) \/ reply'.status = "error"
    <2>1. CASE msiH5File_open
        BY <1>1, <1>3, <1>4, <1>5, <2>1 DEF msiH5File_open, OpenError, OpenSpins, Spins,
                                            HostUnresolved
    <2>2. CASE msiH5File_close
        BY <1>1, <1>6, <2>2 DEF msiH5File_close, CloseBadFid, HostUnresolved
    <2>3. ASSUME NEW op, Read(op) PROVE Lost(h, f)
        BY <1>1, <2>3 DEF Read, ReadBadFid, ReadError, ReadFile, HostUnresolved
    <2> QED
        BY <1>8, <2>1, <2>2, <2>3 DEF Request, msiH5Dataset_read, msiH5Dataset_read_attribute,
                                      msiH5Group_read_attribute
<1> QED
    BY <1>1, <1>7, <1>8 DEF Next, vars
-----------------------------------------------------------------------------
(* Theorems *)

\* The tables of all the agents, the answers and the handles keep their types
\* (msiH5File_open.cpp, msiH5File_close.cpp).
THEOREM H5TypeOK == Spec => []TypeOK
<1>1. H5Inv => TypeOK
    BY DEF H5Inv
<1> QED
    BY H5Initial, H5Step, <1>1, PTL DEF Spec

\* An entry's file id is open on the host of its replica, as that replica's
\* file: no close takes a file from under another entry, whatever is lost
\* between the hosts (msiH5File_close.cpp:93-128).
THEOREM H5EntriesLive == Spec => []EntriesLive
<1>1. H5Inv => EntriesLive
    BY DEF H5Inv
<1> QED
    BY H5Initial, H5Step, <1>1, PTL DEF Spec

\* As many entries have a file id as the client has handles with it, so that a
\* close, which takes the first entry of the id that it finds, leaves an entry
\* for each handle the client keeps (getL1descInxByFid, msiH5File_close.cpp:96).
THEOREM H5HandlesServed == Spec => []HandlesServed
<1>1. HandlesInv => HandlesServed
    BY DEF HandlesInv
<1> QED
    BY H5Initial, H5Step, HandlesInitial, HandlesStep, <1>1, PTL DEF Spec

\* No request but one that answered an error leaves a file open that no entry of
\* the client's host stands for, on whatever host it is.
THEOREM H5FileLeakIsAnswered == Spec => FileLeakIsAnswered
<1> DEFINE A == \A h \in Hosts, f \in Fids : Lost(h, f)' => Lost(h, f) \/ reply'.status = "error"
<1>1. H5Inv /\ [Next]_vars => [A]_vars
    BY LostStep
<1>2. Spec => [][A]_vars
    <2> HIDE DEF A
    <2> QED
        BY H5Initial, H5Step, <1>1, PTL DEF Spec
<1> QED
    BY <1>2 DEF FileLeakIsAnswered
=============================================================================
