------------------------------- MODULE H5Desc -------------------------------
(***************************************************************************)
(* HDF5 files that a client has open through the hdf5 microservices.       *)
(*                                                                         *)
(* msiH5File_open takes an entry of the L1 table of the client's agent     *)
(* (Here), opens the file in the HDF5 library of the host of its replica   *)
(* and keeps the library's file id in the entry's l3descInx.  The client   *)
(* is given the file id, not the entry's index: msiH5File_close and the    *)
(* reads look the entry up by it (getL1descInxByFid).  When the replica is *)
(* on another host, the microservice is run again there, in an agent with  *)
(* a table and a library of its own; the client waits, so a request is one *)
(* step.                                                                   *)
(*                                                                         *)
(* The catalogue, the connections between servers and the HDF5 library     *)
(* are outside the repository and may fail at any call.                    *)
(***************************************************************************)
EXTENDS Integers, FiniteSets, FiniteSetsExt

CONSTANTS
    Hosts, Here,  \* the hosts, and the client's agent's
    Slots,        \* indices of an L1 table
    Objects,      \* data objects
    Replicas,     \* <<o, h>>: o has a replica on h
    Fids,         \* file ids an HDF5 library hands out (bounds it)
    None

ASSUME SessionAssumption ==
    /\ Here \in Hosts
    /\ Slots \subseteq Nat \ 0 .. 2
    /\ Replicas \subseteq Objects \X Hosts
    /\ Fids \subseteq Nat \ {0}
    /\ None \notin Replicas

VARIABLES
    l1desc,   \* the L1 table of the agent on each host
    h5files,  \* the replica that is open under each file id, on each host
    agent,    \* "up"; "spinning", it never answers; "faulted", it has ended
    reply,    \* the answer to the last request
    held      \* the H5File structures the client has open

vars == <<l1desc, h5files, agent, reply, held>>

Desc == [inuseFlag : BOOLEAN, dataObjInfo : Replicas \union {None},
         l3descInx : Fids \union {0}]

FreeDesc == [inuseFlag |-> FALSE, dataObjInfo |-> None, l3descInx |-> 0]
OpenDesc(r, f) == [inuseFlag |-> TRUE, dataObjInfo |-> r, l3descInx |-> f]

\* A handle is a file id; the replica it was answered for is what the client
\* means by it.
Handles == [fid : Fids, rep : Replicas]

Reads == {"datasetRead", "datasetAttributes", "groupAttributes"}

Replies == [op : {"none", "open", "close"} \union Reads,
            handle : Handles \union {None},
            got : Replicas \union {None},   \* what was read
            status : {"ok", "error", "badFid"}]

TypeOK ==
    /\ l1desc \in [Hosts -> [Slots -> Desc]]
    /\ h5files \in [Hosts -> [Fids -> Replicas \union {None}]]
    /\ agent \in {"up", "spinning", "faulted"}
    /\ reply \in Replies
    /\ held \subseteq Handles

Init ==
    /\ l1desc = [h \in Hosts |-> [s \in Slots |-> FreeDesc]]
    /\ h5files = [h \in Hosts |-> [f \in Fids |-> None]]
    /\ agent = "up"
    /\ reply = [op |-> "none", handle |-> None, got |-> None, status |-> "ok"]
    /\ held = {}
-----------------------------------------------------------------------------
Answer(op, k, got, st) == reply' = [op |-> op, handle |-> k, got |-> got, status |-> st]

FreeSlots(h) == {s \in Slots : ~l1desc[h][s].inuseFlag}
FreshFids(h) == {f \in Fids : h5files[h][f] = None}

ByFid(h, f) == {s \in Slots : l1desc[h][s].inuseFlag /\ l1desc[h][s].l3descInx = f}

\* The entry with the lowest index; ByFid is empty for a bad file id.
getL1descInxByFid(h, f) == Min(ByFid(h, f))
-----------------------------------------------------------------------------
(* msiH5File_open *)

\* Mutant: the library's failure is stored as a file id.
OpenErrorStored ==
    /\ \E s \in FreeSlots(Here), r \in Replicas :
        l1desc' = [l1desc EXCEPT ![Here][s] = OpenDesc(r, -1)]
    /\ Answer("open", None, None, "error")
    /\ UNCHANGED <<h5files, agent, held>>

\* The catalogue, the library here or on the peer, or the connection fails, and
\* the entries taken are closed again.
OpenError ==
    /\ Answer("open", None, None, "error")
    /\ UNCHANGED <<l1desc, h5files, agent, held>>

Opened(r, f) ==
    LET k == [fid |-> f, rep |-> r]
    IN  Answer("open", k, None, "ok") /\ held' = held \union {k}

\* The file id is an int here, as hid_t was in the HDF5 1.6 that the build asks for
\* (h5File.cpp:61; later ones have a hid_t of 64 bits).
OpenLocal(r) ==
    /\ r[2] = Here
    /\ \E s \in FreeSlots(Here), f \in FreshFids(Here) :
        /\ l1desc' = [l1desc EXCEPT ![Here][s] = OpenDesc(r, f)]
        /\ h5files' = [h5files EXCEPT ![Here][f] = r]
        /\ Opened(r, f)
    /\ UNCHANGED agent

\* The file is opened by the peer's own msiH5File_open, with LOCAL_H5_OPEN, and
\* the entry here takes the peer's file id.
OpenPeer(r) ==
    /\ r[2] # Here
    /\ \E s \in FreeSlots(Here), t \in FreeSlots(r[2]), f \in FreshFids(r[2]) :
        /\ l1desc' = [l1desc EXCEPT ![Here][s] = OpenDesc(r, f),
                                    ![r[2]][t] = OpenDesc(r, f)]
        /\ h5files' = [h5files EXCEPT ![r[2]][f] = r]
        /\ Opened(r, f)
    /\ UNCHANGED agent

\* Mutant: the client is given the structure all the same.
OpenPeerReplyLostHeld(r) ==
    /\ r[2] # Here
    /\ FreeSlots(Here) # {}
    /\ \E t \in FreeSlots(r[2]), f \in FreshFids(r[2]) :
        /\ l1desc' = [l1desc EXCEPT ![r[2]][t] = OpenDesc(r, f)]
        /\ h5files' = [h5files EXCEPT ![r[2]][f] = r]
        /\ held' = held \union {[fid |-> f, rep |-> r]}
    /\ Answer("open", None, None, "error")
    /\ UNCHANGED agent

\* The peer opened it but its answer is lost or has no *OUTF: the entry here is
\* closed, the peer's is not.
OpenPeerReplyLost(r) ==
    /\ r[2] # Here
    /\ FreeSlots(Here) # {}
    /\ \E t \in FreeSlots(r[2]), f \in FreshFids(r[2]) :
        /\ l1desc' = [l1desc EXCEPT ![r[2]][t] = OpenDesc(r, f)]
        /\ h5files' = [h5files EXCEPT ![r[2]][f] = r]
    /\ Answer("open", None, None, "error")
    /\ UNCHANGED <<agent, held>>

\* The loop over the replicas for a local one never advances: it ends at the
\* first one or not at all.  It is entered on h when the client passes
\* LOCAL_H5_OPEN or the request comes from another server; r is the first
\* replica there.  Nothing the agents hold is seen again.
Spins(h, r) ==
    /\ r[2] # h
    /\ FreeSlots(h) # {}
    /\ agent' = "spinning"
    /\ UNCHANGED <<l1desc, h5files, reply, held>>

OpenSpins ==
    \E r \in Replicas :
        \/ Spins(Here, r)
        \/ \E h \in Hosts \ {Here} :
            <<r[1], h>> \in Replicas /\ FreeSlots(Here) # {} /\ Spins(h, r)

\* An error of resolveHostByDataObjInfo is not LOCAL_HOST either, and
\* svrToSvrConnect is called with a host pointer that was never set.
HostUnresolved(op) ==
    /\ FreeSlots(Here) # {}
    /\ agent' = "faulted"
    /\ Answer(op, None, None, "error")
    /\ UNCHANGED <<l1desc, h5files, held>>

msiH5File_open ==
    \/ OpenError \/ OpenSpins \/ HostUnresolved("open")
    \/ \E r \in Replicas : OpenLocal(r) \/ OpenPeer(r) \/ OpenPeerReplyLost(r)
-----------------------------------------------------------------------------
(* msiH5File_close *)

CloseAnswer(k, st) == Answer("close", k, None, st) /\ held' = held \ {k}

CloseBadFid(f) ==
    /\ ByFid(Here, f) = {}
    /\ Answer("close", None, None, "badFid")
    /\ UNCHANGED <<l1desc, h5files, agent, held>>

\* Mutant: the entry is kept.
CloseLocalKeeps(k) ==
    /\ ByFid(Here, k.fid) # {}
    /\ l1desc[Here][getL1descInxByFid(Here, k.fid)].dataObjInfo[2] = Here
    /\ h5files' = [h5files EXCEPT ![Here][k.fid] = None]
    /\ CloseAnswer(k, "ok")
    /\ UNCHANGED <<l1desc, agent>>

\* H5File_close fails and leaves the file open, or closes it with all its open
\* datasets and groups; the entry is freed with either status.
CloseLocal(k) ==
    /\ ByFid(Here, k.fid) # {}
    /\ LET s == getL1descInxByFid(Here, k.fid)
       IN  /\ l1desc[Here][s].dataObjInfo[2] = Here
           /\ l1desc' = [l1desc EXCEPT ![Here][s] = FreeDesc]
           /\ \/ h5files' = [h5files EXCEPT ![Here][k.fid] = None] /\ CloseAnswer(k, "ok")
              \/ UNCHANGED h5files /\ CloseAnswer(k, "error")
    /\ UNCHANGED agent

\* The peer frees its entry with either status and its answer may be lost.
ClosePeer(k) ==
    /\ ByFid(Here, k.fid) # {}
    /\ LET s == getL1descInxByFid(Here, k.fid)
           p == l1desc[Here][s].dataObjInfo[2]
       IN  /\ p # Here
           /\ ByFid(p, k.fid) # {}
           /\ l1desc' = [l1desc EXCEPT ![Here][s] = FreeDesc,
                                       ![p][getL1descInxByFid(p, k.fid)] = FreeDesc]
           /\ \/ /\ h5files' = [h5files EXCEPT ![p][k.fid] = None]
                 /\ \E st \in {"ok", "error"} : CloseAnswer(k, st)
              \/ UNCHANGED h5files /\ CloseAnswer(k, "error")
    /\ UNCHANGED agent

\* Mutant: the status of the connection is lost.
ClosePeerUnreachableOk(k) ==
    /\ ByFid(Here, k.fid) # {}
    /\ LET s == getL1descInxByFid(Here, k.fid)
       IN  /\ l1desc[Here][s].dataObjInfo[2] # Here
           /\ l1desc' = [l1desc EXCEPT ![Here][s] = FreeDesc]
    /\ CloseAnswer(k, "ok")
    /\ UNCHANGED <<h5files, agent>>

\* The peer cannot be reached, or does not know the file id: the entry here is
\* freed all the same.
ClosePeerUnreachable(k) ==
    /\ ByFid(Here, k.fid) # {}
    /\ LET s == getL1descInxByFid(Here, k.fid)
       IN  /\ l1desc[Here][s].dataObjInfo[2] # Here
           /\ l1desc' = [l1desc EXCEPT ![Here][s] = FreeDesc]
    /\ CloseAnswer(k, "error")
    /\ UNCHANGED <<h5files, agent>>

msiH5File_close ==
    \/ \E f \in Fids : CloseBadFid(f)
    \/ \E k \in held : CloseLocal(k) \/ ClosePeer(k) \/ ClosePeerUnreachable(k)
    \/ held # {} /\ HostUnresolved("close")
-----------------------------------------------------------------------------
(* msiH5Dataset_read, msiH5Dataset_read_attribute, msiH5Group_read_attribute *)

ReadBadFid(op, f) ==
    /\ ByFid(Here, f) = {}
    /\ Answer(op, None, None, "badFid")
    /\ UNCHANGED <<l1desc, h5files, agent, held>>

\* The dataset or group is not found or cannot be read, or the peer cannot be
\* reached or does not answer.
ReadError(op, k) ==
    /\ ByFid(Here, k.fid) # {}
    /\ Answer(op, k, None, "error")
    /\ UNCHANGED <<l1desc, h5files, agent, held>>

\* The path is looked up in the file that has the id on the host of the entry's
\* replica.
ReadFile(op, k) ==
    /\ ByFid(Here, k.fid) # {}
    /\ LET h == l1desc[Here][getL1descInxByFid(Here, k.fid)].dataObjInfo[2]
       IN  /\ ByFid(h, k.fid) # {}
           /\ h5files[h][k.fid] # None
           /\ Answer(op, k, h5files[h][k.fid], "ok")
    /\ UNCHANGED <<l1desc, h5files, agent, held>>

Read(op) ==
    \/ \E f \in Fids : ReadBadFid(op, f)
    \/ \E k \in held : ReadError(op, k) \/ ReadFile(op, k)
    \/ held # {} /\ HostUnresolved(op)

msiH5Dataset_read == Read("datasetRead")
msiH5Dataset_read_attribute == Read("datasetAttributes")
msiH5Group_read_attribute == Read("groupAttributes")
-----------------------------------------------------------------------------
\* The agents end with the client's connection, and it connects to a new one.
Reconnect ==
    /\ l1desc' = [h \in Hosts |-> [s \in Slots |-> FreeDesc]]
    /\ h5files' = [h \in Hosts |-> [f \in Fids |-> None]]
    /\ agent' = "up"
    /\ Answer("none", None, None, "ok")
    /\ held' = {}

Request ==
    /\ agent = "up"
    /\ \/ msiH5File_open \/ msiH5File_close
       \/ msiH5Dataset_read \/ msiH5Dataset_read_attribute \/ msiH5Group_read_attribute

Next == Request \/ Reconnect

Spec == Init /\ [][Next]_vars
-----------------------------------------------------------------------------
(* Properties *)

\* The file id of an entry is open in the library of the host of the entry's
\* replica, and is that replica's file: whichever entry a request finds, it
\* never closes a file under another entry.
EntriesLive ==
    \A h \in Hosts, s \in Slots :
        LET d == l1desc[h][s]
        IN  d.inuseFlag /\ d.l3descInx # 0 => h5files[d.dataObjInfo[2]][d.l3descInx] = d.dataObjInfo

\* Every file the client has open is served: there are as many entries with a
\* file id as the client has handles with it, so closing one handle leaves the
\* others an entry, if not always their own.
HandlesServed ==
    \A f \in Fids : Cardinality({k \in held : k.fid = f}) <= Cardinality(ByFid(Here, f))

\* No entry here stands for the file that is open under f on h.
Lost(h, f) ==
    /\ h5files[h][f] # None
    /\ \A s \in ByFid(Here, f) : l1desc[Here][s].dataObjInfo[2] # h

\* A file is left open on a host with no entry here to close it by only in a
\* request that answered an error.
FileLeakIsAnswered ==
    [][\A h \in Hosts, f \in Fids : Lost(h, f)' => Lost(h, f) \/ reply'.status = "error"]_vars

\* "This microservice is for reading a dataset from an opened HDF5 file"
\* (msiH5Dataset_read.cpp:25): what is read is of the file the client means.
ReadsOwnFile == reply.op \in Reads /\ reply.status = "ok" => reply.got = reply.handle.rep
=============================================================================
