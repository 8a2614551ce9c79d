------------------------------- MODULE NcArch -------------------------------
(***************************************************************************)
(* Archiving an open-ended time series into an aggregate collection.       *)
(*                                                                         *)
(* The source gains time steps at its end while it is archived.  A run     *)
(* (rsNcArchTimeSeries) cuts the steps that are new into pieces, dumps     *)
(* each one to a numbered file, registers it in the catalogue, and last    *)
(* scans the collection and rewrites its .aggInfo, from which the next run *)
(* learns where to go on.  Agents of several clients may run at a time,    *)
(* any step may fail, and an agent may end between any two steps.          *)
(*                                                                         *)
(* Time steps are named by their index in the source.  The catalogue, the  *)
(* file system, the netCDF library and the source are outside the          *)
(* repository.                                                             *)
(***************************************************************************)
EXTENDS Integers, FiniteSets, FiniteSetsExt

CONSTANTS
    Agents,
    MaxLen,         \* bounds the source
    Time,           \* Time[i], the value of the time variable at index i
    READ_TIME_SIZE, \* time values read at once, backward, to find the start
    archFileSize,   \* size limit of a file
    timeStepSize,   \* size of one time step
    Starts,         \* the indices a client passes with --new
    NewWhenEmpty,   \* TRUE: clients pass --new for empty collections only
    NoFile, Torn,   \* nothing, or an unreadable file, at a physical path
    NoAgg           \* the collection has no .aggInfo

Indices == 0 .. MaxLen - 1

inxInterval == archFileSize \div timeStepSize + 1

ASSUME ArchAssumption ==
    /\ MaxLen \in Nat \ {0}
    /\ Time \in [Indices -> Nat]
    /\ \A i, j \in Indices : i <= j => Time[i] <= Time[j]
    /\ READ_TIME_SIZE \in Nat \ {0}
    /\ archFileSize \in Nat /\ timeStepSize \in Nat \ {0}
    /\ inxInterval \in Nat \ {0}
    /\ Starts \subseteq Nat
    /\ NewWhenEmpty \in BOOLEAN

\* inxInterval is an int, and what is computed from it stays in range.
ASSUME IntWidth == inxInterval + inxInterval \div 2 + 1 <= 2147483647

VARIABLES
    srcLen,   \* length of the source's time dimension
    cat,      \* numbers of the collection's registered files
    phys,     \* what is at the physical path of each number
    aggInfo,  \* the elements of the collection's .aggInfo
    run       \* what each agent is doing

vars == <<srcLen, cat, phys, aggInfo, run>>

\* There are at most MaxLen pieces, none of them empty.
Numbers == 0 .. MaxLen

Pieces == [first : Indices, last : Indices]
Elements == [num : Numbers, first : Indices, last : Indices]

ASSUME Sentinels == NoFile \notin Pieces /\ Torn \notin Pieces

Run == [pc : {"idle", "open", "loop", "register", "scan", "write"},
        start : Nat,      \* startTimeInx
        end : Int,        \* endTimeInx
        cur : Nat,        \* curTimeInx
        interval : Nat,   \* inxInterval
        next : Nat,       \* nextNumber
        elems : SUBSET Elements,  \* what the scan read
        op : {"none", "arch", "agg"},
        status : {"none", "ok", "error"}]

Idle == [pc |-> "idle", start |-> 0, end |-> -1, cur |-> 0, interval |-> 0,
         next |-> 0, elems |-> {}, op |-> "none", status |-> "none"]

TypeOK ==
    /\ srcLen \in 1 .. MaxLen
    /\ cat \subseteq Numbers
    /\ phys \in [Numbers -> Pieces \union {NoFile, Torn}]
    /\ aggInfo \in (SUBSET Elements) \union {NoAgg}
    /\ run \in [Agents -> Run]

Init ==
    /\ srcLen \in 1 .. MaxLen
    /\ cat = {}
    /\ phys = [n \in Numbers |-> NoFile]
    /\ aggInfo = NoAgg
    /\ run = [a \in Agents |-> Idle]

\* The run goes on with the fields of upd, or ends.
At(a, pc) == run[a].pc = pc
Goto(a, pc) == run' = [run EXCEPT ![a].pc = pc]
End(a, st) == run' = [run EXCEPT ![a] = [Idle EXCEPT !.op = run[a].op, !.status = st]]
-----------------------------------------------------------------------------
(* getTimeInxForArch *)

\* Where the reads, backward from the end of the array, begin.
ChunkStarts(len) ==
    {IF len <= k * READ_TIME_SIZE THEN 0 ELSE len - k * READ_TIME_SIZE : k \in 1 .. len}

\* Mutant: the archive goes on at the head of the chunk.
TimeInxOfChunk(len, prevEndTime) ==
    Max({c \in ChunkStarts(len) : Time[c] <= prevEndTime})

\* The first chunk that holds a time <= prevEndTime gives the last such time
\* ahead of the first later one, and the archive goes on after it.
TimeInx(len, prevEndTime) ==
    LET chunk == Max({c \in ChunkStarts(len) : Time[c] <= prevEndTime})
        later == {i \in chunk .. len - 1 : Time[i] > prevEndTime}
        nextChunk == Min({c \in ChunkStarts(len) : c > chunk} \union {len})
    IN  Min({i \in later : i < nextChunk} \union {nextChunk})

\* The elements are kept sorted by (startTime, endTime); the last one's endTime.
LastEndTime(elems) ==
    LET m == Max({Time[e.first] : e \in elems})
    IN  Max({Time[e.last] : e \in {e \in elems : Time[e.first] = m}})

\* Mutant: the last number is taken again.
NextNumberSame(elems) == Max({e.num : e \in elems} \union {0})

\* getNextAggEleObjPath
NextNumber(elems) == Max({e.num : e \in elems} \union {0}) + 1
-----------------------------------------------------------------------------
(* A run. *)

\* The source is opened and inquired: its length now is all this run will see.
OpenSource(a) ==
    /\ At(a, "idle")
    /\ run' = [run EXCEPT ![a] = [Idle EXCEPT !.pc = "open", !.end = srcLen - 1,
                                              !.interval = inxInterval, !.op = "arch"]]
    /\ UNCHANGED <<srcLen, cat, phys, aggInfo>>

\* --new
StartNew(a, s) ==
    /\ At(a, "open")
    /\ NewWhenEmpty => cat = {}
    /\ run' = [run EXCEPT ![a].pc = "loop", ![a].start = s, ![a].cur = s, ![a].next = 0]
    /\ UNCHANGED <<srcLen, cat, phys, aggInfo>>

StartIncremental(a) ==
    /\ At(a, "open")
    /\ aggInfo \notin {NoAgg, {}}
    /\ {c \in ChunkStarts(run[a].end + 1) : Time[c] <= LastEndTime(aggInfo)} # {}
    /\ LET s == TimeInx(run[a].end + 1, LastEndTime(aggInfo))
       IN  run' = [run EXCEPT ![a].pc = "loop", ![a].start = s, ![a].cur = s,
                              ![a].next = NextNumber(aggInfo)]
    /\ UNCHANGED <<srcLen, cat, phys, aggInfo>>

\* The source cannot be opened or has no usable time dimension, .aggInfo cannot be read or is empty,
\* or every time of the source is later than the archive's last.
StartFail(a) ==
    /\ At(a, "open")
    /\ End(a, "error")
    /\ UNCHANGED <<srcLen, cat, phys, aggInfo>>

\* Mutants: only what fits is done at once; a piece takes one step more.
CloseEnoughOnlyFits(r) == r.interval >= r.end - r.cur + 1
PieceEndOver(r) == r.cur + r.interval

\* "if it is close enough, just do all of it"
CloseEnough(r) == r.interval + r.interval \div 2 + 1 >= r.end - r.cur + 1
Interval(r) == IF CloseEnough(r) THEN r.end - r.cur + 1 ELSE r.interval
PieceEnd(r) == IF r.cur + Interval(r) > r.end THEN r.end ELSE r.cur + Interval(r) - 1

\* An entry for the next number is created, without opening or registering it,
\* and the piece is dumped over whatever is at its physical path.
DumpPiece(a) ==
    LET r == run[a]
    IN  /\ At(a, "loop")
        /\ r.cur < r.end
        /\ r.next \in Numbers
        /\ phys' = [phys EXCEPT ![r.next] = [first |-> r.cur, last |-> PieceEnd(r)]]
        /\ run' = [run EXCEPT ![a].pc = "register", ![a].interval = Interval(r),
                              ![a].cur = PieceEnd(r) + 1, ![a].next = @ + 1]
        /\ UNCHANGED <<srcLen, cat, aggInfo>>

\* The entry or the file cannot be created; or the dump fails later and what
\* is at the path is removed (closeAndRmNeFile).
DumpFail(a) ==
    /\ At(a, "loop")
    /\ run[a].cur < run[a].end
    /\ run[a].next \in Numbers
    /\ phys' \in {phys, [phys EXCEPT ![run[a].next] = NoFile]}
    /\ End(a, "error")
    /\ UNCHANGED <<srcLen, cat, aggInfo>>

Registered(a) == run[a].next - 1

\* svrRegDataObj
RegisterPiece(a) ==
    /\ At(a, "register")
    /\ Registered(a) \notin cat
    /\ cat' = cat \union {Registered(a)}
    /\ Goto(a, "loop")
    /\ UNCHANGED <<srcLen, phys, aggInfo>>

\* Mutant: the loop goes on without the piece.
RegisterFailIgnored(a) ==
    /\ At(a, "register")
    /\ Goto(a, "loop")
    /\ UNCHANGED <<srcLen, cat, phys, aggInfo>>

\* The catalogue refuses, as it does when the path is registered already.
RegisterFail(a) ==
    /\ At(a, "register")
    /\ End(a, "error")
    /\ UNCHANGED <<srcLen, cat, phys, aggInfo>>

LoopDone(a) ==
    /\ At(a, "loop")
    /\ run[a].cur >= run[a].end
    /\ Goto(a, "scan")
    /\ UNCHANGED <<srcLen, cat, phys, aggInfo>>
-----------------------------------------------------------------------------
(* rsNcGetAggInfo with NC_WRITE: the last step of a run, or a request of its *)
(* own (inc --agginfo).                                                      *)

Rescan(a) ==
    /\ At(a, "idle")
    /\ run' = [run EXCEPT ![a] = [Idle EXCEPT !.pc = "scan", !.op = "agg"]]
    /\ UNCHANGED <<srcLen, cat, phys, aggInfo>>

Readable(n) == phys[n] \in Pieces

\* An element of each registered file, one that cannot be read ends the scan.
ScanColl(a) ==
    /\ At(a, "scan")
    /\ \A n \in cat : Readable(n)
    /\ run' = [run EXCEPT ![a].pc = "write",
                          ![a].elems = {[num |-> n, first |-> phys[n].first,
                                         last |-> phys[n].last] : n \in cat}]
    /\ UNCHANGED <<srcLen, cat, phys, aggInfo>>

\* Mutant: a file that cannot be read is tried again.
ScanRetry(a) ==
    /\ At(a, "scan")
    /\ Goto(a, "scan")
    /\ UNCHANGED <<srcLen, cat, phys, aggInfo>>

ScanFail(a) ==
    /\ At(a, "scan")
    /\ End(a, "error")
    /\ UNCHANGED <<srcLen, cat, phys, aggInfo>>

\* An error is answered after the write when the collection also holds a data
\* object that is not netCDF (savedStatus).
WriteAgg(a) ==
    /\ At(a, "write")
    /\ aggInfo' = run[a].elems
    /\ End(a, "ok") \/ End(a, "error")
    /\ UNCHANGED <<srcLen, cat, phys>>

WriteFail(a) ==
    /\ At(a, "write")
    /\ End(a, "error")
    /\ UNCHANGED <<srcLen, cat, phys, aggInfo>>
-----------------------------------------------------------------------------
\* The agent ends; a file it was writing is left as it is.
Crash(a) ==
    /\ ~At(a, "idle")
    /\ IF At(a, "loop") /\ run[a].cur < run[a].end /\ run[a].next \in Numbers
       THEN phys' \in {phys, [phys EXCEPT ![run[a].next] = Torn]}
       ELSE UNCHANGED phys
    /\ run' = [run EXCEPT ![a] = Idle]
    /\ UNCHANGED <<srcLen, cat, aggInfo>>

\* The source gains a time step.
Grow ==
    /\ srcLen < MaxLen
    /\ srcLen' = srcLen + 1
    /\ UNCHANGED <<cat, phys, aggInfo, run>>

Step(a) ==
    \/ \E s \in Starts : StartNew(a, s)
    \/ StartIncremental(a) \/ StartFail(a)
    \/ DumpPiece(a) \/ DumpFail(a)
    \/ RegisterPiece(a) \/ RegisterFail(a)
    \/ LoopDone(a)
    \/ ScanColl(a) \/ ScanFail(a)
    \/ WriteAgg(a) \/ WriteFail(a)

Next ==
    \/ \E a \in Agents : Step(a) \/ OpenSource(a) \/ Rescan(a) \/ Crash(a)
    \/ Grow

Spec == Init /\ [][Next]_vars

\* An agent goes on with the request it has begun.
FairSpec == Spec /\ \A a \in Agents : WF_vars(Step(a))
-----------------------------------------------------------------------------
(* Properties *)

\* A run that archives leaves no step of its source behind: when it has left
\* the loop, either all steps from start to end are dumped, or at most one was
\* new.  In particular a piece is never cut so that the loop, which stops ahead
\* of the last index, skips a last single step.
LoopEndsAtEnd ==
    \A a \in Agents :
        run[a].op = "arch" /\ run[a].pc \in {"scan", "write"} =>
            \/ run[a].cur = run[a].end + 1
            \/ run[a].cur = run[a].start /\ run[a].cur >= run[a].end

\* What .aggInfo says of a file is so: it is registered, and no later run, not
\* one that retries after a failure either, has written over it.
AggInfoFaithful ==
    aggInfo # NoAgg =>
        \A e \in aggInfo : e.num \in cat /\ phys[e.num] = [first |-> e.first, last |-> e.last]

\* When a run answers ok, .aggInfo reaches the last step its source had when it
\* was opened, but for one step; it is empty only after a --new at the end.
OkArchives ==
    [][\A a \in Agents :
        run[a].op = "arch" /\ run[a].pc = "write" /\ run'[a].status = "ok" =>
            \/ \E e \in aggInfo' : e.last >= run[a].end - 1
            \/ aggInfo' = {} /\ run[a].start >= run[a].end]_vars

\* A request that was begun is answered, unless its agent ends.
RunTerminates == \A a \in Agents : ~At(a, "idle") ~> At(a, "idle")

\* The archive a reader of the collection sees.
Archive ==
    INSTANCE AggArchive WITH
        length <- srcLen,
        pieces <- IF aggInfo = NoAgg THEN {}
                  ELSE {[first |-> e.first, last |-> e.last] : e \in aggInfo}

ImplementsArchive == Archive!Spec
=============================================================================
