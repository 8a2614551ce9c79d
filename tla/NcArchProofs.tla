---------------------------- MODULE NcArchProofs ----------------------------
(***************************************************************************)
(* Theorems about archiving, for any source, any limit on the files and    *)
(* any failure: of any number of agents at once, and of runs that do not   *)
(* overlap.                                                                *)
(***************************************************************************)
EXTENDS NcArch, CommonLemmas

-----------------------------------------------------------------------------
(* The operators. *)

LEMMA ChunkStartsType ==
    ASSUME NEW len \in Nat
    PROVE  ChunkStarts(len) \subseteq 0 .. len
BY ArchAssumption DEF ChunkStarts

\* getTimeInxForArch answers an index of the source, or its length, and never
\* one ahead of a step the archive does not hold: at the answer, or from there
\* to the end of its chunk, the times are later.
LEMMA TimeInxType ==
    ASSUME NEW len \in 1 .. MaxLen, NEW t,
           {c \in ChunkStarts(len) : Time[c] <= t} # {}
    PROVE  TimeInx(len, t) \in 0 .. len
<1> DEFINE before == {c \in ChunkStarts(len) : Time[c] <= t}
           chunk == Max(before)
           later == {i \in chunk .. len - 1 : Time[i] > t}
           nexts == {c \in ChunkStarts(len) : c > chunk} \union {len}
           nextChunk == Min(nexts)
           cand == {i \in later : i < nextChunk} \union {nextChunk}
<1>0. len \in Nat
    BY ArchAssumption
<1>1. before \subseteq 0 .. len /\ before # {}
    BY <1>0, ChunkStartsType
<1>2. chunk \in 0 .. len
    <2> HIDE DEF before
    <2> QED
        BY <1>0, <1>1, MaxOf
<1> HIDE DEF chunk
<1>3. nexts \subseteq 0 .. len /\ nexts # {} /\ nexts \subseteq Nat
    BY <1>0, ChunkStartsType
<1>4. nextChunk \in 0 .. len
    <2> HIDE DEF nexts
    <2> QED
        BY <1>3, MinOf
<1> HIDE DEF nextChunk
<1>5. cand \subseteq 0 .. len /\ cand # {} /\ cand \subseteq Nat
    BY <1>0, <1>2, <1>4
<1>6. Min(cand) \in 0 .. len
    <2> HIDE DEF cand
    <2> QED
        BY <1>5, MinOf
<1> QED
    BY <1>6 DEF TimeInx, chunk, nextChunk

LEMMA NextNumberType ==
    ASSUME NEW elems \in SUBSET Elements
    PROVE  NextNumber(elems) \in Nat
<1> DEFINE T == {e.num : e \in elems} \union {0}
<1>1. MaxLen \in Nat /\ T \subseteq 0 .. MaxLen /\ T # {}
    BY ArchAssumption DEF Elements, Numbers
<1>2. Max(T) \in 0 .. MaxLen
    <2> HIDE DEF T
    <2> QED
        BY <1>1, MaxOf
<1> QED
    BY <1>1, <1>2 DEF NextNumber

-----------------------------------------------------------------------------
(* The invariant. *)

\* At the head of the loop, and whenever a piece has been dumped, the index is
\* where it began, past the end, or at least two steps are left: a piece that
\* is not the last takes inxInterval steps when more than half as many again
\* and one are left.
Ahead(r) ==
    \/ r.cur = r.start /\ r.interval = inxInterval
    \/ r.cur = r.end + 1
    \/ r.cur < r.end /\ r.interval = inxInterval

RunInv(r) ==
    /\ r.end \in -1 .. MaxLen - 1
    /\ r.pc = "open" => r.interval = inxInterval /\ r.end >= 0 /\ r.op = "arch"
    /\ r.pc \in {"loop", "register"} => r.interval >= 1 /\ r.op = "arch" /\ Ahead(r)
    /\ r.pc = "register" => r.next - 1 \in Numbers
    /\ r.op = "arch" /\ r.pc \in {"scan", "write"} =>
            r.cur = r.end + 1 \/ (r.cur = r.start /\ r.cur >= r.end)

ArchInv == TypeOK /\ \A a \in Agents : RunInv(run[a])

LEMMA RunStep ==
    ASSUME ArchInv, NEW a \in Agents, NEW r \in Run, RunInv(r),
           run' = [run EXCEPT ![a] = r],
           UNCHANGED srcLen, cat' \subseteq Numbers,
           phys' \in [Numbers -> Pieces \union {NoFile, Torn}],
           aggInfo' \in (SUBSET Elements) \union {NoAgg}
    PROVE  ArchInv'
BY DEF ArchInv, TypeOK

LEMMA IdleType ==
    /\ Idle \in Run
    /\ Idle.end = -1 /\ Idle.end \in -1 .. MaxLen - 1
    /\ Idle.pc = "idle" /\ Idle.op = "none"
<1>1. {} \in SUBSET Elements /\ 0 \in Nat /\ -1 \in Int /\ MaxLen \in Nat
    BY ArchAssumption
<1>2. Idle \in Run
    BY <1>1 DEF Idle, Run
<1> QED
    BY <1>1, <1>2 DEF Idle

LEMMA EndInv ==
    ASSUME ArchInv, NEW a \in Agents, NEW st \in {"ok", "error"}, End(a, st),
           UNCHANGED <<srcLen, cat>>,
           phys' \in [Numbers -> Pieces \union {NoFile, Torn}],
           aggInfo' \in (SUBSET Elements) \union {NoAgg}
    PROVE  ArchInv'
<1> DEFINE r == [Idle EXCEPT !.op = run[a].op, !.status = st]
<1>1. run[a] \in Run
    BY DEF ArchInv, TypeOK
<1>2. r \in Run /\ r.pc = "idle" /\ r.end = -1
    BY <1>1, IdleType DEF Run
<1>3. RunInv(r)
    BY <1>2, IdleType DEF RunInv
<1>4. run' = [run EXCEPT ![a] = r] /\ cat' \subseteq Numbers
    BY DEF End, ArchInv, TypeOK
<1> HIDE DEF r
<1> QED
    BY <1>2, <1>3, <1>4, RunStep

LEMMA BeginInv ==
    ASSUME ArchInv, NEW a \in Agents, OpenSource(a) \/ Rescan(a)
    PROVE  ArchInv'
<1> DEFINE opened == [Idle EXCEPT !.pc = "open", !.end = srcLen - 1,
                                  !.interval = inxInterval, !.op = "arch"]
           scanning == [Idle EXCEPT !.pc = "scan", !.op = "agg"]
<1>1. /\ srcLen \in 1 .. MaxLen /\ MaxLen \in Nat
      /\ inxInterval \in Nat
    BY ArchAssumption DEF ArchInv, TypeOK
<1>2. /\ opened \in Run /\ opened.pc = "open" /\ opened.end = srcLen - 1
      /\ opened.interval = inxInterval /\ opened.op = "arch"
    <2>1. srcLen - 1 \in Int
        BY <1>1
    <2>2. opened \in Run
        BY <1>1, <2>1, IdleType DEF Run
    <2>3. opened.pc = "open" /\ opened.end = srcLen - 1
        BY IdleType DEF Run
    <2>4. opened.interval = inxInterval /\ opened.op = "arch"
        BY IdleType DEF Run
    <2> QED
        BY <2>2, <2>3, <2>4
<1>3. RunInv(opened)
    BY <1>1, <1>2 DEF RunInv
<1>4. scanning \in Run /\ scanning.pc = "scan" /\ scanning.op = "agg" /\ scanning.end = -1
    BY <1>1, IdleType DEF Run
<1>5. RunInv(scanning)
    BY <1>4, IdleType DEF RunInv
<1>6. /\ \/ run' = [run EXCEPT ![a] = opened]
         \/ run' = [run EXCEPT ![a] = scanning]
      /\ UNCHANGED <<srcLen, cat, phys, aggInfo>>
    BY DEF OpenSource, Rescan
<1> HIDE DEF opened, scanning
<1>7. /\ cat' \subseteq Numbers
      /\ phys' \in [Numbers -> Pieces \union {NoFile, Torn}]
      /\ aggInfo' \in (SUBSET Elements) \union {NoAgg}
    BY <1>6 DEF ArchInv, TypeOK
<1> QED
    BY <1>2, <1>3, <1>4, <1>5, <1>6, <1>7, RunStep

LEMMA StartInv ==
    ASSUME ArchInv, NEW a \in Agents, At(a, "open"), NEW s \in Nat, NEW n \in Nat,
           run' = [run EXCEPT ![a].pc = "loop", ![a].start = s, ![a].cur = s, ![a].next = n],
           UNCHANGED <<srcLen, cat, phys, aggInfo>>
    PROVE  ArchInv'
<1> DEFINE r == [run[a] EXCEPT !.pc = "loop", !.start = s, !.cur = s, !.next = n]
<1>1. run[a] \in Run /\ RunInv(run[a]) /\ run[a].pc = "open"
    BY DEF ArchInv, TypeOK, At
<1>2. inxInterval \in Nat \ {0}
    BY ArchAssumption
<1>3. r \in Run
    BY <1>1 DEF Run
<1>4. RunInv(r)
    BY <1>1, <1>2 DEF Run, RunInv, Ahead
<1>5. run' = [run EXCEPT ![a] = r]
    BY DEF ArchInv, TypeOK
<1> QED
    BY <1>3, <1>4, <1>5, RunStep DEF ArchInv, TypeOK

LEMMA LastOfPiece ==
    ASSUME NEW r \in Run, RunInv(r), r.pc = "loop", r.cur < r.end
    PROVE  /\ r.cur \in Indices /\ PieceEnd(r) \in Indices
           /\ r.cur <= PieceEnd(r)
           /\ Interval(r) \in Nat \ {0}
           /\ \/ PieceEnd(r) = r.end
              \/ PieceEnd(r) + 1 < r.end /\ Interval(r) = inxInterval
<1>1. /\ r.cur \in Nat /\ r.end \in Int /\ r.interval \in Nat /\ r.interval >= 1
      /\ r.end \in -1 .. MaxLen - 1 /\ Ahead(r)
    BY DEF Run, RunInv
<1>2. r.interval = inxInterval /\ MaxLen \in Nat
    BY <1>1, ArchAssumption DEF Ahead
<1>3. CASE CloseEnough(r)
    BY <1>1, <1>2, <1>3 DEF Interval, PieceEnd, Indices
<1>4. CASE ~CloseEnough(r)
    <2>1. PICK h \in Nat : h = r.interval \div 2
        BY <1>1
    <2>2. r.interval + h + 1 < r.end - r.cur + 1
        BY <1>1, <1>4, <2>1 DEF CloseEnough
    <2>3. Interval(r) = r.interval /\ PieceEnd(r) = r.cur + r.interval - 1
        BY <1>1, <1>4, <2>1, <2>2 DEF Interval, PieceEnd
    <2> QED
        BY <1>1, <1>2, <2>1, <2>2, <2>3 DEF Indices
<1> QED
    BY <1>3, <1>4

LEMMA DumpPieceInv ==
    ASSUME ArchInv, NEW a \in Agents, DumpPiece(a)
    PROVE  ArchInv'
<1> DEFINE r == run[a]
           q == [r EXCEPT !.pc = "register", !.interval = Interval(r),
                          !.cur = PieceEnd(r) + 1, !.next = @ + 1]
<1>1. r \in Run /\ RunInv(r) /\ r.pc = "loop" /\ r.cur < r.end /\ r.next \in Numbers
    BY DEF ArchInv, TypeOK, DumpPiece, At
<1>2. /\ r.cur \in Indices /\ PieceEnd(r) \in Indices
      /\ r.cur <= PieceEnd(r)
      /\ Interval(r) \in Nat \ {0}
      /\ \/ PieceEnd(r) = r.end
         \/ PieceEnd(r) + 1 < r.end /\ Interval(r) = inxInterval
    BY <1>1, LastOfPiece
<1>3. /\ run' = [run EXCEPT ![a] = q]
      /\ phys' = [phys EXCEPT ![r.next] = [first |-> r.cur, last |-> PieceEnd(r)]]
      /\ UNCHANGED <<srcLen, cat, aggInfo>>
    BY DEF DumpPiece, ArchInv, TypeOK
<1>4. PieceEnd(r) + 1 \in Nat /\ r.next \in Nat /\ r.next + 1 \in Nat
    BY <1>1, <1>2 DEF Indices, Run
<1> HIDE DEF r
<1>5. q \in Run
    BY <1>1, <1>2, <1>4 DEF Run
<1>6. /\ q.pc = "register" /\ q.interval = Interval(r) /\ q.cur = PieceEnd(r) + 1
      /\ q.next = r.next + 1
    BY <1>1 DEF Run
<1>7. q.op = r.op /\ q.end = r.end /\ q.start = r.start
    BY <1>1 DEF Run
<1> HIDE DEF q
<1>8. Ahead(q)
    BY <1>2, <1>6, <1>7 DEF Ahead, Indices
<1>9. r.op = "arch" /\ r.end \in -1 .. MaxLen - 1
    BY <1>1 DEF RunInv
<1>10. RunInv(q)
    <2>1. q.next - 1 = r.next /\ q.interval >= 1
        BY <1>2, <1>4, <1>6
    <2> QED
        BY <1>1, <1>6, <1>7, <1>8, <1>9, <2>1 DEF RunInv
<1>11. phys' \in [Numbers -> Pieces \union {NoFile, Torn}]
    <2>1. [first |-> r.cur, last |-> PieceEnd(r)] \in Pieces
        BY <1>2 DEF Pieces
    <2> QED
        BY <1>3, <2>1 DEF ArchInv, TypeOK
<1> QED
    BY <1>3, <1>5, <1>10, <1>11, RunStep DEF ArchInv, TypeOK

\* The agent goes to another step with what it has.
LEMMA GotoInv ==
    ASSUME ArchInv, NEW a \in Agents, NEW pc \in {"loop", "scan"}, Goto(a, pc),
           \/ pc = "loop" /\ run[a].pc = "register"
           \/ pc = "scan" /\ run[a].pc = "loop" /\ run[a].cur >= run[a].end,
           UNCHANGED <<srcLen, phys, aggInfo>>, cat' \subseteq Numbers
    PROVE  ArchInv'
<1> DEFINE r == run[a]
           q == [r EXCEPT !.pc = pc]
<1>1. r \in Run /\ RunInv(r)
    BY DEF ArchInv, TypeOK
<1>2. run' = [run EXCEPT ![a] = q]
    BY DEF Goto, ArchInv, TypeOK
<1>3. /\ r.cur \in Nat /\ r.end \in Int /\ r.start \in Nat
    BY <1>1 DEF Run
<1>4. \/ pc = "loop" /\ r.pc = "register"
      \/ pc = "scan" /\ r.pc = "loop" /\ r.cur >= r.end
    OBVIOUS
<1> HIDE DEF r
<1>5. q \in Run /\ q.pc = pc
    BY <1>1, <1>4 DEF Run
<1>6. /\ q.op = r.op /\ q.end = r.end /\ q.start = r.start /\ q.cur = r.cur
      /\ q.interval = r.interval /\ q.next = r.next
    BY <1>1 DEF Run
<1> HIDE DEF q
<1>7. r.interval >= 1 /\ r.op = "arch" /\ Ahead(r) /\ r.end \in -1 .. MaxLen - 1
    BY <1>1, <1>4 DEF RunInv
<1>8. ASSUME pc = "loop" PROVE RunInv(q)
    <2>1. Ahead(q)
        BY <1>6, <1>7 DEF Ahead
    <2> QED
        BY <1>5, <1>6, <1>7, <1>8, <2>1 DEF RunInv
<1>9. ASSUME pc = "scan" PROVE RunInv(q)
    <2>1. r.cur >= r.end
        BY <1>4, <1>9
    <2>2. r.cur = r.end + 1 \/ (r.cur = r.start /\ r.cur >= r.end)
        BY <1>3, <1>7, <2>1 DEF Ahead
    <2> QED
        BY <1>5, <1>6, <1>7, <1>9, <2>2 DEF RunInv
<1>10. RunInv(q)
    BY <1>8, <1>9
<1> QED
    BY <1>2, <1>5, <1>10, RunStep DEF ArchInv, TypeOK

LEMMA ScanCollInv ==
    ASSUME ArchInv, NEW a \in Agents, ScanColl(a)
    PROVE  ArchInv'
<1> DEFINE r == run[a]
           elems == {[num |-> n, first |-> phys[n].first, last |-> phys[n].last] : n \in cat}
           q == [r EXCEPT !.pc = "write", !.elems = elems]
<1>1. r \in Run /\ RunInv(r) /\ r.pc = "scan"
    BY DEF ArchInv, TypeOK, ScanColl, At
<1>2. run' = [run EXCEPT ![a] = q] /\ UNCHANGED <<srcLen, cat, phys, aggInfo>>
    BY DEF ScanColl, ArchInv, TypeOK
<1>3. elems \in SUBSET Elements
    <2>1. ASSUME NEW n \in cat
          PROVE  [num |-> n, first |-> phys[n].first, last |-> phys[n].last] \in Elements
        <3>1. phys[n] \in Pieces /\ n \in Numbers
            BY DEF ScanColl, Readable, ArchInv, TypeOK
        <3> QED
            BY <3>1 DEF Pieces, Elements
    <2> QED
        BY <2>1
<1> HIDE DEF r, elems
<1>4. q \in Run /\ q.pc = "write"
    BY <1>1, <1>3 DEF Run
<1>5. q.op = r.op /\ q.end = r.end /\ q.start = r.start /\ q.cur = r.cur
    BY <1>1 DEF Run
<1> HIDE DEF q
<1>6. RunInv(q)
    BY <1>1, <1>4, <1>5 DEF RunInv
<1> QED
    BY <1>2, <1>4, <1>6, RunStep DEF ArchInv, TypeOK

LEMMA CrashInv ==
    ASSUME ArchInv, NEW a \in Agents, Crash(a)
    PROVE  ArchInv'
<1>1. run' = [run EXCEPT ![a] = Idle] /\ UNCHANGED <<srcLen, cat, aggInfo>>
    BY DEF Crash
<1>2. phys' \in [Numbers -> Pieces \union {NoFile, Torn}]
    BY DEF Crash, ArchInv, TypeOK
<1>3. Idle \in Run /\ RunInv(Idle)
    BY IdleType DEF RunInv
<1> QED
    BY <1>1, <1>2, <1>3, RunStep DEF ArchInv, TypeOK

LEMMA StartStepInv ==
    ASSUME ArchInv, NEW a \in Agents,
           (\E s \in Starts : StartNew(a, s)) \/ StartIncremental(a)
    PROVE  ArchInv'
<1>1. ASSUME NEW s \in Starts, StartNew(a, s) PROVE ArchInv'
    <2>1. s \in Nat /\ 0 \in Nat
        BY ArchAssumption
    <2> QED
        BY <1>1, <2>1, StartInv DEF StartNew
<1>2. ASSUME StartIncremental(a) PROVE ArchInv'
    <2> DEFINE len == run[a].end + 1
               t == LastEndTime(aggInfo)
    <2>1. aggInfo \in SUBSET Elements /\ At(a, "open")
        BY <1>2 DEF StartIncremental, ArchInv, TypeOK
    <2>2. run[a] \in Run /\ RunInv(run[a])
        BY DEF ArchInv, TypeOK
    <2>3. run[a].end >= 0 /\ run[a].end \in -1 .. MaxLen - 1
        BY <2>1, <2>2 DEF RunInv, At
    <2>4. len \in 1 .. MaxLen /\ MaxLen \in Nat
        BY <2>3, ArchAssumption
    <2>5. {c \in ChunkStarts(len) : Time[c] <= t} # {}
        BY <1>2 DEF StartIncremental
    <2>6. /\ run' = [run EXCEPT ![a].pc = "loop", ![a].start = TimeInx(len, t),
                                ![a].cur = TimeInx(len, t), ![a].next = NextNumber(aggInfo)]
          /\ UNCHANGED <<srcLen, cat, phys, aggInfo>>
        BY <1>2 DEF StartIncremental
    <2>7. NextNumber(aggInfo) \in Nat
        BY <2>1, NextNumberType
    <2> HIDE DEF len, t
    <2>8. TimeInx(len, t) \in Nat
        <3>1. TimeInx(len, t) \in 0 .. len
            BY <2>4, <2>5, TimeInxType
        <3> QED
            BY <2>4, <3>1
    <2> QED
        BY <2>1, <2>6, <2>7, <2>8, StartInv
<1> QED
    BY <1>1, <1>2

\* Every step an agent takes within a request.
LEMMA StepInv ==
    ASSUME ArchInv, NEW a \in Agents, Step(a)
    PROVE  ArchInv'
<1>1. CASE (\E s \in Starts : StartNew(a, s)) \/ StartIncremental(a)
    BY <1>1, StartStepInv
<1>2. CASE StartFail(a) \/ RegisterFail(a) \/ ScanFail(a) \/ WriteFail(a)
    <2>1. End(a, "error") /\ UNCHANGED <<srcLen, cat, phys, aggInfo>>
        BY <1>2 DEF StartFail, RegisterFail, ScanFail, WriteFail
    <2> QED
        BY <2>1, EndInv DEF ArchInv, TypeOK
<1>3. CASE DumpPiece(a)
    BY <1>3, DumpPieceInv
<1>4. CASE DumpFail(a)
    <2>1. End(a, "error") /\ UNCHANGED <<srcLen, cat, aggInfo>>
        BY <1>4 DEF DumpFail
    <2>2. phys' \in [Numbers -> Pieces \union {NoFile, Torn}]
        BY <1>4 DEF DumpFail, ArchInv, TypeOK
    <2> QED
        BY <2>1, <2>2, EndInv DEF ArchInv, TypeOK
<1>5. CASE RegisterPiece(a)
    <2>1. /\ Goto(a, "loop") /\ run[a].pc = "register"
          /\ UNCHANGED <<srcLen, phys, aggInfo>>
          /\ cat' = cat \union {run[a].next - 1}
        BY <1>5 DEF RegisterPiece, At, Registered
    <2>2. run[a].next - 1 \in Numbers
        BY <2>1 DEF ArchInv, RunInv
    <2>3. cat' \subseteq Numbers
        BY <2>1, <2>2 DEF ArchInv, TypeOK
    <2> QED
        BY <2>1, <2>3, GotoInv
<1>6. CASE LoopDone(a)
    <2>1. /\ Goto(a, "scan") /\ run[a].pc = "loop" /\ run[a].cur >= run[a].end
          /\ UNCHANGED <<srcLen, cat, phys, aggInfo>>
        BY <1>6 DEF LoopDone, At
    <2>2. cat' \subseteq Numbers
        BY <2>1 DEF ArchInv, TypeOK
    <2> QED
        BY <2>1, <2>2, GotoInv
<1>7. CASE ScanColl(a)
    BY <1>7, ScanCollInv
<1>8. CASE WriteAgg(a)
    <2>1. PICK st \in {"ok", "error"} :
            End(a, st) /\ UNCHANGED <<srcLen, cat, phys>> /\ aggInfo' = run[a].elems
        BY <1>8 DEF WriteAgg
    <2>2. run[a].elems \in SUBSET Elements
        BY DEF ArchInv, TypeOK, Run
    <2>3. phys' \in [Numbers -> Pieces \union {NoFile, Torn}]
        BY <2>1 DEF ArchInv, TypeOK
    <2> QED
        BY <2>1, <2>2, <2>3, EndInv
<1> QED
    BY <1>1, <1>2, <1>3, <1>4, <1>5, <1>6, <1>7, <1>8 DEF Step

LEMMA ArchInvHolds == Spec => []ArchInv
<1>1. Init => ArchInv
    <2> SUFFICES ASSUME Init PROVE ArchInv
        OBVIOUS
    <2>1. TypeOK
        BY IdleType DEF Init, TypeOK
    <2>2. \A a \in Agents : RunInv(run[a])
        BY IdleType DEF Init, RunInv
    <2> QED
        BY <2>1, <2>2 DEF ArchInv
<1>2. ArchInv /\ [Next]_vars => ArchInv'
    <2> SUFFICES ASSUME ArchInv, [Next]_vars PROVE ArchInv'
        OBVIOUS
    <2>1. ASSUME NEW a \in Agents, Step(a) PROVE ArchInv'
        BY <2>1, StepInv
    <2>2. ASSUME NEW a \in Agents, OpenSource(a) \/ Rescan(a) PROVE ArchInv'
        BY <2>2, BeginInv
    <2>3. ASSUME NEW a \in Agents, Crash(a) PROVE ArchInv'
        BY <2>3, CrashInv
    <2>4. CASE Grow
        BY <2>4, ArchAssumption DEF Grow, ArchInv, TypeOK
    <2>5. CASE UNCHANGED vars
        BY <2>5 DEF vars, ArchInv, TypeOK
    <2> QED
        BY <2>1, <2>2, <2>3, <2>4, <2>5 DEF Next
<1> QED
    BY <1>1, <1>2, PTL DEF Spec
-----------------------------------------------------------------------------
(* One run at a time *)

\* Of several agents at most one archives or scans at a time, as when clients
\* take turns.  (Two at a time may undo each other's files: see arch_two.)
OneAtATime == \A a, b \in Agents : ~At(a, "idle") /\ ~At(b, "idle") => a = b

\* No two steps have the same time.
TimesAscend == \A i, j \in Indices : i < j => Time[i] < Time[j]

Described(n) == aggInfo # NoAgg /\ \E e \in aggInfo : e.num = n

\* The lengths of the source that runs go by, now or later.
Busy(a) == run[a].pc # "idle" /\ run[a].op = "arch"
Lengths == {srcLen} \union {run[a].end + 1 : a \in {b \in Agents : Busy(b)}}

\* A piece that begins at i is not the last one, in any run.
MoreFrom(i) == \A l \in Lengths : l - i > inxInterval + inxInterval \div 2 + 1

\* The registered files are numbered from 0 and hold pieces in a row: n begins
\* at f[n], also when it cannot be read now and will be dumped again.  Of those
\* that are not described only the last may be dumped again with another end.
Numbered == \A n \in cat : \A m \in 0 .. n : m \in cat

Begins(f) ==
    \A n \in cat : Readable(n) =>
        phys[n].first = f[n] /\ f[n] <= phys[n].last /\ phys[n].last < srcLen

Adjacent(f) ==
    \A n \in cat : n + 1 \in cat =>
        /\ Readable(n) => phys[n].last + 1 = f[n + 1]
        /\ ~Described(n) => f[n + 1] = f[n] + inxInterval /\ MoreFrom(f[n])

Ascending(f) == \A n, m \in cat : m < n => f[m] < f[n]

NoGap(f) ==
    \A n \in cat : \A i \in f[0] .. f[n] - 1 :
        \E m \in cat : m + 1 \in cat /\ f[m] <= i /\ i < f[m + 1]

InRow(f) == Begins(f) /\ Adjacent(f) /\ Ascending(f) /\ NoGap(f)

DescribedFirst ==
    aggInfo # NoAgg => \A e \in aggInfo : \A n \in cat : n <= e.num => Described(n)

\* The piece with number n may begin at c.
Follows(n, c) ==
    /\ n = 0 => cat = {}
    /\ n # 0 => n - 1 \in cat /\ Readable(n - 1) /\ phys[n - 1].last + 1 = c
    /\ \A m \in Numbers : Described(m) => m < n

Whole(n) ==
    n \in Numbers /\ ~Described(n) =>
        phys[n].last + 1 = phys[n].first + inxInterval /\ MoreFrom(phys[n].first)

ElementsOfCat ==
    {[num |-> n, first |-> phys[n].first, last |-> phys[n].last] : n \in cat}

\* What a run knows of the collection, at each point of it.
OpenOk(r) ==
    /\ r.op = "arch" => r.end < srcLen
    /\ aggInfo # NoAgg => \A e \in aggInfo : e.last <= r.end

PlaceOk(r) ==
    r.end < srcLen /\ Follows(r.next, r.cur) /\ (r.next = 0 => r.cur = r.start)

RegisterOk(r, n) ==
    /\ Readable(n) /\ phys[n].first <= phys[n].last /\ phys[n].last + 1 = r.cur
    /\ r.cur <= r.end + 1 /\ r.end < srcLen
    /\ Follows(n, phys[n].first) /\ Whole(n - 1)
    /\ r.cur < r.end => Whole(n)

RunOk(r) ==
    /\ r.pc # "idle" => r.status # "ok"
    /\ r.pc = "open" => OpenOk(r)
    /\ r.pc = "loop" => PlaceOk(r) /\ (r.cur < r.end => Whole(r.next - 1))
    /\ r.pc = "register" => RegisterOk(r, r.next - 1)
    /\ r.pc \in {"scan", "write"} /\ r.op = "arch" => PlaceOk(r)
    /\ r.pc = "write" => (\A n \in cat : Readable(n)) /\ r.elems = ElementsOfCat

CollInv ==
    /\ Numbered /\ (\E f \in [cat -> Indices] : InRow(f))
    /\ AggInfoFaithful /\ DescribedFirst
    /\ \A a \in Agents : RunOk(run[a])

LEMMA ChunkStartsBelow ==
    ASSUME NEW len \in Nat \ {0}
    PROVE  ChunkStarts(len) \subseteq 0 .. len - 1
<1> SUFFICES ASSUME NEW k \in 1 .. len
             PROVE  (IF len <= k * READ_TIME_SIZE THEN 0 ELSE len - k * READ_TIME_SIZE)
                        \in 0 .. len - 1
    BY DEF ChunkStarts
<1>1. READ_TIME_SIZE \in Nat /\ READ_TIME_SIZE >= 1 /\ k \in Nat /\ k >= 1
    BY ArchAssumption
<1> DEFINE m == k * READ_TIME_SIZE
<1>2. m \in Nat /\ m >= 1
    BY <1>1
<1> HIDE DEF m
<1>3. (IF len <= m THEN 0 ELSE len - m) \in 0 .. len - 1
    BY <1>2
<1> QED
    BY <1>3 DEF m

\* getTimeInxForArch finds the index after the one that has the time, in
\* whatever chunk it is.
LEMMA TimeInxIsNext ==
    ASSUME TimesAscend, NEW len \in 1 .. MaxLen, NEW l \in 0 .. len - 1,
           {c \in ChunkStarts(len) : Time[c] <= Time[l]} # {}
    PROVE  TimeInx(len, Time[l]) = l + 1
<1> DEFINE before == {c \in ChunkStarts(len) : Time[c] <= Time[l]}
           chunk == Max(before)
           later == {i \in chunk .. len - 1 : Time[i] > Time[l]}
           nexts == {c \in ChunkStarts(len) : c > chunk} \union {len}
           nextChunk == Min(nexts)
           cand == {i \in later : i < nextChunk} \union {nextChunk}
<1>1. /\ len \in Nat \ {0} /\ MaxLen \in Nat /\ ChunkStarts(len) \subseteq 0 .. len - 1
      /\ l \in Nat
    BY ArchAssumption, ChunkStartsBelow
<1>2. 0 .. len - 1 \subseteq Indices
    BY <1>1 DEF Indices
<1>3. ASSUME NEW i \in 0 .. len - 1
      PROVE  /\ Time[i] \in Nat /\ Time[l] \in Nat
             /\ Time[i] <= Time[l] <=> i <= l
    <2>1. i \in Indices /\ l \in Indices /\ i \in Int
        BY <1>1, <1>2
    <2>2. Time[i] \in Nat /\ Time[l] \in Nat
        BY <2>1, ArchAssumption
    <2>3. i < l => Time[i] < Time[l]
        BY <2>1 DEF TimesAscend
    <2>4. l < i => Time[l] < Time[i]
        BY <2>1 DEF TimesAscend
    <2> QED
        BY <1>1, <2>1, <2>2, <2>3, <2>4
<1>4. before \subseteq 0 .. len /\ before # {} /\ before \subseteq 0 .. l
    BY <1>1, <1>3
<1>5. chunk \in before /\ \A c \in before : c <= chunk
    <2>1. Max(before) \in before /\ \A y \in before : Max(before) >= y
        <3> HIDE DEF before
        <3> QED
            BY <1>1, <1>4, MaxOf
    <2> QED
        BY <2>1, <1>1
<1>6. chunk \in 0 .. l
    BY <1>4, <1>5
<1> HIDE DEF chunk
<1>7. nexts # {} /\ nexts \subseteq Nat /\ \A c \in nexts : c > l
    <2>1. ASSUME NEW c \in ChunkStarts(len), c > chunk PROVE c > l
        <3>1. c \in 0 .. len - 1 /\ c \notin before
            BY <1>1, <1>5, <1>6, <2>1
        <3> QED
            BY <1>1, <1>3, <3>1
    <2> QED
        BY <1>1, <2>1
<1>8. nextChunk \in nexts /\ nextChunk \in Nat /\ nextChunk > l /\ nextChunk <= len
    <2>1. Min(nexts) \in nexts /\ \A y \in nexts : Min(nexts) <= y
        <3> HIDE DEF nexts
        <3> QED
            BY <1>7, MinOf
    <2> QED
        BY <1>7, <2>1
<1> HIDE DEF nextChunk
<1>9. \A i \in chunk .. len - 1 : i \in later <=> i > l
    BY <1>1, <1>3, <1>6
<1>10. cand \subseteq Nat /\ l + 1 \in cand /\ \A i \in cand : l + 1 <= i
    <2>1. ASSUME NEW i \in later PROVE i \in Nat /\ l + 1 <= i
        BY <1>1, <1>6, <1>9
    <2>2. CASE l + 1 = nextChunk
        BY <1>1, <1>8, <2>1, <2>2
    <2>3. CASE l + 1 # nextChunk
        <3>1. l + 1 \in chunk .. len - 1 /\ l + 1 < nextChunk
            BY <1>1, <1>6, <1>8, <2>3
        <3> QED
            BY <1>1, <1>8, <1>9, <2>1, <3>1
    <2> QED
        BY <2>2, <2>3
<1>11. Min(cand) = l + 1
    <2>1. Min(cand) \in cand /\ \A y \in cand : Min(cand) <= y
        <3> HIDE DEF cand
        <3> QED
            BY <1>10, MinOf
    <2> QED
        BY <1>1, <1>10, <2>1
<1> QED
    BY <1>11 DEF TimeInx, chunk, nextChunk

\* What an element says is so (AggInfoFaithful), in terms of its file.
LEMMA ElementIs ==
    ASSUME TypeOK, AggInfoFaithful, aggInfo # NoAgg, NEW e \in aggInfo
    PROVE  /\ e \in Elements /\ e.num \in cat /\ e.num \in Numbers /\ Readable(e.num)
           /\ e.first = phys[e.num].first /\ e.last = phys[e.num].last
           /\ e.first \in Indices /\ e.last \in Indices
           /\ [first |-> e.first, last |-> e.last] = phys[e.num]
<1>1. e \in Elements
    BY DEF TypeOK
<1>2. /\ e.num \in Numbers /\ e.first \in Indices /\ e.last \in Indices
      /\ e.num \in cat /\ phys[e.num] = [first |-> e.first, last |-> e.last]
    BY <1>1 DEF AggInfoFaithful, Elements
<1>3. phys[e.num] \in Pieces
    BY <1>2 DEF Pieces
<1> QED
    BY <1>1, <1>2, <1>3 DEF Readable

\* The element with the last number is also the one that ends last, so the
\* archive goes on after it (getNextAggEleObjPath, readAggInfo).
LEMMA LastElement ==
    ASSUME TimesAscend, TypeOK, AggInfoFaithful, NEW f \in [cat -> Indices], InRow(f),
           aggInfo \notin {NoAgg, {}}
    PROVE  \E e \in aggInfo :
              /\ NextNumber(aggInfo) = e.num + 1
              /\ LastEndTime(aggInfo) = Time[e.last]
              /\ \A d \in aggInfo : d.num <= e.num
<1> DEFINE nums == {d.num : d \in aggInfo} \union {0}
           firsts == {Time[d.first] : d \in aggInfo}
<1>0. MaxLen \in Nat /\ Indices \subseteq Int /\ Indices \subseteq Nat
    BY ArchAssumption DEF Indices
<1>1. \A d \in aggInfo :
        /\ d \in Elements /\ d.num \in cat /\ d.num \in Numbers /\ d.first = f[d.num]
        /\ d.first \in Indices /\ d.last \in Indices
        /\ [first |-> d.first, last |-> d.last] = phys[d.num]
    BY ElementIs DEF InRow, Begins
<1>10. ASSUME NEW d \in aggInfo PROVE d.num \in 0 .. MaxLen /\ d.num \in Nat
    <2>1. d.num \in Numbers
        BY <1>1
    <2> QED
        BY <1>0, <2>1 DEF Numbers
<1>2. PICK e \in aggInfo : e.num = Max(nums) /\ \A d \in aggInfo : d.num <= e.num
    <2>1. nums \subseteq 0 .. MaxLen /\ nums # {}
        BY <1>0, <1>10
    <2>2. Max(nums) \in nums /\ \A y \in nums : Max(nums) >= y
        <3> HIDE DEF nums
        <3> QED
            BY <1>0, <2>1, MaxOf
    <2>3. ASSUME NEW d \in aggInfo PROVE d.num \in Nat /\ d.num <= Max(nums)
        <3>1. d.num \in nums /\ d.num \in Nat /\ Max(nums) \in Nat
            BY <1>0, <1>10, <2>1, <2>2
        <3> HIDE DEF nums
        <3> QED
            BY <2>2, <3>1
    <2>4. PICK d \in aggInfo : TRUE
        OBVIOUS
    <2>5. \E e \in aggInfo : e.num = Max(nums)
        <3>1. CASE Max(nums) = 0
            BY <2>3, <2>4, <3>1
        <3>2. CASE Max(nums) # 0
            BY <2>2, <3>2
        <3> QED
            BY <3>1, <3>2
    <2> QED
        BY <2>3, <2>5
<1>3. NextNumber(aggInfo) = e.num + 1
    BY <1>2 DEF NextNumber
<1> HIDE DEF nums
<1>4. \A i \in Indices : Time[i] \in Nat
    BY ArchAssumption
<1>5. ASSUME NEW d \in aggInfo
      PROVE  /\ Time[d.first] <= Time[e.first]
             /\ Time[d.first] = Time[e.first] => d = e
    <2>1. d.num \in Nat /\ e.num \in Nat /\ d.num <= e.num
        BY <1>2, <1>10
    <2>2. d.first \in Indices /\ e.first \in Indices
        BY <1>1
    <2>3. Time[d.first] \in Nat /\ Time[e.first] \in Nat
        BY <1>4, <2>2
    <2>4. CASE d.num = e.num
        <3>1. /\ [first |-> d.first, last |-> d.last] = phys[e.num]
              /\ [first |-> e.first, last |-> e.last] = phys[e.num]
            BY <1>1, <2>4
        <3>2. d.first = e.first /\ d.last = e.last
            BY <3>1
        <3>3. d \in Elements /\ e \in Elements
            BY <1>1
        <3>4. d = e
            BY <2>4, <3>2, <3>3 DEF Elements
        <3> QED
            BY <2>3, <3>4
    <2>5. CASE d.num # e.num
        <3>1. d.num < e.num
            BY <2>1, <2>5
        <3>2. d.first = f[d.num] /\ e.first = f[e.num] /\ d.num \in cat /\ e.num \in cat
            BY <1>1
        <3>3. d.first < e.first
            BY <3>1, <3>2 DEF InRow, Ascending
        <3>4. Time[d.first] < Time[e.first]
            BY <2>2, <3>3 DEF TimesAscend
        <3> QED
            BY <2>3, <3>4
    <2> QED
        BY <2>4, <2>5
<1>6. Max(firsts) = Time[e.first]
    <2>1. Time[e.first] \in Nat /\ Time[e.first] \in firsts /\ firsts # {}
        BY <1>1, <1>4
    <2>2. firsts \subseteq 0 .. Time[e.first]
        <3>1. ASSUME NEW d \in aggInfo PROVE Time[d.first] \in 0 .. Time[e.first]
            <4>1. d.first \in Indices /\ Time[d.first] <= Time[e.first]
                BY <1>1, <1>5
            <4> QED
                BY <1>4, <2>1, <4>1
        <3> QED
            BY <3>1
    <2>3. Max(firsts) \in firsts /\ \A y \in firsts : Max(firsts) >= y
        <3> HIDE DEF firsts
        <3> QED
            BY <2>1, <2>2, MaxOf
    <2> HIDE DEF firsts
    <2> QED
        <3>1. Max(firsts) \in 0 .. Time[e.first] /\ Max(firsts) >= Time[e.first]
            BY <2>1, <2>2, <2>3
        <3> QED
            BY <2>1, <3>1
<1>7. {Time[d.last] : d \in {d \in aggInfo : Time[d.first] = Max(firsts)}} = {Time[e.last]}
    <2> HIDE DEF firsts
    <2>1. {d \in aggInfo : Time[d.first] = Max(firsts)} = {e}
        BY <1>5, <1>6
    <2> QED
        BY <2>1
<1>8. LastEndTime(aggInfo) = Max({Time[e.last]})
    BY <1>7 DEF LastEndTime
<1>9. Max({Time[e.last]}) = Time[e.last]
    <2>1. Time[e.last] \in Nat
        BY <1>1, <1>4
    <2> DEFINE T == {Time[e.last]}
    <2>2. T \subseteq 0 .. Time[e.last] /\ T # {}
        BY <2>1
    <2>3. Max(T) \in T
        <3> HIDE DEF T
        <3> QED
            BY <2>1, <2>2, MaxOf
    <2> QED
        BY <2>3
<1> QED
    BY <1>2, <1>3, <1>8, <1>9

-----------------------------------------------------------------------------
(* What steps leave *)

LEMMA ArchTypes ==
    ASSUME ArchInv
    PROVE  /\ MaxLen \in Nat /\ Indices \subseteq Nat /\ Numbers \subseteq Nat
           /\ inxInterval \in Nat /\ inxInterval >= 1
           /\ srcLen \in Nat /\ srcLen >= 1 /\ srcLen <= MaxLen
           /\ cat \subseteq Numbers /\ Lengths \subseteq Int
           /\ \A n \in Numbers : Readable(n) =>
                phys[n] \in Pieces /\ phys[n].first \in Indices /\ phys[n].last \in Indices
           /\ aggInfo # NoAgg => aggInfo \in SUBSET Elements
           /\ \A a \in Agents : run[a] \in Run /\ RunInv(run[a])
<1>1. /\ MaxLen \in Nat /\ Indices \subseteq Nat /\ Numbers \subseteq Nat
      /\ inxInterval \in Nat /\ inxInterval >= 1
    BY ArchAssumption DEF Indices, Numbers
<1>2. \A a \in Agents : run[a] \in Run /\ RunInv(run[a]) /\ run[a].end \in Int
    BY DEF ArchInv, TypeOK, Run
<1>3. srcLen \in Nat /\ srcLen >= 1 /\ srcLen <= MaxLen
    BY <1>1 DEF ArchInv, TypeOK
<1>4. Lengths \subseteq Int
    BY <1>2, <1>3 DEF Lengths
<1>5. \A n \in Numbers : Readable(n) =>
        phys[n] \in Pieces /\ phys[n].first \in Indices /\ phys[n].last \in Indices
    BY DEF Readable, Pieces
<1> QED
    BY <1>1, <1>2, <1>3, <1>4, <1>5 DEF ArchInv, TypeOK

LEMMA ArchTypesNext ==
    ASSUME ArchInv'
    PROVE  /\ srcLen' \in Nat /\ cat' \subseteq Numbers /\ Lengths' \subseteq Int
           /\ \A n \in Numbers : Readable(n)' =>
                /\ phys'[n] \in Pieces /\ phys'[n].first \in Indices
                /\ phys'[n].last \in Indices /\ phys'[n].last \in Int
<1>1. MaxLen \in Nat /\ Indices \subseteq Int
    BY ArchAssumption DEF Indices
<1>2. \A a \in Agents : run'[a].end \in Int
    BY DEF ArchInv, TypeOK, Run
<1>3. srcLen' \in Nat /\ cat' \subseteq Numbers
    BY <1>1 DEF ArchInv, TypeOK
<1>4. Lengths' \subseteq Int
    BY <1>2, <1>3 DEF Lengths
<1>5. \A n \in Numbers : Readable(n)' =>
        phys'[n] \in Pieces /\ phys'[n].first \in Indices /\ phys'[n].last \in Indices
    BY DEF Readable, Pieces
<1> QED
    BY <1>1, <1>3, <1>4, <1>5

\* No run goes by a shorter source than some run or the source did before.
Longer == \A l \in Lengths' : \E k \in Lengths : k <= l

LEMMA MoreFromKept ==
    ASSUME ArchInv, ArchInv', Longer, NEW i \in Int, MoreFrom(i)
    PROVE  MoreFrom(i)'
<1>1. Lengths \subseteq Int /\ Lengths' \subseteq Int
    BY ArchTypes, ArchTypesNext
<1> DEFINE x == inxInterval + inxInterval \div 2 + 1
<1>2. x \in Int
    BY ArchTypes
<1> HIDE DEF x
<1>3. \A l \in Lengths : l - i > x
    BY DEF MoreFrom, x
<1>4. \A l \in Lengths' : l - i > x
    BY <1>1, <1>2, <1>3 DEF Longer
<1> QED
    BY <1>4 DEF MoreFrom, x

\* Files change, but each that can be read now begins where it did, and ends
\* where it did if another one follows.
LEMMA RowKept ==
    ASSUME ArchInv, ArchInv', Longer, NEW f \in [cat -> Indices], InRow(f), UNCHANGED cat,
           srcLen <= srcLen',
           \A n \in cat : Described(n) => Described(n)',
           \A n \in cat : Readable(n)' =>
              \/ phys'[n] = phys[n]
              \/ /\ phys'[n].first = f[n] /\ f[n] <= phys'[n].last /\ phys'[n].last < srcLen
                 /\ n + 1 \in cat => phys'[n].last + 1 = f[n + 1]
    PROVE  InRow(f)'
<1>1. /\ srcLen \in Int /\ srcLen' \in Int /\ cat \subseteq Numbers /\ Numbers \subseteq Nat
      /\ \A n \in cat : f[n] \in Int
    BY ArchTypes, ArchTypesNext
<1>2. ASSUME NEW n \in cat, Readable(n)'
      PROVE  /\ phys'[n].first = f[n] /\ f[n] <= phys'[n].last /\ phys'[n].last < srcLen'
             /\ n + 1 \in cat => phys'[n].last + 1 = f[n + 1]
    <2>1. phys'[n].last \in Int
        BY <1>1, <1>2, ArchTypesNext
    <2>2. CASE phys'[n] = phys[n]
        <3>1. Readable(n)
            BY <1>2, <2>2 DEF Readable, Pieces
        <3> QED
            BY <1>1, <2>1, <2>2, <3>1 DEF InRow, Begins, Adjacent
    <2>3. CASE phys'[n] # phys[n]
        BY <1>1, <1>2, <2>1, <2>3
    <2> QED
        BY <2>2, <2>3
<1>3. Begins(f)'
    BY <1>2 DEF Begins
<1>4. Adjacent(f)'
    <2> SUFFICES ASSUME NEW n \in cat, n + 1 \in cat
                 PROVE  /\ Readable(n)' => phys'[n].last + 1 = f[n + 1]
                        /\ ~Described(n)' => f[n + 1] = f[n] + inxInterval /\ MoreFrom(f[n])'
        BY DEF Adjacent
    <2>1. ASSUME ~Described(n)' PROVE f[n + 1] = f[n] + inxInterval /\ MoreFrom(f[n])'
        <3>1. f[n + 1] = f[n] + inxInterval /\ MoreFrom(f[n])
            BY <2>1 DEF InRow, Adjacent
        <3> QED
            BY <1>1, <3>1, MoreFromKept
    <2> QED
        BY <1>2, <2>1
<1>5. Ascending(f)' /\ NoGap(f)'
    BY DEF InRow, Ascending, NoGap
<1> QED
    BY <1>3, <1>4, <1>5 DEF InRow

LEMMA FilesKept ==
    ASSUME ArchInv, ArchInv', CollInv, Longer, UNCHANGED <<cat, aggInfo>>, srcLen <= srcLen',
           NEW f \in [cat -> Indices], InRow(f),
           \A n \in Numbers : Described(n) => phys'[n] = phys[n],
           \A n \in cat : Readable(n)' =>
              \/ phys'[n] = phys[n]
              \/ /\ phys'[n].first = f[n] /\ f[n] <= phys'[n].last /\ phys'[n].last < srcLen
                 /\ n + 1 \in cat => phys'[n].last + 1 = f[n + 1]
    PROVE  /\ Numbered' /\ (\E g \in [cat -> Indices] : InRow(g))'
           /\ AggInfoFaithful' /\ DescribedFirst'
<1>1. \A n \in cat : Described(n) => Described(n)'
    BY DEF Described
<1>2. InRow(f)'
    BY <1>1, RowKept
<1>3. AggInfoFaithful'
    <2>1. ASSUME aggInfo # NoAgg, NEW e \in aggInfo
          PROVE  e.num \in cat /\ phys'[e.num] = [first |-> e.first, last |-> e.last]
        <3>1. e.num \in cat /\ phys[e.num] = [first |-> e.first, last |-> e.last]
            BY <2>1 DEF CollInv, AggInfoFaithful
        <3>2. Described(e.num) /\ e.num \in Numbers
            BY <2>1, <3>1, ArchTypes DEF Described
        <3> QED
            BY <3>1, <3>2
    <2> QED
        BY <2>1 DEF AggInfoFaithful
<1>4. Numbered' /\ DescribedFirst'
    BY DEF CollInv, Numbered, DescribedFirst, Described
<1> QED
    BY <1>2, <1>3, <1>4

LEMMA SameFiles ==
    ASSUME ArchInv, ArchInv', CollInv, Longer, UNCHANGED <<cat, phys, aggInfo>>, srcLen <= srcLen'
    PROVE  /\ Numbered' /\ (\E f \in [cat -> Indices] : InRow(f))'
           /\ AggInfoFaithful' /\ DescribedFirst'
<1>1. PICK f \in [cat -> Indices] : InRow(f)
    BY DEF CollInv
<1> QED
    BY <1>1, FilesKept

LEMMA RunLonger ==
    ASSUME ArchInv, NEW a \in Agents, NEW r \in Run, run' = [run EXCEPT ![a] = r],
           UNCHANGED srcLen,
           r.pc # "idle" /\ r.op = "arch" =>
              r.end + 1 = srcLen \/ (Busy(a) /\ r.end = run[a].end)
    PROVE  Longer
<1>1. ASSUME NEW b \in Agents, Busy(b)' PROVE run'[b].end + 1 \in Lengths
    <2>1. CASE b = a
        <3>1. run'[b] = r
            BY <2>1 DEF ArchInv, TypeOK
        <3> QED
            BY <1>1, <3>1 DEF Busy, Lengths
    <2>2. CASE b # a
        <3>1. run'[b] = run[b]
            BY <2>2 DEF ArchInv, TypeOK
        <3> QED
            BY <1>1, <3>1 DEF Busy, Lengths
    <2> QED
        BY <2>1, <2>2
<1>2. Lengths' \subseteq Lengths
    BY <1>1 DEF Lengths
<1>3. Lengths \subseteq Int
    BY ArchTypes
<1> QED
    BY <1>2, <1>3 DEF Longer

\* The invariant after a step of one agent: the others are idle.
LEMMA CollStep ==
    ASSUME ArchInv, CollInv, OneAtATime, OneAtATime',
           NEW a \in Agents, NEW r \in Run, run' = [run EXCEPT ![a] = r],
           run[a].pc # "idle" \/ r.pc # "idle",
           Numbered', (\E f \in [cat -> Indices] : InRow(f))', AggInfoFaithful', DescribedFirst',
           RunOk(r)'
    PROVE  CollInv'
<1>1. ASSUME NEW b \in Agents PROVE RunOk(run[b])'
    <2>1. CASE b = a
        <3>1. run'[b] = r
            BY <2>1 DEF ArchInv, TypeOK
        <3> QED
            BY <3>1 DEF RunOk, OpenOk, PlaceOk, RegisterOk
    <2>2. CASE b # a
        <3>1. run'[b] = run[b] /\ run'[a] = r
            BY <2>2 DEF ArchInv, TypeOK
        <3>2. run'[b].pc = "idle"
            BY <2>2, <3>1 DEF OneAtATime, At
        <3> QED
            BY <3>2 DEF RunOk
    <2> QED
        BY <2>1, <2>2
<1> QED
    BY <1>1 DEF CollInv

-----------------------------------------------------------------------------
(* The steps *)

\* The agent that takes a step goes by what it went by, or by the source now.
LEMMA NewRun ==
    ASSUME ArchInv, ArchInv', NEW a \in Agents, NEW r, run' = [run EXCEPT ![a] = r]
    PROVE  r \in Run /\ run'[a] = r /\ RunInv(r)
BY DEF ArchInv, TypeOK

LEMMA EndColl ==
    ASSUME ArchInv, ArchInv', CollInv, OneAtATime, OneAtATime',
           NEW a \in Agents, run[a].pc # "idle", run'[a].pc = "idle",
           NEW r, run' = [run EXCEPT ![a] = r],
           UNCHANGED <<srcLen, cat, aggInfo>>,
           \A n \in Numbers : Described(n) => phys'[n] = phys[n],
           \A n \in Numbers : phys'[n] = phys[n] \/ ~Readable(n)'
    PROVE  CollInv'
<1>1. r \in Run /\ r.pc = "idle"
    BY NewRun
<1>2. Longer
    BY <1>1, RunLonger
<1>3. RunOk(r)'
    BY <1>1 DEF RunOk
<1>4. PICK f \in [cat -> Indices] : InRow(f)
    BY DEF CollInv
<1>5. srcLen <= srcLen' /\ cat \subseteq Numbers
    BY ArchTypes
<1>6. /\ Numbered' /\ (\E g \in [cat -> Indices] : InRow(g))'
      /\ AggInfoFaithful' /\ DescribedFirst'
    BY <1>2, <1>4, <1>5, FilesKept
<1> QED
    BY <1>1, <1>3, <1>6, CollStep

LEMMA BeginColl ==
    ASSUME ArchInv, ArchInv', CollInv, OneAtATime, OneAtATime',
           NEW a \in Agents, OpenSource(a) \/ Rescan(a)
    PROVE  CollInv'
<1>0. UNCHANGED <<srcLen, cat, phys, aggInfo>> /\ srcLen \in Nat /\ srcLen <= srcLen'
    BY ArchTypes DEF OpenSource, Rescan
<1>1. PICK r \in Run :
        /\ run' = [run EXCEPT ![a] = r] /\ r.status = "none"
        /\ \/ r.pc = "open" /\ r.op = "arch" /\ r.end = srcLen - 1
           \/ r.pc = "scan" /\ r.op = "agg"
    <2>1. CASE OpenSource(a)
        <3> DEFINE r == [Idle EXCEPT !.pc = "open", !.end = srcLen - 1,
                                     !.interval = inxInterval, !.op = "arch"]
        <3>1. run' = [run EXCEPT ![a] = r]
            BY <2>1 DEF OpenSource
        <3>2. r.pc = "open" /\ r.op = "arch" /\ r.end = srcLen - 1 /\ r.status = "none"
            BY DEF Idle
        <3> HIDE DEF r
        <3> QED
            BY <3>1, <3>2, NewRun
    <2>2. CASE Rescan(a)
        <3> DEFINE r == [Idle EXCEPT !.pc = "scan", !.op = "agg"]
        <3>1. run' = [run EXCEPT ![a] = r]
            BY <2>2 DEF Rescan
        <3>2. r.pc = "scan" /\ r.op = "agg" /\ r.status = "none"
            BY DEF Idle
        <3> HIDE DEF r
        <3> QED
            BY <3>1, <3>2, NewRun
    <2> QED
        BY <2>1, <2>2
<1>2. Longer
    <2>1. r.pc # "idle" /\ r.op = "arch" => r.end + 1 = srcLen
        BY <1>0, <1>1
    <2> QED
        BY <1>0, <1>1, <2>1, RunLonger
<1>3. ASSUME r.pc = "open" PROVE OpenOk(r)'
    <2>1. r.end = srcLen - 1 /\ r.end < srcLen /\ srcLen \in Int
        BY <1>0, <1>1, <1>3
    <2>2. ASSUME aggInfo # NoAgg, NEW e \in aggInfo PROVE e.last <= r.end
        <3>1. TypeOK /\ AggInfoFaithful
            BY DEF ArchInv, CollInv
        <3>2. e.num \in cat /\ Readable(e.num) /\ e.last = phys[e.num].last /\ e.last \in Indices
            BY <2>2, <3>1, ElementIs
        <3>3. e.last < srcLen
            BY <3>2 DEF CollInv, InRow, Begins
        <3>4. e.last \in Int
            BY <3>2, ArchTypes
        <3> QED
            BY <2>1, <3>3, <3>4
    <2> QED
        BY <1>0, <2>1, <2>2 DEF OpenOk
<1>4. RunOk(r)'
    BY <1>1, <1>3 DEF RunOk
<1>5. /\ Numbered' /\ (\E f \in [cat -> Indices] : InRow(f))'
      /\ AggInfoFaithful' /\ DescribedFirst'
    BY <1>0, <1>2, SameFiles
<1> QED
    BY <1>1, <1>4, <1>5, CollStep

\* A run goes from one place of the program to another.
LEMMA GoneOn ==
    ASSUME ArchInv, ArchInv', CollInv, OneAtATime, OneAtATime',
           NEW a \in Agents, run[a].pc # "idle",
           NEW r \in Run, run' = [run EXCEPT ![a] = r], r.op = run[a].op, r.end = run[a].end,
           UNCHANGED <<srcLen, cat, phys, aggInfo>>, RunOk(r)'
    PROVE  CollInv'
<1>1. Longer
    BY RunLonger DEF Busy
<1>2. srcLen <= srcLen'
    BY ArchTypes
<1>3. /\ Numbered' /\ (\E f \in [cat -> Indices] : InRow(f))'
      /\ AggInfoFaithful' /\ DescribedFirst'
    BY <1>1, <1>2, SameFiles
<1> QED
    BY <1>3, CollStep

LEMMA FollowsNext ==
    ASSUME NEW n \in Nat, n \in cat, Readable(n), NEW c, phys[n].last + 1 = c,
           \A m \in Numbers : Described(m) => m < n + 1
    PROVE  Follows(n + 1, c)
<1>1. n + 1 # 0 /\ n + 1 - 1 = n
    OBVIOUS
<1> DEFINE k == n + 1
<1> HIDE DEF k
<1>2. Follows(k, c)
    BY <1>1 DEF Follows, k
<1> QED
    BY <1>2 DEF k

LEMMA StartColl ==
    ASSUME ArchInv, ArchInv', CollInv, OneAtATime, OneAtATime', NEW a \in Agents,
           At(a, "open"), UNCHANGED <<srcLen, cat, phys, aggInfo>>,
           NEW q \in Run, run' = [run EXCEPT ![a] = q],
           q.pc = "loop", q.start = q.cur,
           q.op = run[a].op, q.end = run[a].end, q.status = run[a].status,
           Follows(q.next, q.cur), q.next # 0 => Described(q.next - 1)
    PROVE  CollInv'
<1>1. run[a] \in Run /\ RunInv(run[a]) /\ RunOk(run[a]) /\ run[a].pc = "open"
    BY ArchTypes DEF CollInv, At
<1>2. run[a].end < srcLen /\ run[a].status # "ok"
    BY <1>1 DEF RunInv, RunOk, OpenOk
<1>3. PlaceOk(q)'
    BY <1>2 DEF PlaceOk, Follows, Readable, Described
<1>4. Whole(q.next - 1)'
    <2>1. CASE q.next = 0
        <3>1. q.next - 1 \notin Numbers
            BY <2>1, ArchTypes
        <3> QED
            BY <3>1 DEF Whole
    <2>2. CASE q.next # 0
        <3>1. Described(q.next - 1)'
            BY <2>2 DEF Described
        <3> QED
            BY <3>1 DEF Whole
    <2> QED
        BY <2>1, <2>2
<1>5. RunOk(q)'
    BY <1>2, <1>3, <1>4 DEF RunOk
<1> QED
    BY <1>1, <1>5, GoneOn

LEMMA StartNewColl ==
    ASSUME ArchInv, ArchInv', CollInv, OneAtATime, OneAtATime', NewWhenEmpty = TRUE,
           NEW a \in Agents, NEW s \in Starts, StartNew(a, s)
    PROVE  CollInv'
<1>1. s \in Nat /\ 0 \in Nat /\ cat = {}
    BY ArchAssumption DEF StartNew
<1>2. \A m \in Numbers : ~Described(m)
    BY <1>1 DEF CollInv, AggInfoFaithful, Described
<1>3. Follows(0, s)
    BY <1>1, <1>2 DEF Follows
<1>4. /\ run' = [run EXCEPT ![a].pc = "loop", ![a].start = s, ![a].cur = s, ![a].next = 0]
      /\ UNCHANGED <<srcLen, cat, phys, aggInfo>> /\ At(a, "open")
    BY DEF StartNew
<1>5. PICK q \in Run :
        /\ run' = [run EXCEPT ![a] = q]
        /\ q.pc = "loop" /\ q.start = s /\ q.cur = s /\ q.next = 0
        /\ q.op = run[a].op /\ q.end = run[a].end /\ q.status = run[a].status
    <2> DEFINE q == [run[a] EXCEPT !.pc = "loop", !.start = s, !.cur = s, !.next = 0]
    <2>1. run[a] \in Run
        BY ArchTypes
    <2>2. run' = [run EXCEPT ![a] = q]
        BY <1>4 DEF ArchInv, TypeOK
    <2>3. /\ q.pc = "loop" /\ q.start = s /\ q.cur = s /\ q.next = 0
          /\ q.op = run[a].op /\ q.end = run[a].end /\ q.status = run[a].status
        BY <2>1 DEF Run
    <2> HIDE DEF q
    <2> QED
        BY <2>2, <2>3, NewRun
<1>6. Follows(q.next, q.cur)
    BY <1>3, <1>5
<1> QED
    BY <1>4, <1>5, <1>6, StartColl, ZenonT(40)

LEMMA StartIncrementalColl ==
    ASSUME ArchInv, ArchInv', CollInv, OneAtATime, OneAtATime', TimesAscend,
           NEW a \in Agents, StartIncremental(a)
    PROVE  CollInv'
<1>1. TypeOK /\ AggInfoFaithful /\ At(a, "open") /\ aggInfo \notin {NoAgg, {}}
    BY DEF ArchInv, CollInv, StartIncremental
<1>2. PICK f \in [cat -> Indices] : InRow(f)
    BY DEF CollInv
<1>3. PICK e \in aggInfo : /\ NextNumber(aggInfo) = e.num + 1
                           /\ LastEndTime(aggInfo) = Time[e.last]
                           /\ \A d \in aggInfo : d.num <= e.num
    BY <1>1, <1>2, LastElement
<1>4. /\ e.num \in cat /\ e.num \in Numbers /\ Readable(e.num)
      /\ e.last = phys[e.num].last /\ e.last \in Indices
    BY <1>1, ElementIs
<1>5. e.num \in Nat /\ e.last \in Nat /\ MaxLen \in Nat
    BY <1>4, ArchTypes
<1> DEFINE len == run[a].end + 1
<1>6. RunInv(run[a]) /\ RunOk(run[a]) /\ run[a] \in Run
    BY ArchTypes DEF CollInv
<1>7. run[a].end \in -1 .. MaxLen - 1 /\ e.last <= run[a].end
    BY <1>1, <1>6 DEF RunInv, RunOk, OpenOk, At
<1>8. len \in 1 .. MaxLen /\ e.last \in 0 .. len - 1
    BY <1>5, <1>7
<1>9. {c \in ChunkStarts(len) : Time[c] <= Time[e.last]} # {}
    BY <1>3 DEF StartIncremental
<1>10. TimeInx(len, Time[e.last]) = e.last + 1
    BY <1>8, <1>9, TimeInxIsNext
<1>11. /\ run' = [run EXCEPT ![a].pc = "loop", ![a].start = e.last + 1,
                             ![a].cur = e.last + 1, ![a].next = e.num + 1]
       /\ UNCHANGED <<srcLen, cat, phys, aggInfo>>
    BY <1>3, <1>10 DEF StartIncremental
<1>12. PICK n \in Nat, s \in Nat : n = e.num + 1 /\ s = e.last + 1
    BY <1>5
<1>13. run' = [run EXCEPT ![a].pc = "loop", ![a].start = s, ![a].cur = s, ![a].next = n]
    BY <1>11, <1>12
<1>14. Follows(n, s)
    <2>1. ASSUME NEW m \in Numbers, Described(m) PROVE m < e.num + 1
        <3>1. PICK d \in aggInfo : d.num = m
            BY <2>1 DEF Described
        <3>2. m <= e.num /\ m \in Nat
            BY <1>3, <3>1, ArchTypes
        <3> QED
            BY <1>5, <3>2
    <2>2. Follows(e.num + 1, e.last + 1)
        BY <1>4, <1>5, <2>1, FollowsNext
    <2> QED
        BY <1>12, <2>2
<1>15. Described(n - 1)
    <2>1. n - 1 = e.num
        BY <1>5, <1>12
    <2>2. Described(e.num)
        BY <1>1 DEF Described
    <2> QED
        BY <2>1, <2>2
<1>16. PICK q \in Run :
         /\ run' = [run EXCEPT ![a] = q]
         /\ q.pc = "loop" /\ q.start = s /\ q.cur = s /\ q.next = n
         /\ q.op = run[a].op /\ q.end = run[a].end /\ q.status = run[a].status
    <2> DEFINE q == [run[a] EXCEPT !.pc = "loop", !.start = s, !.cur = s, !.next = n]
    <2>1. run[a] \in Run
        BY ArchTypes
    <2>2. run' = [run EXCEPT ![a] = q]
        BY <1>13 DEF ArchInv, TypeOK
    <2>3. /\ q.pc = "loop" /\ q.start = s /\ q.cur = s /\ q.next = n
          /\ q.op = run[a].op /\ q.end = run[a].end /\ q.status = run[a].status
        BY <2>1 DEF Run
    <2> HIDE DEF q
    <2> QED
        BY <2>2, <2>3, NewRun
<1>17. Follows(q.next, q.cur) /\ Described(q.next - 1)
    BY <1>14, <1>15, <1>16
<1>18. UNCHANGED <<srcLen, cat, phys, aggInfo>> /\ At(a, "open")
    BY <1>1, <1>11
<1> QED
    BY <1>16, <1>17, <1>18, StartColl

\* A piece that does not reach the end of its source has inxInterval steps, and
\* more are left than make a piece "close enough".
LEMMA WholePiece ==
    ASSUME NEW r \in Run, RunInv(r), r.pc = "loop", r.cur < r.end
    PROVE  /\ PieceEnd(r) <= r.end
           /\ \/ PieceEnd(r) # r.end
              \/ (r.end + 1) - r.cur > inxInterval + inxInterval \div 2 + 1
              => /\ PieceEnd(r) + 1 = r.cur + inxInterval
                 /\ (r.end + 1) - r.cur > inxInterval + inxInterval \div 2 + 1
<1>1. /\ r.cur \in Nat /\ r.end \in Int /\ r.interval \in Nat /\ r.interval >= 1
      /\ r.end \in -1 .. MaxLen - 1 /\ Ahead(r)
    BY DEF Run, RunInv
<1>2. r.interval = inxInterval /\ inxInterval \in Nat
    BY <1>1, ArchAssumption DEF Ahead
<1>3. PICK h \in Nat : h = inxInterval \div 2
    BY <1>2
<1>4. CASE CloseEnough(r)
    <2>1. inxInterval + h + 1 >= r.end - r.cur + 1
        BY <1>2, <1>3, <1>4 DEF CloseEnough
    <2>2. PieceEnd(r) = r.end
        BY <1>1, <1>4 DEF Interval, PieceEnd
    <2> QED
        BY <1>1, <1>2, <1>3, <2>1, <2>2
<1>5. CASE ~CloseEnough(r)
    <2>1. inxInterval + h + 1 < r.end - r.cur + 1
        BY <1>1, <1>2, <1>3, <1>5 DEF CloseEnough
    <2>2. PieceEnd(r) = r.cur + inxInterval - 1
        BY <1>1, <1>2, <1>3, <1>5, <2>1 DEF Interval, PieceEnd
    <2> QED
        BY <1>1, <1>2, <1>3, <2>1, <2>2
<1> QED
    BY <1>4, <1>5

\* A run dumps over a file that is not described only what it held: the same
\* steps, but at the end of the collection.
LEMMA DumpColl ==
    ASSUME ArchInv, ArchInv', CollInv, OneAtATime, OneAtATime',
           NEW a \in Agents, DumpPiece(a)
    PROVE  CollInv'
<1>1. /\ run[a] \in Run /\ RunInv(run[a]) /\ RunOk(run[a]) /\ run[a].pc = "loop"
      /\ run[a].cur < run[a].end /\ run[a].next \in Numbers /\ run[a].op = "arch"
    BY ArchTypes DEF CollInv, DumpPiece, At, RunInv
<1>2. PICK n \in Nat, c \in Nat, e \in Int, l \in Nat :
        n = run[a].next /\ c = run[a].cur /\ e = run[a].end /\ l = PieceEnd(run[a])
    <2>1. /\ run[a].next \in Nat /\ run[a].cur \in Nat /\ run[a].end \in Int
          /\ PieceEnd(run[a]) \in Nat
        BY <1>1, LastOfPiece, ArchTypes DEF Run
    <2> QED
        BY <2>1
<1>3. /\ c <= l /\ l <= e /\ c < e /\ n \in Numbers /\ e < srcLen /\ Follows(n, c) /\ Whole(n - 1)
      /\ c \in Indices /\ l \in Indices
    BY <1>1, <1>2, LastOfPiece, WholePiece DEF RunOk, PlaceOk
<1>4. l # e \/ (e + 1) - c > inxInterval + inxInterval \div 2 + 1
      => l + 1 = c + inxInterval /\ (e + 1) - c > inxInterval + inxInterval \div 2 + 1
    BY <1>1, <1>2, WholePiece
<1>5. PICK q \in Run :
        /\ run' = [run EXCEPT ![a] = q]
        /\ q.pc = "register" /\ q.cur = l + 1 /\ q.next = n + 1
        /\ q.op = "arch" /\ q.end = e /\ q.status = run[a].status
    <2> DEFINE q == [run[a] EXCEPT !.pc = "register", !.interval = Interval(run[a]),
                                   !.cur = PieceEnd(run[a]) + 1, !.next = @ + 1]
    <2>1. run' = [run EXCEPT ![a] = q]
        BY DEF DumpPiece, ArchInv, TypeOK
    <2>2. /\ q.pc = "register" /\ q.cur = l + 1 /\ q.next = n + 1
          /\ q.op = "arch" /\ q.end = e /\ q.status = run[a].status
        BY <1>1, <1>2 DEF Run
    <2> HIDE DEF q
    <2> QED
        BY <2>1, <2>2, NewRun
<1>6. /\ phys' = [phys EXCEPT ![n] = [first |-> c, last |-> l]]
      /\ UNCHANGED <<srcLen, cat, aggInfo>> /\ srcLen <= srcLen'
    BY <1>2, ArchTypes DEF DumpPiece
<1>7. /\ phys'[n] = [first |-> c, last |-> l] /\ phys'[n] \in Pieces
      /\ phys'[n].first = c /\ phys'[n].last = l /\ Readable(n)'
      /\ \A m \in Numbers : m # n => phys'[m] = phys[m]
    BY <1>3, <1>6 DEF ArchInv, TypeOK, Pieces, Readable
<1>8. Longer
    BY <1>1, <1>2, <1>5, <1>6, RunLonger DEF Busy
<1>9. /\ cat \subseteq Numbers /\ srcLen \in Nat /\ inxInterval \in Nat
      /\ Lengths \subseteq Int /\ Lengths' \subseteq Int
    BY ArchTypes, ArchTypesNext
<1>10. PICK f \in [cat -> Indices] : InRow(f)
    BY DEF CollInv
<1>11. \A m \in Numbers : Described(m) => phys'[m] = phys[m]
    <2>1. \A m \in Numbers : Described(m) => m < n
        BY <1>3 DEF Follows
    <2> QED
        BY <1>7, <2>1
<1>12. ~Described(n)
    BY <1>3 DEF Follows
<1>13. ASSUME n \in cat PROVE f[n] = c /\ n # 0
    <2>1. n # 0 /\ n - 1 \in cat /\ Readable(n - 1) /\ phys[n - 1].last + 1 = c
        BY <1>3, <1>13 DEF Follows
    <2>2. PICK k \in cat : k = n - 1
        BY <2>1
    <2>3. k + 1 = n
        BY <2>2
    <2>4. phys[k].last + 1 = f[k + 1]
        BY <1>10, <1>13, <2>1, <2>2, <2>3 DEF InRow, Adjacent
    <2> QED
        BY <2>1, <2>2, <2>3, <2>4
<1>14. ASSUME n \in cat, n + 1 \in cat PROVE l + 1 = f[n + 1]
    <2>1. f[n + 1] = f[n] + inxInterval /\ MoreFrom(f[n])
        BY <1>10, <1>12, <1>14 DEF InRow, Adjacent
    <2>2. e + 1 \in Lengths
        BY <1>1, <1>2 DEF Lengths, Busy
    <2>3. (e + 1) - c > inxInterval + inxInterval \div 2 + 1
        BY <1>13, <1>14, <2>1, <2>2 DEF MoreFrom
    <2> QED
        BY <1>4, <1>13, <1>14, <2>1, <2>3
<1>15. \A m \in cat : Readable(m)' =>
          \/ phys'[m] = phys[m]
          \/ /\ phys'[m].first = f[m] /\ f[m] <= phys'[m].last /\ phys'[m].last < srcLen
             /\ m + 1 \in cat => phys'[m].last + 1 = f[m + 1]
    <2>1. ASSUME n \in cat
          PROVE  /\ phys'[n].first = f[n] /\ f[n] <= phys'[n].last /\ phys'[n].last < srcLen
                 /\ n + 1 \in cat => phys'[n].last + 1 = f[n + 1]
        <3>1. l < srcLen
            BY <1>3, <1>9
        <3> QED
            BY <1>3, <1>7, <1>13, <1>14, <2>1, <3>1
    <2> QED
        BY <1>7, <1>9, <2>1
<1>16. /\ Numbered' /\ (\E g \in [cat -> Indices] : InRow(g))'
       /\ AggInfoFaithful' /\ DescribedFirst'
    BY <1>6, <1>8, <1>10, <1>11, <1>15, FilesKept
<1>17. Follows(n, c)'
    <2>1. ASSUME n # 0
          PROVE  n - 1 \in cat /\ Readable(n - 1)' /\ phys'[n - 1].last + 1 = c
        <3>1. n - 1 \in cat /\ Readable(n - 1) /\ phys[n - 1].last + 1 = c
            BY <1>3, <2>1 DEF Follows
        <3>2. phys'[n - 1] = phys[n - 1]
            BY <1>7, <1>9, <3>1
        <3> QED
            BY <3>1, <3>2 DEF Readable
    <2> QED
        BY <1>3, <1>6, <2>1 DEF Follows, Described
<1>18. Whole(n - 1)'
    <2> SUFFICES ASSUME n - 1 \in Numbers, ~Described(n - 1)'
                 PROVE  /\ phys'[n - 1].last + 1 = phys'[n - 1].first + inxInterval
                        /\ MoreFrom(phys[n - 1].first)'
        BY DEF Whole
    <2>1. n # 0 /\ Readable(n - 1) /\ ~Described(n - 1)
        <3>1. n # 0
            BY ArchTypes
        <3> QED
            BY <1>3, <1>6, <3>1 DEF Follows, Described
    <2>2. phys'[n - 1] = phys[n - 1] /\ phys[n - 1].first \in Int
        BY <1>7, <2>1, ArchTypes
    <2>3. phys[n - 1].last + 1 = phys[n - 1].first + inxInterval /\ MoreFrom(phys[n - 1].first)
        BY <1>3, <2>1 DEF Whole
    <2>4. MoreFrom(phys[n - 1].first)'
        <3>1. PICK i \in Int : i = phys[n - 1].first
            BY <2>2
        <3>2. MoreFrom(i)'
            BY <1>8, <2>3, <3>1, MoreFromKept
        <3> QED
            BY <2>2, <3>1, <3>2 DEF MoreFrom
    <2> QED
        BY <2>2, <2>3, <2>4 DEF MoreFrom
<1>19. ASSUME l + 1 < e PROVE Whole(n)'
    <2>1. l + 1 = c + inxInterval /\ (e + 1) - c > inxInterval + inxInterval \div 2 + 1
        BY <1>3, <1>4, <1>19
    <2>2. \A k \in Lengths' : k = srcLen \/ k = e + 1
        <3>1. ASSUME NEW b \in Agents, Busy(b)' PROVE run'[b].end = e
            <4>1. run'[a] = q
                BY <1>5, NewRun
            <4>2. b = a
                BY <1>5, <3>1, <4>1 DEF OneAtATime, At, Busy
            <4> QED
                BY <1>5, <4>1, <4>2
        <3> QED
            BY <1>6, <3>1 DEF Lengths
    <2>3. PICK x \in Int : x = inxInterval + inxInterval \div 2 + 1
        BY <1>9
    <2>4. ASSUME NEW k \in Lengths' PROVE k - c > x
        BY <1>3, <1>9, <2>1, <2>2, <2>3
    <2>5. MoreFrom(c)'
        BY <2>3, <2>4 DEF MoreFrom
    <2> QED
        BY <1>7, <2>1, <2>5 DEF Whole, MoreFrom
<1>20. RegisterOk(q, n)'
    BY <1>3, <1>5, <1>6, <1>7, <1>17, <1>18, <1>19 DEF RegisterOk
<1>21. RunOk(q)'
    <2>1. q.next - 1 = n
        BY <1>5
    <2> QED
        BY <1>1, <1>5, <1>20, <2>1 DEF RunOk
<1> QED
    BY <1>1, <1>5, <1>16, <1>21, CollStep

\* A file is registered behind the last one.
LEMMA RegisterRow ==
    ASSUME ArchInv, ArchInv', CollInv, Longer, UNCHANGED <<srcLen, phys, aggInfo>>,
           NEW n \in Numbers, n \notin cat, cat' = cat \union {n}, Readable(n),
           phys[n].first <= phys[n].last, phys[n].last < srcLen,
           Follows(n, phys[n].first), Whole(n - 1)
    PROVE  /\ Numbered' /\ (\E g \in [cat -> Indices] : InRow(g))'
           /\ AggInfoFaithful' /\ DescribedFirst'
<1>1. PICK f \in [cat -> Indices] : InRow(f)
    BY DEF CollInv
<1>2. /\ cat \subseteq Nat /\ cat \subseteq Numbers /\ n \in Nat /\ inxInterval \in Nat
      /\ phys[n].first \in Indices /\ phys[n].last \in Int /\ Indices \subseteq Nat
      /\ srcLen \in Nat
    BY ArchTypes
<1>0. PICK c \in Indices, p \in Int : c = phys[n].first /\ p = n - 1
    <2>1. n - 1 \in Int
        BY <1>2
    <2>2. \E p \in Int : p = n - 1
        BY <2>1
    <2> QED
        BY <1>2, <2>2
<1>3. \A m \in cat : m < n
    <2> SUFFICES ASSUME NEW m \in cat, ~(m < n) PROVE FALSE
        OBVIOUS
    <2>1. n \in 0 .. m
        BY <1>2
    <2> QED
        BY <2>1 DEF CollInv, Numbered
<1>4. ASSUME n # 0
      PROVE  /\ p \in cat /\ p + 1 = n /\ p \in Nat /\ Readable(p) /\ phys[p].last + 1 = c
             /\ phys[p].first = f[p] /\ f[p] <= phys[p].last /\ phys[p].last \in Int
             /\ f[p] \in Int /\ f[p] < c
    <2>1. p \in cat /\ Readable(p) /\ phys[p].last + 1 = c
        BY <1>0, <1>4 DEF Follows
    <2>2. phys[p].first = f[p] /\ f[p] <= phys[p].last
        BY <1>1, <2>1 DEF InRow, Begins
    <2>3. phys[p].last \in Int /\ phys[p].first \in Int
        BY <1>2, <2>1, ArchTypes
    <2>4. p + 1 = n
        BY <1>0, <1>2
    <2> QED
        BY <1>2, <2>1, <2>2, <2>3, <2>4
<1>5. n = 0 => cat = {}
    BY DEF Follows
<1>6. \A m \in cat : m # p => m < p
    <2> SUFFICES ASSUME NEW m \in cat, m # p PROVE m < p
        OBVIOUS
    <2>1. m < n /\ n # 0 /\ m \in Nat
        BY <1>2, <1>3, <1>5
    <2>2. p + 1 = n /\ p \in Nat
        BY <1>4, <2>1
    <2> QED
        BY <1>2, <2>1, <2>2
<1>7. PICK g \in [cat' -> Indices] :
        g[n] = c /\ \A m \in cat : g[m] = f[m] /\ m # n /\ f[m] \in Int
    <2> DEFINE h == [m \in cat' |-> IF m = n THEN c ELSE f[m]]
    <2>1. h \in [cat' -> Indices] /\ h[n] = c
        OBVIOUS
    <2>2. ASSUME NEW m \in cat PROVE h[m] = f[m] /\ m # n /\ f[m] \in Int
        BY <1>2
    <2> QED
        BY <2>1, <2>2
<1>8. Numbered'
    <2> SUFFICES ASSUME NEW k \in cat', NEW m \in 0 .. k PROVE m \in cat'
        BY DEF Numbered
    <2>1. CASE k \in cat
        BY <2>1 DEF CollInv, Numbered
    <2>2. CASE k = n /\ m # n
        <3>1. n # 0
            BY <2>2
        <3>2. p \in cat /\ p + 1 = n /\ p \in Nat
            BY <1>4, <3>1
        <3>3. m \in 0 .. p
            BY <1>2, <2>2, <3>2
        <3> QED
            BY <3>2, <3>3 DEF CollInv, Numbered
    <2> QED
        BY <2>1, <2>2
<1>9. Begins(g)'
    <2> SUFFICES ASSUME NEW m \in cat', Readable(m)'
                 PROVE  phys[m].first = g[m] /\ g[m] <= phys[m].last /\ phys[m].last < srcLen
        BY DEF Begins
    <2>1. CASE m \in cat
        BY <1>1, <1>7, <2>1 DEF InRow, Begins, Readable
    <2>2. CASE m = n
        BY <1>0, <1>7, <2>2
    <2> QED
        BY <2>1, <2>2
<1>10. Adjacent(g)'
    <2> SUFFICES ASSUME NEW m \in cat', m + 1 \in cat'
                 PROVE  /\ Readable(m)' => phys[m].last + 1 = g[m + 1]
                        /\ ~Described(m)' => g[m + 1] = g[m] + inxInterval /\ MoreFrom(g[m])'
        BY DEF Adjacent
    <2>1. m \in cat
        <3> SUFFICES ASSUME m = n PROVE FALSE
            OBVIOUS
        <3>1. n + 1 \in cat
            BY <1>2
        <3> QED
            BY <1>2, <1>3, <3>1
    <2>2. CASE m + 1 \in cat
        <3>1. /\ Readable(m) => phys[m].last + 1 = f[m + 1]
              /\ ~Described(m) => f[m + 1] = f[m] + inxInterval /\ MoreFrom(f[m])
            BY <1>1, <2>1, <2>2 DEF InRow, Adjacent
        <3>2. MoreFrom(f[m]) => MoreFrom(f[m])'
            BY <1>7, <2>1, MoreFromKept
        <3> QED
            BY <1>7, <2>1, <2>2, <3>1, <3>2 DEF Readable, Described
    <2>3. CASE m + 1 = n
        <3>1. n # 0 /\ m = p
            <4>1. n # 0 /\ m \in Nat
                BY <1>2, <2>1, <2>3
            <4> QED
                BY <1>4, <2>3, <4>1
        <3>2. ~Described(p) => phys[p].last + 1 = phys[p].first + inxInterval /\ MoreFrom(phys[p].first)
            BY <1>0, <1>2, <1>4, <3>1 DEF Whole
        <3>3. MoreFrom(f[p]) => MoreFrom(f[p])'
            BY <1>4, <3>1, MoreFromKept
        <3>4. g[m] = f[p] /\ g[m + 1] = c
            BY <1>7, <2>1, <2>3, <3>1
        <3>5. ~Described(p) => f[p] + inxInterval = c /\ MoreFrom(f[p])'
            BY <1>4, <3>1, <3>2, <3>3
        <3> QED
            BY <1>4, <3>1, <3>4, <3>5 DEF Described
    <2> QED
        BY <2>2, <2>3
<1>11. \A m \in cat : f[m] < c
    <2> SUFFICES ASSUME NEW m \in cat PROVE f[m] < c
        OBVIOUS
    <2>1. n # 0
        BY <1>5
    <2>2. m # p => f[m] < f[p]
        BY <1>1, <1>4, <1>6, <2>1 DEF InRow, Ascending
    <2> QED
        BY <1>2, <1>4, <1>7, <2>1, <2>2
<1>12. Ascending(g)'
    <2> SUFFICES ASSUME NEW k \in cat', NEW m \in cat', m < k PROVE g[m] < g[k]
        BY DEF Ascending
    <2>1. CASE k \in cat /\ m \in cat
        BY <1>1, <1>7, <2>1 DEF InRow, Ascending
    <2>2. CASE k = n /\ m \in cat
        BY <1>7, <1>11, <2>2
    <2>3. CASE k \in cat /\ m = n
        BY <1>2, <1>3, <2>3
    <2> QED
        BY <1>2, <2>1, <2>2, <2>3
<1>13. NoGap(g)'
    <2> SUFFICES ASSUME NEW k \in cat', NEW i \in g[0] .. g[k] - 1
                 PROVE  \E m \in cat' : m + 1 \in cat' /\ g[m] <= i /\ i < g[m + 1]
        BY DEF NoGap
    <2>1. n # 0
        <3> SUFFICES ASSUME n = 0 PROVE FALSE
            OBVIOUS
        <3>1. k = 0
            BY <1>5
        <3> QED
            BY <1>2, <1>7, <3>1
    <2>2. p \in cat /\ p + 1 = n /\ p \in Nat /\ f[p] \in Int /\ f[p] < c /\ c \in Int
        BY <1>2, <1>4, <2>1
    <2>3. 0 \in cat /\ g[0] = f[0]
        <3>1. 0 \in 0 .. p
            BY <2>2
        <3>2. 0 \in cat
            BY <2>2, <3>1 DEF CollInv, Numbered
        <3> QED
            BY <1>7, <3>2
    <2>4. ASSUME NEW h \in cat, i \in f[0] .. f[h] - 1
          PROVE  \E m \in cat' : m + 1 \in cat' /\ g[m] <= i /\ i < g[m + 1]
        <3>1. PICK m \in cat : m + 1 \in cat /\ f[m] <= i /\ i < f[m + 1]
            BY <1>1, <2>4 DEF InRow, NoGap
        <3>2. m \in cat' /\ m + 1 \in cat' /\ g[m] = f[m] /\ g[m + 1] = f[m + 1]
            BY <1>7, <3>1
        <3> QED
            BY <3>1, <3>2
    <2>5. CASE k \in cat
        BY <1>7, <2>3, <2>4, <2>5
    <2>6. CASE k = n
        <3>1. i \in Int /\ f[0] <= i /\ i < c /\ f[0] \in Int
            BY <1>2, <1>7, <2>3, <2>6
        <3>2. CASE i < f[p]
            <4>1. i \in f[0] .. f[p] - 1
                BY <2>2, <3>1, <3>2
            <4> QED
                BY <2>2, <2>4, <4>1
        <3>3. CASE f[p] <= i
            <4>1. p \in cat' /\ p + 1 \in cat' /\ g[p] = f[p] /\ g[p + 1] = c
                BY <1>7, <2>2
            <4> QED
                BY <3>1, <3>3, <4>1
        <3> QED
            BY <2>2, <3>1, <3>2, <3>3
    <2> QED
        BY <2>5, <2>6
<1>14. AggInfoFaithful'
    BY DEF CollInv, AggInfoFaithful
<1>15. DescribedFirst'
    <2> SUFFICES ASSUME aggInfo # NoAgg, NEW e \in aggInfo, NEW k \in cat', k <= e.num
                 PROVE  Described(k)
        BY DEF DescribedFirst, Described
    <2>1. e.num \in cat /\ Described(e.num)
        BY DEF CollInv, AggInfoFaithful, Described
    <2>2. PICK j \in cat : j = e.num
        BY <2>1
    <2>3. j < n /\ k <= j
        BY <1>3, <2>2
    <2>4. k # n
        BY <1>2, <2>3
    <2> QED
        BY <2>4 DEF CollInv, DescribedFirst
<1> QED
    BY <1>7, <1>8, <1>9, <1>10, <1>12, <1>13, <1>14, <1>15 DEF InRow

LEMMA RegisterColl ==
    ASSUME ArchInv, ArchInv', CollInv, OneAtATime, OneAtATime',
           NEW a \in Agents, RegisterPiece(a)
    PROVE  CollInv'
<1>1. /\ run[a] \in Run /\ RunInv(run[a]) /\ RunOk(run[a]) /\ run[a].pc = "register"
      /\ run[a].next - 1 \in Numbers /\ run[a].op = "arch"
    BY ArchTypes DEF CollInv, RegisterPiece, At, RunInv
<1>2. PICK n \in Numbers : n = run[a].next - 1
    BY <1>1
<1>3. /\ n \in Nat /\ n + 1 = run[a].next /\ srcLen \in Nat /\ srcLen <= srcLen'
      /\ UNCHANGED <<srcLen, phys, aggInfo>>
    BY <1>1, <1>2, ArchTypes DEF Run, RegisterPiece
<1>4. n \notin cat /\ cat' = cat \union {n} /\ n \in cat'
    BY <1>2 DEF RegisterPiece, Registered
<1>5. PICK q \in Run :
        /\ run' = [run EXCEPT ![a] = q] /\ q.pc = "loop"
        /\ q.op = "arch" /\ q.end = run[a].end /\ q.status = run[a].status
        /\ q.cur = run[a].cur /\ q.next = n + 1 /\ q.start = run[a].start
    <2> DEFINE q == [run[a] EXCEPT !.pc = "loop"]
    <2>1. run' = [run EXCEPT ![a] = q]
        BY DEF RegisterPiece, Goto, ArchInv, TypeOK
    <2>2. /\ q.pc = "loop"
          /\ q.op = "arch" /\ q.end = run[a].end /\ q.status = run[a].status
          /\ q.cur = run[a].cur /\ q.next = n + 1 /\ q.start = run[a].start
        BY <1>1, <1>3 DEF Run
    <2> HIDE DEF q
    <2> QED
        BY <2>1, <2>2, NewRun
<1>6. Longer
    BY <1>1, <1>3, <1>5, RunLonger DEF Busy
<1>7. RegisterOk(run[a], n)
    BY <1>1, <1>2 DEF RunOk
<1>8. /\ Readable(n) /\ phys[n].first <= phys[n].last /\ phys[n].last + 1 = run[a].cur
      /\ run[a].cur <= run[a].end + 1 /\ run[a].end < srcLen
      /\ Follows(n, phys[n].first) /\ Whole(n - 1)
      /\ run[a].cur < run[a].end => Whole(n)
    BY <1>7 DEF RegisterOk
<1>9. phys[n].last \in Int /\ run[a].cur \in Int /\ run[a].end \in Int
    BY <1>1, <1>8, ArchTypes DEF Run
<1>10. phys[n].last < srcLen
    BY <1>3, <1>8, <1>9
<1>11. /\ Numbered' /\ (\E f \in [cat -> Indices] : InRow(f))'
       /\ AggInfoFaithful' /\ DescribedFirst'
    BY <1>3, <1>4, <1>6, <1>8, <1>10, RegisterRow
<1>12. Follows(n + 1, q.cur)'
    <2>1. PICK k \in Nat : k = n + 1
        BY <1>3
    <2>2. ASSUME NEW m \in Numbers, Described(m) PROVE m < k
        <3>1. m < n /\ m \in Nat
            BY <1>8, <2>2, ArchTypes DEF Follows
        <3> QED
            BY <1>3, <2>1, <3>1
    <2>3. k # 0 /\ k - 1 = n
        BY <1>3, <2>1
    <2>4. Readable(n)' /\ phys'[n].last + 1 = q.cur
        BY <1>3, <1>5, <1>8 DEF Readable
    <2>5. \A m \in Numbers : Described(m)' => m < k
        BY <1>3, <2>2 DEF Described
    <2>6. Follows(k, q.cur)'
        BY <1>4, <2>3, <2>4, <2>5 DEF Follows
    <2> QED
        BY <2>1, <2>6
<1>13. PlaceOk(q)'
    <2>1. q.next # 0
        BY <1>3, <1>5
    <2> QED
        BY <1>3, <1>5, <1>8, <1>12, <2>1 DEF PlaceOk
<1>14. q.cur < q.end => Whole(n)'
    <2>1. PICK i \in Int : i = phys[n].first
        BY <1>8, ArchTypes
    <2>2. MoreFrom(i) => MoreFrom(i)'
        BY <1>6, MoreFromKept
    <2> QED
        BY <1>3, <1>5, <1>8, <2>1, <2>2 DEF Whole, Described, MoreFrom
<1>15. RunOk(q)'
    <2>1. q.next - 1 = n
        BY <1>3, <1>5
    <2> QED
        BY <1>1, <1>5, <1>13, <1>14, <2>1 DEF RunOk
<1> QED
    BY <1>1, <1>5, <1>11, <1>15, CollStep

LEMMA LoopDoneColl ==
    ASSUME ArchInv, ArchInv', CollInv, OneAtATime, OneAtATime',
           NEW a \in Agents, LoopDone(a)
    PROVE  CollInv'
<1>1. /\ run[a] \in Run /\ RunOk(run[a]) /\ run[a].pc = "loop"
      /\ UNCHANGED <<srcLen, cat, phys, aggInfo>>
    BY ArchTypes DEF CollInv, LoopDone, At
<1>2. PICK q \in Run :
        /\ run' = [run EXCEPT ![a] = q] /\ q.pc = "scan"
        /\ q.op = run[a].op /\ q.end = run[a].end /\ q.status = run[a].status
        /\ q.cur = run[a].cur /\ q.next = run[a].next /\ q.start = run[a].start
    <2> DEFINE q == [run[a] EXCEPT !.pc = "scan"]
    <2>1. run' = [run EXCEPT ![a] = q]
        BY DEF LoopDone, Goto, ArchInv, TypeOK
    <2>2. /\ q.pc = "scan"
          /\ q.op = run[a].op /\ q.end = run[a].end /\ q.status = run[a].status
          /\ q.cur = run[a].cur /\ q.next = run[a].next /\ q.start = run[a].start
        BY <1>1 DEF Run
    <2> HIDE DEF q
    <2> QED
        BY <2>1, <2>2, NewRun
<1>3. PlaceOk(q)'
    <2>1. PlaceOk(run[a])
        BY <1>1 DEF RunOk
    <2> QED
        BY <1>1, <1>2, <2>1 DEF PlaceOk, Follows, Readable, Described
<1>4. RunOk(q)'
    BY <1>1, <1>2, <1>3 DEF RunOk
<1> QED
    BY <1>1, <1>2, <1>4, GoneOn

LEMMA ScanCollColl ==
    ASSUME ArchInv, ArchInv', CollInv, OneAtATime, OneAtATime',
           NEW a \in Agents, ScanColl(a)
    PROVE  CollInv'
<1>1. /\ run[a] \in Run /\ RunOk(run[a]) /\ run[a].pc = "scan"
      /\ UNCHANGED <<srcLen, cat, phys, aggInfo>> /\ \A n \in cat : Readable(n)
    BY ArchTypes DEF CollInv, ScanColl, At
<1>2. PICK q \in Run :
        /\ run' = [run EXCEPT ![a] = q] /\ q.pc = "write" /\ q.elems = ElementsOfCat
        /\ q.op = run[a].op /\ q.end = run[a].end /\ q.status = run[a].status
        /\ q.cur = run[a].cur /\ q.next = run[a].next /\ q.start = run[a].start
    <2> DEFINE q == [run[a] EXCEPT !.pc = "write", !.elems = ElementsOfCat]
    <2>1. run' = [run EXCEPT ![a] = q]
        BY DEF ScanColl, ElementsOfCat, ArchInv, TypeOK
    <2>2. /\ q.pc = "write" /\ q.elems = ElementsOfCat
          /\ q.op = run[a].op /\ q.end = run[a].end /\ q.status = run[a].status
          /\ q.cur = run[a].cur /\ q.next = run[a].next /\ q.start = run[a].start
        BY <1>1 DEF Run
    <2> HIDE DEF q
    <2> QED
        BY <2>1, <2>2, NewRun
<1>3. ASSUME q.op = "arch" PROVE PlaceOk(q)'
    <2>1. PlaceOk(run[a])
        BY <1>1, <1>2, <1>3 DEF RunOk
    <2> QED
        BY <1>1, <1>2, <2>1 DEF PlaceOk, Follows, Readable, Described
<1>4. (\A n \in cat : Readable(n))' /\ (q.elems = ElementsOfCat)'
    BY <1>1, <1>2 DEF Readable, ElementsOfCat
<1>5. RunOk(q)'
    BY <1>1, <1>2, <1>3, <1>4 DEF RunOk
<1> QED
    BY <1>1, <1>2, <1>5, GoneOn

\* .aggInfo describes all registered files, which hold what it says.
LEMMA WriteColl ==
    ASSUME ArchInv, ArchInv', CollInv, OneAtATime, OneAtATime', NoAgg \notin SUBSET Elements,
           NEW a \in Agents, WriteAgg(a)
    PROVE  CollInv'
<1>1. /\ run[a] \in Run /\ RunOk(run[a]) /\ run[a].pc = "write"
      /\ UNCHANGED <<srcLen, cat, phys>> /\ aggInfo' = run[a].elems
      /\ srcLen <= srcLen' /\ cat \subseteq Numbers
    BY ArchTypes DEF CollInv, WriteAgg, At
<1>2. /\ \A n \in cat : Readable(n)
      /\ aggInfo' = ElementsOfCat /\ aggInfo' \in SUBSET Elements
    BY <1>1 DEF RunOk, Run
<1>3. PICK q \in Run : run' = [run EXCEPT ![a] = q] /\ q.pc = "idle"
    <2>1. ASSUME NEW st, End(a, st) PROVE \E q \in Run : run' = [run EXCEPT ![a] = q] /\ q.pc = "idle"
        <3> DEFINE q == [Idle EXCEPT !.op = run[a].op, !.status = st]
        <3>1. run' = [run EXCEPT ![a] = q]
            BY <2>1 DEF End
        <3>2. q.pc = "idle"
            BY DEF Idle
        <3> HIDE DEF q
        <3> QED
            BY <3>1, <3>2, NewRun
    <2> QED
        BY <2>1 DEF WriteAgg
<1>4. Longer
    BY <1>1, <1>3, RunLonger
<1>5. aggInfo' # NoAgg
    BY <1>2
<1>6. ASSUME NEW n \in cat PROVE Described(n)'
    <2> DEFINE e == [num |-> n, first |-> phys[n].first, last |-> phys[n].last]
    <2>1. e \in aggInfo' /\ e.num = n
        BY <1>2 DEF ElementsOfCat
    <2> HIDE DEF e
    <2> QED
        BY <1>5, <2>1 DEF Described
<1>7. (\E f \in [cat -> Indices] : InRow(f))'
    <2>1. PICK f \in [cat -> Indices] : InRow(f)
        BY DEF CollInv
    <2>2. InRow(f)'
        BY <1>1, <1>4, <1>6, <2>1, RowKept
    <2> QED
        BY <1>1, <2>2
<1>8. AggInfoFaithful'
    <2> SUFFICES ASSUME NEW e \in aggInfo'
                 PROVE  e.num \in cat /\ phys[e.num] = [first |-> e.first, last |-> e.last]
        BY <1>1 DEF AggInfoFaithful
    <2>1. PICK n \in cat : e = [num |-> n, first |-> phys[n].first, last |-> phys[n].last]
        BY <1>2 DEF ElementsOfCat
    <2>2. e.num = n /\ e.first = phys[n].first /\ e.last = phys[n].last
        BY <2>1
    <2>3. phys[n] \in Pieces
        BY <1>2 DEF Readable
    <2>4. phys[n] = [first |-> phys[n].first, last |-> phys[n].last]
        BY <2>3 DEF Pieces
    <2> QED
        BY <2>2, <2>4
<1>9. DescribedFirst' /\ Numbered'
    BY <1>1, <1>6 DEF DescribedFirst, Numbered, CollInv
<1>10. RunOk(q)'
    BY <1>3 DEF RunOk
<1> QED
    BY <1>1, <1>3, <1>7, <1>8, <1>9, <1>10, CollStep

\* Of a file that is not described nothing is left, or a part.
LEMMA LostFile ==
    ASSUME ArchInv, CollInv, NEW a \in Agents, At(a, "loop"), run[a].next \in Numbers,
           NEW x \in {NoFile, Torn}, phys' \in {phys, [phys EXCEPT ![run[a].next] = x]},
           UNCHANGED <<srcLen, cat, aggInfo>>
    PROVE  /\ \A n \in Numbers : Described(n) => phys'[n] = phys[n]
           /\ \A n \in Numbers : phys'[n] = phys[n] \/ ~Readable(n)'
<1>1. PICK k \in Numbers : k = run[a].next
    OBVIOUS
<1>2. Follows(k, run[a].cur)
    BY <1>1 DEF CollInv, RunOk, PlaceOk, At
<1>3. ASSUME NEW n \in Numbers, Described(n) PROVE n # k
    <2>1. n < k /\ n \in Nat /\ k \in Nat
        BY <1>2, <1>3, ArchTypes DEF Follows
    <2> QED
        BY <2>1
<1>4. \A n \in Numbers : n # k => phys'[n] = phys[n]
    BY <1>1 DEF ArchInv, TypeOK
<1>5. phys'[k] = phys[k] \/ phys'[k] = x
    BY <1>1 DEF ArchInv, TypeOK
<1> QED
    BY <1>3, <1>4, <1>5, Sentinels DEF Readable

LEMMA LeaveColl ==
    ASSUME ArchInv, ArchInv', CollInv, OneAtATime, OneAtATime', NEW a \in Agents,
           \/ StartFail(a) \/ DumpFail(a) \/ RegisterFail(a) \/ ScanFail(a) \/ WriteFail(a)
           \/ Crash(a)
    PROVE  CollInv'
<1>1. run[a].pc # "idle" /\ UNCHANGED <<srcLen, cat, aggInfo>>
    BY DEF StartFail, DumpFail, RegisterFail, ScanFail, WriteFail, Crash, At
<1>2. PICK q \in Run : run' = [run EXCEPT ![a] = q] /\ q.pc = "idle" /\ run'[a].pc = "idle"
    <2>1. ASSUME End(a, "error")
          PROVE  \E q \in Run : run' = [run EXCEPT ![a] = q] /\ q.pc = "idle" /\ run'[a].pc = "idle"
        <3> DEFINE q == [Idle EXCEPT !.op = run[a].op, !.status = "error"]
        <3>1. run' = [run EXCEPT ![a] = q]
            BY <2>1 DEF End
        <3>2. q.pc = "idle"
            BY DEF Idle
        <3> HIDE DEF q
        <3> QED
            BY <3>1, <3>2, NewRun
    <2>2. ASSUME Crash(a)
          PROVE  \E q \in Run : run' = [run EXCEPT ![a] = q] /\ q.pc = "idle" /\ run'[a].pc = "idle"
        <3>1. run' = [run EXCEPT ![a] = Idle]
            BY <2>2 DEF Crash
        <3> QED
            BY <3>1, NewRun, IdleType
    <2> QED
        BY <2>1, <2>2 DEF StartFail, DumpFail, RegisterFail, ScanFail, WriteFail
<1>3. /\ \A n \in Numbers : Described(n) => phys'[n] = phys[n]
      /\ \A n \in Numbers : phys'[n] = phys[n] \/ ~Readable(n)'
    <2>1. CASE DumpFail(a)
        BY <1>1, <2>1, LostFile DEF DumpFail
    <2>2. CASE Crash(a)
        BY <1>1, <2>2, LostFile DEF Crash
    <2>3. CASE StartFail(a) \/ RegisterFail(a) \/ ScanFail(a) \/ WriteFail(a)
        BY <2>3 DEF StartFail, RegisterFail, ScanFail, WriteFail
    <2> QED
        BY <2>1, <2>2, <2>3
<1> QED
    BY <1>1, <1>2, <1>3, EndColl

LEMMA WholeKept ==
    ASSUME ArchInv, ArchInv', Longer, UNCHANGED <<phys, aggInfo>>, NEW n \in Int,
           n \in Numbers => Readable(n), Whole(n)
    PROVE  Whole(n)'
<1> SUFFICES ASSUME n \in Numbers, ~Described(n)
             PROVE  phys[n].last + 1 = phys[n].first + inxInterval /\ MoreFrom(phys[n].first)'
    BY DEF Whole, Described
<1>1. PICK i \in Int : i = phys[n].first
    BY ArchTypes
<1>2. phys[n].last + 1 = i + inxInterval /\ MoreFrom(i)
    BY <1>1 DEF Whole
<1>3. MoreFrom(i)'
    BY <1>2, MoreFromKept
<1> QED
    BY <1>1, <1>2, <1>3 DEF MoreFrom

LEMMA GrowColl ==
    ASSUME ArchInv, ArchInv', CollInv, Grow
    PROVE  CollInv'
<1>1. /\ UNCHANGED <<cat, phys, aggInfo, run>> /\ srcLen \in Nat /\ srcLen' = srcLen + 1
      /\ srcLen <= srcLen'
    BY ArchTypes DEF Grow
<1>2. Longer
    <2> SUFFICES ASSUME NEW l \in Lengths' PROVE \E k \in Lengths : k <= l
        BY DEF Longer
    <2>1. l = srcLen' \/ l \in Lengths
        BY <1>1 DEF Lengths, Busy
    <2>2. srcLen \in Lengths /\ Lengths \subseteq Int
        BY ArchTypes DEF Lengths
    <2>3. CASE l = srcLen'
        BY <1>1, <2>2, <2>3
    <2>4. CASE l \in Lengths
        <3>1. l \in Int
            BY <2>2, <2>4
        <3> QED
            BY <2>4, <3>1
    <2> QED
        BY <2>1, <2>3, <2>4
<1>3. /\ Numbered' /\ (\E f \in [cat -> Indices] : InRow(f))'
      /\ AggInfoFaithful' /\ DescribedFirst'
    BY <1>1, <1>2, SameFiles
<1>4. ASSUME NEW a \in Agents PROVE RunOk(run[a])'
    <2>1. PICK r \in Run : r = run[a] /\ r = run'[a]
        BY <1>1, ArchTypes
    <2>2. RunOk(r) /\ RunInv(r)
        BY <2>1, ArchTypes DEF CollInv
    <2>3. r.end \in Int /\ r.next \in Nat /\ r.cur \in Nat /\ (r.end < srcLen => r.end < srcLen')
        BY <1>1, <2>1 DEF Run
    <2>4. ASSUME NEW n, NEW c, Follows(n, c) PROVE Follows(n, c)'
        BY <1>1, <2>4 DEF Follows, Readable, Described
    <2>5. PlaceOk(r) => PlaceOk(r)'
        BY <2>3, <2>4 DEF PlaceOk
    <2>6. ASSUME NEW n \in Nat, NEW c, Follows(n, c), Whole(n - 1) PROVE Whole(n - 1)'
        <3>1. n - 1 \in Numbers => n # 0
            BY ArchTypes
        <3>2. n - 1 \in Numbers => Readable(n - 1)
            BY <2>6, <3>1 DEF Follows
        <3> QED
            BY <1>1, <1>2, <2>6, <3>2, WholeKept
    <2>7. ASSUME r.pc = "register" PROVE RegisterOk(r, r.next - 1)'
        <3>1. PICK n \in Nat : n = r.next - 1
            BY <2>2, <2>7, ArchTypes DEF RunInv
        <3>2. RegisterOk(r, n)
            BY <2>2, <2>7, <3>1 DEF RunOk
        <3>3. Whole(n - 1)'
            BY <2>6, <3>2 DEF RegisterOk
        <3>4. Follows(n, phys[n].first)'
            BY <1>1, <3>2 DEF RegisterOk, Follows, Readable, Described
        <3>5. r.cur < r.end => Whole(n)'
            BY <1>1, <1>2, <3>2, WholeKept DEF RegisterOk
        <3>6. RegisterOk(r, n)'
            BY <1>1, <2>3, <3>2, <3>3, <3>4, <3>5 DEF RegisterOk, Readable
        <3> QED
            BY <3>1, <3>6
    <2>8. OpenOk(r) => OpenOk(r)'
        BY <1>1, <2>3 DEF OpenOk
    <2>9. ASSUME r.pc = "loop", r.cur < r.end PROVE Whole(r.next - 1)'
        BY <2>2, <2>3, <2>6, <2>9 DEF RunOk, PlaceOk
    <2>10. r.pc = "write" => (\A n \in cat : Readable(n))' /\ (r.elems = ElementsOfCat)'
        BY <1>1, <2>2 DEF RunOk, Readable, ElementsOfCat
    <2>11. RunOk(r)'
        BY <2>2, <2>5, <2>7, <2>8, <2>9, <2>10 DEF RunOk
    <2> QED
        BY <2>1, <2>11
<1> QED
    BY <1>3, <1>4 DEF CollInv

LEMMA CollInit == Init => CollInv
<1> SUFFICES ASSUME Init PROVE CollInv
    OBVIOUS
<1>1. cat = {} /\ aggInfo = NoAgg /\ \A a \in Agents : run[a] = Idle
    BY DEF Init
<1>2. Numbered /\ AggInfoFaithful /\ DescribedFirst
    BY <1>1 DEF Numbered, AggInfoFaithful, DescribedFirst
<1>3. \E f \in [cat -> Indices] : InRow(f)
    <2> DEFINE f == [n \in cat |-> 0]
    <2>1. f \in [cat -> Indices]
        BY <1>1
    <2>2. InRow(f)
        BY <1>1 DEF InRow, Begins, Adjacent, Ascending, NoGap
    <2> QED
        BY <2>1, <2>2
<1>4. \A a \in Agents : RunOk(run[a])
    BY <1>1, IdleType DEF RunOk
<1> QED
    BY <1>2, <1>3, <1>4 DEF CollInv

LEMMA CollNext ==
    ASSUME ArchInv, ArchInv', CollInv, OneAtATime, OneAtATime', [Next]_vars,
           NewWhenEmpty = TRUE, TimesAscend, NoAgg \notin SUBSET Elements
    PROVE  CollInv'
<1>1. ASSUME NEW a \in Agents, Step(a) PROVE CollInv'
    BY <1>1, StartNewColl, StartIncrementalColl, DumpColl, RegisterColl, LoopDoneColl,
       ScanCollColl, WriteColl, LeaveColl DEF Step
<1>2. ASSUME NEW a \in Agents, OpenSource(a) \/ Rescan(a) \/ Crash(a) PROVE CollInv'
    BY <1>2, BeginColl, LeaveColl
<1>3. CASE Grow
    BY <1>3, GrowColl
<1>4. CASE UNCHANGED vars
    <2>1. UNCHANGED <<srcLen, cat, phys, aggInfo, run>> /\ srcLen <= srcLen'
        BY <1>4, ArchTypes DEF vars
    <2>2. Lengths' = Lengths
        BY <2>1 DEF Lengths, Busy
    <2>3. Longer
        BY <2>2, ArchTypes DEF Longer
    <2>4. /\ Numbered' /\ (\E f \in [cat -> Indices] : InRow(f))'
          /\ AggInfoFaithful' /\ DescribedFirst'
        BY <2>1, <2>3, SameFiles
    <2>5. ASSUME NEW a \in Agents PROVE RunOk(run[a])'
        <3>1. PICK r : r = run[a] /\ r = run'[a]
            BY <2>1
        <3>2. RunOk(r)
            BY <3>1 DEF CollInv
        <3>3. /\ \A n : Readable(n)' <=> Readable(n)
              /\ \A n : Described(n)' <=> Described(n)
              /\ \A i : MoreFrom(i)' <=> MoreFrom(i)
            BY <2>1, <2>2 DEF Readable, Described, MoreFrom
        <3>4. /\ \A n, c : Follows(n, c)' <=> Follows(n, c)
              /\ \A n : Whole(n)' <=> Whole(n)
              /\ ElementsOfCat' = ElementsOfCat
            BY <2>1, <3>3 DEF Follows, Whole, ElementsOfCat
        <3>5. /\ OpenOk(r)' <=> OpenOk(r)
              /\ PlaceOk(r)' <=> PlaceOk(r)
            BY <2>1, <3>4 DEF OpenOk, PlaceOk
        <3>6. \A n : RegisterOk(r, n)' <=> RegisterOk(r, n)
            BY <2>1, <3>3, <3>4 DEF RegisterOk
        <3>7. RunOk(r)'
            BY <2>1, <3>2, <3>3, <3>4, <3>5, <3>6 DEF RunOk
        <3> QED
            BY <3>1, <3>7
    <2> QED
        BY <2>4, <2>5 DEF CollInv
<1> QED
    BY <1>1, <1>2, <1>3, <1>4 DEF Next

\* The setting of the theorems below: clients pass --new for empty collections
\* only, no two steps of the source have the same time, and a collection without
\* .aggInfo is told from one whose .aggInfo is empty.
Setting ==
    NewWhenEmpty = TRUE /\ TimesAscend /\ NoAgg \notin SUBSET Elements

LEMMA CollInvHolds == Setting /\ Spec /\ []OneAtATime => [](ArchInv /\ CollInv)
<1>1. ASSUME Setting PROVE Spec /\ []OneAtATime => [](ArchInv /\ CollInv)
    <2>1. Setting
        BY <1>1
    <2>2. ArchInv /\ ArchInv' /\ CollInv /\ OneAtATime /\ OneAtATime' /\ [Next]_vars => CollInv'
        BY <2>1, CollNext DEF Setting
    <2>3. Init => CollInv
        BY CollInit
    <2> QED
        BY <2>2, <2>3, ArchInvHolds, PTL DEF Spec
<1> QED
    BY <1>1
-----------------------------------------------------------------------------
(* What a reader sees *)

PiecesOfCat == {[first |-> phys[n].first, last |-> phys[n].last] : n \in cat}

View == IF aggInfo = NoAgg THEN {} ELSE {[first |-> e.first, last |-> e.last] : e \in aggInfo}

\* The pieces of two registered files, the one behind the other.
LEMMA FilesApart ==
    ASSUME ArchInv, Numbered, NEW f \in [cat -> Indices], InRow(f),
           NEW n \in cat, NEW m \in cat, n < m, Readable(n)
    PROVE  phys[n].last < f[m] /\ f[n] < f[m]
<1>1. n \in Nat /\ m \in Nat /\ n \in Numbers /\ Indices \subseteq Nat
    BY ArchTypes
<1>2. PICK k \in Nat : k = n + 1
    BY <1>1
<1>3. k \in 0 .. m
    BY <1>1, <1>2
<1>4. k \in cat
    BY <1>3 DEF Numbered
<1>5. phys[n].last + 1 = f[k] /\ phys[n].last \in Nat
    BY <1>1, <1>2, <1>4, ArchTypes DEF InRow, Adjacent
<1>6. k = m \/ f[k] < f[m]
    <2>1. k = m \/ k < m
        BY <1>1, <1>2
    <2> QED
        BY <1>4, <2>1 DEF InRow, Ascending
<1>7. f[n] < f[m]
    BY DEF InRow, Ascending
<1>8. f[k] \in Nat /\ f[m] \in Nat
    BY <1>1, <1>4
<1> QED
    BY <1>5, <1>6, <1>7, <1>8

\* A step in the interval of the collection is a step of some file.
LEMMA FilesTile ==
    ASSUME ArchInv, CollInv, \A n \in cat : Readable(n)
    PROVE  Archive!Tiles(PiecesOfCat, srcLen)
<1>1. PICK f \in [cat -> Indices] : InRow(f)
    BY DEF CollInv
<1>2. /\ srcLen \in Nat /\ Indices \subseteq Nat /\ cat \subseteq Nat /\ cat \subseteq Numbers
      /\ \A n \in cat : f[n] \in Nat
    BY ArchTypes
<1>3. \A n \in cat : /\ phys[n].first = f[n] /\ f[n] <= phys[n].last /\ phys[n].last < srcLen
                     /\ phys[n].last \in Nat
    BY <1>1, <1>2, ArchTypes DEF InRow, Begins
<1>4. ASSUME NEW p \in PiecesOfCat
      PROVE  p.first <= p.last /\ p.first \in 0 .. srcLen - 1 /\ p.last \in 0 .. srcLen - 1
    <2>1. PICK n \in cat : p = [first |-> phys[n].first, last |-> phys[n].last]
        BY DEF PiecesOfCat
    <2>2. p.first = f[n] /\ p.last = phys[n].last
        BY <1>3, <2>1
    <2> QED
        BY <1>2, <1>3, <2>2
<1>5. ASSUME NEW p \in PiecesOfCat, NEW q \in PiecesOfCat
      PROVE  p = q \/ p.last < q.first \/ q.last < p.first
    <2>1. PICK n \in cat : p = [first |-> phys[n].first, last |-> phys[n].last]
        BY DEF PiecesOfCat
    <2>2. PICK m \in cat : q = [first |-> phys[m].first, last |-> phys[m].last]
        BY DEF PiecesOfCat
    <2>3. n = m \/ n < m \/ m < n
        BY <1>2
    <2>4. n < m => phys[n].last < f[m]
        BY <1>1, FilesApart DEF CollInv
    <2>5. m < n => phys[m].last < f[n]
        BY <1>1, FilesApart DEF CollInv
    <2> QED
        BY <1>3, <2>1, <2>2, <2>3, <2>4, <2>5
<1>6. ASSUME NEW i
      PROVE  i \in Archive!Covered(PiecesOfCat) <=> \E n \in cat : i \in f[n] .. phys[n].last
    <2>1. i \in Archive!Covered(PiecesOfCat) <=> \E p \in PiecesOfCat : i \in p.first .. p.last
        BY DEF Archive!Covered
    <2>2. (\E p \in PiecesOfCat : i \in p.first .. p.last)
              <=> \E n \in cat : i \in phys[n].first .. phys[n].last
        <3>1. ASSUME NEW p \in PiecesOfCat, i \in p.first .. p.last
              PROVE  \E n \in cat : i \in phys[n].first .. phys[n].last
            BY <3>1 DEF PiecesOfCat
        <3>2. ASSUME NEW n \in cat, i \in phys[n].first .. phys[n].last
              PROVE  \E p \in PiecesOfCat : i \in p.first .. p.last
            <4> DEFINE p == [first |-> phys[n].first, last |-> phys[n].last]
            <4>1. p \in PiecesOfCat /\ p.first = phys[n].first /\ p.last = phys[n].last
                BY DEF PiecesOfCat
            <4> HIDE DEF p
            <4> QED
                BY <3>2, <4>1
        <3> QED
            BY <3>1, <3>2
    <2> QED
        BY <1>3, <2>1, <2>2
<1>7. ASSUME NEW i \in Archive!Covered(PiecesOfCat), NEW j \in Archive!Covered(PiecesOfCat),
             NEW x \in i .. j
      PROVE  x \in Archive!Covered(PiecesOfCat)
    <2>1. PICK n \in cat : i \in f[n] .. phys[n].last
        BY <1>6
    <2>2. PICK m \in cat : j \in f[m] .. phys[m].last
        BY <1>6
    <2>3. /\ i \in Int /\ j \in Int /\ x \in Int /\ i <= x /\ x <= j
          /\ f[n] <= i /\ j <= phys[m].last
        BY <1>2, <1>3, <2>1, <2>2
    <2>4. CASE f[m] <= x
        <3>1. f[m] \in Nat /\ phys[m].last \in Nat
            BY <1>2, <1>3
        <3>2. x \in f[m] .. phys[m].last
            BY <2>3, <2>4, <3>1
        <3> QED
            BY <1>6, <3>2
    <2>5. CASE x < f[m]
        <3>1. 0 \in cat /\ f[0] <= f[n]
            <4>1. 0 \in 0 .. n
                BY <1>2
            <4>2. 0 \in cat
                BY <4>1 DEF CollInv, Numbered
            <4>3. 0 = n \/ 0 < n
                BY <1>2
            <4> QED
                BY <1>1, <1>2, <4>2, <4>3 DEF InRow, Ascending
        <3>2. x \in f[0] .. f[m] - 1
            BY <1>2, <2>3, <2>5, <3>1
        <3>3. PICK k \in cat : k + 1 \in cat /\ f[k] <= x /\ x < f[k + 1]
            BY <1>1, <3>2 DEF InRow, NoGap
        <3>4. phys[k].last + 1 = f[k + 1]
            BY <1>1, <3>3 DEF InRow, Adjacent
        <3>5. x \in f[k] .. phys[k].last
            <4>1. f[k] \in Nat /\ phys[k].last \in Nat
                BY <1>2, <1>3
            <4> QED
                BY <2>3, <3>3, <3>4, <4>1
        <3> QED
            BY <1>6, <3>5
    <2> QED
        BY <1>2, <2>3, <2>4, <2>5
<1> HIDE DEF PiecesOfCat
<1> QED
    BY <1>4, <1>5, <1>7 DEF Archive!Tiles

\* The write of .aggInfo adds the pieces that were archived since, behind those
\* that a reader sees already.
LEMMA WritePublishes ==
    ASSUME ArchInv, ArchInv', CollInv, CollInv', NoAgg \notin SUBSET Elements,
           NEW a \in Agents, WriteAgg(a)
    PROVE  /\ View \subseteq View' /\ Archive!Tiles(View', srcLen) /\ UNCHANGED srcLen
           /\ \A p \in View, q \in View' \ View : p.last < q.first
<1>1. /\ RunOk(run[a]) /\ run[a].pc = "write" /\ run[a] \in Run
      /\ UNCHANGED <<srcLen, cat, phys>> /\ aggInfo' = run[a].elems
    BY ArchTypes DEF CollInv, WriteAgg, At
<1>2. /\ \A n \in cat : Readable(n)
      /\ aggInfo' = ElementsOfCat /\ aggInfo' # NoAgg
    BY <1>1 DEF RunOk, Run
<1>3. View' = PiecesOfCat
    <2>1. View' = {[first |-> e.first, last |-> e.last] : e \in ElementsOfCat}
        BY <1>2 DEF View
    <2>2. ASSUME NEW e \in ElementsOfCat
          PROVE  [first |-> e.first, last |-> e.last] \in PiecesOfCat
        BY DEF ElementsOfCat, PiecesOfCat
    <2>3. ASSUME NEW n \in cat
          PROVE  \E e \in ElementsOfCat : [first |-> e.first, last |-> e.last]
                                             = [first |-> phys[n].first, last |-> phys[n].last]
        <3> DEFINE e == [num |-> n, first |-> phys[n].first, last |-> phys[n].last]
        <3>1. e \in ElementsOfCat /\ e.first = phys[n].first /\ e.last = phys[n].last
            BY DEF ElementsOfCat
        <3> HIDE DEF e
        <3> QED
            BY <3>1
    <2>4. PiecesOfCat \subseteq View'
        BY <2>1, <2>3 DEF PiecesOfCat
    <2>5. View' \subseteq PiecesOfCat
        BY <2>1, <2>2
    <2> QED
        BY <2>4, <2>5
<1>4. Archive!Tiles(PiecesOfCat, srcLen)
    BY <1>2, FilesTile
<1>5. ASSUME NEW p \in View
      PROVE  \E n \in cat : /\ p = [first |-> phys[n].first, last |-> phys[n].last]
                            /\ p = phys[n] /\ Readable(n)
                            /\ \A m \in cat : m <= n =>
                                  [first |-> phys[m].first, last |-> phys[m].last] \in View
    <2>1. aggInfo # NoAgg /\ TypeOK /\ AggInfoFaithful
        BY DEF View, ArchInv, CollInv
    <2>2. PICK e \in aggInfo : p = [first |-> e.first, last |-> e.last]
        BY DEF View
    <2>3. PICK n \in cat : n = e.num
        BY <2>1, ElementIs
    <2>4. /\ p = [first |-> phys[n].first, last |-> phys[n].last]
          /\ p = phys[n] /\ Readable(n)
        BY <2>1, <2>2, <2>3, ElementIs
    <2>5. ASSUME NEW m \in cat, m <= n
          PROVE  [first |-> phys[m].first, last |-> phys[m].last] \in View
        <3>1. PICK d \in aggInfo : d.num = m
            BY <2>1, <2>3, <2>5 DEF CollInv, DescribedFirst, Described
        <3>2. [first |-> d.first, last |-> d.last] = [first |-> phys[m].first, last |-> phys[m].last]
            BY <2>1, <3>1, ElementIs
        <3> QED
            BY <2>1, <3>2 DEF View
    <2> QED
        BY <2>3, <2>4, <2>5
<1>6. View \subseteq PiecesOfCat
    BY <1>5 DEF PiecesOfCat
<1>7. ASSUME NEW p \in View, NEW q \in PiecesOfCat \ View PROVE p.last < q.first
    <2>1. PICK n \in cat :
            /\ p = [first |-> phys[n].first, last |-> phys[n].last] /\ Readable(n)
            /\ \A m \in cat : m <= n =>
                  [first |-> phys[m].first, last |-> phys[m].last] \in View
        BY <1>5
    <2>2. PICK m \in cat : q = [first |-> phys[m].first, last |-> phys[m].last]
        BY DEF PiecesOfCat
    <2>3. n < m
        <3>1. n \in Nat /\ m \in Nat
            BY ArchTypes
        <3>2. ~(m <= n)
            BY <2>1, <2>2
        <3> QED
            BY <3>1, <3>2
    <2>4. PICK f \in [cat -> Indices] : InRow(f)
        BY DEF CollInv
    <2>5. phys[n].last < f[m] /\ phys[m].first = f[m]
        BY <1>2, <2>1, <2>3, <2>4, FilesApart DEF CollInv, InRow, Begins
    <2> QED
        BY <2>1, <2>2, <2>5
<1> QED
    BY <1>1, <1>3, <1>4, <1>6, <1>7

\* What a run that answers ok has written reaches the end of its source.
LEMMA WriteReaches ==
    ASSUME ArchInv, CollInv, NEW a \in Agents, WriteAgg(a), run[a].op = "arch"
    PROVE  \/ \E e \in aggInfo' : e.last >= run[a].end - 1
           \/ aggInfo' = {} /\ run[a].start >= run[a].end
<1>1. /\ RunOk(run[a]) /\ RunInv(run[a]) /\ run[a].pc = "write" /\ run[a] \in Run
      /\ aggInfo' = run[a].elems
    BY ArchTypes DEF CollInv, WriteAgg, At
<1>2. /\ \A n \in cat : Readable(n)
      /\ aggInfo' = ElementsOfCat /\ PlaceOk(run[a])
    BY <1>1 DEF RunOk
<1>3. /\ run[a].cur \in Nat /\ run[a].end \in Int /\ run[a].next \in Nat /\ run[a].start \in Nat
      /\ run[a].cur = run[a].end + 1 \/ (run[a].cur = run[a].start /\ run[a].cur >= run[a].end)
    BY <1>1 DEF Run, RunInv
<1>4. CASE run[a].next = 0
    <2>1. cat = {} /\ run[a].cur = run[a].start
        BY <1>2, <1>4 DEF PlaceOk, Follows
    <2>2. aggInfo' = {}
        BY <1>2, <2>1 DEF ElementsOfCat
    <2> QED
        BY <1>3, <2>1, <2>2
<1>5. CASE run[a].next # 0
    <2>1. PICK n \in cat : phys[n].last + 1 = run[a].cur
        BY <1>2, <1>5 DEF PlaceOk, Follows
    <2> DEFINE e == [num |-> n, first |-> phys[n].first, last |-> phys[n].last]
    <2>2. e \in aggInfo' /\ e.last = phys[n].last
        BY <1>2 DEF ElementsOfCat
    <2>3. phys[n].last \in Int
        BY <1>2, ArchTypes
    <2> HIDE DEF e
    <2>4. e.last >= run[a].end - 1
        BY <1>3, <2>1, <2>2, <2>3
    <2> QED
        BY <2>2, <2>4
<1> QED
    BY <1>4, <1>5

\* An ok is the answer of a run that wrote.
LEMMA OkWrites ==
    ASSUME ArchInv, CollInv, [Next]_vars, NEW a \in Agents,
           run[a].pc = "write", run'[a].status = "ok"
    PROVE  WriteAgg(a)
<1>1. run[a].status # "ok" /\ run'[a] # run[a]
    BY DEF CollInv, RunOk
<1>2. ASSUME NEW b \in Agents, b # a, Step(b) \/ OpenSource(b) \/ Rescan(b) \/ Crash(b)
      PROVE  run'[a] = run[a]
    BY <1>2 DEF Step, StartNew, StartIncremental, StartFail, DumpPiece, DumpFail, RegisterPiece,
                RegisterFail, LoopDone, ScanColl, ScanFail, WriteAgg, WriteFail, OpenSource,
                Rescan, Crash, End, Goto, ArchInv, TypeOK
<1>3. Step(a) \/ Crash(a)
    BY <1>1, <1>2 DEF Next, Grow, vars, OpenSource, Rescan, At
<1>4. ~Crash(a)
    BY DEF Crash, ArchInv, TypeOK, Idle
<1>5. ~WriteFail(a)
    BY IdleType DEF WriteFail, End, ArchInv, TypeOK, Idle
<1> QED
    BY <1>3, <1>4, <1>5 DEF Step, StartNew, StartIncremental, StartFail, DumpPiece, DumpFail,
       RegisterPiece, RegisterFail, LoopDone, ScanColl, ScanFail, At
-----------------------------------------------------------------------------
(* Theorems *)

\* Whatever fails, ends, grows or runs at the same time, the catalogue, the
\* files and the agents' indices stay in their ranges: no piece begins or ends
\* outside its source (archPartialTimeSeries).
THEOREM ArchTypeOK == Spec => []TypeOK
<1>1. ArchInv => TypeOK
    BY DEF ArchInv
<1> QED
    BY <1>1, ArchInvHolds, PTL

\* For every limit on the size of a file, every length of the source and every
\* start, the pieces of a run end exactly at the last index its source had, or
\* the run found at most one index to archive: the extension of the last piece
\* ("if it is close enough, just do all of it") never leaves the loop a single
\* step, which it would skip (archPartialTimeSeries).
THEOREM ArchLoopEndsAtEnd == Spec => []LoopEndsAtEnd
<1>1. ArchInv => LoopEndsAtEnd
    BY DEF ArchInv, RunInv, LoopEndsAtEnd
<1> QED
    BY <1>1, ArchInvHolds, PTL

\* Runs that do not overlap, whatever fails or ends in them and however the
\* source grows, leave .aggInfo true: a run that goes on after a failure dumps
\* over files that were registered, but never over one that .aggInfo describes
\* (_rsNcArchTimeSeries, readAggInfo, getNextAggEleObjPath).
THEOREM ArchAggInfoFaithful == Setting /\ Spec /\ []OneAtATime => []AggInfoFaithful
<1>1. ArchInv /\ CollInv => AggInfoFaithful
    BY DEF CollInv
<1> QED
    BY <1>1, CollInvHolds, PTL

\* With such runs an ok means that .aggInfo reaches the last step its source
\* had, but for one.
THEOREM ArchOkArchives == Setting /\ Spec /\ []OneAtATime => OkArchives
<1> DEFINE A == \A a \in Agents :
                  run[a].op = "arch" /\ run[a].pc = "write" /\ run'[a].status = "ok" =>
                      \/ \E e \in aggInfo' : e.last >= run[a].end - 1
                      \/ aggInfo' = {} /\ run[a].start >= run[a].end
<1>1. ArchInv /\ CollInv /\ [Next]_vars => [A]_vars
    BY OkWrites, WriteReaches
<1>2. Setting /\ Spec /\ []OneAtATime => [][A]_vars
    <2> HIDE DEF A
    <2> QED
        BY <1>1, CollInvHolds, PTL DEF Spec
<1> QED
    BY <1>2 DEF OkArchives

\* A reader of the collection sees an archive as AggArchive has it: each write
\* of .aggInfo publishes pieces in a row behind those it had, and nothing else
\* that a run does, or leaves undone, is seen.
THEOREM ArchImplementsArchive == Setting /\ Spec /\ []OneAtATime => ImplementsArchive
<1>1. Init => Archive!Init
    BY ArchAssumption DEF Init, Archive!Init
<1>2. ASSUME Setting
      PROVE  (ArchInv /\ CollInv) /\ (ArchInv /\ CollInv)' /\ [Next]_vars
                 => [Archive!Next]_<<srcLen, View>>
    <2> SUFFICES ASSUME ArchInv, CollInv, ArchInv', CollInv', [Next]_vars
                 PROVE  [Archive!Next]_<<srcLen, View>>
        OBVIOUS
    <2>1. ASSUME NEW a \in Agents, WriteAgg(a) PROVE Archive!Publish
        BY <1>2, <2>1, WritePublishes DEF Archive!Publish, View, Setting
    <2>2. CASE Grow
        BY <2>2 DEF Grow, Archive!Grow, Archive!Next, View
    <2>3. CASE UNCHANGED <<srcLen, aggInfo>>
        BY <2>3 DEF View
    <2>4. \/ \E a \in Agents : WriteAgg(a)
          \/ Grow
          \/ UNCHANGED <<srcLen, aggInfo>>
        BY ZenonT(40) DEF Next, Step, StartNew, StartIncremental, StartFail, DumpPiece, DumpFail,
               RegisterPiece, RegisterFail, LoopDone, ScanColl, ScanFail, WriteFail, OpenSource,
               Rescan, Crash, vars
    <2> QED
        BY <2>1, <2>2, <2>3, <2>4 DEF Archive!Next
<1>3. ASSUME Setting PROVE Spec /\ []OneAtATime => Archive!Init /\ [][Archive!Next]_<<srcLen, View>>
    <2>1. Setting
        BY <1>3
    <2> QED
        BY <1>1, <1>2, <2>1, CollInvHolds, PTL DEF Spec
<1> QED
    BY <1>3 DEF ImplementsArchive, Archive!Spec, View
=============================================================================
