---------------------------- MODULE NcWalkProofs ----------------------------
(***************************************************************************)
(* Theorems about the walks of inc and incattr, for any trees, paths and   *)
(* tables.                                                                 *)
(***************************************************************************)
EXTENDS NcWalk, CommonLemmas

Frame == [coll : Colls, pos : Nat, savedStatus : {"ok", "error"}]
Op == [obj : Objects, out : Outs, status : {"ok", "error"}]

\* Something failed.
Trouble == lost # {} \/ \E k \in DOMAIN ops : ops[k].status = "error"

\* An error is held by ncUtil or by a call of the walk.
Held == savedStatus # "ok" \/ \E k \in DOMAIN calls : calls[k].savedStatus = "error"

\* Operations that may have left an entry.
Leaks == {j \in DOMAIN ops : ops[j].out \in {"inqError", "closeError"}}

WalkInv ==
    /\ savedStatus \in Statuses
    /\ calls \in Seq(Frame)
    /\ calls # <<>> <=> pc = "walk"
    /\ ops \in Seq(Op)
    /\ Trouble => Held

TableInv ==
    /\ ops \in Seq(Op)
    /\ used \in 0 .. NumSlots
    /\ used <= Cardinality(Leaks)
    /\ FullTableExplained
-----------------------------------------------------------------------------
(* The stack of calls *)

\* The top call goes on, and holds an error if it or its member had one.
LEMMA AdvanceFrames ==
    ASSUME NEW stack \in Seq(Frame), stack # <<>>, NEW st \in Statuses
    PROVE  /\ Advance(stack, st) \in Seq(Frame)
           /\ DOMAIN Advance(stack, st) = DOMAIN stack
           /\ Advance(stack, st) # <<>>
           /\ \A k \in DOMAIN stack :
                stack[k].savedStatus = "error" => Advance(stack, st)[k].savedStatus = "error"
           /\ st = "error" => Advance(stack, st)[Len(stack)].savedStatus = "error"
<1> DEFINE n == Len(stack)
           f == [coll |-> stack[n].coll, pos |-> stack[n].pos + 1,
                 savedStatus |-> IF st = "error" THEN st ELSE stack[n].savedStatus]
<1>1. n \in DOMAIN stack /\ stack[n] \in Frame
    OBVIOUS
<1>2. /\ f \in Frame
      /\ stack[n].savedStatus = "error" => f.savedStatus = "error"
      /\ st = "error" => f.savedStatus = "error"
    BY <1>1 DEF Frame
<1>3. Advance(stack, st) = [stack EXCEPT ![n] = f]
    BY <1>1 DEF Advance
<1> HIDE DEF f
<1> QED
    BY <1>1, <1>2, <1>3

LEMMA SaveHolds ==
    ASSUME savedStatus \in Statuses, NEW st \in Statuses, Save(st)
    PROVE  /\ savedStatus' \in Statuses
           /\ pc' = "paths"
           /\ savedStatus # "ok" \/ st # "ok" => savedStatus' # "ok"
BY DEF Save, Statuses

\* What a call answers reaches its caller.
LEMMA BackHolds ==
    ASSUME savedStatus \in Statuses, NEW rest \in Seq(Frame), NEW st \in Statuses,
           Back(rest, st)
    PROVE  /\ savedStatus' \in Statuses
           /\ calls' \in Seq(Frame)
           /\ calls' # <<>> <=> pc' = "walk"
           /\ (\/ savedStatus # "ok" \/ st = "error"
               \/ \E k \in DOMAIN rest : rest[k].savedStatus = "error") => Held'
<1>1. CASE rest = <<>>
    BY <1>1, SaveHolds DEF Back, Held
<1>2. CASE rest # <<>>
    <2>1. calls' = Advance(rest, st) /\ pc' = "walk" /\ savedStatus' = savedStatus
        BY <1>2 DEF Back
    <2>2. Len(rest) \in DOMAIN rest
        BY <1>2
    <2> QED
        BY <2>1, <2>2, <1>2, AdvanceFrames DEF Held
<1> QED
    BY <1>1, <1>2
-----------------------------------------------------------------------------
(* An answer of ok *)

LEMMA LogHolds ==
    ASSUME ops \in Seq(Op), NEW o \in Objects, NEW r,
           r.out \in Outs, r.status \in {"ok", "error"}, Log(o, r)
    PROVE  /\ ops' \in Seq(Op)
           /\ Trouble' => lost' # {} \/ r.status = "error"
                          \/ \E k \in DOMAIN ops : ops[k].status = "error"
<1> DEFINE e == [obj |-> o, out |-> r.out, status |-> r.status]
<1>1. e \in Op /\ e.status = r.status
    BY DEF Op
<1>2. ops' = Append(ops, e)
    BY DEF Log
<1> HIDE DEF e
<1>3. ops' \in Seq(Op)
    BY <1>1, <1>2
<1>4. \A k \in DOMAIN ops' : ops'[k] = e \/ (k \in DOMAIN ops /\ ops'[k] = ops[k])
    BY <1>2
<1> QED
    BY <1>1, <1>3, <1>4 DEF Trouble

LEMMA OutcomeType ==
    ASSUME NEW o, NEW r \in Outcomes(o)
    PROVE  r.out \in Outs /\ r.status \in {"ok", "error"}
<1>1. \A w \in Work(o) : w.status \in {"ok", "error"}
    <2>1. \A w \in RegisterAVUs(o) : w.status \in {"ok", "error"}
        BY DEF RegisterAVUs, Result
    <2>2. \A w \in RemoveAVUs(o) : w.status \in {"ok", "error"}
        BY DEF RemoveAVUs, Result
    <2>3. \A w \in {Result("ok", avus), Result("error", avus)} : w.status \in {"ok", "error"}
        BY DEF Result
    <2>4. CASE cmd.kind = "reg"
        BY <2>4, <2>1 DEF Work
    <2>5. CASE cmd.kind = "remove"
        BY <2>5, <2>2 DEF Work
    <2>6. CASE cmd.kind # "reg" /\ cmd.kind # "remove"
        BY <2>6, <2>3 DEF Work
    <2> QED
        BY <2>4, <2>5, <2>6
<1>2. \A w \in Work(o) : CloseStatus(w.status) \in {"ok", "error"}
    BY <1>1 DEF CloseStatus
<1>3. CASE r \in Unopened
    BY <1>3 DEF Unopened, Outcome, Outs
<1>4. CASE r \in Opened(o)
    BY <1>4, <1>1, <1>2 DEF Opened, Outcome, Outs
<1>5. CASE r \in {Outcome("done", w.status, used, w.avus) : w \in Work(o)}
    BY <1>5, <1>1 DEF Outcome, Outs
<1> QED
    BY <1>3, <1>4, <1>5 DEF Outcomes

LEMMA OpenCollInv ==
    ASSUME WalkInv, NEW c \in Colls, OpenColl(c), UNCHANGED ops
    PROVE  WalkInv'
<1> USE DEF WalkInv
<1>0. "ok" \in Statuses /\ "error" \in Statuses /\ "norows" \in Statuses
    BY DEF Statuses
<1>1. CASE lost' = lost \union {c} /\ Back(calls, "error")
    BY <1>0, <1>1, BackHolds
<1>2. CASE Back(calls, "norows") /\ UNCHANGED lost
    BY <1>0, <1>2, BackHolds DEF Trouble, Held
<1>3. CASE Back(calls, "ok") /\ UNCHANGED lost
    BY <1>0, <1>3, BackHolds DEF Trouble, Held
<1>4. CASE calls' = Enter(c) /\ pc' = "walk" /\ UNCHANGED <<savedStatus, lost>>
    <2> DEFINE f == [coll |-> c, pos |-> 1, savedStatus |-> "ok"]
    <2>1. f \in Frame /\ calls' = Append(calls, f)
        BY <1>4 DEF Frame, Enter
    <2> HIDE DEF f
    <2>2. calls' \in Seq(Frame) /\ calls' # <<>>
        BY <2>1
    <2>3. \A k \in DOMAIN calls : k \in DOMAIN calls' /\ calls'[k] = calls[k]
        BY <2>1
    <2>4. Trouble' => Held'
        BY <1>4, <2>3 DEF Trouble, Held
    <2> QED
        BY <1>4, <2>2, <2>4
<1> QED
    BY <1>1, <1>2, <1>3, <1>4 DEF OpenColl

LEMMA WalkInit == Init => WalkInv
BY DEF Init, WalkInv, Trouble, Statuses, Frame, Op

\* A step that takes a path to its end.
LEMMA SaveInv ==
    ASSUME WalkInv, NEW st \in Statuses, Save(st), UNCHANGED <<calls, ops>>,
           pc # "walk", lost' = lost \/ st = "error"
    PROVE  WalkInv'
BY SaveHolds DEF WalkInv, Trouble, Held

LEMMA FrontFrames ==
    ASSUME calls \in Seq(Frame), calls # <<>>
    PROVE  /\ Front(calls) \in Seq(Frame)
           /\ Top.savedStatus \in {"ok", "error"}
           /\ \A k \in DOMAIN calls :
                calls[k] = Top \/ (k \in DOMAIN Front(calls) /\ Front(calls)[k] = calls[k])
<1>1. Len(calls) \in Nat /\ Len(calls) > 0 /\ Top \in Frame
    BY DEF Top
<1>2. Front(calls) = SubSeq(calls, 1, Len(calls) - 1)
    BY DEF Front
<1>3. Front(calls) \in Seq(Frame)
    BY <1>1, <1>2
<1>4. Top.savedStatus \in {"ok", "error"}
    BY <1>1 DEF Frame
<1>5. \A k \in DOMAIN calls :
        k = Len(calls) \/ (k \in 1 .. Len(calls) - 1 /\ Front(calls)[k] = calls[k])
    BY <1>1, <1>2
<1>6. DOMAIN Front(calls) = 1 .. Len(calls) - 1
    BY <1>1, <1>2
<1> QED
    BY <1>3, <1>4, <1>5, <1>6 DEF Top

LEMMA WalkStep == WalkInv /\ [Next]_vars => WalkInv'
<1> SUFFICES ASSUME WalkInv, [Next]_vars PROVE WalkInv'
    OBVIOUS
<1>0. "ok" \in Statuses /\ "error" \in Statuses /\ "norows" \in Statuses
    BY DEF Statuses
<1>1. CASE PathMissing
    BY <1>0, <1>1, SaveInv DEF PathMissing
<1>2. CASE PathObject
    <2>1. PICK r \in Outcomes(Path) : Do(Path, r) /\ Save(r.status)
        BY <1>2 DEF PathObject
    <2>2. r.out \in Outs /\ r.status \in {"ok", "error"} /\ r.status \in Statuses
        BY OutcomeType, <1>0
    <2>3. /\ ops' \in Seq(Op)
          /\ Trouble' => lost' # {} \/ r.status = "error"
                         \/ \E k \in DOMAIN ops : ops[k].status = "error"
        BY <1>2, <2>1, <2>2, LogHolds DEF PathObject, Do, WalkInv
    <2>4. savedStatus' \in Statuses /\ pc' = "paths"
          /\ (savedStatus # "ok" \/ r.status # "ok" => savedStatus' # "ok")
        BY <2>1, <2>2, SaveHolds DEF WalkInv
    <2> QED
        BY <1>2, <2>3, <2>4 DEF PathObject, AtPath, WalkInv, Trouble, Held
<1>3. CASE PathNotObject
    BY <1>0, <1>3, SaveInv DEF PathNotObject, AtPath
<1>4. CASE PathAggInfo
    BY <1>0, <1>4, SaveInv DEF PathAggInfo, AtPath
<1>5. CASE PathNotRecursive
    BY <1>0, <1>5, SaveInv DEF PathNotRecursive, AtPath
<1>6. CASE PathColl
    BY <1>6, OpenCollInv DEF PathColl
<1>7. CASE PathQuery
    BY <1>7 DEF PathQuery, AtPath, WalkInv, Trouble, Held
<1>8. CASE Return
    BY <1>8 DEF Return, WalkInv, Trouble, Held
<1>9. CASE MemberObject
    <2>1. PICK r \in Outcomes(Member) : Do(Member, r) /\ calls' = Advance(calls, r.status)
        BY <1>9 DEF MemberObject
    <2>2. r.out \in Outs /\ r.status \in {"ok", "error"} /\ r.status \in Statuses
        BY OutcomeType, <1>0
    <2>3. /\ ops' \in Seq(Op)
          /\ Trouble' => lost' # {} \/ r.status = "error"
                         \/ \E k \in DOMAIN ops : ops[k].status = "error"
        BY <1>9, <2>1, <2>2, LogHolds DEF MemberObject, Do, WalkInv
    <2>4. calls # <<>> /\ Len(calls) \in DOMAIN calls
        BY <1>9 DEF MemberObject, AtMember, WalkInv
    <2>5. /\ calls' \in Seq(Frame) /\ calls' # <<>>
          /\ r.status = "error" \/ (\E k \in DOMAIN calls : calls[k].savedStatus = "error")
                => \E k \in DOMAIN calls' : calls'[k].savedStatus = "error"
        BY <2>1, <2>2, <2>4, AdvanceFrames DEF WalkInv
    <2> QED
        BY <1>9, <2>3, <2>5 DEF MemberObject, AtMember, WalkInv, Trouble, Held
<1>10. CASE MemberSpecial
    <2>1. calls # <<>>
        BY <1>10 DEF MemberSpecial, AtMember, WalkInv
    <2>2. /\ calls' \in Seq(Frame) /\ calls' # <<>>
          /\ (\E k \in DOMAIN calls : calls[k].savedStatus = "error")
                => \E k \in DOMAIN calls' : calls'[k].savedStatus = "error"
        BY <1>0, <1>10, <2>1, AdvanceFrames DEF MemberSpecial, WalkInv
    <2> QED
        BY <1>10, <2>2 DEF MemberSpecial, AtMember, WalkInv, Trouble, Held
<1>11. CASE MemberColl
    BY <1>11, OpenCollInv DEF MemberColl
<1>12. CASE EndColl
    <2>1. calls # <<>>
        BY <1>12 DEF EndColl, WalkInv
    <2>2. Front(calls) \in Seq(Frame) /\ Top.savedStatus \in Statuses
        BY <1>0, <2>1, FrontFrames DEF WalkInv
    <2>3. /\ savedStatus' \in Statuses /\ calls' \in Seq(Frame)
          /\ calls' # <<>> <=> pc' = "walk"
          /\ (\/ savedStatus # "ok" \/ Top.savedStatus = "error"
              \/ \E k \in DOMAIN Front(calls) : Front(calls)[k].savedStatus = "error") => Held'
        BY <1>12, <2>2, BackHolds DEF EndColl, WalkInv
    <2>4. Held => Held'
        BY <2>1, <2>3, FrontFrames DEF Held, WalkInv
    <2> QED
        BY <1>12, <2>3, <2>4 DEF EndColl, WalkInv, Trouble
<1>13. CASE ReadError
    <2>1. calls # <<>>
        BY <1>13 DEF ReadError, WalkInv
    <2>2. Front(calls) \in Seq(Frame)
        BY <2>1, FrontFrames DEF WalkInv
    <2>3. /\ savedStatus' \in Statuses /\ calls' \in Seq(Frame)
          /\ calls' # <<>> <=> pc' = "walk"
          /\ Held'
        BY <1>0, <1>13, <2>2, BackHolds DEF ReadError, WalkInv
    <2> QED
        BY <1>13, <2>3 DEF ReadError, WalkInv
<1>14. CASE QueryPage
    <2>1. CASE UNCHANGED <<pc, i, savedStatus>>
        BY <1>14, <2>1 DEF QueryPage, WalkInv, Trouble, Held
    <2>2. CASE Save("ok")
        BY <1>0, <1>14, <2>2, SaveInv DEF QueryPage
    <2> QED
        BY <1>14, <2>1, <2>2 DEF QueryPage
<1>15. CASE QueryEnd
    BY <1>0, <1>15, SaveInv DEF QueryEnd
<1>16. CASE UNCHANGED vars
    BY <1>16 DEF vars, WalkInv, Trouble, Held
<1> QED
    BY <1>1, <1>2, <1>3, <1>4, <1>5, <1>6, <1>7, <1>8, <1>9, <1>10, <1>11, <1>12,
       <1>13, <1>14, <1>15, <1>16 DEF Next, Step, Terminated

\* An answer of ok of inc or incattr (ncUtil, ncattrUtil) says that every
\* collection was listed and no object failed, however deep they lie.
THEOREM WalkOkMeansAll == Spec => []OkMeansAll
<1>1. WalkInv => OkMeansAll
    <2> SUFFICES ASSUME WalkInv, Ok PROVE lost = {} /\ \A k \in DOMAIN ops : ops[k].status = "ok"
        BY DEF OkMeansAll
    <2>1. calls = <<>> /\ savedStatus = "ok"
        BY DEF WalkInv, Ok
    <2>2. ~Held
        BY <2>1 DEF Held
    <2>3. \A k \in DOMAIN ops : ops[k] \in Op
        BY DEF WalkInv
    <2> QED
        BY <2>2, <2>3 DEF WalkInv, Trouble, Op
<1> QED
    BY <1>1, WalkInit, WalkStep, PTL DEF Spec
-----------------------------------------------------------------------------
(* The agent's table *)

\* Only an inquiry or a close that fails takes an entry, and only a table that
\* is full refuses.
LEMMA OutcomeEntries ==
    ASSUME used \in 0 .. NumSlots, NEW o, NEW r \in Outcomes(o)
    PROVE  /\ r.used \in 0 .. NumSlots
           /\ r.used # used => r.used = used + 1 /\ r.out \in {"inqError", "closeError"}
           /\ r.out = "full" => used = NumSlots
<1>0. NumSlots \in Nat /\ used \in Nat
    BY CommandAssumption
<1>1. CASE r \in Unopened
    BY <1>0, <1>1 DEF Unopened, Outcome
<1>2. CASE r \in Opened(o)
    BY <1>0, <1>2 DEF Opened, Outcome
<1>3. CASE r \in {Outcome("done", w.status, used, w.avus) : w \in Work(o)}
    BY <1>0, <1>3 DEF Outcome
<1> QED
    BY <1>1, <1>2, <1>3 DEF Outcomes

\* The leaks ahead of operation k.
LeaksTo(s, k) == {j \in 1 .. k - 1 : s[j].out \in {"inqError", "closeError"}}

LEMMA LeaksFinite ==
    ASSUME ops \in Seq(Op)
    PROVE  /\ IsFiniteSet(Leaks) /\ Cardinality(Leaks) \in Nat
           /\ Leaks = LeaksTo(ops, Len(ops) + 1)
<1>1. Len(ops) \in Nat /\ DOMAIN ops = 1 .. Len(ops)
    OBVIOUS
<1>2. IsFiniteSet(1 .. Len(ops))
    BY <1>1, FS_Interval
<1>3. IsFiniteSet(Leaks)
    BY <1>1, <1>2, FS_Subset DEF Leaks
<1> QED
    BY <1>1, <1>3, FS_CardinalityType DEF Leaks, LeaksTo

LEMMA DoInv ==
    ASSUME TableInv, NEW o \in Objects, NEW r \in Outcomes(o), Do(o, r)
    PROVE  TableInv'
<1> DEFINE e == [obj |-> o, out |-> r.out, status |-> r.status]
           n == Len(ops) + 1
<1>1. e \in Op /\ e.out = r.out
    BY OutcomeType DEF Op
<1>2. ops' = Append(ops, e) /\ used' = r.used
    BY DEF Do, Log
<1> HIDE DEF e
<1>3. /\ ops \in Seq(Op) /\ ops' \in Seq(Op) /\ n \in Nat
      /\ DOMAIN ops = 1 .. n - 1 /\ DOMAIN ops' = 1 .. n
      /\ ops'[n] = e /\ \A j \in 1 .. n - 1 : ops'[j] = ops[j]
    BY <1>1, <1>2 DEF TableInv
<1>4. /\ IsFiniteSet(Leaks) /\ Cardinality(Leaks) \in Nat /\ n \notin Leaks
      /\ Leaks = LeaksTo(ops, n)
    BY <1>3, LeaksFinite DEF Leaks
<1>5. Leaks' = IF e.out \in {"inqError", "closeError"} THEN Leaks \union {n} ELSE Leaks
    BY <1>3 DEF Leaks
<1>6. /\ r.used \in 0 .. NumSlots
      /\ r.used # used => r.used = used + 1 /\ r.out \in {"inqError", "closeError"}
      /\ r.out = "full" => used = NumSlots
    BY OutcomeEntries DEF TableInv
<1>7. NumSlots \in Nat /\ used \in Nat /\ used <= Cardinality(Leaks)
    BY CommandAssumption DEF TableInv
<1>8. used' <= Cardinality(Leaks')
    <2>1. CASE e.out \in {"inqError", "closeError"}
        <3>1. Cardinality(Leaks') = Cardinality(Leaks) + 1
            BY <2>1, <1>4, <1>5, FS_AddElement
        <3> QED
            BY <3>1, <1>2, <1>4, <1>6, <1>7
    <2>2. CASE e.out \notin {"inqError", "closeError"}
        BY <2>2, <1>1, <1>2, <1>5, <1>6, <1>7
    <2> QED
        BY <2>1, <2>2
<1>9. FullTableExplained'
    <2> SUFFICES ASSUME NEW k \in DOMAIN ops', ops'[k].out = "full"
                 PROVE  Cardinality(LeaksTo(ops', k)) >= NumSlots
        BY DEF FullTableExplained, LeaksTo
    <2>1. LeaksTo(ops', k) = LeaksTo(ops, k)
        BY <1>3 DEF LeaksTo
    <2>2. CASE k = n
        BY <2>1, <2>2, <1>1, <1>3, <1>4, <1>6, <1>7
    <2>3. CASE k # n
        <3>1. k \in DOMAIN ops /\ ops[k].out = "full"
            BY <2>3, <1>3
        <3> QED
            BY <3>1, <2>1 DEF TableInv, FullTableExplained, LeaksTo
    <2> QED
        BY <2>2, <2>3
<1> QED
    BY <1>2, <1>3, <1>6, <1>8, <1>9 DEF TableInv

LEMMA TableInit == Init => TableInv
<1> SUFFICES ASSUME Init PROVE TableInv
    OBVIOUS
<1>1. ops = <<>> /\ used = 0
    BY DEF Init
<1>2. ops \in Seq(Op) /\ Leaks = {}
    BY <1>1 DEF Leaks
<1>3. Cardinality(Leaks) = 0
    BY <1>2, FS_EmptySet
<1> QED
    BY <1>1, <1>2, <1>3, CommandAssumption DEF TableInv, FullTableExplained

LEMMA TableStep == TableInv /\ [Next]_vars => TableInv'
<1> SUFFICES ASSUME TableInv, [Next]_vars PROVE TableInv'
    OBVIOUS
<1>1. CASE PathObject
    BY <1>1, DoInv DEF PathObject
<1>2. CASE MemberObject
    BY <1>2, DoInv DEF MemberObject
<1>3. CASE UNCHANGED <<ops, used>>
    BY <1>3 DEF TableInv, Leaks, FullTableExplained
<1>4. PathObject \/ MemberObject \/ UNCHANGED <<ops, used>>
    BY DEF Next, Step, Terminated, vars, PathMissing, PathNotObject, PathAggInfo,
           PathNotRecursive, PathColl, PathQuery, Return, MemberSpecial, MemberColl,
           EndColl, ReadError, QueryPage, QueryEnd
<1> QED
    BY <1>1, <1>2, <1>3, <1>4

\* Whatever table the agent has, an object that ncOperDataObjUtil or
\* _rsNcRegGlobalAttr cannot open for want of an entry comes behind as many
\* whose inquiry or close failed.
THEOREM WalkFullTableExplained == Spec => []FullTableExplained
<1>1. TableInv => FullTableExplained
    BY DEF TableInv
<1> QED
    BY <1>1, TableInit, TableStep, PTL DEF Spec
-----------------------------------------------------------------------------
(* The listing of a collection *)

N == Cardinality(Colls)

\* What a walk makes of a member, when prev are the listings of those below.
PieceOf(n, prev, m) == IF m \in Objects THEN <<m>>
                       ELSE IF n = 0 \/ tree.collClass[m] # "NO_SPEC_COLL" THEN <<>>
                       ELSE prev[m]

Pieces(n, prev, c) == [k \in DOMAIN Members(c) |-> PieceOf(n, prev, Members(c)[k])]

Listed(n, prev) == [c \in Colls |-> FlattenSeq(Pieces(n, prev, c))]

IsListing(M, f) == f = [n \in 0 .. M |-> Listed(n, f[n - 1])]

\* No listing but this one is looked at for none below.
LEMMA ListedFirst == \A f, g : Listed(0, f) = Listed(0, g)
<1> SUFFICES ASSUME NEW f, NEW g
             PROVE  Listed(0, f) = Listed(0, g)
    OBVIOUS
<1>1. \A m : PieceOf(0, f, m) = PieceOf(0, g, m)
    BY DEF PieceOf
<1>2. \A c : Pieces(0, f, c) = Pieces(0, g, c)
    BY <1>1 DEF Pieces
<1> QED
    BY <1>2 DEF Listed

LEMMA ListingExists == \A M \in Nat : \E f : IsListing(M, f)
<1> DEFINE T == {M \in Nat : \E f : IsListing(M, f)}
<1>1. 0 \in T
    <2> DEFINE f == [n \in 0 .. 0 |-> Listed(n, <<>>)]
    <2>1. \A n \in 0 .. 0 : Listed(n, <<>>) = Listed(n, f[n - 1])
        <3> SUFFICES ASSUME NEW n \in 0 .. 0
                     PROVE  Listed(n, <<>>) = Listed(n, f[n - 1])
            OBVIOUS
        <3>1. n = 0
            OBVIOUS
        <3> HIDE DEF f
        <3> QED
            BY <3>1, ListedFirst
    <2>2. IsListing(0, f)
        BY <2>1 DEF IsListing
    <2> HIDE DEF f
    <2> QED
        BY <2>2
<1>2. ASSUME NEW M \in Nat, M \in T
      PROVE  M + 1 \in T
    <2>1. PICK f : IsListing(M, f)
        BY <1>2
    <2> DEFINE g == [n \in 0 .. M + 1 |-> IF n <= M THEN f[n] ELSE Listed(n, f[n - 1])]
    <2>2. ASSUME NEW n \in 0 .. M + 1
          PROVE  g[n] = Listed(n, g[n - 1])
        <3>1. g[n] = Listed(n, f[n - 1])
            <4>1. CASE n <= M
                <5>1. n \in 0 .. M
                    BY <4>1
                <5>2. f[n] = Listed(n, f[n - 1])
                    BY <2>1, <5>1 DEF IsListing
                <5> QED
                    BY <4>1, <5>2
            <4>2. CASE ~ (n <= M)
                BY <4>2
            <4> QED
                BY <4>1, <4>2
        <3>2. CASE n = 0
            <4> HIDE DEF g
            <4> QED
                BY <3>1, <3>2, ListedFirst
        <3>3. CASE n # 0
            <4>1. PICK j : j = n - 1
                OBVIOUS
            <4>2. j \in 0 .. M + 1 /\ j <= M
                BY <3>3, <4>1
            <4>3. g[j] = f[j]
                BY <4>2
            <4> HIDE DEF g
            <4> QED
                BY <3>1, <4>1, <4>3
        <3> QED
            BY <3>2, <3>3
    <2>3. g = [n \in 0 .. M + 1 |-> g[n]]
        OBVIOUS
    <2> HIDE DEF g
    <2>4. IsListing(M + 1, g)
        BY <2>2, <2>3 DEF IsListing
    <2> QED
        BY <2>4
<1> HIDE DEF T
<1>3. \A M \in Nat : M \in T
    BY <1>1, <1>2, NatInd
<1> QED
    BY <1>3 DEF T

LEMMA NIsNat == N \in Nat
BY CommandAssumption, FS_CardinalityType DEF N

LEMMA ListingIs == IsListing(N, Listing)
<1> DEFINE F == CHOOSE f : f = [n \in 0 .. Cardinality(Colls) |->
                [c \in Colls |->
                    LET walk(m) == IF m \in Objects THEN <<m>>
                                   ELSE IF n = 0 \/ tree.collClass[m] # "NO_SPEC_COLL" THEN <<>>
                                   ELSE f[n - 1][m]
                    IN  FlattenSeq([k \in DOMAIN Members(c) |-> walk(Members(c)[k])])]]
<1>1. Listing = F
    BY Zenon DEF Listing
<1>2. PICK f : IsListing(N, f)
    BY NIsNat, ListingExists
<1>3. f = [n \in 0 .. Cardinality(Colls) |->
                [c \in Colls |->
                    LET walk(m) == IF m \in Objects THEN <<m>>
                                   ELSE IF n = 0 \/ tree.collClass[m] # "NO_SPEC_COLL" THEN <<>>
                                   ELSE f[n - 1][m]
                    IN  FlattenSeq([k \in DOMAIN Members(c) |-> walk(Members(c)[k])])]]
    BY <1>2, Zenon DEF IsListing, Listed, Pieces, PieceOf, N
<1>4. F = [n \in 0 .. Cardinality(Colls) |->
                [c \in Colls |->
                    LET walk(m) == IF m \in Objects THEN <<m>>
                                   ELSE IF n = 0 \/ tree.collClass[m] # "NO_SPEC_COLL" THEN <<>>
                                   ELSE F[n - 1][m]
                    IN  FlattenSeq([k \in DOMAIN Members(c) |-> walk(Members(c)[k])])]]
    BY <1>3, Zenon
<1> HIDE DEF F
<1>5. IsListing(N, F)
    BY <1>4, Zenon DEF IsListing, Listed, Pieces, PieceOf, N
<1> QED
    BY <1>1, <1>5, Zenon
LEMMA ListingAt ==
    \A n \in 0 .. N : Listing[n] = Listed(n, Listing[n - 1])
<1>1. PICK f : f = Listing
    OBVIOUS
<1>2. f = [n \in 0 .. N |-> Listed(n, f[n - 1])]
    BY <1>1, ListingIs DEF IsListing
<1>3. \A n \in 0 .. N : f[n] = Listed(n, f[n - 1])
    BY <1>2
<1> QED
    BY <1>1, <1>3

\* The members of a collection.
LEMMA MembersType ==
    ASSUME tree \in Trees
    PROVE  \A c \in Colls : Members(c) \in Seq(Colls \union Objects)
BY CommandAssumption DEF Members, IsTree

\* The listings of collections below, in the types of their members.
LEMMA ListedType ==
    ASSUME tree \in Trees, NEW n \in Nat, NEW prev,
           n # 0 => prev \in [Colls -> Seq(Objects)]
    PROVE  /\ \A m \in Colls \union Objects : PieceOf(n, prev, m) \in Seq(Objects)
           /\ Listed(n, prev) \in [Colls -> Seq(Objects)]
<1>1. ASSUME NEW m \in Colls \union Objects
      PROVE  PieceOf(n, prev, m) \in Seq(Objects)
    <2>1. CASE m \in Objects
        BY <2>1 DEF PieceOf
    <2>2. CASE m \notin Objects /\ (n = 0 \/ tree.collClass[m] # "NO_SPEC_COLL")
        <3>1. <<>> \in Seq(Objects)
            OBVIOUS
        <3> QED
            BY <2>2, <3>1 DEF PieceOf
    <2>3. CASE m \notin Objects /\ ~ (n = 0 \/ tree.collClass[m] # "NO_SPEC_COLL")
        <3>1. m \in Colls /\ prev[m] \in Seq(Objects)
            BY <1>1, <2>3
        <3>2. PieceOf(n, prev, m) = prev[m]
            BY <2>3 DEF PieceOf
        <3> QED
            BY <3>1, <3>2
    <2> QED
        BY <2>1, <2>2, <2>3
<1> DEFINE U == Seq(Objects)
<1>2. ASSUME NEW c \in Colls
      PROVE  FlattenSeq(Pieces(n, prev, c)) \in Seq(Objects)
    <2> HIDE DEF U
    <2>1. Members(c) \in Seq(Colls \union Objects)
        BY MembersType
    <2>2. \A k \in DOMAIN Members(c) : PieceOf(n, prev, Members(c)[k]) \in U
        BY <1>1, <2>1 DEF U
    <2>3. DOMAIN Members(c) = 1 .. Len(Members(c)) /\ Len(Members(c)) \in Nat
        BY <2>1
    <2>4. Pieces(n, prev, c) \in Seq(U)
        BY <2>2, <2>3 DEF Pieces
    <2> QED
        BY <2>4, FlattenOfSeq DEF U
<1> QED
    BY <1>1, <1>2 DEF Listed

LEMMA ListingType ==
    ASSUME tree \in Trees
    PROVE  \A n \in 0 .. N : Listing[n] \in [Colls -> Seq(Objects)]
<1> DEFINE T == {n \in Nat : n \in 0 .. N => Listing[n] \in [Colls -> Seq(Objects)]}
<1>1. 0 \in T
    <2>1. 0 \in 0 .. N
        BY NIsNat
    <2> QED
        BY <2>1, ListingAt, ListedType
<1>2. ASSUME NEW n \in Nat, n \in T, n + 1 \in 0 .. N
      PROVE  Listing[n + 1] \in [Colls -> Seq(Objects)]
    <2>1. PICK j \in Nat : j = n + 1
        OBVIOUS
    <2>2. n \in 0 .. N /\ j - 1 = n /\ j \in 0 .. N
        BY <1>2, <2>1, NIsNat
    <2>3. Listing[n] \in [Colls -> Seq(Objects)]
        BY <1>2, <2>2
    <2>4. Listing[j] = Listed(j, Listing[n])
        BY <2>2, ListingAt
    <2>5. Listed(j, Listing[n]) \in [Colls -> Seq(Objects)]
        BY <2>3, ListedType
    <2> QED
        BY <2>1, <2>4, <2>5
<1>3. \A n \in Nat : n \in T => n + 1 \in T
    BY <1>2
<1> HIDE DEF T
<1>4. \A n \in Nat : n \in T
    BY <1>1, <1>3, NatInd
<1> QED
    BY <1>4, NIsNat DEF T

\* What a walk makes of a member of a collection with n below it.
Piece(n, m) == PieceOf(n, Listing[n - 1], m)

LEMMA PieceType ==
    ASSUME tree \in Trees
    PROVE  \A n \in 0 .. N : \A m \in Colls \union Objects : Piece(n, m) \in Seq(Objects)
<1> SUFFICES ASSUME NEW n \in 0 .. N, NEW m \in Colls \union Objects
             PROVE  Piece(n, m) \in Seq(Objects)
    OBVIOUS
<1>1. n \in Nat /\ (n # 0 => n - 1 \in 0 .. N)
    BY NIsNat
<1>2. n # 0 => Listing[n - 1] \in [Colls -> Seq(Objects)]
    BY <1>1, ListingType
<1> QED
    BY <1>1, <1>2, ListedType DEF Piece

\* A listing is what the walk makes of the members.
LEMMA ListingPieces ==
    \A n \in 0 .. N : \A c \in Colls :
        Listing[n][c] = FlattenSeq([k \in DOMAIN Members(c) |-> Piece(n, Members(c)[k])])
<1> SUFFICES ASSUME NEW n \in 0 .. N, NEW c \in Colls
             PROVE  Listing[n][c] = FlattenSeq([k \in DOMAIN Members(c) |-> Piece(n, Members(c)[k])])
    OBVIOUS
<1>1. Listing[n] = Listed(n, Listing[n - 1])
    BY ListingAt
<1>2. Listing[n][c] = FlattenSeq(Pieces(n, Listing[n - 1], c))
    BY <1>1 DEF Listed
<1> QED
    BY <1>2 DEF Pieces, Piece
-----------------------------------------------------------------------------
(* The stack of calls *)

\* How deep the collections below each collection are, at most.
Ranks == {r \in [Colls -> 0 .. N] :
            \A c, d \in Colls : d \in ToSet(tree.members[c]) => r[d] < r[c]}

LEMMA RankExists == tree \in Trees => Ranks # {}
BY CommandAssumption DEF Ranks, IsTree, N

\* The call of g was made for the member that the call of f is at.
Under(f, g) == /\ f.pos <= Len(Members(f.coll))
               /\ Members(f.coll)[f.pos] = g.coll
               /\ tree.collClass[g.coll] = "NO_SPEC_COLL"

StackOK(s) ==
    /\ s \in Seq(Frame)
    /\ \A k \in DOMAIN s : s[k].pos \in 1 .. Len(Members(s[k].coll)) + 1
    /\ \A k \in DOMAIN s : \A r \in Ranks : r[s[k].coll] + k <= N + 1
    /\ s # <<>> => /\ i <= Len(cmd.srcPath)
                   /\ s[1].coll = Path
                   /\ tree.collClass[Path] # "MOUNTED_COLL"
    /\ \A k, l \in DOMAIN s : l = k + 1 => Under(s[k], s[l])

StackInv ==
    /\ tree \in Trees /\ cmd \in Commands
    /\ pc \in {"paths", "walk", "query", "done"}
    /\ i \in 1 .. Len(cmd.srcPath) + 1
    /\ pc = "query" => i <= Len(cmd.srcPath)
    /\ pc = "done" => i = Len(cmd.srcPath) + 1
    /\ calls # <<>> <=> pc = "walk"
    /\ savedStatus \in Statuses
    /\ StackOK(calls)

\* There is room on the stack for the collections below.
LEMMA StackBound ==
    ASSUME tree \in Trees, NEW s, StackOK(s)
    PROVE  \A k \in DOMAIN s : k \in Nat /\ k <= N + 1
<1>1. PICK r \in Ranks : TRUE
    BY RankExists
<1>2. ASSUME NEW k \in DOMAIN s
      PROVE  k \in Nat /\ k <= N + 1
    <2>1. s \in Seq(Frame) /\ k \in Nat /\ s[k] \in Frame
        BY DEF StackOK
    <2>2. s[k].coll \in Colls
        BY <2>1 DEF Frame
    <2>3. r[s[k].coll] \in 0 .. N /\ r[s[k].coll] + k <= N + 1
        BY <1>1, <2>2 DEF Ranks, StackOK
    <2> QED
        BY <2>1, <2>3, NIsNat
<1> QED
    BY <1>2

LEMMA StackBoundMember ==
    ASSUME tree \in Trees, NEW s, StackOK(s)
    PROVE  \A k \in DOMAIN s : \A p \in 1 .. Len(Members(s[k].coll)) :
                Members(s[k].coll)[p] \in Colls =>
                    \A r \in Ranks : r[Members(s[k].coll)[p]] + k + 1 <= N + 1
<1> SUFFICES ASSUME NEW k \in DOMAIN s, NEW p \in 1 .. Len(Members(s[k].coll)),
                    NEW d, d = Members(s[k].coll)[p], d \in Colls, NEW r \in Ranks
             PROVE  r[d] + k + 1 <= N + 1
    OBVIOUS
<1>1. s \in Seq(Frame) /\ k \in Nat /\ s[k] \in Frame
    BY DEF StackOK
<1>2. PICK c \in Colls : c = s[k].coll
    BY <1>1 DEF Frame
<1>3. Members(c) \in Seq(Colls \union Objects)
    BY MembersType
<1>4. d \in ToSet(tree.members[c])
    BY <1>2, <1>3 DEF ToSet, Members
<1>5. r[d] < r[c] /\ r[d] \in 0 .. N /\ r[c] \in 0 .. N /\ r[c] + k <= N + 1
    BY <1>2, <1>4 DEF Ranks, StackOK
<1> QED
    BY <1>1, <1>5, NIsNat

\* A call of a member that is listed.
LEMMA EnterOK ==
    ASSUME tree \in Trees, StackOK(calls), AtMember, calls # <<>>, Member \in Colls,
           tree.collClass[Member] = "NO_SPEC_COLL"
    PROVE  StackOK(Enter(Member))
<1> DEFINE e == [coll |-> Member, pos |-> 1, savedStatus |-> "ok"]
           n == Len(calls)
           t == Append(calls, e)
<1>1. calls \in Seq(Frame) /\ n \in DOMAIN calls /\ n \in Nat /\ n # 0
    BY DEF StackOK
<1>2. e \in Frame /\ e.coll = Member /\ e.pos = 1
    BY DEF Frame
<1>3. Top.pos \in 1 .. Len(Members(Top.coll)) /\ Top = calls[n] /\ Top \in Frame
    BY <1>1 DEF StackOK, Top, AtMember
<1>4. \A r \in Ranks : r[Member] + (n + 1) <= N + 1
    <2>1. \A r \in Ranks : r[Member] + n + 1 <= N + 1
        BY <1>1, <1>3, StackBoundMember DEF Member
    <2>2. \A r \in Ranks : r[Member] \in 0 .. N
        BY DEF Ranks
    <2> QED
        BY <1>1, <2>1, <2>2, NIsNat
<1>5. Len(Members(Member)) \in Nat
    BY MembersType
<1> HIDE DEF e
<1>6. /\ t \in Seq(Frame) /\ Len(t) = n + 1 /\ t[n + 1] = e
      /\ \A k \in DOMAIN t : (k \in DOMAIN calls /\ t[k] = calls[k]) \/ (k = n + 1 /\ t[k] = e)
      /\ \A k \in DOMAIN calls : t[k] = calls[k] /\ k \in Nat /\ k <= n
    BY <1>1, <1>2
<1>7. Enter(Member) = t
    BY DEF Enter, e
<1>8. 1 \in DOMAIN calls
    BY <1>1
<1> HIDE DEF t
<1>9. \A k \in DOMAIN t : t[k].pos \in 1 .. Len(Members(t[k].coll)) + 1
    BY <1>2, <1>5, <1>6, SMTT(30) DEF StackOK
<1>10. \A k \in DOMAIN t : \A r \in Ranks : r[t[k].coll] + k <= N + 1
    BY <1>2, <1>4, <1>6 DEF StackOK
<1>11. ASSUME NEW k \in DOMAIN t, NEW l \in DOMAIN t, l = k + 1
       PROVE  Under(t[k], t[l])
    <2>1. CASE l \in DOMAIN calls /\ t[l] = calls[l]
        <3>1. k \in DOMAIN calls
            BY <1>1, <1>6, <1>11, <2>1
        <3> QED
            BY <1>6, <1>11, <2>1, <3>1 DEF StackOK
    <2>2. CASE l = n + 1 /\ t[l] = e
        <3>1. k = n /\ t[k] = Top
            BY <1>1, <1>3, <1>6, <1>11, <2>2
        <3> QED
            BY <1>2, <2>2, <3>1 DEF Under, AtMember, Member
    <2> QED
        BY <1>6, <2>1, <2>2
<1>12. t[1].coll = calls[1].coll
    BY <1>6, <1>8
<1> QED
    BY <1>6, <1>7, <1>9, <1>10, <1>11, <1>12 DEF StackOK

LEMMA EnterPathOK ==
    ASSUME tree \in Trees, i <= Len(cmd.srcPath), Path \in Colls,
           tree.collClass[Path] # "MOUNTED_COLL", calls = <<>>
    PROVE  StackOK(Enter(Path))
<1> DEFINE e == [coll |-> Path, pos |-> 1, savedStatus |-> "ok"]
<1>1. e \in Frame /\ e.coll = Path /\ e.pos = 1
    BY DEF Frame
<1>2. Len(Members(Path)) \in Nat
    BY MembersType
<1>3. \A r \in Ranks : r[Path] + 1 <= N + 1
    BY NIsNat DEF Ranks
<1> HIDE DEF e
<1>4. PICK t \in Seq(Frame) : /\ t = Append(calls, e) /\ Len(t) = 1 /\ t[1] = e
                              /\ DOMAIN t = 1 .. 1 /\ t # <<>>
    <2>1. <<>> \in Seq(Frame) /\ Len(<<>>) = 0
        OBVIOUS
    <2>2. PICK q \in Seq(Frame) : q = calls /\ Len(q) = 0
        BY <2>1
    <2>3. Append(q, e) \in Seq(Frame) /\ Len(Append(q, e)) = 1 /\ Append(q, e)[1] = e
        BY <1>1, <2>2
    <2>4. PICK t \in Seq(Frame) : t = Append(q, e) /\ Len(t) = 1 /\ t[1] = e
        BY <2>3
    <2>5. DOMAIN t = 1 .. 1 /\ t # <<>>
        BY <2>4
    <2> QED
        BY <2>2, <2>4, <2>5
<1>5. Enter(Path) = t
    BY <1>4 DEF Enter, e
<1> QED
    BY <1>1, <1>2, <1>3, <1>4, <1>5 DEF StackOK

LEMMA FrontOK ==
    ASSUME NEW s, StackOK(s), s # <<>>
    PROVE  StackOK(Front(s))
<1>1. s \in Seq(Frame)
    BY DEF StackOK
<1>2. /\ Front(s) \in Seq(Frame)
      /\ \A k \in DOMAIN Front(s) : k \in DOMAIN s /\ Front(s)[k] = s[k]
      /\ Front(s) # <<>> => 1 \in DOMAIN Front(s)
    BY <1>1 DEF Front
<1> HIDE DEF Front
<1> QED
    BY <1>2 DEF StackOK

\* The top call goes on to the next member.
LEMMA AdvanceOK ==
    ASSUME NEW s, StackOK(s), s # <<>>, NEW st \in Statuses, tree \in Trees,
           s[Len(s)].pos <= Len(Members(s[Len(s)].coll))
    PROVE  /\ StackOK(Advance(s, st))
           /\ DOMAIN Advance(s, st) = DOMAIN s
           /\ Advance(s, st) # <<>>
<1> DEFINE n == Len(s)
           f == [coll |-> s[n].coll, pos |-> s[n].pos + 1,
                 savedStatus |-> IF st = "error" THEN st ELSE s[n].savedStatus]
           t == [s EXCEPT ![n] = f]
<1>1. s \in Seq(Frame) /\ n \in DOMAIN s /\ s[n] \in Frame
    BY DEF StackOK
<1>2. f \in Frame /\ f.coll = s[n].coll /\ f.pos = s[n].pos + 1
    BY <1>1 DEF Frame
<1>3. Advance(s, st) = t
    BY DEF Advance
<1> HIDE DEF f
<1>4. /\ t \in Seq(Frame) /\ DOMAIN t = DOMAIN s /\ t # <<>>
      /\ \A k \in DOMAIN t : k # n => t[k] = s[k]
      /\ t[n] = f
    BY <1>1, <1>2
<1>5. Len(Members(s[n].coll)) \in Nat /\ s[n].pos \in Nat
    BY <1>1, MembersType DEF Frame
<1> HIDE DEF t
<1>6. \A k \in DOMAIN t : t[k].coll = s[k].coll
    BY <1>2, <1>4
<1>7. \A k \in DOMAIN t : t[k].pos \in 1 .. Len(Members(t[k].coll)) + 1
    <2>1. f.pos \in 1 .. Len(Members(f.coll)) + 1
        BY <1>2, <1>5
    <2> QED
        BY <1>4, <2>1 DEF StackOK
<1>8. \A k, l \in DOMAIN t : l = k + 1 => Under(t[k], t[l])
    <2>1. \A k, l \in DOMAIN t : l = k + 1 => k # n
        BY <1>1, <1>4
    <2> QED
        BY <1>4, <1>6, <2>1, SMTT(30) DEF StackOK, Under
<1>9. 1 \in DOMAIN t
    BY <1>1, <1>4
<1> QED
    BY <1>3, <1>4, <1>6, <1>7, <1>8, <1>9 DEF StackOK

LEMMA StackKept ==
    ASSUME NEW s, StackOK(s), tree' = tree, cmd' = cmd, i' = i, calls' = s
    PROVE  StackOK(calls)'
<1>1. Ranks' = Ranks
    BY Zenon DEF Ranks, N
<1>2. \A c : tree'.members[c] = tree.members[c]
    BY Zenon
<1> QED
    BY <1>1, <1>2 DEF StackOK, Members, Under, Path

LEMMA EmptyOK == ASSUME calls = <<>>  PROVE StackOK(calls)
<1>1. <<>> \in Seq(Frame) /\ DOMAIN <<>> = {}
    OBVIOUS
<1> QED
    BY <1>1 DEF StackOK

\* The stack when a call has answered.
LEMMA BackStack ==
    ASSUME StackInv, NEW rest, StackOK(rest), NEW st \in Statuses, Back(rest, st),
           i <= Len(cmd.srcPath), tree' = tree, cmd' = cmd,
           rest # <<>> => rest[Len(rest)].pos <= Len(Members(rest[Len(rest)].coll))
    PROVE  StackInv'
<1>1. Len(cmd.srcPath) \in Nat
    BY CommandAssumption DEF StackInv, IsCommand
<1>2. CASE rest = <<>>
    <2>1. Save(st) /\ calls' = <<>>
        BY <1>2 DEF Back
    <2>2. StackOK(calls)'
        <3>1. <<>> \in Seq(Frame) /\ DOMAIN <<>> = {}
            OBVIOUS
        <3> QED
            BY <2>1, <3>1 DEF StackOK
    <2>3. savedStatus' \in Statuses
        BY <2>1 DEF Save, StackInv
    <2> QED
        BY <1>1, <2>1, <2>2, <2>3 DEF StackInv, Save
<1>3. CASE rest # <<>>
    <2>1. calls' = Advance(rest, st) /\ pc' = "walk" /\ i' = i /\ savedStatus' = savedStatus
        BY <1>3 DEF Back
    <2>2. StackOK(Advance(rest, st)) /\ Advance(rest, st) # <<>>
        BY <1>3, AdvanceOK DEF StackInv
    <2>3. PICK t : t = Advance(rest, st)
        OBVIOUS
    <2>4. StackOK(calls)'
        BY <2>1, <2>2, <2>3, StackKept
    <2> QED
        BY <2>1, <2>2, <2>4 DEF StackInv
<1> QED
    BY <1>2, <1>3

LEMMA FrontAt ==
    ASSUME NEW s, StackOK(s), Front(s) # <<>>
    PROVE  /\ Front(s)[Len(Front(s))].pos <= Len(Members(Front(s)[Len(Front(s))].coll))
           /\ Under(Front(s)[Len(Front(s))], s[Len(s)])
<1>1. s \in Seq(Frame)
    BY DEF StackOK
<1>2. PICK n \in Nat : n = Len(s) - 1 /\ n # 0 /\ Front(s)[Len(Front(s))] = s[n]
                       /\ n \in DOMAIN s /\ n + 1 \in DOMAIN s /\ n + 1 = Len(s)
    BY <1>1 DEF Front
<1>3. Under(s[n], s[n + 1])
    BY <1>2 DEF StackOK
<1> HIDE DEF Front
<1> QED
    BY <1>2, <1>3 DEF Under

\* A collection is listed, or not.
LEMMA OpenCollStack ==
    ASSUME StackInv, NEW c \in Colls, OpenColl(c), i <= Len(cmd.srcPath),
           tree' = tree, cmd' = cmd, StackOK(calls),
           tree.collClass[c] # "MOUNTED_COLL" => StackOK(Enter(c)),
           calls # <<>> => Top.pos <= Len(Members(Top.coll))
    PROVE  StackInv'
<1>1. ASSUME NEW st \in Statuses, Back(calls, st)
      PROVE  StackInv'
    BY <1>1, BackStack DEF Top
<1>2. ASSUME tree.collClass[c] # "MOUNTED_COLL", calls' = Enter(c), pc' = "walk",
             UNCHANGED <<i, savedStatus, lost, gone>>
      PROVE  StackInv'
    <2>1. PICK t : t = Enter(c)
        OBVIOUS
    <2>2. StackOK(calls)'
        BY <1>2, <2>1, StackKept
    <2>3. Enter(c) # <<>>
        <3>1. PICK q \in Seq(Frame) : q = calls
            BY DEF StackOK
        <3>2. PICK e \in Frame : e = [coll |-> c, pos |-> 1, savedStatus |-> "ok"]
            BY DEF Frame
        <3>3. Append(q, e) # <<>>
            OBVIOUS
        <3>4. Enter(c) = Append(calls, e)
            BY <3>2, Zenon DEF Enter
        <3> QED
            BY <3>1, <3>3, <3>4
    <2> QED
        BY <1>2, <2>2, <2>3 DEF StackInv
<1> QED
    BY <1>1, <1>2 DEF OpenColl, Statuses

LEMMA StackSave ==
    ASSUME StackInv, NEW st \in Statuses, Save(st), i <= Len(cmd.srcPath),
           tree' = tree, cmd' = cmd, calls = <<>>, calls' = <<>>
    PROVE  StackInv'
<1>1. StackOK(<<>>)
    BY EmptyOK
<1>2. Back(<<>>, st)
    BY DEF Back
<1> QED
    BY <1>1, <1>2, BackStack

LEMMA StackInit == Init => StackInv
<1> SUFFICES ASSUME Init PROVE StackInv
    OBVIOUS
<1>1. Len(cmd.srcPath) \in Nat
    BY CommandAssumption DEF Init, IsCommand
<1> QED
    BY <1>1, EmptyOK DEF Init, StackInv, Statuses

\* At a member, the top of the stack.
LEMMA AtMemberIs ==
    ASSUME StackInv, AtMember
    PROVE  /\ calls # <<>> /\ i <= Len(cmd.srcPath)
           /\ Top = calls[Len(calls)] /\ Top.pos \in 1 .. Len(Members(Top.coll))
           /\ Top.coll \in Colls /\ Member \in Colls \union Objects
           /\ Len(calls) \in DOMAIN calls
<1>1. calls \in Seq(Frame) /\ calls # <<>> /\ i <= Len(cmd.srcPath)
    BY DEF StackInv, StackOK, AtMember
<1>2. Len(calls) \in DOMAIN calls /\ Top = calls[Len(calls)] /\ Top \in Frame
    BY <1>1 DEF Top
<1>3. Top.coll \in Colls /\ Top.pos \in 1 .. Len(Members(Top.coll))
    BY <1>2 DEF Frame, StackInv, StackOK, AtMember
<1>4. Member \in Colls \union Objects
    BY <1>3, MembersType DEF Member, StackInv
<1> QED
    BY <1>1, <1>2, <1>3, <1>4

LEMMA StackAdvance ==
    ASSUME StackInv, AtMember, NEW st \in Statuses, calls' = Advance(calls, st),
           UNCHANGED <<tree, cmd, pc, i, savedStatus>>
    PROVE  StackInv'
<1>1. StackOK(Advance(calls, st)) /\ Advance(calls, st) # <<>>
    BY AtMemberIs, AdvanceOK DEF StackInv
<1>2. PICK t : t = Advance(calls, st)
    OBVIOUS
<1>3. StackOK(calls)'
    BY <1>1, <1>2, StackKept
<1> QED
    BY <1>1, <1>3 DEF StackInv, AtMember

LEMMA StackFront ==
    ASSUME StackInv, pc = "walk", NEW st \in Statuses, Back(Front(calls), st),
           tree' = tree, cmd' = cmd
    PROVE  StackInv'
<1>1. calls # <<>> /\ StackOK(calls) /\ i <= Len(cmd.srcPath)
    BY DEF StackInv, StackOK
<1>2. StackOK(Front(calls))
    BY <1>1, FrontOK
<1>3. Front(calls) # <<>> =>
        Front(calls)[Len(Front(calls))].pos
            <= Len(Members(Front(calls)[Len(Front(calls))].coll))
    BY <1>1, FrontAt
<1>4. PICK t : t = Front(calls)
    OBVIOUS
<1> QED
    BY <1>1, <1>2, <1>3, <1>4, BackStack

LEMMA StackStep == StackInv /\ [Next]_vars => StackInv'
<1> SUFFICES ASSUME StackInv, [Next]_vars PROVE StackInv'
    OBVIOUS
<1>0. "ok" \in Statuses /\ "error" \in Statuses /\ "norows" \in Statuses
    BY DEF Statuses
<1>a. pc # "walk" => calls = <<>>
    BY DEF StackInv
<1>b. pc = "query" => i <= Len(cmd.srcPath)
    BY DEF StackInv
<1>1. CASE PathMissing
    BY <1>0, <1>a, <1>1, StackSave DEF PathMissing
<1>2. CASE PathObject
    <2>1. PICK r \in Outcomes(Path) : Save(r.status)
        BY <1>2 DEF PathObject
    <2>2. r.status \in Statuses
        BY OutcomeType, <1>0
    <2> QED
        BY <1>a, <1>2, <2>1, <2>2, StackSave DEF PathObject, AtPath
<1>3. CASE PathNotObject
    BY <1>0, <1>a, <1>3, StackSave DEF PathNotObject, AtPath
<1>4. CASE PathAggInfo
    BY <1>0, <1>a, <1>4, StackSave DEF PathAggInfo, AtPath
<1>5. CASE PathNotRecursive
    BY <1>0, <1>a, <1>5, StackSave DEF PathNotRecursive, AtPath
<1>6. CASE PathColl
    <2>1. calls = <<>> /\ StackOK(calls) /\ Path \in Colls /\ i <= Len(cmd.srcPath)
        BY <1>a, <1>6, EmptyOK DEF PathColl, AtPath
    <2>2. tree.collClass[Path] # "MOUNTED_COLL" => StackOK(Enter(Path))
        BY <2>1, EnterPathOK DEF StackInv
    <2>3. PICK c \in Colls : c = Path
        BY <2>1
    <2> QED
        BY <1>6, <2>1, <2>2, <2>3, OpenCollStack DEF PathColl
<1>7. CASE PathQuery
    <2>1. PICK s : s = calls
        OBVIOUS
    <2>2. StackOK(calls)'
        BY <1>7, <2>1, StackKept DEF PathQuery, StackInv
    <2> QED
        BY <1>a, <1>7, <2>2 DEF PathQuery, AtPath, StackInv
<1>8. CASE Return
    <2>1. PICK s : s = calls
        OBVIOUS
    <2>2. StackOK(calls)'
        BY <1>8, <2>1, StackKept DEF Return, StackInv
    <2>3. Len(cmd.srcPath) \in Nat
        BY CommandAssumption DEF StackInv, IsCommand
    <2> QED
        BY <1>a, <1>8, <2>2, <2>3 DEF Return, StackInv
<1>9. CASE MemberObject
    <2>1. PICK r \in Outcomes(Member) : calls' = Advance(calls, r.status)
        BY <1>9 DEF MemberObject
    <2>2. r.status \in Statuses
        BY OutcomeType, <1>0
    <2>3. PICK st \in Statuses : st = r.status
        BY <2>2
    <2> QED
        BY <1>9, <2>1, <2>3, StackAdvance DEF MemberObject
<1>10. CASE MemberSpecial
    BY <1>0, <1>10, StackAdvance DEF MemberSpecial
<1>11. CASE MemberColl
    <2>1. StackOK(Enter(Member)) /\ StackOK(calls)
        BY <1>11, AtMemberIs, EnterOK DEF MemberColl, StackInv
    <2>2. PICK c \in Colls : c = Member
        BY <1>11 DEF MemberColl
    <2>3. i <= Len(cmd.srcPath) /\ Top.pos <= Len(Members(Top.coll))
        BY <1>11, AtMemberIs DEF MemberColl
    <2> QED
        BY <1>11, <2>1, <2>2, <2>3, OpenCollStack DEF MemberColl
<1>12. CASE EndColl
    <2>1. calls \in Seq(Frame) /\ calls # <<>>
        BY <1>12 DEF EndColl, StackInv, StackOK
    <2>2. Top.savedStatus \in Statuses
        BY <1>0, <2>1, FrontFrames
    <2>3. PICK st \in Statuses : st = Top.savedStatus
        BY <2>2
    <2> QED
        BY <1>12, <2>3, StackFront DEF EndColl
<1>13. CASE ReadError
    BY <1>0, <1>13, StackFront DEF ReadError
<1>14. CASE QueryPage
    <2>1. CASE UNCHANGED <<pc, i, savedStatus>>
        <3>1. PICK s : s = calls
            OBVIOUS
        <3>2. StackOK(calls)'
            BY <1>14, <2>1, <3>1, StackKept DEF QueryPage, StackInv
        <3> QED
            BY <1>14, <2>1, <3>2 DEF QueryPage, StackInv
    <2>2. CASE Save("ok")
        BY <1>0, <1>a, <1>b, <1>14, <2>2, StackSave DEF QueryPage
    <2> QED
        BY <1>14, <2>1, <2>2 DEF QueryPage
<1>15. CASE QueryEnd
    BY <1>0, <1>a, <1>b, <1>15, StackSave DEF QueryEnd
<1>16. CASE UNCHANGED vars
    <2>1. PICK s : s = calls
        OBVIOUS
    <2>2. StackOK(calls)'
        BY <1>16, <2>1, StackKept DEF vars, StackInv
    <2> QED
        BY <1>16, <2>2 DEF vars, StackInv
<1> QED
    BY <1>1, <1>2, <1>3, <1>4, <1>5, <1>6, <1>7, <1>8, <1>9, <1>10, <1>11, <1>12,
       <1>13, <1>14, <1>15, <1>16 DEF Next, Step, Terminated
-----------------------------------------------------------------------------
(* What the calls have done *)

\* What the k-th call has made of the members behind it.
FramePieces(k, f) == [j \in 1 .. f.pos - 1 |-> Piece(N - k + 1, Members(f.coll)[j])]
FrameDone(k, f) == FlattenSeq(FramePieces(k, f))

StackPieces(s) == [k \in DOMAIN s |-> FrameDone(k, s[k])]
StackDone(s) == FlattenSeq(StackPieces(s))

IsFrame(k, f) == k \in 1 .. N + 1 /\ f \in Frame /\ f.pos \in 1 .. Len(Members(f.coll)) + 1

LEMMA FramesOf ==
    ASSUME tree \in Trees, NEW s, StackOK(s)
    PROVE  \A k \in DOMAIN s : IsFrame(k, s[k])
<1>1. s \in Seq(Frame)
    BY DEF StackOK
<1>2. \A k \in DOMAIN s : k \in Nat /\ k >= 1 /\ s[k] \in Frame
    BY <1>1
<1>3. \A k \in DOMAIN s : k <= N + 1 /\ s[k].pos \in 1 .. Len(Members(s[k].coll)) + 1
    BY StackBound DEF StackOK
<1> QED
    BY <1>2, <1>3, NIsNat DEF IsFrame

LEMMA FramePiecesType ==
    ASSUME tree \in Trees, NEW k, NEW f, IsFrame(k, f)
    PROVE  /\ FramePieces(k, f) \in Seq(Seq(Objects))
           /\ Len(FramePieces(k, f)) = f.pos - 1
           /\ \A j \in 1 .. Len(Members(f.coll)) :
                Piece(N - k + 1, Members(f.coll)[j]) \in Seq(Objects)
           /\ FrameDone(k, f) \in Seq(Objects)
<1> DEFINE U == Seq(Objects)
<1> HIDE DEF U
<1>1. PICK p \in Nat : p = f.pos - 1
    BY DEF IsFrame
<1>2. Members(f.coll) \in Seq(Colls \union Objects)
    BY MembersType DEF IsFrame, Frame
<1>3. N - k + 1 \in 0 .. N
    BY NIsNat DEF IsFrame
<1>4. \A j \in 1 .. Len(Members(f.coll)) : Piece(N - k + 1, Members(f.coll)[j]) \in U
    BY <1>2, <1>3, PieceType DEF U
<1>5. \A j \in 1 .. p : j \in 1 .. Len(Members(f.coll))
    BY <1>1, <1>2 DEF IsFrame
<1>6. [j \in 1 .. p |-> Piece(N - k + 1, Members(f.coll)[j])] \in Seq(U)
    BY <1>1, <1>4, <1>5
<1>7. FramePieces(k, f) = [j \in 1 .. p |-> Piece(N - k + 1, Members(f.coll)[j])]
    BY <1>1 DEF FramePieces
<1>8. FramePieces(k, f) \in Seq(U) /\ Len(FramePieces(k, f)) = p
    BY <1>6, <1>7
<1>9. FrameDone(k, f) \in U
    BY <1>8, FlattenOfSeq DEF FrameDone, U
<1> QED
    BY <1>1, <1>4, <1>8, <1>9 DEF U

\* A call goes on to the next member.
LEMMA FrameDoneNext ==
    ASSUME tree \in Trees, NEW k, NEW f, NEW g, IsFrame(k, f), IsFrame(k, g),
           f.pos <= Len(Members(f.coll)), g.coll = f.coll, g.pos = f.pos + 1
    PROVE  IsJoin(FrameDone(k, g), FrameDone(k, f), Piece(N - k + 1, Members(f.coll)[f.pos]))
<1> DEFINE U == Seq(Objects)
           P(j) == Piece(N - k + 1, Members(f.coll)[j])
<1> HIDE DEF U
<1>1. PICK p \in Nat : p = f.pos /\ p # 0
    BY DEF IsFrame
<1>2. P(p) \in U
    <2>1. p \in 1 .. Len(Members(f.coll))
        BY <1>1, MembersType DEF IsFrame, Frame
    <2>2. \A j \in 1 .. Len(Members(f.coll)) : P(j) \in Seq(Objects)
        BY FramePiecesType
    <2> QED
        BY <2>1, <2>2 DEF U
<1>3. PICK a \in Seq(U) : a = FramePieces(k, f) /\ Len(a) = p - 1
    BY <1>1, FramePiecesType DEF U
<1>4. PICK b \in Seq(U) : b = FramePieces(k, g) /\ Len(b) = p
    BY <1>1, FramePiecesType, SMTT(30) DEF U
<1>5. a = [j \in 1 .. p - 1 |-> P(j)]
    BY <1>1, <1>3 DEF FramePieces
<1>6. g.pos - 1 = p
    BY <1>1
<1>7. b = [j \in 1 .. p |-> P(j)]
    BY <1>4, <1>6 DEF FramePieces
<1>8. PICK e \in U : e = P(p)
    BY <1>2
<1> HIDE DEF P
<1>9. Append(a, e) \in Seq(U) /\ Len(Append(a, e)) = p
    BY <1>1, <1>3
<1>10. \A j \in 1 .. p : Append(a, e)[j] = b[j]
    BY <1>1, <1>3, <1>5, <1>7, <1>8
<1>11. PICK c \in Seq(U) : c = Append(a, e) /\ Len(c) = p /\ \A j \in 1 .. p : c[j] = b[j]
    BY <1>9, <1>10
<1>12. c = b
    BY <1>4, <1>11, SeqEqual
<1>13. FlattenSeq(Append(a, e)) = FlattenSeq(a) \o e
    BY FlattenAppend DEF U
<1> QED
    BY <1>1, <1>3, <1>4, <1>8, <1>11, <1>12, <1>13 DEF IsJoin, FrameDone, P

\* A call has come to the end.
LEMMA FrameDoneAll ==
    ASSUME tree \in Trees, NEW k, NEW f, IsFrame(k, f), f.pos = Len(Members(f.coll)) + 1
    PROVE  FrameDone(k, f) = Listing[N - k + 1][f.coll]
<1>1. Members(f.coll) \in Seq(Colls \union Objects) /\ f.coll \in Colls
    BY MembersType DEF IsFrame, Frame
<1>2. 1 .. f.pos - 1 = DOMAIN Members(f.coll)
    BY <1>1
<1>3. N - k + 1 \in 0 .. N
    BY NIsNat DEF IsFrame
<1>4. PICK n \in 0 .. N : n = N - k + 1
    BY <1>3
<1>5. PICK c \in Colls : c = f.coll
    BY <1>1
<1>6. Listing[n][c] = FlattenSeq([j \in DOMAIN Members(c) |-> Piece(n, Members(c)[j])])
    BY ListingPieces
<1> QED
    BY <1>2, <1>4, <1>5, <1>6 DEF FrameDone, FramePieces

LEMMA StackPiecesType ==
    ASSUME tree \in Trees, NEW s, StackOK(s)
    PROVE  /\ StackPieces(s) \in Seq(Seq(Objects)) /\ DOMAIN StackPieces(s) = DOMAIN s
           /\ StackDone(s) \in Seq(Objects)
<1> DEFINE U == Seq(Objects)
<1>1. PICK n \in Nat : n = Len(s) /\ DOMAIN s = 1 .. n
    BY DEF StackOK
<1>2. \A k \in 1 .. n : FrameDone(k, s[k]) \in U
    BY <1>1, FramesOf, FramePiecesType
<1> HIDE DEF U
<1>3. [k \in 1 .. n |-> FrameDone(k, s[k])] \in Seq(U)
    BY <1>2
<1>4. StackPieces(s) = [k \in 1 .. n |-> FrameDone(k, s[k])]
    BY <1>1 DEF StackPieces
<1>5. StackPieces(s) \in Seq(U) /\ DOMAIN StackPieces(s) = 1 .. n
    BY <1>3, <1>4
<1>6. StackDone(s) \in U
    BY <1>5, FlattenOfSeq DEF StackDone, U
<1> QED
    BY <1>1, <1>5, <1>6 DEF U

\* The top call goes on to the next member.
LEMMA AdvanceDone ==
    ASSUME tree \in Trees, NEW s, StackOK(s), s # <<>>, NEW st \in Statuses,
           s[Len(s)].pos <= Len(Members(s[Len(s)].coll))
    PROVE  IsJoin(StackDone(Advance(s, st)), StackDone(s),
                  Piece(N - Len(s) + 1, Members(s[Len(s)].coll)[s[Len(s)].pos]))
<1> DEFINE U == Seq(Objects)
<1> HIDE DEF U
<1>1. PICK n \in Nat : n = Len(s) /\ n \in DOMAIN s /\ n # 0 /\ DOMAIN s = 1 .. n
    BY DEF StackOK
<1>2. PICK f \in Frame : f = s[n]
    BY <1>1 DEF StackOK
<1>3. PICK g : g = [coll |-> f.coll, pos |-> f.pos + 1,
                    savedStatus |-> IF st = "error" THEN st ELSE f.savedStatus]
    OBVIOUS
<1>4. g.coll = f.coll /\ g.pos = f.pos + 1
    BY <1>3
<1>5. PICK t : t = Advance(s, st) /\ StackOK(t) /\ DOMAIN t = DOMAIN s /\ t # <<>>
    BY AdvanceOK
<1>6. t = [s EXCEPT ![n] = g]
    BY <1>1, <1>2, <1>3, <1>5 DEF Advance
<1>7. t[n] = g /\ \A k \in 1 .. n : k # n => t[k] = s[k]
    BY <1>1, <1>5, <1>6 DEF StackOK
<1>8. IsFrame(n, f) /\ IsFrame(n, g)
    BY <1>1, <1>2, <1>5, <1>7, FramesOf
<1>9. IsJoin(FrameDone(n, g), FrameDone(n, f), Piece(N - n + 1, Members(f.coll)[f.pos]))
    BY <1>1, <1>2, <1>4, <1>8, FrameDoneNext
<1>10. PICK e \in Seq(Objects) : e = Piece(N - n + 1, Members(f.coll)[f.pos])
    <2>1. f.pos \in 1 .. Len(Members(f.coll))
        BY <1>1, <1>2, <1>8, MembersType DEF IsFrame, Frame
    <2> QED
        BY <1>8, <2>1, FramePiecesType
<1>11. PICK a \in Seq(U) : a = StackPieces(s) /\ DOMAIN a = 1 .. n
    BY <1>1, StackPiecesType DEF U
<1>12. PICK b \in Seq(U) : b = StackPieces(t) /\ DOMAIN b = 1 .. n
    BY <1>1, <1>5, StackPiecesType DEF U
<1>13. \A k \in 1 .. n : a[k] = FrameDone(k, s[k]) /\ b[k] = FrameDone(k, t[k])
    BY <1>1, <1>5, <1>11, <1>12 DEF StackPieces
<1>14. Agree(a, b, n - 1)
    <2>1. \A k \in 1 .. n - 1 : k \in 1 .. n /\ k # n
        BY <1>1
    <2> QED
        BY <1>7, <1>13, <2>1 DEF Agree
<1>15. Len(a) = n /\ Len(b) = n /\ a # <<>>
    BY <1>1, <1>11, <1>12
<1>16. IsJoin(b[n], a[n], e)
    BY <1>1, <1>2, <1>7, <1>9, <1>10, <1>13
<1>17. LongerAtEnd(a, b, e)
    BY <1>14, <1>15, <1>16 DEF LongerAtEnd
<1>18. a \in Seq(Seq(Objects)) /\ b \in Seq(Seq(Objects))
    BY DEF U
<1>19. IsJoin(FlattenSeq(b), FlattenSeq(a), e)
    BY <1>15, <1>17, <1>18, FlattenLast
<1> QED
    BY <1>1, <1>2, <1>5, <1>10, <1>11, <1>12, <1>19 DEF StackDone

LEMMA EmptyDone == StackDone(<<>>) = <<>>
<1>1. StackPieces(<<>>) = <<>>
    BY DEF StackPieces
<1> QED
    BY <1>1, FlattenEmpty DEF StackDone

\* A new call has done nothing.
LEMMA EnterDone ==
    ASSUME tree \in Trees, StackOK(calls), NEW c \in Colls, StackOK(Enter(c))
    PROVE  StackDone(Enter(c)) = StackDone(calls)
<1> DEFINE U == Seq(Objects)
<1> HIDE DEF U
<1>1. PICK e \in Frame : e = [coll |-> c, pos |-> 1, savedStatus |-> "ok"]
    BY DEF Frame
<1>2. PICK s \in Seq(Frame) : s = calls /\ StackOK(s)
    BY DEF StackOK
<1>3. PICK n \in Nat : n = Len(s) /\ DOMAIN s = 1 .. n
    BY <1>2
<1>4. PICK t \in Seq(Frame) : t = Append(s, e) /\ t = Enter(c) /\ StackOK(t)
    <2>1. Enter(c) = Append(calls, e)
        BY <1>1, Zenon DEF Enter
    <2>2. Append(s, e) \in Seq(Frame)
        BY AppendIs
    <2> QED
        BY <1>2, <2>1, <2>2
<1>5. DOMAIN t = 1 .. n + 1 /\ t[n + 1] = e /\ \A k \in 1 .. n : t[k] = s[k]
    <2>1. /\ DOMAIN Append(s, e) = 1 .. Len(s) + 1 /\ Append(s, e)[Len(s) + 1] = e
          /\ \A k \in 1 .. Len(s) : Append(s, e)[k] = s[k]
        BY AppendIs
    <2> QED
        BY <1>3, <1>4, <2>1
<1>6. FrameDone(n + 1, e) = <<>>
    <2>1. FramePieces(n + 1, e) = <<>>
        BY <1>1 DEF FramePieces
    <2> QED
        BY <2>1, FlattenEmpty DEF FrameDone
<1>7. PICK a \in Seq(U) : a = StackPieces(s) /\ DOMAIN a = 1 .. n
    BY <1>2, <1>3, StackPiecesType DEF U
<1>8. PICK b \in Seq(U) : b = StackPieces(t) /\ DOMAIN b = 1 .. n + 1
    BY <1>4, <1>5, StackPiecesType DEF U
<1>9. b[n + 1] = <<>> /\ \A k \in 1 .. n : b[k] = a[k]
    <2>1. \A k \in 1 .. n + 1 : b[k] = FrameDone(k, t[k])
        BY <1>5, <1>8 DEF StackPieces
    <2>2. \A k \in 1 .. n : a[k] = FrameDone(k, s[k])
        BY <1>3, <1>7 DEF StackPieces
    <2>3. n + 1 \in 1 .. n + 1 /\ \A k \in 1 .. n : k \in 1 .. n + 1
        BY <1>3
    <2> QED
        BY <1>5, <1>6, <2>1, <2>2, <2>3
<1>10. PICK z \in U : z = <<>>
    <2>1. <<>> \in Seq(Objects)
        OBVIOUS
    <2> QED
        BY <2>1 DEF U
<1>a. Len(a) = n
    BY <1>3, <1>7
<1>11. PICK d \in Seq(U) : /\ d = Append(a, z) /\ Len(d) = n + 1 /\ d[n + 1] = z
                           /\ \A k \in 1 .. n : d[k] = a[k]
    <2>1. /\ Append(a, z) \in Seq(U) /\ Len(Append(a, z)) = Len(a) + 1
          /\ Append(a, z)[Len(a) + 1] = z
          /\ \A k \in 1 .. Len(a) : Append(a, z)[k] = a[k]
        BY AppendIs
    <2> QED
        BY <1>a, <2>1
<1>12. \A k \in 1 .. n + 1 : d[k] = b[k]
    BY <1>3, <1>9, <1>10, <1>11
<1>13. b = d
    <2>1. Len(b) = n + 1
        BY <1>3, <1>8
    <2> QED
        BY <1>11, <1>12, <2>1, SeqEqual
<1>14. FlattenSeq(Append(a, z)) = FlattenSeq(a) \o z
    BY FlattenAppend DEF U
<1>15. PICK q \in Seq(Objects) : q = FlattenSeq(a)
    BY FlattenOfSeq DEF U
<1>16. q \o <<>> = q
    BY ConcatEmptySeq
<1> QED
    BY <1>2, <1>4, <1>7, <1>8, <1>10, <1>11, <1>13, <1>14, <1>15, <1>16 DEF StackDone

\* What the calls have done is what the top has, behind what the others have.
LEMMA FrontDone ==
    ASSUME tree \in Trees, NEW s, StackOK(s), s # <<>>
    PROVE  IsJoin(StackDone(s), StackDone(Front(s)), FrameDone(Len(s), s[Len(s)]))
<1> DEFINE U == Seq(Objects)
<1> HIDE DEF U
<1>1. PICK n \in Nat : n = Len(s) /\ DOMAIN s = 1 .. n /\ n # 0
    BY DEF StackOK
<1>2. PICK r \in Seq(Frame) : r = Front(s) /\ StackOK(r) /\ Len(r) = n - 1
                              /\ \A k \in 1 .. n - 1 : r[k] = s[k]
    <2>1. s \in Seq(Frame)
        BY DEF StackOK
    <2>2. StackOK(Front(s))
        BY FrontOK
    <2> QED
        BY <1>1, <2>1, <2>2, FrontIs
<1>3. PICK a \in Seq(U) : a = StackPieces(s) /\ DOMAIN a = 1 .. n
    BY <1>1, StackPiecesType DEF U
<1>4. PICK b \in Seq(U) : b = StackPieces(r) /\ DOMAIN b = DOMAIN r
    BY <1>2, StackPiecesType DEF U
<1>5. DOMAIN r = 1 .. n - 1
    BY <1>2
<1>6. \A k \in 1 .. n - 1 : b[k] = a[k]
    <2>1. \A k \in 1 .. n : a[k] = FrameDone(k, s[k])
        BY <1>1, <1>3 DEF StackPieces
    <2>2. \A k \in 1 .. n - 1 : b[k] = FrameDone(k, r[k])
        BY <1>4, <1>5 DEF StackPieces
    <2>3. \A k \in 1 .. n - 1 : k \in 1 .. n
        BY <1>1
    <2> QED
        BY <1>2, <2>1, <2>2, <2>3
<1>7. PICK d \in Seq(U) : d = Front(a) /\ Len(d) = n - 1 /\ \A k \in 1 .. n - 1 : d[k] = a[k]
    <2>1. Len(a) = n /\ a # <<>>
        BY <1>1, <1>3
    <2> QED
        BY <2>1, FrontIs
<1>8. b = d
    <2>1. Len(b) = n - 1
        BY <1>1, <1>4, <1>5
    <2> QED
        BY <1>6, <1>7, <2>1, SeqEqual
<1>9. a # <<>> /\ Len(a) = n /\ a[n] = FrameDone(n, s[n])
    BY <1>1, <1>3 DEF StackPieces
<1>10. FlattenSeq(a) = FlattenSeq(Front(a)) \o a[n]
    BY <1>9, FlattenFront DEF U
<1> QED
    BY <1>1, <1>2, <1>3, <1>4, <1>7, <1>8, <1>9, <1>10 DEF IsJoin, StackDone
-----------------------------------------------------------------------------
(* All objects, in order *)

\* What a walk makes of a path.
PathPiece(p) == IF p \in Objects THEN <<p>>
                ELSE IF p = Missing \/ tree.collClass[p] = "MOUNTED_COLL" THEN <<>>
                ELSE Below(p)

PathPieces(n) == [k \in 1 .. n |-> PathPiece(cmd.srcPath[k])]

\* The objects of the first n paths.
PathsDone(n) == FlattenSeq(PathPieces(n))

DoneSoFar == IsJoin(Done, PathsDone(i - 1), StackDone(calls))

DoneInv ==
    /\ ops \in Seq(Op)
    /\ pc = "query" => cmd.kind = "query"
    /\ Walks /\ cmd.recursive /\ lost = {} /\ gone = {} => DoneSoFar

LEMMA PathPieceType ==
    ASSUME tree \in Trees, cmd \in Commands
    PROVE  \A k \in DOMAIN cmd.srcPath : PathPiece(cmd.srcPath[k]) \in Seq(Objects)
<1> SUFFICES ASSUME NEW k \in DOMAIN cmd.srcPath, NEW p, p = cmd.srcPath[k]
             PROVE  PathPiece(p) \in Seq(Objects)
    OBVIOUS
<1>1. p \in Colls \union Objects \union {Missing}
    BY CommandAssumption DEF IsCommand
<1>2. <<>> \in Seq(Objects) /\ (p \in Objects => <<p>> \in Seq(Objects))
    OBVIOUS
<1>3. p \in Colls => Below(p) \in Seq(Objects)
    <2>1. N \in 0 .. N
        BY NIsNat
    <2> QED
        BY <2>1, ListingType DEF Below, N
<1>4. CASE p \in Objects
    BY <1>2, <1>4 DEF PathPiece
<1>5. CASE p \notin Objects /\ (p = Missing \/ tree.collClass[p] = "MOUNTED_COLL")
    BY <1>2, <1>5 DEF PathPiece
<1>6. CASE p \notin Objects /\ ~ (p = Missing \/ tree.collClass[p] = "MOUNTED_COLL")
    BY <1>1, <1>3, <1>6 DEF PathPiece
<1> QED
    BY <1>4, <1>5, <1>6

LEMMA PathsDoneType ==
    ASSUME tree \in Trees, cmd \in Commands
    PROVE  \A n \in 0 .. Len(cmd.srcPath) :
                /\ PathPieces(n) \in Seq(Seq(Objects)) /\ Len(PathPieces(n)) = n
                /\ PathsDone(n) \in Seq(Objects)
<1> DEFINE U == Seq(Objects)
<1> SUFFICES ASSUME NEW n \in 0 .. Len(cmd.srcPath)
             PROVE  /\ PathPieces(n) \in Seq(U) /\ Len(PathPieces(n)) = n
                    /\ PathsDone(n) \in U
    OBVIOUS
<1>1. cmd.srcPath \in Seq(Colls \union Objects \union {Missing})
    BY CommandAssumption DEF IsCommand
<1>2. \A k \in 1 .. n : k \in DOMAIN cmd.srcPath
    BY <1>1
<1>3. \A k \in 1 .. n : PathPiece(cmd.srcPath[k]) \in U
    BY <1>2, PathPieceType
<1> HIDE DEF U
<1>4. PathPieces(n) \in Seq(U) /\ Len(PathPieces(n)) = n
    BY <1>1, <1>3 DEF PathPieces
<1>5. PathsDone(n) \in U
    BY <1>4, FlattenOfSeq DEF PathsDone, U
<1> QED
    BY <1>4, <1>5

\* One path more.
LEMMA PathsDoneNext ==
    ASSUME tree \in Trees, cmd \in Commands
    PROVE  \A n \in Nat : n + 1 \in DOMAIN cmd.srcPath =>
                IsJoin(PathsDone(n + 1), PathsDone(n), PathPiece(cmd.srcPath[n + 1]))
<1> SUFFICES ASSUME NEW n \in Nat, n + 1 \in DOMAIN cmd.srcPath
             PROVE  IsJoin(PathsDone(n + 1), PathsDone(n), PathPiece(cmd.srcPath[n + 1]))
    OBVIOUS
<1> DEFINE U == Seq(Objects)
<1> HIDE DEF U
<1>1. PICK m \in Nat : m = n + 1
    OBVIOUS
<1>2. cmd.srcPath \in Seq(Colls \union Objects \union {Missing})
    BY CommandAssumption DEF IsCommand
<1>3. n \in 0 .. Len(cmd.srcPath) /\ m \in 0 .. Len(cmd.srcPath)
    BY <1>1, <1>2
<1>4. PICK a \in Seq(U) : a = PathPieces(n) /\ Len(a) = n
    BY <1>3, PathsDoneType DEF U
<1>5. PICK b \in Seq(U) : b = PathPieces(m) /\ Len(b) = m
    BY <1>3, PathsDoneType DEF U
<1>6. PICK e \in U : e = PathPiece(cmd.srcPath[m])
    BY <1>1, PathPieceType DEF U
<1>7. PICK c \in Seq(U) : /\ c = Append(a, e) /\ Len(c) = m /\ c[m] = e
                          /\ \A k \in 1 .. n : c[k] = a[k]
    <2>1. /\ Append(a, e) \in Seq(U) /\ Len(Append(a, e)) = Len(a) + 1
          /\ Append(a, e)[Len(a) + 1] = e
          /\ \A k \in 1 .. Len(a) : Append(a, e)[k] = a[k]
        BY AppendIs
    <2> QED
        BY <1>1, <1>4, <2>1
<1>8. \A k \in 1 .. m : c[k] = b[k]
    <2>1. b[m] = e
        BY <1>1, <1>5, <1>6 DEF PathPieces
    <2>2. \A k \in 1 .. n : a[k] = PathPiece(cmd.srcPath[k])
        BY <1>4 DEF PathPieces
    <2>3. \A k \in 1 .. m : b[k] = PathPiece(cmd.srcPath[k])
        BY <1>5 DEF PathPieces
    <2>4. \A k \in 1 .. m : k = m \/ k \in 1 .. n
        BY <1>1
    <2> QED
        BY <1>7, <2>1, <2>2, <2>3, <2>4
<1>9. c = b
    BY <1>5, <1>7, <1>8, SeqEqual
<1>10. FlattenSeq(Append(a, e)) = FlattenSeq(a) \o e
    BY FlattenAppend DEF U
<1> QED
    BY <1>1, <1>4, <1>5, <1>6, <1>7, <1>9, <1>10 DEF IsJoin, PathsDone

LEMMA JoinEmpty == \A S : \A d, p, z : p \in Seq(S) /\ z = <<>> => (IsJoin(d, p, z) <=> d = p)
<1> SUFFICES ASSUME NEW S, NEW d, NEW p \in Seq(S)
             PROVE  IsJoin(d, p, <<>>) <=> d = p
    OBVIOUS
<1>1. p \o <<>> = p
    BY ConcatEmptySeq
<1> QED
    BY <1>1 DEF IsJoin

\* What is put behind what is behind p is behind p.
LEMMA JoinMore ==
    \A S : \A d, p, s, e, dd, ss \in Seq(S) :
        IsJoin(d, p, s) /\ IsJoin(dd, d, e) /\ IsJoin(ss, s, e) => IsJoin(dd, p, ss)
<1> SUFFICES ASSUME NEW S, NEW d \in Seq(S), NEW p \in Seq(S), NEW s \in Seq(S),
                    NEW e \in Seq(S), NEW dd \in Seq(S), NEW ss \in Seq(S),
                    IsJoin(d, p, s), IsJoin(dd, d, e), IsJoin(ss, s, e)
             PROVE  IsJoin(dd, p, ss)
    OBVIOUS
<1>1. p \o (s \o e) = (p \o s) \o e
    BY ConcatAssoc, SMTT(30)
<1> QED
    BY <1>1 DEF IsJoin

\* The listings of a tree.
ListingOf(t) ==
    LET F[n \in 0 .. Cardinality(Colls)] ==
            [c \in Colls |->
                LET walk(m) == IF m \in Objects THEN <<m>>
                               ELSE IF n = 0 \/ t.collClass[m] # "NO_SPEC_COLL" THEN <<>>
                               ELSE F[n - 1][m]
                IN  FlattenSeq([k \in DOMAIN t.members[c] |-> walk(t.members[c][k])])]
    IN  F

LEMMA ListingOfTree == tree' = tree => Listing' = Listing
<1>1. Listing = ListingOf(tree)
    BY Zenon DEF Listing, ListingOf, Members
<1>2. Listing' = ListingOf(tree')
    BY Zenon DEF Listing, ListingOf, Members
<1> QED
    BY <1>1, <1>2

\* The tree and the command stay.
LEMMA DonePrimed ==
    ASSUME tree' = tree, cmd' = cmd, NEW n, n = i' - 1, NEW s, s = calls', NEW d, d = Done',
           IsJoin(d, PathsDone(n), StackDone(s))
    PROVE  DoneSoFar'
<1>1. Listing' = Listing
    BY ListingOfTree
<1>2. PathsDone(i - 1)' = PathsDone(n)
    <2>1. \A p : PathPiece(p)' = PathPiece(p)
        BY <1>1, Zenon DEF PathPiece, Below
    <2>2. PathPieces(i - 1)' = PathPieces(n)
        BY <2>1 DEF PathPieces
    <2> QED
        BY <2>2 DEF PathsDone
<1>3. StackDone(calls)' = StackDone(s)
    <2>1. \A j, m : Piece(j, m)' = Piece(j, m)
        BY <1>1, Zenon DEF Piece, PieceOf
    <2>2. \A c : Members(c)' = Members(c)
        BY Zenon DEF Members
    <2>3. \A k, f : FramePieces(k, f)' = FramePieces(k, f)
        BY <2>1, <2>2, Zenon DEF FramePieces, N
    <2>4. \A k, f : FrameDone(k, f)' = FrameDone(k, f)
        BY <2>3 DEF FrameDone
    <2>5. StackPieces(calls)' = StackPieces(s)
        BY <2>4 DEF StackPieces
    <2> QED
        BY <2>5 DEF StackDone
<1> QED
    BY <1>2, <1>3 DEF DoneSoFar

LEMMA ObjsType ==
    \A o \in Seq(Op) :
        /\ [k \in DOMAIN o |-> o[k].obj] \in Seq(Objects)
        /\ Len([k \in DOMAIN o |-> o[k].obj]) = Len(o)
<1> SUFFICES ASSUME NEW o \in Seq(Op), NEW a, a = [k \in DOMAIN o |-> o[k].obj]
             PROVE  a \in Seq(Objects) /\ Len(a) = Len(o)
    OBVIOUS
<1>0. \A k \in DOMAIN o : o[k] \in Op
    OBVIOUS
<1>1. \A k \in DOMAIN o : o[k].obj \in Objects
    BY <1>0, Zenon DEF Op
<1>2. PICK n \in Nat : n = Len(o) /\ DOMAIN o = 1 .. n
    OBVIOUS
<1> HIDE DEF Op
<1>3. a \in [1 .. n -> Objects]
    BY <1>1, <1>2
<1> QED
    BY <1>2, <1>3

LEMMA DoneType == ops \in Seq(Op) => Done \in Seq(Objects) /\ Len(Done) = Len(ops)
BY ObjsType DEF Done

\* One object more was done.
LEMMA LogDone ==
    ASSUME ops \in Seq(Op), NEW o \in Objects, NEW r, Log(o, r),
           r.out \in Outs, r.status \in {"ok", "error"}
    PROVE  ops' \in Seq(Op) /\ Done' = Done \o <<o>>
<1>1. PICK e \in Op : e = [obj |-> o, out |-> r.out, status |-> r.status]
    BY DEF Op
<1>2. ops' = Append(ops, e)
    BY <1>1, Zenon DEF Log
<1>3. e.obj = o
    BY <1>1
<1>4. PICK n \in Nat : n = Len(ops) /\ DOMAIN ops = 1 .. n
    OBVIOUS
<1>5. /\ ops' \in Seq(Op) /\ DOMAIN ops' = 1 .. n + 1 /\ ops'[n + 1] = e
      /\ \A k \in 1 .. n : ops'[k] = ops[k]
    <2>1. /\ Append(ops, e) \in Seq(Op) /\ DOMAIN Append(ops, e) = 1 .. Len(ops) + 1
          /\ Append(ops, e)[Len(ops) + 1] = e
          /\ \A k \in 1 .. Len(ops) : Append(ops, e)[k] = ops[k]
        BY AppendIs
    <2> QED
        BY <1>2, <1>4, <2>1
<1>6. PICK a \in Seq(Objects) : a = Done' /\ Len(a) = n + 1
    <2>1. PICK q \in Seq(Op) : q = ops' /\ Len(q) = n + 1
        BY <1>4, <1>5
    <2>2. PICK x : x = [k \in DOMAIN q |-> q[k].obj]
        OBVIOUS
    <2>3. x \in Seq(Objects) /\ Len(x) = n + 1
        BY <2>1, <2>2, ObjsType
    <2>4. Done' = x
        BY <2>1, <2>2 DEF Done
    <2> QED
        BY <2>3, <2>4
<1>7. PICK b \in Seq(Objects) : b = Done /\ Len(b) = n
    BY <1>4, DoneType
<1>8. PICK c \in Seq(Objects) : /\ c = b \o <<o>> /\ Len(c) = n + 1 /\ c[n + 1] = o
                                /\ \A k \in 1 .. n : c[k] = b[k]
    <2>1. b \o <<o>> = Append(b, o)
        OBVIOUS
    <2>2. /\ Append(b, o) \in Seq(Objects) /\ Len(Append(b, o)) = Len(b) + 1
          /\ Append(b, o)[Len(b) + 1] = o
          /\ \A k \in 1 .. Len(b) : Append(b, o)[k] = b[k]
        BY AppendIs
    <2> QED
        BY <1>7, <2>1, <2>2
<1>9. \A k \in 1 .. n + 1 : a[k] = c[k]
    <2>1. a[n + 1] = o /\ c[n + 1] = o
        BY <1>3, <1>5, <1>6, <1>7, <1>8 DEF Done
    <2>2. ASSUME NEW k \in 1 .. n
          PROVE  a[k] = c[k]
        <3>1. a[k] = ops[k].obj
            BY <1>5, <1>6 DEF Done
        <3>2. b[k] = ops[k].obj
            BY <1>4, <1>7 DEF Done
        <3>3. c[k] = b[k]
            BY <1>8
        <3> QED
            BY <3>1, <3>2, <3>3
    <2> QED
        BY <2>1, <2>2
<1>10. a = c
    BY <1>6, <1>8, <1>9, SeqEqual
<1> QED
    BY <1>5, <1>6, <1>7, <1>8, <1>10

\* A path is at its end, for which e was done.
LEMMA DoneSave ==
    ASSUME StackInv, NEW st \in Statuses, Save(st), calls = <<>>, calls' = <<>>,
           i <= Len(cmd.srcPath), UNCHANGED <<tree, cmd>>,
           NEW d \in Seq(Objects), d = Done', IsJoin(d, PathsDone(i - 1), PathPiece(Path))
    PROVE  DoneSoFar'
<1>1. cmd.srcPath \in Seq(Colls \union Objects \union {Missing})
    BY CommandAssumption DEF IsCommand, StackInv
<1>2. PICK n \in Nat : n + 1 = i /\ n = i - 1 /\ n + 1 \in DOMAIN cmd.srcPath
    BY <1>1 DEF StackInv
<1>3. PICK j : j = n + 1
    OBVIOUS
<1>4. IsJoin(PathsDone(j), PathsDone(n), PathPiece(cmd.srcPath[j]))
    BY <1>2, <1>3, PathsDoneNext DEF StackInv
<1>5. d = PathsDone(j)
    BY <1>2, <1>3, <1>4 DEF IsJoin, Path
<1>6. IsJoin(d, PathsDone(j), StackDone(<<>>))
    BY <1>5, EmptyDone, JoinEmpty
<1>7. j = i' - 1
    BY <1>2, <1>3 DEF Save
<1>8. PICK s : s = calls' /\ IsJoin(d, PathsDone(j), StackDone(s))
    BY <1>6
<1> QED
    BY <1>7, <1>8, DonePrimed

LEMMA DonePaths ==
    ASSUME StackInv, ops \in Seq(Op), DoneSoFar, calls = <<>>
    PROVE  Done = PathsDone(i - 1) /\ Done \in Seq(Objects)
<1>1. Done \in Seq(Objects)
    BY DoneType
<1>2. i - 1 \in 0 .. Len(cmd.srcPath)
    <2>1. Len(cmd.srcPath) \in Nat
        BY CommandAssumption DEF IsCommand, StackInv
    <2> QED
        BY <2>1 DEF StackInv
<1>3. PathsDone(i - 1) \in Seq(Objects)
    BY <1>2, PathsDoneType DEF StackInv
<1>4. StackDone(calls) = <<>>
    BY EmptyDone
<1>5. IsJoin(Done, PathsDone(i - 1), <<>>)
    BY <1>4 DEF DoneSoFar
<1> QED
    BY <1>1, <1>3, <1>5, JoinEmpty

\* Nothing was done for the path.
LEMMA DoneNothing ==
    ASSUME StackInv, ops \in Seq(Op), DoneSoFar, NEW st \in Statuses, Save(st),
           calls = <<>>, calls' = <<>>,
           i <= Len(cmd.srcPath), UNCHANGED <<tree, cmd, ops>>, PathPiece(Path) = <<>>
    PROVE  DoneSoFar'
<1>1. Done' = Done
    BY DEF Done
<1>2. PICK d \in Seq(Objects) : d = Done /\ d = PathsDone(i - 1)
    BY DonePaths
<1>3. IsJoin(d, PathsDone(i - 1), PathPiece(Path))
    BY <1>2, JoinEmpty
<1> QED
    BY <1>1, <1>2, <1>3, DoneSave

\* The stack is another, but for the same that was done.
LEMMA DoneStack ==
    ASSUME DoneSoFar, UNCHANGED <<tree, cmd, i, ops>>,
           NEW s, s = calls', StackDone(s) = StackDone(calls)
    PROVE  DoneSoFar'
<1>1. PICK d : d = Done
    OBVIOUS
<1>2. d = Done'
    BY <1>1 DEF Done
<1>3. PICK n : n = i' - 1 /\ n = i - 1
    OBVIOUS
<1>4. IsJoin(d, PathsDone(n), StackDone(s))
    BY <1>1, <1>3 DEF DoneSoFar
<1> QED
    BY <1>2, <1>3, <1>4, DonePrimed

\* The top call goes on behind a member for which e was done.
LEMMA DoneAdvance ==
    ASSUME StackInv, ops \in Seq(Op), DoneSoFar, AtMember, NEW st \in Statuses,
           calls' = Advance(calls, st), UNCHANGED <<tree, cmd, i>>,
           NEW e \in Seq(Objects), e = Piece(N - Len(calls) + 1, Member),
           NEW d \in Seq(Objects), d = Done', IsJoin(d, Done, e)
    PROVE  DoneSoFar'
<1>1. PICK s : s = Advance(calls, st)
    OBVIOUS
<1>2. /\ StackOK(calls) /\ calls # <<>> /\ Top = calls[Len(calls)]
      /\ Top.pos <= Len(Members(Top.coll)) /\ tree \in Trees
    BY AtMemberIs DEF StackInv
<1>3. StackOK(s)
    BY <1>1, <1>2, AdvanceOK
<1>4. IsJoin(StackDone(s), StackDone(calls), e)
    BY <1>1, <1>2, AdvanceDone DEF Member
<1>5. PICK a \in Seq(Objects) : a = StackDone(calls)
    BY <1>2, StackPiecesType
<1>6. PICK b \in Seq(Objects) : b = StackDone(s)
    BY <1>2, <1>3, StackPiecesType
<1>7. PICK n : n = i - 1 /\ n = i' - 1
    OBVIOUS
<1>8. PICK p \in Seq(Objects) : p = PathsDone(n)
    <2>1. n \in 0 .. Len(cmd.srcPath)
        <3>1. Len(cmd.srcPath) \in Nat
            BY CommandAssumption DEF IsCommand, StackInv
        <3> QED
            BY <1>7, <3>1 DEF StackInv
    <2> QED
        BY <2>1, PathsDoneType DEF StackInv
<1>9. PICK c \in Seq(Objects) : c = Done
    BY DoneType
<1>10. IsJoin(c, p, a)
    BY <1>5, <1>7, <1>8, <1>9 DEF DoneSoFar
<1>11. IsJoin(d, p, b)
    BY <1>4, <1>5, <1>6, <1>9, <1>10, JoinMore
<1> QED
    BY <1>1, <1>6, <1>7, <1>8, <1>11, DonePrimed

\* The depth of the members of the top call.
LEMMA TopDepth ==
    ASSUME StackInv, AtMember
    PROVE  /\ N - Len(calls) + 1 \in 0 .. N
           /\ Member \in Objects => Piece(N - Len(calls) + 1, Member) = <<Member>>
           /\ (Member \notin Objects /\ tree.collClass[Member] # "NO_SPEC_COLL")
                => Piece(N - Len(calls) + 1, Member) = <<>>
<1>1. Len(calls) \in DOMAIN calls /\ StackOK(calls) /\ tree \in Trees
    BY AtMemberIs DEF StackInv
<1>2. Len(calls) \in Nat /\ Len(calls) <= N + 1 /\ Len(calls) >= 1
    BY <1>1, StackBound DEF StackOK
<1> QED
    BY <1>2, NIsNat DEF Piece, PieceOf

\* The listing that has come to its end is that of the member above.
LEMMA DoneEnd ==
    ASSUME StackInv, ops \in Seq(Op), DoneSoFar, pc = "walk", ~AtMember,
           NEW st \in Statuses, Back(Front(calls), st), UNCHANGED <<tree, cmd, ops>>
    PROVE  DoneSoFar'
<1>1. /\ calls # <<>> /\ StackOK(calls) /\ tree \in Trees /\ i <= Len(cmd.srcPath)
      /\ calls \in Seq(Frame) /\ Path \in Colls
    <2>1. calls # <<>> /\ StackOK(calls) /\ tree \in Trees /\ i <= Len(cmd.srcPath)
          /\ calls \in Seq(Frame)
        BY DEF StackInv, StackOK
    <2>2. calls[1] \in Frame /\ calls[1].coll = Path
        BY <2>1 DEF StackOK
    <2> QED
        BY <2>1, <2>2 DEF Frame
<1>2. PICK n \in Nat : n = Len(calls) /\ n \in DOMAIN calls /\ n # 0
    BY <1>1
<1>3. PICK f \in Frame : f = calls[n] /\ f = Top
    BY <1>1, <1>2 DEF Top
<1>4. IsFrame(n, f)
    BY <1>1, <1>2, <1>3, FramesOf
<1>5. f.pos = Len(Members(f.coll)) + 1
    <2>1. Len(Members(f.coll)) \in Nat
        BY <1>1, MembersType DEF Frame
    <2> QED
        BY <1>3, <1>4, <2>1 DEF IsFrame, AtMember
<1>6. FrameDone(n, f) = Listing[N - n + 1][f.coll]
    BY <1>1, <1>4, <1>5, FrameDoneAll
<1>7. IsJoin(StackDone(calls), StackDone(Front(calls)), FrameDone(n, f))
    BY <1>1, <1>2, <1>3, FrontDone
<1>8. PICK e \in Seq(Objects) : e = FrameDone(n, f)
    BY <1>1, <1>4, FramePiecesType
<1>9. PICK r : r = Front(calls) /\ StackOK(r) /\ r \in Seq(Frame) /\ Len(r) = n - 1
    BY <1>1, <1>2, FrontOK, FrontIs DEF StackOK
<1>10. n \in 1 .. N + 1
    BY <1>4 DEF IsFrame
<1>11. CASE r = <<>>
    <2>1. n = 1
        <3>1. Len(r) = 0
            BY <1>11
        <3>2. n - 1 = 0
            BY <1>9, <3>1
        <3> QED
            BY <3>2
    <2>2. f.coll = Path /\ tree.collClass[Path] # "MOUNTED_COLL"
        BY <1>1, <1>3, <2>1 DEF StackOK
    <2>3. e = PathPiece(Path)
        <3>1. N - n + 1 = Cardinality(Colls)
            BY <2>1, NIsNat DEF N
        <3>2. e = Below(Path)
            BY <1>1, <1>6, <1>8, <2>2, <3>1 DEF Below
        <3>3. Path \notin Objects /\ Path # Missing
            BY <1>1, CommandAssumption
        <3> QED
            BY <2>2, <3>2, <3>3 DEF PathPiece
    <2>4. StackDone(calls) = e
        <3>1. IsJoin(StackDone(calls), <<>>, e)
            BY <1>7, <1>8, <1>9, <1>11, EmptyDone
        <3>2. <<>> \o e = e
            OBVIOUS
        <3> QED
            BY <3>1, <3>2 DEF IsJoin
    <2>5. PICK d \in Seq(Objects) : d = Done /\ d = Done'
        BY DoneType DEF Done
    <2>6. IsJoin(d, PathsDone(i - 1), PathPiece(Path))
        BY <2>3, <2>4, <2>5 DEF DoneSoFar
    <2>7. Save(st) /\ calls' = <<>>
        BY <1>9, <1>11 DEF Back
    <2>8. IsJoin(PathsDone(i), PathsDone(i - 1), PathPiece(Path))
        <3>1. cmd.srcPath \in Seq(Colls \union Objects \union {Missing})
            BY CommandAssumption DEF IsCommand, StackInv
        <3>2. PICK m \in Nat : m + 1 = i /\ m = i - 1 /\ m + 1 \in DOMAIN cmd.srcPath
            BY <1>1, <3>1 DEF StackInv
        <3>3. PICK j : j = m + 1
            OBVIOUS
        <3>4. IsJoin(PathsDone(j), PathsDone(m), PathPiece(cmd.srcPath[j]))
            BY <3>2, <3>3, PathsDoneNext DEF StackInv
        <3> QED
            BY <3>2, <3>3, <3>4 DEF Path
    <2>9. d = PathsDone(i)
        BY <2>6, <2>8 DEF IsJoin
    <2>10. IsJoin(d, PathsDone(i), StackDone(<<>>))
        BY <2>9, EmptyDone, JoinEmpty
    <2>11. PICK m : m = i /\ m = i' - 1
        BY <2>7 DEF Save, StackInv
    <2>12. PICK s : s = calls' /\ s = <<>>
        BY <2>7
    <2> QED
        BY <2>5, <2>10, <2>11, <2>12, DonePrimed
<1>12. CASE r # <<>>
    <2>1. calls' = Advance(r, st) /\ i' = i
        BY <1>9, <1>12 DEF Back
    <2>2. PICK g : g = r[Len(r)] /\ g.pos <= Len(Members(g.coll)) /\ Under(g, f)
        BY <1>1, <1>2, <1>3, <1>9, <1>12, FrontAt
    <2>3. n - 1 \in 1 .. N /\ N - (n - 1) + 1 = N - n + 2
        BY <1>2, <1>9, <1>10, <1>12, NIsNat
    <2>4. Piece(N - (n - 1) + 1, f.coll) = e
        <3>1. f.coll \notin Objects /\ tree.collClass[f.coll] = "NO_SPEC_COLL"
            BY <2>2, CommandAssumption DEF Under, Frame
        <3>2. PICK j : j = N - (n - 1) + 1 /\ j # 0 /\ j - 1 = N - n + 1
            BY <1>10, NIsNat
        <3>3. Piece(j, f.coll) = Listing[j - 1][f.coll]
            BY <3>1, <3>2 DEF Piece, PieceOf
        <3> QED
            BY <1>6, <1>8, <3>2, <3>3
    <2>5. PICK s : s = Advance(r, st) /\ StackOK(s)
        BY <1>1, <1>9, <1>12, <2>2, AdvanceOK
    <2>6. IsJoin(StackDone(s), StackDone(r), e)
        BY <1>1, <1>9, <1>12, <2>2, <2>4, <2>5, AdvanceDone DEF Under
    <2>7. StackDone(s) = StackDone(calls)
        BY <1>7, <1>8, <1>9, <2>6 DEF IsJoin
    <2>8. UNCHANGED <<tree, cmd, i, ops>>
        BY <2>1
    <2> QED
        BY <2>1, <2>5, <2>7, <2>8, DoneStack
<1> QED
    BY <1>11, <1>12

\* Some listing was lost, or a collection is gone.
Listless == lost # {} \/ gone # {}

LEMMA DoneOpen ==
    ASSUME StackInv, ops \in Seq(Op), DoneSoFar, NEW c \in Colls, OpenColl(c),
           StackOK(calls), i <= Len(cmd.srcPath), UNCHANGED <<tree, cmd, ops>>,
           tree.collClass[c] # "MOUNTED_COLL" => StackOK(Enter(c)),
           \/ calls = <<>> /\ c = Path
           \/ calls # <<>> /\ tree.collClass[c] = "NO_SPEC_COLL"
    PROVE  Listless' \/ DoneSoFar'
<1>1. CASE lost' = lost \union {c} \/ gone' = gone \union {c}
    BY <1>1 DEF Listless
<1>2. CASE tree.collClass[c] = "MOUNTED_COLL" /\ Back(calls, "ok")
    <2>1. calls = <<>> /\ c = Path
        BY <1>2
    <2>2. PathPiece(Path) = <<>>
        BY <1>2, <2>1, CommandAssumption DEF PathPiece
    <2>3. Save("ok") /\ calls' = <<>> /\ "ok" \in Statuses
        BY <1>2, <2>1 DEF Back, Statuses
    <2> QED
        BY <2>1, <2>2, <2>3, DoneNothing
<1>3. CASE tree.collClass[c] # "MOUNTED_COLL" /\ calls' = Enter(c) /\ UNCHANGED <<i>>
    <2>1. PICK s : s = Enter(c)
        OBVIOUS
    <2>2. StackDone(s) = StackDone(calls)
        BY <1>3, <2>1, EnterDone DEF StackInv
    <2>3. s = calls' /\ UNCHANGED <<tree, cmd, i, ops>>
        BY <1>3, <2>1
    <2> QED
        BY <2>2, <2>3, DoneStack
<1> QED
    BY <1>1, <1>2, <1>3 DEF OpenColl

LEMMA JoinOne ==
    \A S : \A o \in S, c \in Seq(S) :
        \E d, e \in Seq(S) : e = <<o>> /\ d = c \o <<o>> /\ IsJoin(d, c, e)
<1> SUFFICES ASSUME NEW S, NEW o \in S, NEW c \in Seq(S)
             PROVE  \E d, e \in Seq(S) : e = <<o>> /\ d = c \o <<o>> /\ IsJoin(d, c, e)
    OBVIOUS
<1>1. <<o>> \in Seq(S) /\ c \o <<o>> \in Seq(S)
    OBVIOUS
<1> QED
    BY <1>1 DEF IsJoin

LEMMA DoneStep ==
    ASSUME StackInv, ops \in Seq(Op), pc = "query" => cmd.kind = "query", DoneSoFar,
           Walks, cmd.recursive, [Next]_vars
    PROVE  Listless' \/ DoneSoFar'
<1>0. "ok" \in Statuses /\ "error" \in Statuses /\ "norows" \in Statuses
    BY DEF Statuses
<1>a. /\ cmd.kind \in {"inc", "reg", "remove", "list"}
      /\ pc # "walk" => calls = <<>>
      /\ calls \in Seq(Frame)
    BY DEF StackInv, StackOK, Walks
<1>1. CASE PathMissing
    BY <1>1 DEF PathMissing, Listless
<1>2. CASE PathObject
    <2>1. PICK r \in Outcomes(Path) : Do(Path, r) /\ Save(r.status)
        BY <1>2 DEF PathObject
    <2>2. r.out \in Outs /\ r.status \in {"ok", "error"} /\ r.status \in Statuses
        BY OutcomeType, <1>0
    <2>3. PICK o \in Objects : o = Path
        BY <1>2 DEF PathObject
    <2>4. Done' = Done \o <<o>>
        BY <2>1, <2>2, <2>3, LogDone DEF Do
    <2>5. PICK c \in Seq(Objects) : c = Done /\ c = PathsDone(i - 1)
        BY <1>a, <1>2, DonePaths DEF PathObject, AtPath
    <2>6. PICK d \in Seq(Objects), e \in Seq(Objects) :
                e = <<o>> /\ d = c \o <<o>> /\ IsJoin(d, c, e)
        BY JoinOne
    <2>7. PathPiece(Path) = e
        BY <2>3, <2>6, Zenon DEF PathPiece
    <2>8. IsJoin(d, PathsDone(i - 1), PathPiece(Path))
        BY <2>5, <2>6, <2>7
    <2>9. PICK st \in Statuses : st = r.status
        BY <2>2
    <2>10. d = Done'
        BY <2>4, <2>5, <2>6
    <2>11. /\ Save(st) /\ calls = <<>> /\ calls' = <<>> /\ i <= Len(cmd.srcPath)
           /\ UNCHANGED <<tree, cmd>>
        BY <1>a, <1>2, <2>1, <2>9 DEF PathObject, AtPath
    <2> QED
        BY <2>8, <2>10, <2>11, DoneSave
<1>3. CASE PathNotObject
    BY <1>a, <1>3 DEF PathNotObject
<1>4. CASE PathAggInfo
    BY <1>a, <1>4 DEF PathAggInfo
<1>5. CASE PathNotRecursive
    BY <1>5 DEF PathNotRecursive
<1>6. CASE PathColl
    <2>1. calls = <<>> /\ StackOK(calls) /\ Path \in Colls /\ i <= Len(cmd.srcPath)
        BY <1>a, <1>6, EmptyOK DEF PathColl, AtPath
    <2>2. tree.collClass[Path] # "MOUNTED_COLL" => StackOK(Enter(Path))
        BY <2>1, EnterPathOK DEF StackInv
    <2>3. PICK c \in Colls : c = Path
        BY <2>1
    <2> QED
        BY <1>6, <2>1, <2>2, <2>3, DoneOpen DEF PathColl
<1>7. CASE PathQuery
    BY <1>a, <1>7 DEF PathQuery
<1>8. CASE Return
    <2>1. PICK s : s = calls' /\ StackDone(s) = StackDone(calls)
        BY <1>8 DEF Return
    <2>2. UNCHANGED <<tree, cmd, i, ops>>
        BY <1>8 DEF Return
    <2> QED
        BY <2>1, <2>2, DoneStack
<1>9. CASE MemberObject
    <2>1. PICK r \in Outcomes(Member) : Do(Member, r) /\ calls' = Advance(calls, r.status)
        BY <1>9 DEF MemberObject
    <2>2. r.out \in Outs /\ r.status \in {"ok", "error"} /\ r.status \in Statuses
        BY OutcomeType, <1>0
    <2>3. PICK o \in Objects : o = Member
        BY <1>9 DEF MemberObject
    <2>4. Done' = Done \o <<o>>
        BY <2>1, <2>2, <2>3, LogDone DEF Do
    <2>5. PICK c \in Seq(Objects) : c = Done
        BY DoneType
    <2>6. PICK d \in Seq(Objects), e \in Seq(Objects) :
                e = <<o>> /\ d = c \o <<o>> /\ IsJoin(d, c, e)
        BY JoinOne
    <2>7. Piece(N - Len(calls) + 1, Member) = <<Member>>
        BY <1>9, TopDepth DEF MemberObject
    <2>8. e = Piece(N - Len(calls) + 1, Member)
        BY <2>3, <2>6, <2>7
    <2>9. d = Done' /\ IsJoin(d, Done, e)
        BY <2>4, <2>5, <2>6
    <2>10. PICK st \in Statuses : st = r.status
        BY <2>2
    <2>11. AtMember /\ UNCHANGED <<tree, cmd, i>> /\ calls' = Advance(calls, st)
        BY <1>9, <2>1, <2>10 DEF MemberObject
    <2> QED
        BY <2>8, <2>9, <2>11, DoneAdvance
<1>10. CASE MemberSpecial
    <2>1. PICK d \in Seq(Objects) : d = Done /\ d = Done'
        BY <1>10, DoneType DEF MemberSpecial, Done
    <2>2. PICK e \in Seq(Objects) : e = <<>>
        <3>1. <<>> \in Seq(Objects)
            OBVIOUS
        <3> QED
            BY <3>1
    <2>3. e = Piece(N - Len(calls) + 1, Member)
        BY <1>10, <2>2, TopDepth, CommandAssumption DEF MemberSpecial
    <2>4. IsJoin(d, Done, e)
        BY <2>1, <2>2, JoinEmpty
    <2> QED
        BY <1>0, <1>10, <2>1, <2>3, <2>4, DoneAdvance DEF MemberSpecial
<1>11. CASE MemberColl
    <2>1. StackOK(Enter(Member)) /\ StackOK(calls) /\ calls # <<>>
        BY <1>11, AtMemberIs, EnterOK DEF MemberColl, StackInv
    <2>2. PICK c \in Colls : c = Member
        BY <1>11 DEF MemberColl
    <2>3. i <= Len(cmd.srcPath)
        BY <1>11, AtMemberIs DEF MemberColl
    <2> QED
        BY <1>11, <2>1, <2>2, <2>3, DoneOpen DEF MemberColl
<1>12. CASE EndColl
    <2>1. Top.savedStatus \in Statuses
        BY <1>0, <1>12, <1>a, FrontFrames DEF EndColl, StackInv
    <2>2. PICK st \in Statuses : st = Top.savedStatus
        BY <2>1
    <2> QED
        BY <1>12, <2>2, DoneEnd DEF EndColl
<1>13. CASE ReadError
    BY <1>13 DEF ReadError, Listless
<1>14. CASE QueryPage
    BY <1>a, <1>14 DEF QueryPage
<1>15. CASE QueryEnd
    BY <1>a, <1>15 DEF QueryEnd
<1>16. CASE UNCHANGED vars
    <2>1. PICK s : s = calls' /\ StackDone(s) = StackDone(calls)
        BY <1>16 DEF vars
    <2>2. UNCHANGED <<tree, cmd, i, ops>>
        BY <1>16 DEF vars
    <2> QED
        BY <2>1, <2>2, DoneStack
<1> QED
    BY <1>1, <1>2, <1>3, <1>4, <1>5, <1>6, <1>7, <1>8, <1>9, <1>10, <1>11, <1>12,
       <1>13, <1>14, <1>15, <1>16 DEF Next, Step, Terminated

\* A listing that was lost stays lost.
LEMMA ListlessStays == [Next]_vars => (Listless => Listless')
<1> SUFFICES ASSUME [Next]_vars PROVE Listless => Listless'
    OBVIOUS
<1>1. ASSUME NEW c, OpenColl(c)
      PROVE  Listless => Listless'
    BY <1>1 DEF OpenColl, Listless
<1> QED
    BY <1>1 DEF Next, Step, Terminated, vars, Listless, PathMissing, PathObject,
        PathNotObject, PathAggInfo, PathNotRecursive, PathColl, PathQuery, Return,
        MemberObject, MemberSpecial, MemberColl, EndColl, ReadError, QueryPage, QueryEnd

LEMMA QueryStays ==
    (pc = "query" => cmd.kind = "query") /\ [Next]_vars => (pc = "query" => cmd.kind = "query")'
<1> SUFFICES ASSUME pc = "query" => cmd.kind = "query", [Next]_vars
             PROVE  (pc = "query" => cmd.kind = "query")'
    OBVIOUS
<1>1. ASSUME NEW st, Save(st)
      PROVE  pc' = "paths"
    BY <1>1 DEF Save
<1>2. ASSUME NEW r, NEW st, Back(r, st)
      PROVE  pc' \in {"paths", "walk"}
    BY <1>1, <1>2 DEF Back
<1>3. ASSUME NEW c, OpenColl(c)
      PROVE  pc' \in {"paths", "walk"}
    BY <1>2, <1>3 DEF OpenColl
<1>4. CASE PathMissing \/ PathNotObject \/ PathAggInfo \/ PathNotRecursive \/ QueryEnd
    BY <1>1, <1>4 DEF PathMissing, PathNotObject, PathAggInfo, PathNotRecursive, QueryEnd
<1>5. CASE PathObject
    BY <1>1, <1>5 DEF PathObject
<1>6. CASE PathColl \/ MemberColl
    BY <1>3, <1>6 DEF PathColl, MemberColl
<1>7. CASE EndColl \/ ReadError
    BY <1>2, <1>7 DEF EndColl, ReadError
<1>8. CASE QueryPage
    BY <1>1, <1>8 DEF QueryPage
<1>9. CASE PathQuery \/ Return \/ MemberObject \/ MemberSpecial \/ UNCHANGED vars
    BY <1>9 DEF PathQuery, Return, MemberObject, MemberSpecial, AtMember, vars
<1> QED
    BY <1>4, <1>5, <1>6, <1>7, <1>8, <1>9 DEF Next, Step, Terminated

LEMMA CompleteStep == StackInv /\ WalkInv /\ DoneInv /\ [Next]_vars /\ WalkInv' => DoneInv'
<1> SUFFICES ASSUME StackInv, DoneInv, [Next]_vars, WalkInv'
             PROVE  DoneInv'
    OBVIOUS
<1>1. ops' \in Seq(Op) /\ ops \in Seq(Op)
    BY DEF WalkInv, DoneInv
<1>2. (pc = "query" => cmd.kind = "query")'
    BY QueryStays DEF DoneInv
<1>3. Walks' = Walks /\ cmd' = cmd
    BY DEF Next, Step, Terminated, vars, Walks, PathMissing, PathObject,
        PathNotObject, PathAggInfo, PathNotRecursive, PathColl, PathQuery, Return,
        MemberObject, MemberSpecial, MemberColl, EndColl, ReadError, QueryPage, QueryEnd
<1>4. Walks /\ cmd.recursive /\ ~ Listless' => DoneSoFar'
    BY <1>1, DoneStep, ListlessStays DEF DoneInv, Listless
<1> QED
    BY <1>1, <1>2, <1>3, <1>4 DEF DoneInv, Listless

LEMMA CompleteInit == Init => DoneInv
<1> SUFFICES ASSUME Init PROVE DoneInv
    OBVIOUS
<1>1. ops = <<>> /\ calls = <<>> /\ i = 1 /\ pc = "paths"
    BY DEF Init
<1>2. Done = <<>>
    BY <1>1 DEF Done
<1>3. PathsDone(i - 1) = <<>>
    <2>1. PathPieces(i - 1) = <<>>
        BY <1>1 DEF PathPieces
    <2> QED
        BY <2>1, FlattenEmpty DEF PathsDone
<1>4. StackDone(calls) = <<>>
    BY <1>1, EmptyDone
<1>5. <<>> \o <<>> = <<>>
    OBVIOUS
<1>6. DoneSoFar
    BY <1>2, <1>3, <1>4, <1>5 DEF DoneSoFar, IsJoin
<1>7. ops \in Seq(Op)
    BY <1>1
<1> QED
    BY <1>1, <1>6, <1>7 DEF DoneInv

LEMMA CompleteAtEnd == StackInv /\ DoneInv => WalkComplete
<1> SUFFICES ASSUME StackInv, DoneInv, pc = "done", Walks, cmd.recursive,
                    lost = {}, gone = {}
             PROVE  Done = Expected
    BY DEF WalkComplete
<1>1. calls = <<>> /\ i - 1 = Len(cmd.srcPath) /\ ops \in Seq(Op) /\ DoneSoFar
    <2>1. Len(cmd.srcPath) \in Nat
        BY CommandAssumption DEF IsCommand, StackInv
    <2> QED
        BY <2>1 DEF StackInv, DoneInv
<1>2. Done = PathsDone(Len(cmd.srcPath))
    BY <1>1, DonePaths
<1>3. DOMAIN cmd.srcPath = 1 .. Len(cmd.srcPath)
    BY CommandAssumption DEF IsCommand, StackInv
<1>4. Expected = PathsDone(Len(cmd.srcPath))
    <2>1. PICK n : n = Len(cmd.srcPath)
        OBVIOUS
    <2>2. PathPieces(n) = [k \in DOMAIN cmd.srcPath |-> PathPiece(cmd.srcPath[k])]
        BY <1>3, <2>1 DEF PathPieces
    <2>3. Expected = FlattenSeq([k \in DOMAIN cmd.srcPath |-> PathPiece(cmd.srcPath[k])])
        BY Zenon DEF Expected, PathPiece
    <2> QED
        BY <2>1, <2>2, <2>3 DEF PathsDone
<1> QED
    BY <1>2, <1>4

\* Unless a listing fails, a walk (ncOperCollUtil, regAttrCollUtil, rmAttrCollUtil,
\* listAttrCollUtil) tries each object below the paths once and in order, for
\* every tree and whatever became of the objects ahead.
THEOREM WalkTriesAll == Spec => []WalkComplete
<1>1. WalkInv /\ StackInv /\ DoneInv /\ [Next]_vars => WalkInv' /\ StackInv' /\ DoneInv'
    BY WalkStep, StackStep, CompleteStep
<1>2. Init => WalkInv /\ StackInv /\ DoneInv
    BY WalkInit, StackInit, CompleteInit
<1>3. StackInv /\ DoneInv => WalkComplete
    BY CompleteAtEnd
<1> QED
    BY <1>1, <1>2, <1>3, PTL DEF Spec
-----------------------------------------------------------------------------
(* The attributes *)

\* What an answer of ok says of an object.
Answered(o, m) ==
    /\ cmd.kind = "reg" => \A a \in ToSet(tree.gatts[o]) : Asked(a) => <<o, a>> \in m
    /\ cmd.kind = "remove" => \A a \in Attrs : Asked(a) => <<o, a>> \notin m

AttrInv ==
    /\ avus \subseteq Objects \X Attrs
    /\ \A k \in DOMAIN ops : ops[k].status = "ok" => Answered(ops[k].obj, avus)

\* The catalogue m follows avus: a registration only adds, a removal only takes.
Follows(m) ==
    /\ m \subseteq Objects \X Attrs
    /\ cmd.kind = "reg" => avus \subseteq m
    /\ cmd.kind = "remove" => m \subseteq avus

LEMMA RegisterFollows ==
    ASSUME tree \in Trees, cmd \in Commands, avus \subseteq Objects \X Attrs,
           cmd.kind = "reg", NEW o \in Objects, NEW w \in RegisterAVUs(o)
    PROVE  Follows(w.avus) /\ (w.status = "ok" => Answered(o, w.avus))
<1> DEFINE gatt == tree.gatts[o]
           asked(n) == {k \in 1 .. n : Asked(gatt[k])}
           first(n) == avus \union {<<o, gatt[k]>> : k \in asked(n)}
<1>1. gatt \in Seq(Attrs)
    BY CommandAssumption DEF IsTree
<1>2. \A n \in 0 .. Len(gatt) : Follows(first(n))
    <2> SUFFICES ASSUME NEW n \in 0 .. Len(gatt)
                 PROVE  Follows(first(n))
        OBVIOUS
    <2>1. \A k \in asked(n) : gatt[k] \in Attrs
        BY <1>1
    <2> HIDE DEF gatt, asked
    <2> QED
        BY <2>1 DEF Follows
<1>3. Answered(o, first(Len(gatt)))
    <2> SUFFICES ASSUME NEW a \in ToSet(gatt), Asked(a)
                 PROVE  <<o, a>> \in first(Len(gatt))
        BY DEF Answered
    <2>1. PICK k \in DOMAIN gatt : gatt[k] = a
        BY DEF ToSet
    <2>2. k \in asked(Len(gatt))
        BY <1>1, <2>1
    <2> QED
        BY <2>1, <2>2
<1>4. CASE w = Result("ok", first(Len(gatt)))
    <2>1. w.avus = first(Len(gatt)) /\ Len(gatt) \in 0 .. Len(gatt)
        BY <1>1, <1>4 DEF Result
    <2> HIDE DEF first, gatt
    <2> QED
        BY <1>2, <1>3, <2>1
<1>5. CASE \E k \in asked(Len(gatt)) : w = Result("error", first(k - 1))
    <2>1. PICK k \in asked(Len(gatt)) : w = Result("error", first(k - 1))
        BY <1>5
    <2>2. PICK n \in 0 .. Len(gatt) : n = k - 1
        BY <1>1, <2>1
    <2> HIDE DEF asked, gatt, first
    <2>3. w.avus = first(n) /\ w.status = "error"
        BY <2>1, <2>2 DEF Result
    <2> QED
        BY <1>2, <2>3
<1> QED
    BY <1>4, <1>5, Zenon DEF RegisterAVUs

LEMMA RemoveFollows ==
    ASSUME avus \subseteq Objects \X Attrs, cmd.kind = "remove", NEW o \in Objects,
           NEW w \in RemoveAVUs(o)
    PROVE  Follows(w.avus) /\ (w.status = "ok" => Answered(o, w.avus))
<1> DEFINE names == cmd.attrNameArray
           without(r) == avus \ ({o} \X r)
<1>1. \A r : Follows(without(r))
    BY DEF Follows
<1>2. CASE names = <<>>
    <2>1. w \in {Result("ok", without(Attrs)), Result("error", avus)}
        BY <1>2 DEF RemoveAVUs
    <2>2. Answered(o, without(Attrs))
        BY DEF Answered
    <2>3. Follows(avus)
        BY DEF Follows
    <2>4. CASE w = Result("ok", without(Attrs))
        <3>1. w.avus = without(Attrs)
            BY <2>4 DEF Result
        <3> HIDE DEF without
        <3> QED
            BY <1>1, <2>2, <3>1
    <2>5. CASE w = Result("error", avus)
        BY <2>3, <2>5 DEF Result
    <2> QED
        BY <2>1, <2>4, <2>5
<1>3. CASE names # <<>>
    <2>1. Answered(o, without(ToSet(names)))
        BY <1>3 DEF Answered, Asked
    <2>2. CASE w = Result("ok", without(ToSet(names)))
        <3>1. w.avus = without(ToSet(names))
            BY <2>2 DEF Result
        <3> HIDE DEF without, names
        <3> QED
            BY <1>1, <2>1, <3>1
    <2>3. CASE \E n \in 0 .. Len(names) - 1 : w = Result("error", without(ToSet(SubSeq(names, 1, n))))
        <3>1. PICK r : w = Result("error", without(r))
            BY <2>3, Zenon
        <3> HIDE DEF without, names
        <3>2. w.avus = without(r) /\ w.status = "error"
            BY <3>1 DEF Result
        <3> QED
            BY <1>1, <3>2
    <2> QED
        BY <1>3, <2>2, <2>3, Zenon DEF RemoveAVUs
<1> QED
    BY <1>2, <1>3

LEMMA WorkFollows ==
    ASSUME tree \in Trees, cmd \in Commands, avus \subseteq Objects \X Attrs,
           NEW o \in Objects
    PROVE  \A w \in Work(o) : Follows(w.avus) /\ (w.status = "ok" => Answered(o, w.avus))
<1>1. CASE cmd.kind = "reg"
    BY <1>1, RegisterFollows DEF Work
<1>2. CASE cmd.kind = "remove"
    BY <1>2, RemoveFollows DEF Work
<1>3. CASE cmd.kind \notin {"reg", "remove"}
    <2>1. Work(o) = {Result("ok", avus), Result("error", avus)}
        BY <1>3 DEF Work
    <2>2. \A w \in Work(o) : w.avus = avus
        BY <2>1 DEF Result
    <2> QED
        BY <1>3, <2>2 DEF Follows, Answered
<1> QED
    BY <1>1, <1>2, <1>3

LEMMA OutcomeFollows ==
    ASSUME tree \in Trees, cmd \in Commands, avus \subseteq Objects \X Attrs,
           NEW o \in Objects, NEW r \in Outcomes(o)
    PROVE  Follows(r.avus) /\ (r.status = "ok" => Answered(o, r.avus))
<1>1. Follows(avus)
    BY DEF Follows
<1>2. CASE r \in Unopened
    BY <1>1, <1>2 DEF Unopened, Outcome
<1>3. ASSUME NEW w \in Work(o), r.status = w.status, r.avus = w.avus
      PROVE  Follows(r.avus) /\ (r.status = "ok" => Answered(o, r.avus))
    BY <1>3, WorkFollows
<1>4. CASE \E w \in Work(o) : r.status = w.status /\ r.avus = w.avus
    BY <1>3, <1>4
<1>5. CASE \E w \in Work(o) : r.status = CloseStatus(w.status) /\ r.avus = w.avus
    <2>1. PICK w \in Work(o) : r.status = CloseStatus(w.status) /\ r.avus = w.avus
        BY <1>5
    <2>2. CASE cmd.kind = "inc"
        BY <2>1, <2>2, WorkFollows DEF Answered
    <2>3. CASE cmd.kind # "inc"
        BY <1>3, <2>1, <2>3 DEF CloseStatus
    <2> QED
        BY <2>2, <2>3
<1>6. \A w, u, out, st : Outcome(out, st, u, w.avus).status = st
                         /\ Outcome(out, st, u, w.avus).avus = w.avus
    BY DEF Outcome
<1>7. CASE r \in Opened(o)
    <2>1. \/ r \in {Outcome("done", w.status, used, w.avus) : w \in Work(o)}
          \/ r \in {Outcome("closeError", CloseStatus(w.status), u, w.avus) :
                        w \in Work(o), u \in {used, used + 1}}
        BY <1>7 DEF Opened
    <2>2. CASE r \in {Outcome("done", w.status, used, w.avus) : w \in Work(o)}
        <3>1. PICK w \in Work(o) : r = Outcome("done", w.status, used, w.avus)
            BY <2>2
        <3>2. r.status = w.status /\ r.avus = w.avus
            BY <1>6, <3>1
        <3> QED
            BY <1>4, <3>2
    <2>3. CASE r \in {Outcome("closeError", CloseStatus(w.status), u, w.avus) :
                        w \in Work(o), u \in {used, used + 1}}
        <3>1. PICK w \in Work(o), u \in {used, used + 1} :
                r = Outcome("closeError", CloseStatus(w.status), u, w.avus)
            BY <2>3
        <3>2. r.status = CloseStatus(w.status) /\ r.avus = w.avus
            BY <1>6, <3>1
        <3> QED
            BY <1>5, <3>2
    <2> QED
        BY <2>1, <2>2, <2>3
<1>8. CASE r \in {Outcome("done", w.status, used, w.avus) : w \in Work(o)}
    <2>1. \E w \in Work(o) : r = Outcome("done", w.status, used, w.avus)
        BY <1>8
    <2> QED
        BY <1>4, <1>6, <2>1
<1> QED
    BY <1>2, <1>7, <1>8 DEF Outcomes

\* The catalogue follows what was answered before.
LEMMA AnsweredStays ==
    ASSUME NEW m, Follows(m), NEW o, Answered(o, avus)
    PROVE  Answered(o, m)
BY DEF Follows, Answered

MiscInv ==
    /\ agent \in {"up", "gone"}
    /\ lost \subseteq Colls \union Objects \union {Missing} /\ gone \subseteq Colls
    /\ continueInx \in Nat /\ printed \in Seq(Objects)

LEMMA AttrDo ==
    ASSUME StackInv, ops \in Seq(Op), AttrInv, NEW o \in Objects, NEW r \in Outcomes(o),
           Do(o, r), UNCHANGED <<tree, cmd>>
    PROVE  AttrInv'
<1>1. r.out \in Outs /\ r.status \in {"ok", "error"}
    BY OutcomeType
<1>2. Follows(r.avus) /\ (r.status = "ok" => Answered(o, r.avus))
    BY OutcomeFollows DEF StackInv, AttrInv
<1>3. PICK m : m = r.avus /\ avus' = m
    BY DEF Do
<1>4. PICK e \in Op : e = [obj |-> o, out |-> r.out, status |-> r.status]
    BY <1>1 DEF Op
<1>5. ops' = Append(ops, e) /\ e.obj = o /\ e.status = r.status
    BY <1>4, Zenon DEF Do, Log
<1>6. \A k \in DOMAIN ops' : ops'[k] = e \/ (k \in DOMAIN ops /\ ops'[k] = ops[k])
    BY <1>5
<1>7. \A k \in DOMAIN ops' : ops'[k].status = "ok" => Answered(ops'[k].obj, m)
    <2> SUFFICES ASSUME NEW k \in DOMAIN ops', ops'[k].status = "ok"
                 PROVE  Answered(ops'[k].obj, m)
        OBVIOUS
    <2>1. CASE ops'[k] = e
        BY <1>2, <1>3, <1>5, <2>1
    <2>2. CASE k \in DOMAIN ops /\ ops'[k] = ops[k]
        <3>1. Answered(ops[k].obj, avus)
            BY <2>2 DEF AttrInv
        <3> QED
            BY <1>2, <1>3, <2>2, <3>1, AnsweredStays
    <2> QED
        BY <1>6, <2>1, <2>2
<1>8. \A x : Answered(x, m) => Answered(x, m)'
    BY <1>3 DEF Answered, Asked
<1>9. m \subseteq Objects \X Attrs
    BY <1>2, <1>3 DEF Follows
<1> QED
    BY <1>3, <1>7, <1>8, <1>9 DEF AttrInv

LEMMA AttrKept ==
    ASSUME AttrInv, UNCHANGED <<tree, cmd, avus, ops>>
    PROVE  AttrInv'
<1>1. \A x : Answered(x, avus) => Answered(x, avus)'
    BY DEF Answered, Asked
<1> QED
    BY <1>1 DEF AttrInv

LEMMA AttrStep == StackInv /\ WalkInv /\ AttrInv /\ [Next]_vars => AttrInv'
<1> SUFFICES ASSUME StackInv, WalkInv, AttrInv, [Next]_vars PROVE AttrInv'
    OBVIOUS
<1>0. ops \in Seq(Op)
    BY DEF WalkInv
<1>1. CASE PathObject
    <2>1. PICK o \in Objects : \E r \in Outcomes(o) : Do(o, r)
        BY <1>1 DEF PathObject
    <2> QED
        BY <1>0, <1>1, <2>1, AttrDo DEF PathObject
<1>2. CASE MemberObject
    <2>1. PICK o \in Objects : \E r \in Outcomes(o) : Do(o, r)
        BY <1>2 DEF MemberObject
    <2> QED
        BY <1>0, <1>2, <2>1, AttrDo DEF MemberObject
<1>3. CASE ~PathObject /\ ~MemberObject
    <2>1. UNCHANGED <<tree, cmd, avus, ops>>
        BY <1>3 DEF Next, Step, Terminated, vars, PathMissing,
            PathNotObject, PathAggInfo, PathNotRecursive, PathColl, PathQuery, Return,
            MemberSpecial, MemberColl, EndColl, ReadError, QueryPage, QueryEnd
    <2> QED
        BY <2>1, AttrKept
<1> QED
    BY <1>1, <1>2, <1>3

LEMMA MatchesType ==
    ASSUME tree \in Trees, NEW p
    PROVE  Matches(p) \in Seq(Objects)
<1> DEFINE row(o) == IF \A a \in ToSet(cmd.attrNameArray) : <<o, a>> \in avus THEN <<o>>
                     ELSE <<>>
           U == Seq(Objects)
<1>1. PICK s \in Seq(Objects) : s = Below(p)
    <2>1. p \in Colls => Below(p) \in Seq(Objects)
        <3>1. N \in 0 .. N
            BY NIsNat
        <3> QED
            BY <3>1, ListingType DEF Below, N
    <2>2. p \notin Colls => Below(p) = <<>>
        BY DEF Below
    <2>3. <<>> \in Seq(Objects)
        OBVIOUS
    <2> QED
        BY <2>1, <2>2, <2>3
<1>2. \A o \in Objects : row(o) \in U
    <2>1. \A o \in Objects : <<o>> \in U /\ <<>> \in U
        OBVIOUS
    <2> HIDE DEF U
    <2> QED
        BY <2>1
<1> HIDE DEF U, row
<1>3. PICK n \in Nat : DOMAIN s = 1 .. n
    BY <1>1
<1>4. \A k \in 1 .. n : row(s[k]) \in U
    BY <1>2, <1>3
<1>5. [k \in 1 .. n |-> row(s[k])] \in Seq(U)
    BY <1>4
<1>6. [k \in DOMAIN s |-> row(s[k])] \in Seq(U)
    BY <1>3, <1>5
<1>7. FlattenSeq([k \in DOMAIN s |-> row(s[k])]) \in Seq(Objects)
    BY <1>6, FlattenOfSeq DEF U
<1>8. Matches(p) = FlattenSeq([k \in DOMAIN s |-> row(s[k])])
    BY <1>1 DEF Matches, row
<1> QED
    BY <1>7, <1>8

LEMMA PageType ==
    ASSUME tree \in Trees, continueInx \in Nat
    PROVE  Page \in Seq(Objects) /\ Len(Page) \in Nat
<1>1. PICK rows \in Seq(Objects) : rows = Matches(Path)
    BY MatchesType
<1>2. PICK T : T = {Len(rows), continueInx + MAX_SQL_ROWS}
    OBVIOUS
<1>3. T \subseteq Nat /\ T # {}
    BY <1>2, CommandAssumption
<1>4. PICK m \in Nat : m = Min(T) /\ m <= Len(rows)
    BY <1>2, <1>3, MinOf
<1>5. SubSeq(rows, continueInx + 1, m) \in Seq(Objects)
    BY <1>4
<1>6. Page = SubSeq(rows, continueInx + 1, m)
    BY <1>1, <1>2, <1>4 DEF Page
<1> QED
    BY <1>5, <1>6

LEMMA MiscStep == StackInv /\ MiscInv /\ [Next]_vars => MiscInv'
<1> SUFFICES ASSUME StackInv, MiscInv, [Next]_vars PROVE MiscInv'
    OBVIOUS
<1>1. CASE PathMissing
    <2>1. Path \in Colls \union Objects \union {Missing}
        <3>1. cmd.srcPath \in Seq(Colls \union Objects \union {Missing})
            BY CommandAssumption DEF IsCommand, StackInv
        <3>2. i \in DOMAIN cmd.srcPath
            BY <1>1, <3>1 DEF PathMissing, StackInv
        <3> QED
            BY <3>1, <3>2 DEF Path
    <2> QED
        BY <1>1, <2>1 DEF PathMissing, MiscInv
<1>2. ASSUME NEW c \in Colls, OpenColl(c), UNCHANGED <<agent, continueInx, printed>>
      PROVE  MiscInv'
    BY <1>2 DEF OpenColl, MiscInv
<1>3. CASE PathColl
    BY <1>2, <1>3 DEF PathColl
<1>4. CASE MemberColl
    BY <1>2, <1>4 DEF MemberColl
<1>5. CASE ReadError
    <2>1. calls \in Seq(Frame) /\ calls # <<>>
        BY <1>5 DEF ReadError, StackInv, StackOK
    <2>2. Top \in Frame
        BY <2>1 DEF Top
    <2>3. Top.coll \in Colls
        BY <2>2 DEF Frame
    <2> QED
        BY <1>5, <2>3 DEF ReadError, MiscInv
<1>6. CASE PathNotRecursive
    BY <1>6 DEF PathNotRecursive, MiscInv
<1>7. CASE QueryPage
    <2>1. Page \in Seq(Objects) /\ Len(Page) \in Nat /\ printed \in Seq(Objects)
        BY PageType DEF StackInv, MiscInv
    <2>2. printed \o Page \in Seq(Objects)
        BY <2>1
    <2> QED
        BY <1>7, <2>1, <2>2 DEF QueryPage, MiscInv
<1>8. CASE PathQuery
    BY <1>8 DEF PathQuery, MiscInv
<1>9. CASE PathObject \/ PathNotObject \/ PathAggInfo \/ Return \/ MemberObject
           \/ MemberSpecial \/ EndColl \/ QueryEnd \/ UNCHANGED vars
    BY <1>9 DEF PathObject, PathNotObject, PathAggInfo, Return, MemberObject,
        MemberSpecial, EndColl, QueryEnd, vars, MiscInv
<1> QED
    BY <1>1, <1>3, <1>4, <1>5, <1>6, <1>7, <1>8, <1>9 DEF Next, Step, Terminated

LEMMA AttrInit == Init => AttrInv /\ MiscInv
<1> SUFFICES ASSUME Init PROVE AttrInv /\ MiscInv
    OBVIOUS
<1>1. tree.avus \subseteq Objects \X Attrs
    BY CommandAssumption DEF Init, IsTree
<1>2. <<>> \in Seq(Objects)
    OBVIOUS
<1>3. avus = tree.avus /\ ops = <<>>
    BY DEF Init
<1>4. AttrInv
    BY <1>1, <1>3 DEF AttrInv
<1> QED
    BY <1>2, <1>4 DEF Init, MiscInv

LEMMA TypesHold == StackInv /\ WalkInv /\ TableInv /\ AttrInv /\ MiscInv => TypeOK
<1> SUFFICES ASSUME StackInv, WalkInv, TableInv, AttrInv, MiscInv PROVE TypeOK
    OBVIOUS
<1>1. calls \in Seq(Frame) /\ ops \in Seq(Op)
    BY DEF WalkInv
<1>2. \A k \in DOMAIN calls :
        /\ calls[k].coll \in Colls
        /\ calls[k].pos \in 1 .. Len(tree.members[calls[k].coll]) + 1
        /\ calls[k].savedStatus \in {"ok", "error"}
    <2>1. \A k \in DOMAIN calls : calls[k] \in Frame
        BY <1>1
    <2> QED
        BY <2>1 DEF Frame, StackInv, StackOK, Members
<1>3. \A k \in DOMAIN ops :
        /\ ops[k].obj \in Objects /\ ops[k].out \in Outs
        /\ ops[k].status \in {"ok", "error"}
    <2>1. \A k \in DOMAIN ops : ops[k] \in Op
        BY <1>1
    <2> QED
        BY <2>1 DEF Op
<1> QED
    BY <1>2, <1>3 DEF TypeOK, StackInv, TableInv, AttrInv, MiscInv

WalkIInv == WalkInv /\ StackInv /\ DoneInv /\ TableInv /\ AttrInv /\ MiscInv

LEMMA WalkInductive ==
    /\ Init => WalkIInv
    /\ WalkIInv /\ [Next]_vars => WalkIInv'
<1>1. Init => WalkIInv
    BY WalkInit, StackInit, CompleteInit, TableInit, AttrInit DEF WalkIInv
<1>2. WalkIInv /\ [Next]_vars => WalkIInv'
    BY WalkStep, StackStep, CompleteStep, TableStep, AttrStep, MiscStep DEF WalkIInv
<1> QED
    BY <1>1, <1>2

\* The stack, the table, the catalogue and what a query prints keep their types, for
\* every tree of collections (rclReadCollection) and every query (queryAUVForDataObj).
THEOREM WalkTypeOK == Spec => []TypeOK
<1>1. WalkIInv => TypeOK
    BY TypesHold DEF WalkIInv
<1> QED
    BY <1>1, WalkInductive, PTL DEF Spec

LEMMA AnswersHold == WalkIInv /\ OkMeansAll => AttrsAsAnswered
<1> SUFFICES ASSUME WalkIInv, OkMeansAll, Ok, cmd.recursive, gone = {},
                    NEW o \in ToSet(Expected)
             PROVE  /\ cmd.kind = "reg" =>
                        \A a \in ToSet(tree.gatts[o]) : Asked(a) => <<o, a>> \in avus
                    /\ cmd.kind = "remove" =>
                        \A a \in Attrs : Asked(a) => <<o, a>> \notin avus
    BY DEF AttrsAsAnswered
<1>1. lost = {} /\ \A k \in DOMAIN ops : ops[k].status = "ok"
    BY DEF OkMeansAll
<1>2. CASE cmd.kind \in {"reg", "remove"}
    <2>1. Done = Expected
        BY <1>1, <1>2, CompleteAtEnd DEF WalkIInv, WalkComplete, Walks, Ok
    <2>2. PICK k \in DOMAIN Done : Done[k] = o
        BY <2>1 DEF ToSet
    <2>3. k \in DOMAIN ops /\ ops[k].obj = o
        BY <2>2 DEF Done
    <2>4. Answered(o, avus)
        BY <1>1, <2>3 DEF WalkIInv, AttrInv
    <2> QED
        BY <2>4 DEF Answered
<1> QED
    BY <1>2

\* After a registration that answered ok (ncattrUtil, _rsNcRegGlobalAttr) the
\* attributes asked for of every object below the paths are in the catalogue;
\* after a removal (rmAttrDataObjUtil) none of them is.
THEOREM WalkAttrsAsAnswered == Spec => []AttrsAsAnswered
<1>1. WalkIInv /\ OkMeansAll => AttrsAsAnswered
    BY AnswersHold
<1> QED
    BY <1>1, WalkInductive, WalkOkMeansAll, PTL DEF Spec
-----------------------------------------------------------------------------
(* What lies below a member *)

Nodes == Colls \union Objects

Closed(S) == \A c \in Colls : c \in S => ToSet(Members(c)) \subseteq S

\* A member with all that is below it, whatever is listed.
Parts(a) == {x \in Nodes : \A S \in SUBSET Nodes : a \in S /\ Closed(S) => x \in S}

LEMMA MembersIn ==
    ASSUME tree \in Trees
    PROVE  \A c \in Colls : \A x \in ToSet(Members(c)) : x \in Nodes
BY MembersType DEF ToSet, Nodes

LEMMA PartsLeast ==
    ASSUME NEW a, NEW S \in SUBSET Nodes, a \in S, Closed(S)
    PROVE  Parts(a) \subseteq S
BY DEF Parts

LEMMA PartsClosed ==
    ASSUME tree \in Trees, NEW a \in Nodes
    PROVE  a \in Parts(a) /\ Closed(Parts(a)) /\ Parts(a) \in SUBSET Nodes
<1>1. a \in Parts(a) /\ Parts(a) \in SUBSET Nodes
    BY DEF Parts
<1>2. ASSUME NEW c \in Colls, c \in Parts(a), NEW x \in ToSet(Members(c))
      PROVE  x \in Parts(a)
    <2>1. x \in Nodes
        BY MembersIn
    <2>2. ASSUME NEW S \in SUBSET Nodes, a \in S, Closed(S)
          PROVE  x \in S
        <3>1. c \in S
            BY <1>2, <2>2 DEF Parts
        <3> QED
            BY <2>2, <3>1 DEF Closed
    <2> QED
        BY <2>1, <2>2 DEF Parts
<1> QED
    BY <1>1, <1>2 DEF Closed

\* What is below a member is below its collection.
LEMMA PartsWithin ==
    ASSUME tree \in Trees, NEW c \in Colls, NEW m \in ToSet(Members(c))
    PROVE  Parts(m) \subseteq Parts(c)
<1>1. c \in Parts(c) /\ Closed(Parts(c)) /\ Parts(c) \in SUBSET Nodes
    BY PartsClosed DEF Nodes
<1>2. m \in Parts(c)
    BY <1>1 DEF Closed
<1> QED
    BY <1>1, <1>2, PartsLeast

\* It is the member itself or in a collection below it.
LEMMA PartsFrom ==
    ASSUME tree \in Trees, NEW a \in Nodes, NEW y \in Parts(a), y # a
    PROVE  \E c \in Colls : c \in Parts(a) /\ y \in ToSet(Members(c))
<1> DEFINE S == {x \in Parts(a) : x = a \/ \E c \in Colls : c \in Parts(a) /\ x \in ToSet(Members(c))}
<1>1. a \in Parts(a) /\ Closed(Parts(a)) /\ Parts(a) \in SUBSET Nodes
    BY PartsClosed
<1>2. a \in S /\ S \in SUBSET Nodes
    BY <1>1
<1>3. ASSUME NEW c \in Colls, c \in S, NEW x \in ToSet(Members(c))
      PROVE  x \in S
    BY <1>1, <1>3 DEF Closed
<1>4. Closed(S)
    BY <1>3 DEF Closed
<1>5. Parts(a) \subseteq S
    <2> HIDE DEF S
    <2> QED
        BY <1>2, <1>4, PartsLeast
<1> QED
    BY <1>5

\* A collection is not below a member of its own.
LEMMA PartsAcyclic ==
    ASSUME tree \in Trees, NEW c \in Colls, NEW m \in ToSet(Members(c))
    PROVE  c \notin Parts(m)
<1>0. m \in Nodes
    BY MembersIn
<1>1. CASE m \in Colls
    <2>1. PICK r \in Ranks : TRUE
        BY RankExists
    <2>2. r[m] < r[c]
        BY <1>1, <2>1 DEF Ranks, Members
    <2>3. \A d \in Colls : r[d] \in Int
        BY NIsNat DEF Ranks
    <2>4. \A d, e \in Colls : e \in ToSet(Members(d)) => r[e] < r[d]
        BY DEF Ranks, Members
    <2> DEFINE S == {x \in Nodes : x \in Colls => r[x] <= r[m]}
    <2>5. m \in S /\ S \in SUBSET Nodes
        BY <1>0, <1>1, <2>3
    <2>6. ASSUME NEW d \in Colls, d \in S, NEW x \in ToSet(Members(d))
          PROVE  x \in S
        <3>1. x \in Nodes
            BY MembersIn
        <3>2. x \in Colls => r[x] < r[d] /\ r[d] <= r[m]
            BY <2>4, <2>6
        <3>3. x \in Colls => r[x] <= r[m]
            BY <1>1, <2>3, <3>2
        <3> QED
            BY <3>1, <3>3
    <2>7. Closed(S)
        BY <2>6 DEF Closed
    <2>8. c \notin S
        BY <1>1, <2>2, <2>3
    <2> HIDE DEF S
    <2> QED
        BY <2>5, <2>7, <2>8, PartsLeast
<1>2. CASE m \notin Colls
    <2>1. Closed({m}) /\ {m} \in SUBSET Nodes
        BY <1>0, <1>2 DEF Closed
    <2>2. Parts(m) \subseteq {m}
        BY <2>1, PartsLeast
    <2> QED
        BY <1>2, <2>2
<1> QED
    BY <1>1, <1>2

\* Nothing lies below two members of a collection.
LEMMA PartsApart ==
    ASSUME tree \in Trees, NEW c \in Colls, NEW k \in DOMAIN Members(c),
           NEW l \in DOMAIN Members(c), k # l
    PROVE  Parts(Members(c)[k]) \intersect Parts(Members(c)[l]) = {}
<1>1. PICK m, w : m = Members(c)[k] /\ w = Members(c)[l]
    OBVIOUS
<1>2. \A d, e \in Colls : \A p \in DOMAIN Members(d), q \in DOMAIN Members(e) :
        Members(d)[p] = Members(e)[q] => d = e /\ p = q
    BY CommandAssumption DEF IsTree, Members
<1>3. m # w /\ m \in ToSet(Members(c)) /\ w \in ToSet(Members(c))
    BY <1>1, <1>2 DEF ToSet
<1>4. m \in Nodes /\ w \in Nodes
    BY <1>3, MembersIn
<1>5. /\ m \in Parts(m) /\ Closed(Parts(m)) /\ Parts(m) \in SUBSET Nodes
      /\ w \in Parts(w) /\ Closed(Parts(w))
    BY <1>4, PartsClosed
<1>6. c \notin Parts(m) /\ c \notin Parts(w)
    BY <1>3, PartsAcyclic
<1>7. \A d, e \in Colls : \A x : x \in ToSet(Members(d)) /\ x \in ToSet(Members(e)) => d = e
    BY <1>2 DEF ToSet
<1> DEFINE D == Parts(m) \ Parts(w)
<1>8. m \in D
    <2> SUFFICES ASSUME m \in Parts(w) PROVE FALSE
        BY <1>5
    <2>1. PICK d \in Colls : d \in Parts(w) /\ m \in ToSet(Members(d))
        BY <1>3, <1>4, PartsFrom
    <2>2. d = c
        BY <1>3, <1>7, <2>1
    <2> QED
        BY <1>6, <2>1, <2>2
<1>9. ASSUME NEW d \in Colls, d \in D, NEW x \in ToSet(Members(d))
      PROVE  x \in D
    <2>1. x \in Parts(m)
        BY <1>5, <1>9 DEF Closed
    <2> SUFFICES ASSUME x \in Parts(w) PROVE FALSE
        BY <2>1
    <2>2. CASE x = w
        <3>1. d = c
            BY <1>3, <1>7, <1>9, <2>2
        <3> QED
            BY <1>6, <1>9, <3>1
    <2>3. CASE x # w
        <3>1. PICK e \in Colls : e \in Parts(w) /\ x \in ToSet(Members(e))
            BY <1>4, <2>3, PartsFrom
        <3>2. e = d
            BY <1>7, <1>9, <3>1
        <3> QED
            BY <1>9, <3>1, <3>2
    <2> QED
        BY <2>2, <2>3
<1>10. Closed(D) /\ D \in SUBSET Nodes
    BY <1>5, <1>9 DEF Closed
<1>11. Parts(m) \subseteq D
    <2> HIDE DEF D
    <2> QED
        BY <1>8, <1>10, PartsLeast
<1> QED
    BY <1>1, <1>11

\* What a walk makes of the members are sequences of objects.
LEMMA PiecesAreSeq ==
    ASSUME tree \in Trees
    PROVE  \A n \in 0 .. N : \A c \in Colls :
                [k \in DOMAIN Members(c) |-> Piece(n, Members(c)[k])] \in Seq(Seq(Objects))
<1> SUFFICES ASSUME NEW n \in 0 .. N, NEW c \in Colls
             PROVE  [k \in DOMAIN Members(c) |-> Piece(n, Members(c)[k])] \in Seq(Seq(Objects))
    OBVIOUS
<1> DEFINE U == Seq(Objects)
<1>1. PICK l \in Nat : DOMAIN Members(c) = 1 .. l
    BY MembersType
<1>2. \A k \in 1 .. l : Members(c)[k] \in Nodes
    BY <1>1, MembersIn DEF ToSet
<1>3. \A k \in 1 .. l : Piece(n, Members(c)[k]) \in U
    BY <1>2, PieceType DEF Nodes
<1> HIDE DEF U
<1>4. [k \in 1 .. l |-> Piece(n, Members(c)[k])] \in Seq(U)
    BY <1>3
<1> QED
    BY <1>1, <1>4 DEF U

\* A walk of a member lists nothing that is not below it.
LEMMA ListingParts ==
    ASSUME tree \in Trees
    PROVE  \A n \in 0 .. N : \A c \in Colls : ToSet(Listing[n][c]) \subseteq Parts(c)
<1> DEFINE Within(n) == \A c \in Colls : ToSet(Listing[n][c]) \subseteq Parts(c)
           T == {n \in Nat : n \in 0 .. N => Within(n)}
<1> HIDE DEF Within
<1>1. ASSUME NEW n \in 0 .. N, n # 0 => Within(n - 1), NEW m \in Nodes
      PROVE  ToSet(Piece(n, m)) \subseteq Parts(m)
    <2>1. CASE m \in Objects
        <3>1. Piece(n, m) = <<m>>
            BY <2>1 DEF Piece, PieceOf
        <3>2. ToSet(<<m>>) = {m}
            BY DEF ToSet
        <3> QED
            BY <3>1, <3>2, PartsClosed
    <2>2. CASE m \notin Objects /\ (n = 0 \/ tree.collClass[m] # "NO_SPEC_COLL")
        <3>1. Piece(n, m) = <<>>
            BY <2>2 DEF Piece, PieceOf
        <3>2. ToSet(<<>>) = {}
            BY DEF ToSet
        <3> QED
            BY <3>1, <3>2
    <2>3. CASE m \notin Objects /\ ~ (n = 0 \/ tree.collClass[m] # "NO_SPEC_COLL")
        <3>1. Piece(n, m) = Listing[n - 1][m] /\ m \in Colls
            BY <2>3 DEF Piece, PieceOf, Nodes
        <3> QED
            BY <1>1, <2>3, <3>1 DEF Within
    <2> QED
        BY <2>1, <2>2, <2>3
<1>2. ASSUME NEW n \in 0 .. N, n # 0 => Within(n - 1)
      PROVE  Within(n)
    <2> SUFFICES ASSUME NEW c \in Colls, NEW x \in ToSet(Listing[n][c])
                 PROVE  x \in Parts(c)
        BY DEF Within
    <2>1. PICK s : s = [k \in DOMAIN Members(c) |-> Piece(n, Members(c)[k])]
        OBVIOUS
    <2>2. s \in Seq(Seq(Objects))
        BY <2>1, PiecesAreSeq
    <2>3. Listing[n][c] = FlattenSeq(s)
        BY <2>1, ListingPieces
    <2>4. PICK k \in DOMAIN Members(c) : x \in ToSet(Piece(n, Members(c)[k]))
        <3>1. PICK k \in DOMAIN s : x \in ToSet(s[k])
            BY <2>2, <2>3, FlattenElements
        <3> QED
            BY <2>1, <3>1
    <2>5. PICK m : m = Members(c)[k] /\ m \in ToSet(Members(c))
        BY DEF ToSet
    <2>6. m \in Nodes
        BY <2>5, MembersIn
    <2>7. x \in Parts(m)
        BY <1>1, <1>2, <2>4, <2>5, <2>6
    <2> QED
        BY <2>5, <2>7, PartsWithin
<1>3. 0 \in T
    BY <1>2
<1>4. ASSUME NEW n \in Nat, n \in T
      PROVE  n + 1 \in T
    <2> SUFFICES ASSUME n + 1 \in 0 .. N PROVE Within(n + 1)
        OBVIOUS
    <2>1. PICK j \in 0 .. N : j = n + 1 /\ j - 1 = n
        OBVIOUS
    <2>2. n \in 0 .. N
        BY NIsNat
    <2>3. Within(j - 1)
        BY <1>4, <2>1, <2>2
    <2> QED
        BY <1>2, <2>1, <2>3
<1>5. \A n \in Nat : n \in T => n + 1 \in T
    BY <1>4
<1> HIDE DEF T
<1>6. \A n \in Nat : n \in T
    BY <1>3, <1>5, NatInd
<1> QED
    BY <1>6, NIsNat DEF T, Within

\* Nothing is listed twice.
LEMMA ListingOnce ==
    ASSUME tree \in Trees
    PROVE  \A n \in 0 .. N : \A c \in Colls : IsInjective(Listing[n][c])
<1> DEFINE Once(n) == \A c \in Colls : IsInjective(Listing[n][c])
           T == {n \in Nat : n \in 0 .. N => Once(n)}
<1> HIDE DEF Once
<1>1. ASSUME NEW n \in 0 .. N, n # 0 => Once(n - 1), NEW m \in Nodes
      PROVE  IsInjective(Piece(n, m)) /\ ToSet(Piece(n, m)) \subseteq Parts(m)
    <2>1. CASE m \in Objects
        <3>1. Piece(n, m) = <<m>>
            BY <2>1 DEF Piece, PieceOf
        <3>2. ToSet(<<m>>) = {m} /\ IsInjective(<<m>>)
            BY DEF ToSet, IsInjective
        <3> QED
            BY <3>1, <3>2, PartsClosed
    <2>2. CASE m \notin Objects /\ (n = 0 \/ tree.collClass[m] # "NO_SPEC_COLL")
        <3>1. Piece(n, m) = <<>>
            BY <2>2 DEF Piece, PieceOf
        <3>2. ToSet(<<>>) = {} /\ IsInjective(<<>>)
            BY DEF ToSet, IsInjective
        <3> QED
            BY <3>1, <3>2
    <2>3. CASE m \notin Objects /\ ~ (n = 0 \/ tree.collClass[m] # "NO_SPEC_COLL")
        <3>1. Piece(n, m) = Listing[n - 1][m] /\ m \in Colls
            BY <2>3 DEF Piece, PieceOf, Nodes
        <3>2. n - 1 \in 0 .. N
            BY <2>3, NIsNat
        <3>3. IsInjective(Listing[n - 1][m])
            BY <1>1, <2>3, <3>1 DEF Once
        <3> QED
            BY <3>1, <3>2, <3>3, ListingParts
    <2> QED
        BY <2>1, <2>2, <2>3
<1>2. ASSUME NEW n \in 0 .. N, n # 0 => Once(n - 1)
      PROVE  Once(n)
    <2> SUFFICES ASSUME NEW c \in Colls
                 PROVE  IsInjective(Listing[n][c])
        BY DEF Once
    <2>1. PICK s : s = [k \in DOMAIN Members(c) |-> Piece(n, Members(c)[k])]
        OBVIOUS
    <2>2. s \in Seq(Seq(Objects))
        BY <2>1, PiecesAreSeq
    <2>3. Listing[n][c] = FlattenSeq(s)
        BY <2>1, ListingPieces
    <2>4. DOMAIN s = DOMAIN Members(c) /\ \A k \in DOMAIN Members(c) : s[k] = Piece(n, Members(c)[k])
        BY <2>1
    <2>5. \A k \in DOMAIN Members(c) : Members(c)[k] \in Nodes
        BY MembersIn DEF ToSet
    <2>6. \A k \in DOMAIN s : IsInjective(s[k]) /\ ToSet(s[k]) \subseteq Parts(Members(c)[k])
        BY <1>1, <1>2, <2>4, <2>5
    <2>7. \A k, l \in DOMAIN s : k # l =>
            Parts(Members(c)[k]) \intersect Parts(Members(c)[l]) = {}
        BY <2>4, PartsApart
    <2>8. AllOnce(s)
        BY <2>6, <2>7, Zenon DEF AllOnce
    <2> QED
        BY <2>2, <2>3, <2>8, FlattenOnce
<1>3. 0 \in T
    BY <1>2
<1>4. ASSUME NEW n \in Nat, n \in T
      PROVE  n + 1 \in T
    <2> SUFFICES ASSUME n + 1 \in 0 .. N PROVE Once(n + 1)
        OBVIOUS
    <2>1. PICK j \in 0 .. N : j = n + 1 /\ j - 1 = n
        OBVIOUS
    <2>2. n \in 0 .. N
        BY NIsNat
    <2>3. Once(j - 1)
        BY <1>4, <2>1, <2>2
    <2> QED
        BY <1>2, <2>1, <2>3
<1>5. \A n \in Nat : n \in T => n + 1 \in T
    BY <1>4
<1> HIDE DEF T
<1>6. \A n \in Nat : n \in T
    BY <1>3, <1>5, NatInd
<1> QED
    BY <1>6, NIsNat DEF T, Once

\* No row of a query comes twice.
LEMMA MatchesOnce ==
    ASSUME tree \in Trees, NEW p
    PROVE  IsInjective(Matches(p))
<1> DEFINE row(o) == IF \A a \in ToSet(cmd.attrNameArray) : <<o, a>> \in avus THEN <<o>>
                     ELSE <<>>
           U == Seq(Objects)
<1>1. PICK s \in Seq(Objects) : s = Below(p) /\ IsInjective(s)
    <2>1. CASE p \in Colls
        <3>1. N \in 0 .. N
            BY NIsNat
        <3>2. Below(p) = Listing[N][p]
            BY <2>1 DEF Below, N
        <3> QED
            BY <2>1, <3>1, <3>2, ListingType, ListingOnce
    <2>2. CASE p \notin Colls
        <3>1. Below(p) = <<>>
            BY <2>2 DEF Below
        <3>2. <<>> \in Seq(Objects) /\ IsInjective(<<>>)
            BY DEF IsInjective
        <3> QED
            BY <3>1, <3>2
    <2> QED
        BY <2>1, <2>2
<1>2. ASSUME NEW o \in Objects
      PROVE  row(o) \in U /\ IsInjective(row(o)) /\ ToSet(row(o)) \subseteq {o}
    <2>1. <<o>> \in Seq(Objects) /\ <<>> \in Seq(Objects)
        OBVIOUS
    <2>2. IsInjective(<<o>>) /\ IsInjective(<<>>) /\ ToSet(<<o>>) = {o} /\ ToSet(<<>>) = {}
        BY DEF IsInjective, ToSet
    <2>3. row(o) = <<o>> \/ row(o) = <<>>
        OBVIOUS
    <2> HIDE DEF row
    <2> QED
        BY <2>1, <2>2, <2>3
<1> HIDE DEF U, row
<1>3. PICK n \in Nat : DOMAIN s = 1 .. n /\ \A k \in 1 .. n : s[k] \in Objects
    BY <1>1
<1>4. PICK t : t = [k \in 1 .. n |-> row(s[k])]
    OBVIOUS
<1>5. t \in Seq(U) /\ DOMAIN t = 1 .. n /\ \A k \in 1 .. n : t[k] = row(s[k])
    <2>1. \A k \in 1 .. n : row(s[k]) \in U
        BY <1>2, <1>3
    <2> QED
        BY <1>4, <2>1
<1>6. \A k \in DOMAIN t : IsInjective(t[k]) /\ ToSet(t[k]) \subseteq {s[k]}
    BY <1>2, <1>3, <1>5
<1>7. \A k, l \in DOMAIN t : k # l => s[k] # s[l]
    BY <1>1, <1>3, <1>5 DEF IsInjective
<1>8. AllOnce(t)
    BY <1>6, <1>7, Zenon DEF AllOnce
<1>9. IsInjective(FlattenSeq(t))
    BY <1>5, <1>8, FlattenOnce DEF U
<1>10. Matches(p) = FlattenSeq(t)
    BY <1>1, <1>3, <1>4 DEF Matches, row
<1> QED
    BY <1>9, <1>10
-----------------------------------------------------------------------------
(* What a query prints *)

Rows(n) == Matches(cmd.srcPath[n])

\* Of the first n paths, those that an object is below.
PathsWith(o, n) == Cardinality({k \in 1 .. n : o \in ToSet(Rows(k))})

\* f has the objects once for each of the first n paths, and then those of s.
Exactly(f, n, s) == \A o \in Objects : Times(o, f) = PathsWith(o, n) + Times(o, s)

\* Unless an error is held, the paths ahead have been printed, and of the path at
\* hand the rows that were read.
QueryInv ==
    cmd.kind = "query" =>
        /\ pc # "walk"
        /\ savedStatus = "ok" /\ pc = "query" =>
            /\ continueInx <= Len(Rows(i))
            /\ Exactly(printed, i - 1, SubSeq(Rows(i), 1, continueInx))
        /\ savedStatus = "ok" /\ pc # "query" => Exactly(printed, i - 1, <<>>)

LEMMA RowsType ==
    ASSUME tree \in Trees
    PROVE  \A n : Rows(n) \in Seq(Objects) /\ IsInjective(Rows(n))
BY MatchesType, MatchesOnce DEF Rows

\* The next path is one more for the objects in its rows.
LEMMA PathsWithNext ==
    \A o : \A n \in Nat :
        /\ PathsWith(o, n) \in Nat
        /\ PathsWith(o, n + 1) = PathsWith(o, n) + (IF o \in ToSet(Rows(n + 1)) THEN 1 ELSE 0)
<1> SUFFICES ASSUME NEW o, NEW n \in Nat
             PROVE  /\ PathsWith(o, n) \in Nat
                    /\ PathsWith(o, n + 1) = PathsWith(o, n)
                            + (IF o \in ToSet(Rows(n + 1)) THEN 1 ELSE 0)
    OBVIOUS
<1>1. PICK A : A = {k \in 1 .. n : o \in ToSet(Rows(k))}
    OBVIOUS
<1>2. PICK B : B = {k \in 1 .. n + 1 : o \in ToSet(Rows(k))}
    OBVIOUS
<1>3. IsFiniteSet(A)
    <2>1. IsFiniteSet(1 .. n)
        BY FS_Interval
    <2> QED
        BY <1>1, <2>1, FS_Subset
<1>4. PICK a \in Nat : a = Cardinality(A)
    BY <1>3, FS_CardinalityType
<1>5. 1 .. n + 1 = (1 .. n) \union {n + 1} /\ n + 1 \notin 1 .. n
    OBVIOUS
<1>6. CASE o \in ToSet(Rows(n + 1))
    <2>1. B = A \union {n + 1} /\ n + 1 \notin A
        BY <1>1, <1>2, <1>5, <1>6
    <2>2. Cardinality(B) = a + 1
        BY <1>3, <1>4, <2>1, FS_AddElement
    <2> QED
        BY <1>1, <1>2, <1>4, <1>6, <2>2 DEF PathsWith
<1>7. CASE o \notin ToSet(Rows(n + 1))
    <2>1. B = A
        BY <1>1, <1>2, <1>5, <1>7
    <2> QED
        BY <1>1, <1>2, <1>4, <1>7, <2>1 DEF PathsWith
<1> QED
    BY <1>6, <1>7

\* A page has the rows behind those that were read.
LEMMA PageRows ==
    ASSUME tree \in Trees, continueInx \in Nat, continueInx <= Len(Rows(i)), Page # <<>>
    PROVE  /\ Page \in Seq(Objects) /\ Len(Page) \in Nat
           /\ continueInx + Len(Page) <= Len(Rows(i))
           /\ SubSeq(Rows(i), 1, continueInx) \o Page
                = SubSeq(Rows(i), 1, continueInx + Len(Page))
<1>1. PICK rows \in Seq(Objects) : rows = Rows(i) /\ rows = Matches(Path)
    BY RowsType DEF Rows, Path
<1>2. PICK T : T = {Len(rows), continueInx + MAX_SQL_ROWS}
    OBVIOUS
<1>3. T \subseteq Nat /\ T # {} /\ \A x \in T : x >= continueInx
    BY <1>1, <1>2, CommandAssumption
<1>4. PICK m \in Nat : m = Min(T) /\ m <= Len(rows) /\ m >= continueInx
    BY <1>2, <1>3, MinOf
<1>5. PICK l \in Nat : l = continueInx /\ l <= m
    BY <1>4
<1>6. Page = SubSeq(rows, l + 1, m)
    BY <1>1, <1>2, <1>4, <1>5 DEF Page
<1>7. Page \in Seq(Objects) /\ Len(Page) = m - l
    <2>1. \A k \in l + 1 .. m : rows[k] \in Objects
        BY <1>1, <1>4, <1>5
    <2>2. PICK j \in Nat : j = l + 1
        OBVIOUS
    <2>3. /\ SubSeq(rows, j, m) \in Seq(Objects)
          /\ Len(SubSeq(rows, j, m)) = IF j <= m THEN m - j + 1 ELSE 0
        BY <2>1, <2>2, SubSeqProperties
    <2>4. (IF j <= m THEN m - j + 1 ELSE 0) = m - l
        BY <1>5, <2>2
    <2> QED
        BY <1>6, <2>2, <2>3, <2>4
<1>8. SubSeq(rows, 1, l) \o SubSeq(rows, l + 1, m) = SubSeq(rows, 1, m)
    <2>1. 1 \in 1 .. Len(rows) + 1 /\ l \in 1 - 1 .. Len(rows) /\ m \in l .. Len(rows)
        BY <1>1, <1>4, <1>5
    <2> QED
        BY <1>1, <2>1, ConcatAdjacentSubSeq
<1>9. continueInx + Len(Page) = m /\ Len(Page) \in Nat
    BY <1>5, <1>7
<1> QED
    BY <1>1, <1>4, <1>5, <1>6, <1>7, <1>8, <1>9

LEMMA RowsSame ==
    ASSUME UNCHANGED <<tree, cmd, avus>>
    PROVE  /\ \A n : Rows(n)' = Rows(n)
           /\ \A o, n : PathsWith(o, n)' = PathsWith(o, n)
           /\ \A f, n, s : Exactly(f, n, s)' = Exactly(f, n, s)
<1>1. \A p : Below(p)' = Below(p)
    BY ListingOfTree DEF Below
<1>2. \A p : Matches(p)' = Matches(p)
    BY <1>1 DEF Matches
<1>3. \A n : Rows(n)' = Rows(n)
    BY <1>2 DEF Rows
<1>4. \A o, n : PathsWith(o, n)' = PathsWith(o, n)
    BY <1>3 DEF PathsWith
<1> QED
    BY <1>3, <1>4 DEF Exactly

\* The steps of a query, which changes neither the tree nor the catalogue.
LEMMA QuerySteps ==
    ASSUME StackInv, QueryInv, cmd.kind = "query", [Next]_vars
    PROVE  /\ UNCHANGED <<tree, cmd, avus>>
           /\ \/ PathMissing \/ PathNotObject \/ PathQuery \/ Return \/ QueryPage \/ QueryEnd
              \/ UNCHANGED vars
<1>1. pc # "walk"
    BY DEF QueryInv
<1>2. ~PathObject /\ ~PathAggInfo /\ ~PathNotRecursive /\ ~PathColl
    BY DEF PathObject, PathAggInfo, PathNotRecursive, PathColl
<1>3. ~MemberObject /\ ~MemberSpecial /\ ~MemberColl /\ ~EndColl /\ ~ReadError
    BY <1>1 DEF MemberObject, MemberSpecial, MemberColl, EndColl, ReadError, AtMember
<1>4. \/ PathMissing \/ PathNotObject \/ PathQuery \/ Return \/ QueryPage \/ QueryEnd
      \/ UNCHANGED vars
    BY <1>2, <1>3 DEF Next, Step, Terminated
<1>5. UNCHANGED <<tree, cmd, avus>>
    BY <1>4 DEF PathMissing, PathNotObject, PathQuery, Return, QueryPage, QueryEnd, vars
<1> QED
    BY <1>4, <1>5

\* A query that holds an error promises nothing more.
LEMMA QueryFails ==
    ASSUME NEW st, st # "ok", Save(st), UNCHANGED cmd
    PROVE  QueryInv'
<1>1. savedStatus' # "ok" /\ pc' = "paths"
    BY DEF Save
<1> QED
    BY <1>1 DEF QueryInv

\* What is exact stays so in another state with the same rows.
LEMMA QueryIs ==
    ASSUME UNCHANGED <<tree, cmd, avus>>, pc' # "walk",
           NEW n, n = i', NEW f, f = printed', NEW l, l = continueInx',
           savedStatus' = "ok" /\ pc' = "query" =>
                l <= Len(Rows(n)) /\ Exactly(f, n - 1, SubSeq(Rows(n), 1, l)),
           savedStatus' = "ok" /\ pc' # "query" => Exactly(f, n - 1, <<>>)
    PROVE  QueryInv'
<1>1. \A m : Rows(m)' = Rows(m)
    BY RowsSame
<1>2. \A g, m, s : Exactly(g, m, s)' = Exactly(g, m, s)
    BY RowsSame
<1>3. Rows(i)' = Rows(n)
    BY <1>1
<1>4. \A m, s : Exactly(printed, m, s)' = Exactly(f, m, s)
    BY <1>2
<1> QED
    BY <1>3, <1>4 DEF QueryInv

LEMMA QueryStep == StackInv /\ MiscInv /\ QueryInv /\ [Next]_vars => QueryInv'
<1> SUFFICES ASSUME StackInv, MiscInv, QueryInv, [Next]_vars PROVE QueryInv'
    OBVIOUS
<1>0. CASE cmd.kind # "query"
    <2>1. cmd' = cmd
        BY DEF Next, Step, Terminated, vars, PathMissing, PathObject,
            PathNotObject, PathAggInfo, PathNotRecursive, PathColl, PathQuery, Return,
            MemberObject, MemberSpecial, MemberColl, EndColl, ReadError, QueryPage, QueryEnd
    <2> QED
        BY <1>0, <2>1 DEF QueryInv
<1> SUFFICES ASSUME cmd.kind = "query" PROVE QueryInv'
    BY <1>0
<1>1. UNCHANGED <<tree, cmd, avus>>
    BY QuerySteps
<1>2. CASE PathMissing
    BY <1>2, QueryFails DEF PathMissing
<1>3. CASE PathNotObject
    BY <1>3, QueryFails DEF PathNotObject
<1>4. CASE QueryEnd
    BY <1>4, QueryFails DEF QueryEnd
<1>5. tree \in Trees /\ i \in Nat /\ continueInx \in Nat
    BY DEF StackInv, MiscInv
<1>6. PICK rows \in Seq(Objects) : rows = Rows(i) /\ IsInjective(rows)
    BY <1>5, RowsType
<1>7. CASE PathQuery
    <2>1. pc = "paths" /\ pc' = "query" /\ continueInx' = 0 /\ UNCHANGED <<i, savedStatus, printed>>
        BY <1>7 DEF PathQuery, AtPath
    <2>2. SubSeq(rows, 1, 0) = <<>> /\ 0 <= Len(rows)
        BY SubSeqEmpty
    <2>3. savedStatus = "ok" => Exactly(printed, i - 1, <<>>)
        BY <2>1 DEF QueryInv
    <2> QED
        BY <1>1, <1>6, <2>1, <2>2, <2>3, QueryIs
<1>8. CASE Return
    <2>1. pc = "paths" /\ pc' = "done" /\ UNCHANGED <<i, savedStatus, printed>>
        BY <1>8 DEF Return
    <2>2. savedStatus = "ok" => Exactly(printed, i - 1, <<>>)
        BY <2>1 DEF QueryInv
    <2> QED
        BY <1>1, <2>1, <2>2, QueryIs
<1>9. CASE UNCHANGED vars
    <2>1. UNCHANGED <<i, savedStatus, printed, pc, continueInx>>
        BY <1>9 DEF vars
    <2> QED
        BY <1>1, <2>1, QueryIs DEF QueryInv
<1>10. CASE QueryPage
    <2>1. /\ pc = "query" /\ Page # <<>>
          /\ printed' = printed \o Page /\ continueInx' = continueInx + Len(Page)
          /\ \/ UNCHANGED <<pc, i, savedStatus>>
             \/ continueInx' = Len(Matches(Path)) /\ Save("ok")
        BY <1>10 DEF QueryPage
    <2>2. CASE savedStatus # "ok"
        <3>1. savedStatus' = savedStatus /\ pc' \in {"query", "paths"}
            BY <2>1 DEF Save
        <3> QED
            BY <2>2, <3>1, <1>1 DEF QueryInv
    <2>3. CASE savedStatus = "ok"
        <3>1. continueInx <= Len(rows) /\ Exactly(printed, i - 1, SubSeq(rows, 1, continueInx))
            BY <1>6, <2>1, <2>3 DEF QueryInv
        <3>2. /\ Page \in Seq(Objects) /\ Len(Page) \in Nat
              /\ continueInx + Len(Page) <= Len(rows)
              /\ SubSeq(rows, 1, continueInx) \o Page
                    = SubSeq(rows, 1, continueInx + Len(Page))
            BY <1>5, <1>6, <2>1, <3>1, PageRows
        <3>3. PICK l \in Nat, s \in Seq(Objects), p \in Seq(Objects) :
                /\ l = continueInx' /\ s = SubSeq(rows, 1, continueInx) /\ p = Page
                /\ l <= Len(rows)
            <4>1. \A k \in 1 .. continueInx : rows[k] \in Objects
                BY <3>1, <1>5
            <4>2. SubSeq(rows, 1, continueInx) \in Seq(Objects)
                BY <1>5, <4>1, SubSeqProperties
            <4>3. continueInx + Len(Page) \in Nat
                BY <1>5, <3>2
            <4> QED
                BY <2>1, <3>2, <4>2, <4>3
        <3>4. PICK t, f : /\ t = SubSeq(rows, 1, l) /\ t = s \o p
                          /\ f = printed' /\ f = printed \o p /\ printed \in Seq(Objects)
            BY <2>1, <3>2, <3>3 DEF MiscInv
        <3>5. Exactly(f, i - 1, t)
            <4> SUFFICES ASSUME NEW o \in Objects
                         PROVE  Times(o, f) = PathsWith(o, i - 1) + Times(o, t)
                BY DEF Exactly
            <4>1. Times(o, printed) = PathsWith(o, i - 1) + Times(o, s)
                BY <3>1, <3>3 DEF Exactly
            <4>2. Times(o, f) = Times(o, printed) + Times(o, p)
                BY <3>3, <3>4, CountConcat
            <4>3. Times(o, t) = Times(o, s) + Times(o, p)
                BY <3>3, <3>4, CountConcat
            <4>4. Times(o, s) \in Nat /\ Times(o, p) \in Nat /\ Times(o, printed) \in Nat
                BY <3>3, <3>4, CountType
            <4>5. PICK j \in Nat : j = i - 1
                BY DEF StackInv
            <4>6. PathsWith(o, i - 1) \in Nat
                BY <4>5, PathsWithNext
            <4> QED
                BY <4>1, <4>2, <4>3, <4>4, <4>6
        <3>6. CASE UNCHANGED <<pc, i, savedStatus>>
            BY <1>1, <1>6, <2>1, <3>3, <3>4, <3>5, <3>6, QueryIs
        <3>7. CASE continueInx' = Len(Matches(Path)) /\ Save("ok")
            <4>1. l = Len(rows) /\ i' = i + 1 /\ pc' = "paths" /\ savedStatus' = "ok"
                BY <1>6, <2>3, <3>3, <3>7 DEF Save, Rows, Path
            <4>2. t = rows
                BY <3>4, <4>1, SubSeqFull
            <4>3. PICK j \in Nat : j = i - 1 /\ j + 1 = i
                BY DEF StackInv
            <4>4. Exactly(f, i, <<>>)
                <5> SUFFICES ASSUME NEW o \in Objects
                             PROVE  Times(o, f) = PathsWith(o, i) + Times(o, <<>>)
                    BY DEF Exactly
                <5>1. Times(o, f) = PathsWith(o, j) + Times(o, rows)
                    BY <3>5, <4>2, <4>3 DEF Exactly
                <5>2. Times(o, rows) = IF o \in ToSet(rows) THEN 1 ELSE 0
                    BY <1>6, CountOnce
                <5>3. PathsWith(o, i) = PathsWith(o, j) + (IF o \in ToSet(rows) THEN 1 ELSE 0)
                    BY <1>6, <4>3, PathsWithNext
                <5>4. Times(o, <<>>) = 0 /\ PathsWith(o, i) \in Nat
                    BY <1>5, CountEmpty, PathsWithNext
                <5> QED
                    BY <5>1, <5>2, <5>3, <5>4
            <4>5. PICK n : n = i' /\ n - 1 = i
                BY <1>5, <4>1
            <4> QED
                BY <1>1, <3>3, <3>4, <4>1, <4>4, <4>5, QueryIs
        <3> QED
            BY <2>1, <3>6, <3>7
    <2> QED
        BY <2>2, <2>3
<1> QED
    BY <1>2, <1>3, <1>4, <1>7, <1>8, <1>9, <1>10, QuerySteps

LEMMA QueryInit == Init => QueryInv
<1> SUFFICES ASSUME Init PROVE QueryInv
    OBVIOUS
<1>1. i - 1 = 0 /\ printed = <<>> /\ pc = "paths"
    BY DEF Init
<1>2. \A o : PathsWith(o, 0) = 0
    <2>1. 1 .. 0 = {}
        OBVIOUS
    <2> QED
        BY <2>1, FS_EmptySet DEF PathsWith
<1>3. Exactly(<<>>, 0, <<>>)
    BY <1>2, CountEmpty DEF Exactly
<1> QED
    BY <1>1, <1>3 DEF QueryInv

\* A query that answered ok (queryAUVForDataObj) has printed each object once for each
\* path it is below, whatever the size of the pages and of the trees.
THEOREM WalkQueryExact == Spec => []QueryExact
<1>1. StackInv /\ QueryInv => QueryExact
    <2> SUFFICES ASSUME StackInv, QueryInv, Ok, cmd.kind = "query", NEW o \in Objects
                 PROVE  Times(o, printed) = Cardinality({k \in DOMAIN cmd.srcPath :
                                                o \in ToSet(Matches(cmd.srcPath[k]))})
        BY DEF QueryExact, Times
    <2>1. cmd.srcPath \in Seq(Colls \union Objects \union {Missing})
        BY CommandAssumption DEF IsCommand, StackInv
    <2>2. PICK n \in Nat : n = Len(cmd.srcPath) /\ n = i - 1 /\ DOMAIN cmd.srcPath = 1 .. n
        BY <2>1 DEF StackInv, Ok
    <2>3. Times(o, printed) = PathsWith(o, n) + Times(o, <<>>)
        BY <2>2 DEF QueryInv, Ok, Exactly
    <2>4. Times(o, <<>>) = 0 /\ PathsWith(o, n) \in Nat
        BY CountEmpty, PathsWithNext
    <2>5. PathsWith(o, n) = Cardinality({k \in DOMAIN cmd.srcPath :
                                o \in ToSet(Matches(cmd.srcPath[k]))})
        BY <2>2 DEF PathsWith, Rows
    <2> QED
        BY <2>3, <2>4, <2>5
<1>2. QueryInv /\ WalkIInv /\ [Next]_vars => QueryInv'
    BY QueryStep DEF WalkIInv
<1>3. WalkIInv => StackInv
    BY DEF WalkIInv
<1> QED
    BY <1>1, <1>2, <1>3, WalkInductive, QueryInit, PTL DEF Spec
=============================================================================
