---------------------------- MODULE H5WalkProofs ----------------------------
(***************************************************************************)
(* Theorems about H5File_get_structure, for any files and builds: the tree *)
(* of a file without loops is the file's, and what ends the process.       *)
(***************************************************************************)
EXTENDS H5Walk, CommonLemmas
-----------------------------------------------------------------------------
(* Paths *)

\* The groups that are one link from those in prev.
Below(q) == {[path |-> Append(q.path, i), objno |-> file.members[q.objno][i].objno] :
                i \in MembersOf(q.objno, {"H5G_GROUP"})}

Links(n, prev) == IF n = 0 THEN {[path |-> <<>>, objno |-> RootGroup]}
                  ELSE UNION {Below(q) : q \in prev}

IsPaths(M, f) == f = [n \in 0 .. M |-> Links(n, f[n - 1])]

\* There are such paths up to any length.
LEMMA PathsExist == \A M \in Nat : \E f : IsPaths(M, f)
<1> DEFINE T == {M \in Nat : \E f : IsPaths(M, f)}
<1>0. \A f, g : Links(0, f) = Links(0, g)
    BY DEF Links
<1>1. 0 \in T
    <2> DEFINE f == [n \in 0 .. 0 |-> Links(n, <<>>)]
    <2>1. \A n \in 0 .. 0 : Links(n, <<>>) = Links(n, f[n - 1])
        <3> SUFFICES ASSUME NEW n \in 0 .. 0
                     PROVE  Links(n, <<>>) = Links(n, f[n - 1])
            OBVIOUS
        <3>1. n = 0
            OBVIOUS
        <3> HIDE DEF f
        <3> QED
            BY <3>1, <1>0
    <2>2. IsPaths(0, f)
        BY <2>1 DEF IsPaths
    <2> HIDE DEF f
    <2> QED
        BY <2>2
<1>2. ASSUME NEW M \in Nat, M \in T
      PROVE  M + 1 \in T
    <2>1. PICK f : IsPaths(M, f)
        BY <1>2
    <2> DEFINE g == [n \in 0 .. M + 1 |-> IF n <= M THEN f[n] ELSE Links(n, f[n - 1])]
    <2>2. ASSUME NEW n \in 0 .. M + 1
          PROVE  g[n] = Links(n, g[n - 1])
        <3>1. g[n] = Links(n, f[n - 1])
            <4>1. CASE n <= M
                <5>1. n \in 0 .. M
                    BY <4>1
                <5>2. f[n] = Links(n, f[n - 1])
                    BY <2>1, <5>1 DEF IsPaths
                <5> QED
                    BY <4>1, <5>2
            <4>2. CASE ~ (n <= M)
                BY <4>2
            <4> QED
                BY <4>1, <4>2
        <3>2. CASE n = 0
            <4> HIDE DEF g
            <4> QED
                BY <3>1, <3>2, <1>0
        <3>3. CASE n # 0
            <4>1. PICK j : j = n - 1
                OBVIOUS
            <4>2. j \in 0 .. M + 1 /\ j <= M
                BY <3>3, <4>1
            <4>3. g[j] = f[j]
                BY <4>2
            <4> HIDE DEF g
            <4> QED
                BY <3>1, <4>1, <4>3
        <3> QED
            BY <3>2, <3>3
    <2>3. g = [n \in 0 .. M + 1 |-> g[n]]
        OBVIOUS
    <2> HIDE DEF g
    <2>4. IsPaths(M + 1, g)
        BY <2>2, <2>3 DEF IsPaths
    <2> QED
        BY <2>4
<1> HIDE DEF T
<1>3. \A M \in Nat : M \in T
    BY <1>1, <1>2, NatInd
<1> QED
    BY <1>3 DEF T

\* GroupPaths is what its definition says.
LEMMA PathsIs == IsPaths(StackSize, GroupPaths)
<1> DEFINE F == CHOOSE f : f = [n \in 0 .. StackSize |->
                IF n = 0 THEN {[path |-> <<>>, objno |-> RootGroup]}
                ELSE UNION {{[path |-> Append(q.path, i),
                              objno |-> file.members[q.objno][i].objno] :
                                i \in MembersOf(q.objno, {"H5G_GROUP"})} : q \in f[n - 1]}]
<1>1. GroupPaths = F
    BY Zenon DEF GroupPaths
<1>2. PICK f : IsPaths(StackSize, f)
    BY WalkAssumption, PathsExist
<1>3. f = [n \in 0 .. StackSize |->
                IF n = 0 THEN {[path |-> <<>>, objno |-> RootGroup]}
                ELSE UNION {{[path |-> Append(q.path, i),
                              objno |-> file.members[q.objno][i].objno] :
                                i \in MembersOf(q.objno, {"H5G_GROUP"})} : q \in f[n - 1]}]
    BY <1>2, Zenon DEF IsPaths, Links, Below
<1>4. F = [n \in 0 .. StackSize |->
                IF n = 0 THEN {[path |-> <<>>, objno |-> RootGroup]}
                ELSE UNION {{[path |-> Append(q.path, i),
                              objno |-> file.members[q.objno][i].objno] :
                                i \in MembersOf(q.objno, {"H5G_GROUP"})} : q \in F[n - 1]}]
    BY <1>3, Zenon
<1> HIDE DEF F
<1>5. IsPaths(StackSize, F)
    BY <1>4, Zenon DEF IsPaths, Links, Below
<1> QED
    BY <1>1, <1>5, Zenon

\* The paths of each length.
LEMMA PathsAt ==
    \A n \in 0 .. StackSize : GroupPaths[n] = Links(n, GroupPaths[n - 1])
<1>1. PICK f : f = GroupPaths
    OBVIOUS
<1>2. f = [n \in 0 .. StackSize |-> Links(n, f[n - 1])]
    BY <1>1, PathsIs DEF IsPaths
<1>3. \A n \in 0 .. StackSize : f[n] = Links(n, f[n - 1])
    BY <1>2
<1> QED
    BY <1>1, <1>3

\* o are the groups that the first n - 1 members of p lead through.
Along(p, o, n) ==
    /\ o \in [1 .. n -> Groups]
    /\ o[1] = RootGroup
    /\ \A k \in 1 .. n - 1 : /\ p[k] \in MembersOf(o[k], {"H5G_GROUP"})
                             /\ o[k + 1] = file.members[o[k]][p[k]].objno

\* p leads to the group g.
LeadsTo(n, p, g) ==
    p \in Seq(Nat) /\ Len(p) = n /\ \E o : Along(p, o, n + 1) /\ o[n + 1] = g

\* p leads to a member that the tree has, by way of the groups o.
ToMember(p, o) ==
    /\ p \in Seq(Nat) /\ Len(p) \in 1 .. StackSize
    /\ Along(p, o, Len(p))
    /\ p[Len(p)] \in MembersOf(o[Len(p)], {"H5G_GROUP", "H5G_DATASET"})

\* The members of a group have places in its list.
LEMMA MembersOfType ==
    ASSUME file \in Files, NEW g \in Groups, NEW types
    PROVE  MembersOf(g, types) \subseteq 1 .. Len(file.members[g])
           /\ file.members[g] \in Seq([type : Kinds, objno : Groups])
           /\ \A i \in MembersOf(g, types) : i \in Nat /\ file.members[g][i].objno \in Groups
<1>1. file.members[g] \in Seq([type : Kinds, objno : Groups])
    BY WalkAssumption
<1>2. PICK s \in Seq([type : Kinds, objno : Groups]) : s = file.members[g]
    BY <1>1
<1>3. DOMAIN s = 1 .. Len(s) /\ \A i \in 1 .. Len(s) : i \in Nat /\ s[i].objno \in Groups
    <2> DEFINE E == [type : Kinds, objno : Groups]
    <2> HIDE DEF E
    <2>1. s \in Seq(E)
        BY DEF E
    <2>2. DOMAIN s = 1 .. Len(s) /\ \A i \in 1 .. Len(s) : i \in Nat /\ s[i] \in E
        BY <2>1
    <2>3. \A x \in E : x.objno \in Groups
        BY DEF E
    <2> QED
        BY <2>2, <2>3
<1>4. MembersOf(g, types) \subseteq DOMAIN s
    BY <1>2 DEF MembersOf
<1> QED
    BY <1>2, <1>3, <1>4

\* One link more.
LEMMA LeadsOn ==
    ASSUME file \in Files, NEW n \in Nat, NEW p, NEW g, LeadsTo(n, p, g),
           NEW i \in MembersOf(g, {"H5G_GROUP"})
    PROVE  LeadsTo(n + 1, Append(p, i), file.members[g][i].objno)
<1>1. PICK o : Along(p, o, n + 1) /\ o[n + 1] = g
    BY DEF LeadsTo
<1>2. p \in Seq(Nat) /\ Len(p) = n
    BY DEF LeadsTo
<1>3. g \in Groups
    BY <1>1 DEF Along
<1>4. i \in Nat /\ file.members[g][i].objno \in Groups
    BY <1>3, MembersOfType
<1>5. PICK h : h = file.members[g][i].objno /\ h \in Groups
    BY <1>4
<1>6. PICK q : q = Append(p, i)
    OBVIOUS
<1>7. q \in Seq(Nat) /\ Len(q) = n + 1 /\ q[n + 1] = i /\ \A k \in 1 .. n : q[k] = p[k]
    BY <1>2, <1>4, <1>6
<1>8. PICK m \in Nat : m = n + 1
    OBVIOUS
<1> DEFINE r == [k \in 1 .. m + 1 |-> IF k <= m THEN o[k] ELSE h]
<1>9. o \in [1 .. m -> Groups]
    BY <1>1, <1>8 DEF Along
<1>10. r \in [1 .. m + 1 -> Groups] /\ r[m + 1] = h /\ \A k \in 1 .. m : r[k] = o[k]
    BY <1>5, <1>8, <1>9
<1> HIDE DEF r
<1>11. r[1] = RootGroup
    BY <1>1, <1>8, <1>10 DEF Along
<1>12. ASSUME NEW k \in 1 .. m
       PROVE  q[k] \in MembersOf(r[k], {"H5G_GROUP"})
              /\ r[k + 1] = file.members[r[k]][q[k]].objno
    <2>1. CASE k = m
        BY <2>1, <1>1, <1>5, <1>7, <1>8, <1>10
    <2>2. CASE k # m
        <3>1. k \in 1 .. n /\ k + 1 \in 1 .. m
            BY <2>2, <1>8
        <3>2. p[k] \in MembersOf(o[k], {"H5G_GROUP"}) /\ o[k + 1] = file.members[o[k]][p[k]].objno
            BY <3>1, <1>1 DEF Along
        <3> QED
            BY <3>1, <3>2, <1>7, <1>10
    <2> QED
        BY <2>1, <2>2
<1>13. Along(q, r, m + 1)
    BY <1>10, <1>11, <1>12, <1>8 DEF Along
<1> QED
    BY <1>5, <1>6, <1>7, <1>8, <1>10, <1>13 DEF LeadsTo

\* One link less.
LEMMA LeadsBack ==
    ASSUME file \in Files, NEW n \in Nat, NEW p, NEW g, LeadsTo(n + 1, p, g)
    PROVE  \E q, h : LeadsTo(n, q, h) /\ \E i \in MembersOf(h, {"H5G_GROUP"}) :
                p = Append(q, i) /\ g = file.members[h][i].objno
<1>1. PICK m \in Nat : m = n + 1
    OBVIOUS
<1>2. PICK o : Along(p, o, m + 1) /\ o[m + 1] = g
    BY <1>1 DEF LeadsTo
<1>3. p \in Seq(Nat) /\ Len(p) = m
    BY <1>1 DEF LeadsTo
<1>4. p[m] \in MembersOf(o[m], {"H5G_GROUP"}) /\ g = file.members[o[m]][p[m]].objno
    BY <1>1, <1>2 DEF Along
<1>5. PICK q : q \in Seq(Nat) /\ Len(q) = n /\ p = Append(q, p[m]) /\ \A k \in 1 .. n : q[k] = p[k]
    <2>1. SubSeq(p, 1, n) \in Seq(Nat) /\ Len(SubSeq(p, 1, n)) = n
          /\ \A k \in 1 .. n : SubSeq(p, 1, n)[k] = p[k]
        BY <1>1, <1>3
    <2>2. PICK q \in Seq(Nat) : Len(q) = n /\ \A k \in 1 .. n : q[k] = p[k]
        BY <2>1
    <2>3. p[m] \in Nat
        BY <1>1, <1>3
    <2>4. p = Append(q, p[m])
        BY <1>1, <1>3, <2>2, <2>3
    <2> QED
        BY <2>2, <2>4
<1> DEFINE r == [k \in 1 .. m |-> o[k]]
<1>6. r \in [1 .. m -> Groups] /\ \A k \in 1 .. m : r[k] = o[k]
    BY <1>2 DEF Along
<1> HIDE DEF r
<1>7. \A k \in 1 .. n : /\ p[k] \in MembersOf(o[k], {"H5G_GROUP"})
                        /\ o[k + 1] = file.members[o[k]][p[k]].objno
    BY <1>1, <1>2 DEF Along
<1>8. r[1] = RootGroup
    BY <1>1, <1>2, <1>6 DEF Along
<1>9. ASSUME NEW k \in 1 .. n
      PROVE  q[k] \in MembersOf(r[k], {"H5G_GROUP"})
             /\ r[k + 1] = file.members[r[k]][q[k]].objno
    <2>1. k \in 1 .. m /\ k + 1 \in 1 .. m
        BY <1>1
    <2> QED
        BY <2>1, <1>5, <1>6, <1>7
<1>10. Along(q, r, n + 1)
    BY <1>1, <1>6, <1>8, <1>9 DEF Along
<1>11. LeadsTo(n, q, o[m])
    BY <1>1, <1>5, <1>6, <1>10, SMTT(30) DEF LeadsTo
<1> QED
    BY <1>4, <1>5, <1>11

\* GroupPaths are the paths that lead to a group, with the group.
LEMMA PathsLead ==
    ASSUME file \in Files
    PROVE  \A n \in 0 .. StackSize : \A x : x \in GroupPaths[n] <=>
                \E p, g : x = [path |-> p, objno |-> g] /\ LeadsTo(n, p, g)
<1> DEFINE Is(n) == \A x : x \in GroupPaths[n] <=>
                        \E p, g : x = [path |-> p, objno |-> g] /\ LeadsTo(n, p, g)
           T == {n \in Nat : n <= StackSize => Is(n)}
<1>0. StackSize \in Nat
    BY WalkAssumption
<1>1. 0 \in T
    <2>1. GroupPaths[0] = {[path |-> <<>>, objno |-> RootGroup]}
        <3>1. 0 \in 0 .. StackSize
            BY <1>0
        <3> QED
            BY <3>1, PathsAt DEF Links
    <2>2. LeadsTo(0, <<>>, RootGroup)
        <3>1. Along(<<>>, [k \in 1 .. 1 |-> RootGroup], 1)
            BY WalkAssumption DEF Along
        <3> QED
            BY <3>1 DEF LeadsTo
    <2>3. ASSUME NEW p, NEW g, LeadsTo(0, p, g)
          PROVE  p = <<>> /\ g = RootGroup
        BY <2>3 DEF LeadsTo, Along
    <2>4. Is(0)
        BY <2>1, <2>2, <2>3
    <2> QED
        BY <2>4
<1>2. ASSUME NEW n \in Nat, n \in T
      PROVE  n + 1 \in T
    <2> SUFFICES ASSUME n + 1 <= StackSize
                 PROVE  Is(n + 1)
        OBVIOUS
    <2>1. Is(n)
        BY <1>0, <1>2
    <2>2. PICK m \in 1 .. StackSize : m = n + 1 /\ m - 1 = n /\ m # 0
        BY <1>0
    <2> HIDE DEF Is, T
    <2>3. GroupPaths[m] = UNION {Below(q) : q \in GroupPaths[n]}
        <3>1. m \in 0 .. StackSize
            OBVIOUS
        <3> QED
            BY <2>2, <3>1, PathsAt DEF Links
    <2>4. ASSUME NEW x, x \in GroupPaths[m]
          PROVE  \E p, g : x = [path |-> p, objno |-> g] /\ LeadsTo(m, p, g)
        <3>1. PICK q : q \in GroupPaths[n] /\ x \in Below(q)
            BY <2>3, <2>4
        <3>2. PICK p, g : q = [path |-> p, objno |-> g] /\ LeadsTo(n, p, g)
            BY <2>1, <3>1 DEF Is
        <3>3. q.path = p /\ q.objno = g
            BY <3>2
        <3>4. PICK i \in MembersOf(g, {"H5G_GROUP"}) :
                x = [path |-> Append(p, i), objno |-> file.members[g][i].objno]
            BY <3>1, <3>3 DEF Below
        <3>5. LeadsTo(n + 1, Append(p, i), file.members[g][i].objno)
            BY <3>2, LeadsOn
        <3> QED
            BY <2>2, <3>4, <3>5
    <2>5. ASSUME NEW x, NEW p, NEW g, x = [path |-> p, objno |-> g], LeadsTo(m, p, g)
          PROVE  x \in GroupPaths[m]
        <3>1. PICK q, h : LeadsTo(n, q, h) /\ \E i \in MembersOf(h, {"H5G_GROUP"}) :
                p = Append(q, i) /\ g = file.members[h][i].objno
            BY <2>2, <2>5, LeadsBack
        <3>2. PICK y : y = [path |-> q, objno |-> h]
            OBVIOUS
        <3>3. y \in GroupPaths[n]
            BY <2>1, <3>1, <3>2 DEF Is
        <3>4. y.path = q /\ y.objno = h
            BY <3>2
        <3>5. x \in Below(y)
            BY <2>5, <3>1, <3>4 DEF Below
        <3> QED
            BY <2>3, <3>3, <3>5
    <2> QED
        BY <2>2, <2>4, <2>5 DEF Is
<1> HIDE DEF T
<1>3. \A n \in Nat : n \in T
    BY <1>1, <1>2, NatInd
<1> QED
    BY <1>0, <1>3 DEF T

\* FilePaths are the paths that lead to a group or a dataset.
LEMMA FilePathsAre ==
    ASSUME file \in Files
    PROVE  \A p : p \in FilePaths <=> \E o : ToMember(p, o)
<1> SUFFICES ASSUME NEW p
             PROVE  p \in FilePaths <=> \E o : ToMember(p, o)
    OBVIOUS
<1> DEFINE Types == {"H5G_GROUP", "H5G_DATASET"}
<1>0. StackSize \in Nat \ {0}
    BY WalkAssumption
<1>1. p \in FilePaths <=> \E n \in 0 .. StackSize - 1 : \E x \in GroupPaths[n] :
                            \E i \in MembersOf(x.objno, Types) : p = Append(x.path, i)
    BY DEF FilePaths
<1>2. p \in FilePaths <=> \E n \in 0 .. StackSize - 1 : \E q, g : LeadsTo(n, q, g) /\
                            \E i \in MembersOf(g, Types) : p = Append(q, i)
    <2>1. ASSUME NEW n \in 0 .. StackSize - 1, NEW x \in GroupPaths[n],
                 NEW i \in MembersOf(x.objno, Types), p = Append(x.path, i)
          PROVE  \E q, g : LeadsTo(n, q, g) /\ \E j \in MembersOf(g, Types) : p = Append(q, j)
        <3>1. n \in 0 .. StackSize
            BY <1>0
        <3>2. PICK q, g : x = [path |-> q, objno |-> g] /\ LeadsTo(n, q, g)
            BY <3>1, PathsLead
        <3>3. x.path = q /\ x.objno = g
            BY <3>2
        <3> QED
            BY <2>1, <3>2, <3>3
    <2>2. ASSUME NEW n \in 0 .. StackSize - 1, NEW q, NEW g, LeadsTo(n, q, g),
                 NEW i \in MembersOf(g, Types), p = Append(q, i)
          PROVE  \E x \in GroupPaths[n] : \E j \in MembersOf(x.objno, Types) : p = Append(x.path, j)
        <3>1. n \in 0 .. StackSize
            BY <1>0
        <3>2. PICK x : x = [path |-> q, objno |-> g]
            OBVIOUS
        <3>3. x \in GroupPaths[n]
            BY <2>2, <3>1, <3>2, PathsLead
        <3>4. x.path = q /\ x.objno = g
            BY <3>2
        <3> QED
            BY <2>2, <3>3, <3>4
    <2> QED
        BY <1>1, <2>1, <2>2
<1>3. ASSUME NEW n \in 0 .. StackSize - 1, NEW q, NEW g, LeadsTo(n, q, g),
             NEW i \in MembersOf(g, Types), p = Append(q, i)
      PROVE  \E o : ToMember(p, o)
    <2>1. PICK o : Along(q, o, n + 1) /\ o[n + 1] = g
        BY <1>3 DEF LeadsTo
    <2>2. q \in Seq(Nat) /\ Len(q) = n
        BY <1>3 DEF LeadsTo
    <2>3. i \in Nat
        <3>1. g \in Groups
            BY <2>1 DEF Along
        <3> QED
            BY <3>1, MembersOfType
    <2>4. p \in Seq(Nat) /\ Len(p) = n + 1 /\ p[n + 1] = i /\ \A k \in 1 .. n : p[k] = q[k]
        BY <1>3, <2>2, <2>3
    <2>5. Along(p, o, n + 1)
        <3>1. 1 .. (n + 1) - 1 = 1 .. n
            BY <1>0
        <3>2. \A k \in 1 .. n : /\ q[k] \in MembersOf(o[k], {"H5G_GROUP"})
                               /\ o[k + 1] = file.members[o[k]][q[k]].objno
            BY <2>1, <3>1, Zenon DEF Along
        <3>3. \A k \in 1 .. n : /\ p[k] \in MembersOf(o[k], {"H5G_GROUP"})
                               /\ o[k + 1] = file.members[o[k]][p[k]].objno
            BY <2>4, <3>2, Zenon
        <3> QED
            BY <2>1, <3>1, <3>3, Zenon DEF Along
    <2>6. ToMember(p, o)
        BY <1>0, <2>1, <2>4, <2>5 DEF ToMember
    <2> QED
        BY <2>6
<1>4. ASSUME NEW o, ToMember(p, o)
      PROVE  \E n \in 0 .. StackSize - 1 : \E q, g : LeadsTo(n, q, g) /\
                \E i \in MembersOf(g, Types) : p = Append(q, i)
    <2>1. PICK m \in 1 .. StackSize : m = Len(p)
        BY <1>0, <1>4 DEF ToMember
    <2>2. PICK n \in 0 .. StackSize - 1 : m = n + 1
        BY <1>0
    <2>3. p \in Seq(Nat) /\ Along(p, o, m) /\ p[m] \in MembersOf(o[m], Types)
        BY <1>4, <2>1 DEF ToMember
    <2>4. PICK q \in Seq(Nat) : Len(q) = n /\ p = Append(q, p[m]) /\ \A k \in 1 .. n : q[k] = p[k]
        <3>1. p \in Seq(Nat) /\ Len(p) = m /\ n \in Nat /\ m \in Nat /\ m = n + 1
            BY <1>0, <2>1, <2>2, <2>3
        <3> HIDE DEF Types
        <3>2. SubSeq(p, 1, n) \in Seq(Nat) /\ Len(SubSeq(p, 1, n)) = n
              /\ \A k \in 1 .. n : SubSeq(p, 1, n)[k] = p[k]
            BY <3>1
        <3>3. PICK q \in Seq(Nat) : Len(q) = n /\ \A k \in 1 .. n : q[k] = p[k]
            BY <3>2
        <3>4. p[m] \in Nat
            BY <3>1
        <3>5. p = Append(q, p[m])
            BY <3>1, <3>3, <3>4
        <3> QED
            BY <3>3, <3>5
    <2>5. Along(q, o, n + 1)
        BY <2>2, <2>3, <2>4 DEF Along
    <2>6. LeadsTo(n, q, o[m])
        BY <2>2, <2>4, <2>5 DEF LeadsTo
    <2> QED
        BY <2>3, <2>4, <2>6
<1> QED
    BY <1>2, <1>3, <1>4

\* The groups on the way are those of the path.
LEMMA SameWay ==
    ASSUME NEW n \in Nat, NEW m \in Nat, NEW p, NEW q, NEW o, NEW r,
           Along(p, o, n), Along(q, r, m),
           NEW l \in Nat, l >= 1, l <= n, l <= m, \A k \in 1 .. l - 1 : p[k] = q[k]
    PROVE  o[l] = r[l]
<1> DEFINE T == {j \in Nat : j \in 1 .. l => o[j] = r[j]}
<1>1. 0 \in T
    OBVIOUS
<1>2. ASSUME NEW j \in Nat, j \in T
      PROVE  j + 1 \in T
    <2> SUFFICES ASSUME j + 1 \in 1 .. l
                 PROVE  o[j + 1] = r[j + 1]
        OBVIOUS
    <2>1. CASE j = 0
        <3>1. o[1] = RootGroup /\ r[1] = RootGroup
            BY DEF Along
        <3> QED
            BY <2>1, <3>1
    <2>2. CASE j # 0
        <3>1. j \in 1 .. l /\ j \in 1 .. n - 1 /\ j \in 1 .. m - 1 /\ j \in 1 .. l - 1
            BY <2>2
        <3>2. o[j] = r[j] /\ p[j] = q[j]
            BY <1>2, <3>1
        <3>3. o[j + 1] = file.members[o[j]][p[j]].objno /\ r[j + 1] = file.members[r[j]][q[j]].objno
            BY <3>1 DEF Along
        <3> QED
            BY <3>2, <3>3
    <2> QED
        BY <2>1, <2>2
<1> HIDE DEF T
<1>3. \A j \in Nat : j \in T
    BY <1>1, <1>2, NatInd
<1> QED
    BY <1>3 DEF T

\* When each group of a set has a member in the set, paths have no end.
LEMMA Endless ==
    ASSUME file \in Files, NEW C, RootGroup \in C,
           \A g \in C : \E i \in MembersOf(g, {"H5G_GROUP"}) : file.members[g][i].objno \in C
    PROVE  ~ Acyclic
<1> DEFINE T == {n \in Nat : \E g \in C : \E p : LeadsTo(n, p, g)}
<1>1. 0 \in T
    <2>1. Along(<<>>, [k \in 1 .. 1 |-> RootGroup], 1)
        BY WalkAssumption DEF Along
    <2>2. LeadsTo(0, <<>>, RootGroup)
        BY <2>1 DEF LeadsTo
    <2> QED
        BY <2>2
<1>2. ASSUME NEW n \in Nat, n \in T
      PROVE  n + 1 \in T
    <2>1. PICK g \in C : \E p : LeadsTo(n, p, g)
        BY <1>2
    <2>2. PICK i \in MembersOf(g, {"H5G_GROUP"}) : file.members[g][i].objno \in C
        BY <2>1
    <2>3. PICK p : LeadsTo(n, p, g)
        BY <2>1
    <2>4. LeadsTo(n + 1, Append(p, i), file.members[g][i].objno)
        BY <2>3, LeadsOn
    <2> QED
        BY <2>2, <2>4
<1> HIDE DEF T
<1>3. \A n \in Nat : n \in T
    BY <1>1, <1>2, NatInd
<1>4. PICK p, g : LeadsTo(StackSize, p, g)
    BY <1>3, WalkAssumption DEF T
<1>5. StackSize \in 0 .. StackSize
    BY WalkAssumption
<1>6. [path |-> p, objno |-> g] \in GroupPaths[StackSize]
    BY <1>4, <1>5, PathsLead
<1> QED
    BY <1>6 DEF Acyclic

GroupPathsOf(f) ==
    CHOOSE paths : paths = [n \in 0 .. StackSize |->
        IF n = 0 THEN {[path |-> <<>>, objno |-> RootGroup]}
        ELSE UNION {{[path |-> Append(q.path, i), objno |-> f.members[q.objno][i].objno] :
                        i \in {j \in DOMAIN f.members[q.objno] :
                                /\ q.objno \notin f.unreadable
                                    /\ (f.members[q.objno] # <<>> => q.objno \notin f.uniterable)
                                /\ f.members[q.objno][j].type \in {"H5G_GROUP"}}} :
                        q \in paths[n - 1]}]

\* What is asked of the file stays with it.
LEMMA SameFile ==
    ASSUME file' = file
    PROVE  (Acyclic <=> Acyclic') /\ (\A p, o : ToMember(p, o) <=> ToMember(p, o)')
           /\ \A g, types : MembersOf(g, types)' = MembersOf(g, types)
<1>1. GroupPaths = GroupPathsOf(file)
    BY Zenon DEF GroupPaths, GroupPathsOf, MembersOf, Readable
<1>2. GroupPaths' = GroupPathsOf(file')
    BY Zenon DEF GroupPaths, GroupPathsOf, MembersOf, Readable
<1>3. GroupPaths' = GroupPaths
    BY <1>1, <1>2
<1>4. \A g, types : MembersOf(g, types)' = MembersOf(g, types)
    BY DEF MembersOf, Readable
<1>5. \A p, o : ToMember(p, o) <=> ToMember(p, o)'
    BY <1>4 DEF ToMember, Along
<1> QED
    BY <1>3, <1>4, <1>5 DEF Acyclic
-----------------------------------------------------------------------------
(* The calls *)

\* The call at k is for the member that the call ahead of it is at, one back
\* from where that one goes on.
FrameOK(s, k) ==
    /\ Len(s[k].fullpath) = k - 1
    /\ \A j \in 1 .. k - 1 : s[k].fullpath[j] = s[j].i - 1
    /\ s[k].objID = IF k = 1 THEN 0 ELSE s[k].objno
    /\ s[k].i # 0 => Readable(s[k].objno)
    /\ s[k].i <= Len(file.members[s[k].objno]) + 1

LinkOK(s, k) ==
    /\ s[k].i - 1 \in MembersOf(s[k].objno, {"H5G_GROUP"})
    /\ s[k + 1].objno = file.members[s[k].objno][s[k].i - 1].objno

StackOK(s) ==
    /\ s \in Seq(Frame) /\ Len(s) <= StackSize
    /\ s # <<>> => s[1].objno = RootGroup
    /\ \A k \in 1 .. Len(s) : FrameOK(s, k)
    /\ \A k \in 1 .. Len(s) - 1 : LinkOK(s, k)

CallsInv ==
    /\ sizeofLong \in LongSizes
    /\ file \in Files
    /\ StackOK(stack)
    /\ status \in {"walking", "done", "faulted"}
    /\ stack = <<>> <=> status = "done"

\* The elements of a stack.
LEMMA StackElements ==
    ASSUME StackOK(stack), stack # <<>>
    PROVE  /\ Len(stack) \in Nat /\ Len(stack) # 0
           /\ Top \in Frame
           /\ \A k \in 1 .. Len(stack) : /\ stack[k] \in Frame
                                         /\ stack[k].objno \in Groups
                                         /\ stack[k].objID \in Groups \union {0}
                                         /\ stack[k].fullpath \in Seq(Nat)
                                         /\ stack[k].i \in Nat
<1> DEFINE n == Len(stack)
<1>1. stack \in Seq(Frame)
    BY DEF StackOK
<1> HIDE DEF n
<1>2. Len(stack) \in Nat /\ Len(stack) # 0 /\ \A k \in 1 .. Len(stack) : stack[k] \in Frame
    BY <1>1
<1>3. \A f \in Frame : f.objno \in Groups /\ f.objID \in Groups \union {0}
                       /\ f.fullpath \in Seq(Nat) /\ f.i \in Nat
    BY DEF Frame
<1> QED
    BY <1>2, <1>3 DEF Top

\* The loop goes on.
LEMMA Advanced ==
    ASSUME StackOK(stack), stack # <<>>, NEW s, s = Advance(stack)
    PROVE  /\ s \in Seq(Frame) /\ Len(s) = Len(stack) /\ s # <<>>
           /\ \A k \in 1 .. Len(stack) : k # Len(stack) => s[k] = stack[k]
           /\ \A k \in 1 .. Len(stack) :
                /\ s[k].objno = stack[k].objno
                /\ s[k].objID = stack[k].objID
                /\ s[k].fullpath = stack[k].fullpath
           /\ s[Len(stack)].i = Top.i + 1
<1> DEFINE F == Frame
<1> HIDE DEF F
<1>1. stack \in Seq(F)
    BY DEF StackOK, F
<1>2. PICK n \in Nat : n = Len(stack) /\ n # 0
    BY StackElements
<1>3. PICK t : t = [stack[n] EXCEPT !.i = @ + 1]
    OBVIOUS
<1>4. stack[n] \in Frame
    BY <1>2, StackElements
<1>5. t \in F /\ t.i = stack[n].i + 1 /\ t.objno = stack[n].objno /\ t.objID = stack[n].objID
      /\ t.fullpath = stack[n].fullpath
    BY <1>3, <1>4 DEF Frame, F
<1>6. s = [stack EXCEPT ![n] = t]
    BY <1>2, <1>3 DEF Advance
<1>7. s \in Seq(F) /\ Len(s) = n /\ s # <<>> /\ s[n] = t
      /\ \A k \in 1 .. n : k # n => s[k] = stack[k]
    BY <1>1, <1>2, <1>5, <1>6
<1> QED
    BY <1>2, <1>5, <1>7 DEF Top, F

\* What is asked of the stack of the walk at a member.
LEMMA AdvanceOK ==
    ASSUME CallsInv, stack # <<>>, Readable(Top.objno),
           Top.i <= Len(file.members[Top.objno]), NEW s, s = Advance(stack)
    PROVE  StackOK(s)
<1>1. PICK n \in Nat : n = Len(stack) /\ n # 0
    BY StackElements DEF CallsInv
<1>2. /\ s \in Seq(Frame) /\ Len(s) = n /\ s # <<>>
      /\ \A k \in 1 .. n : k # n => s[k] = stack[k]
      /\ \A k \in 1 .. n : /\ s[k].objno = stack[k].objno
                           /\ s[k].objID = stack[k].objID
                           /\ s[k].fullpath = stack[k].fullpath
      /\ s[n].i = Top.i + 1
    BY <1>1, Advanced DEF CallsInv
<1>3. StackOK(stack) /\ Top = stack[n] /\ Top.i \in Nat /\ Len(file.members[Top.objno]) \in Nat
    <2>1. Top \in Frame /\ Top = stack[n]
        BY <1>1, StackElements DEF CallsInv, Top
    <2>2. file.members[Top.objno] \in Seq([type : Kinds, objno : Groups])
        BY <2>1, WalkAssumption DEF CallsInv, Frame
    <2> QED
        BY <2>1, <2>2 DEF CallsInv, Frame
<1>4. ASSUME NEW k \in 1 .. n
      PROVE  FrameOK(s, k)
    <2>1. FrameOK(stack, k)
        BY <1>1, <1>3 DEF StackOK
    <2>2. \A j \in 1 .. k - 1 : s[j] = stack[j]
        BY <1>2
    <2>3. s[k].i # 0 => Readable(s[k].objno)
        BY <1>2, <1>3, <2>1 DEF FrameOK
    <2>4. s[k].i <= Len(file.members[s[k].objno]) + 1
        <3>1. CASE k = n
            <4>1. s[k].objno = Top.objno /\ s[k].i = Top.i + 1
                BY <3>1, <1>2, <1>3
            <4> QED
                BY <4>1, <1>3
        <3>2. CASE k # n
            <4>1. s[k] = stack[k]
                BY <3>2, <1>2
            <4> QED
                BY <4>1, <2>1 DEF FrameOK
        <3> QED
            BY <3>1, <3>2
    <2> QED
        BY <1>2, <2>1, <2>2, <2>3, <2>4 DEF FrameOK
<1>5. ASSUME NEW k \in 1 .. n - 1
      PROVE  LinkOK(s, k)
    <2>1. LinkOK(stack, k)
        BY <1>1, <1>3 DEF StackOK
    <2>2. k \in 1 .. n /\ k + 1 \in 1 .. n /\ s[k] = stack[k] /\ s[k + 1].objno = stack[k + 1].objno
        BY <1>2
    <2> QED
        BY <2>1, <2>2 DEF LinkOK
<1>6. s[1].objno = RootGroup
    BY <1>1, <1>2, <1>3 DEF StackOK
<1> QED
    BY <1>1, <1>2, <1>3, <1>4, <1>5, <1>6 DEF StackOK

\* A call is made for the member.
LEMMA PushOK ==
    ASSUME CallsInv, stack # <<>>, Readable(Top.objno), Top.i # 0,
           Top.i <= Len(file.members[Top.objno]), Member.type = "H5G_GROUP",
           Len(stack) < StackSize,
           NEW s, s = Append(Advance(stack), Call(Member.objno, Member.objno, MemberPath))
    PROVE  StackOK(s)
<1>1. PICK n \in Nat : n = Len(stack) /\ n # 0
    BY StackElements DEF CallsInv
<1>2. PICK a : a = Advance(stack)
    OBVIOUS
<1>3. StackOK(a)
    BY <1>2, AdvanceOK
<1>4. /\ a \in Seq(Frame) /\ Len(a) = n /\ a # <<>>
      /\ \A k \in 1 .. n : a[k].objno = stack[k].objno
      /\ \A k \in 1 .. n : a[k].fullpath = stack[k].fullpath
      /\ a[n].i = Top.i + 1
    BY <1>1, <1>2, Advanced DEF CallsInv
<1>5. Top = stack[n] /\ Top \in Frame /\ Top.i \in Nat /\ Top.fullpath \in Seq(Nat)
      /\ Top.objno \in Groups
    <2>1. Top \in Frame /\ Top = stack[n]
        BY <1>1, StackElements DEF CallsInv, Top
    <2> QED
        BY <2>1 DEF Frame
<1>6. Top.i \in MembersOf(Top.objno, {"H5G_GROUP"}) /\ Member.objno \in Groups
    <2>1. file.members[Top.objno] \in Seq([type : Kinds, objno : Groups])
        BY <1>5, WalkAssumption DEF CallsInv
    <2>2. Top.i \in DOMAIN file.members[Top.objno]
        BY <1>5, <2>1
    <2>3. Top.i \in MembersOf(Top.objno, {"H5G_GROUP"})
        BY <2>2 DEF MembersOf, Member, Members
    <2> QED
        BY <1>5, <2>3, MembersOfType DEF CallsInv, Member, Members
<1>7. PICK c : c = Call(Member.objno, Member.objno, MemberPath)
    OBVIOUS
<1>8. c \in Frame /\ c.objno = Member.objno /\ c.objID = Member.objno /\ c.i = 0
      /\ c.fullpath = MemberPath /\ MemberPath \in Seq(Nat)
    <2>1. MemberPath \in Seq(Nat)
        BY <1>5 DEF MemberPath
    <2> QED
        BY <1>6, <1>7, <2>1 DEF Call, Frame
<1>9. Len(Top.fullpath) = n - 1 /\ \A j \in 1 .. n - 1 : Top.fullpath[j] = stack[j].i - 1
    <2>1. FrameOK(stack, n)
        BY <1>1 DEF CallsInv, StackOK
    <2> QED
        BY <1>5, <2>1 DEF FrameOK
<1>10. s = Append(a, c)
    BY <1>2, <1>7
<1>11. s \in Seq(Frame) /\ Len(s) = n + 1 /\ s # <<>> /\ s[n + 1] = c
       /\ \A k \in 1 .. n : s[k] = a[k]
    <2> DEFINE F == Frame
    <2> HIDE DEF F
    <2>1. a \in Seq(F) /\ c \in F
        BY <1>4, <1>8 DEF F
    <2> QED
        BY <1>4, <1>10, <2>1, SMTT(30) DEF F
<1>12. FrameOK(s, n + 1)
    <2>1. Len(MemberPath) = n /\ MemberPath[n] = Top.i
          /\ \A j \in 1 .. n - 1 : MemberPath[j] = Top.fullpath[j]
        BY <1>5, <1>9, <1>1 DEF MemberPath
    <2>2. \A j \in 1 .. n - 1 : stack[j].i = a[j].i
        BY <1>1, <1>2, Advanced DEF CallsInv
    <2>3. ASSUME NEW j \in 1 .. n
          PROVE  MemberPath[j] = s[j].i - 1
        <3>1. CASE j = n
            BY <3>1, <2>1, <1>4, <1>5, <1>11
        <3>2. CASE j # n
            BY <3>2, <2>1, <2>2, <1>9, <1>11
        <3> QED
            BY <3>1, <3>2
    <2>4. Len(file.members[Member.objno]) \in Nat
        BY <1>6, MembersOfType DEF CallsInv
    <2> QED
        BY <1>1, <1>8, <1>11, <2>1, <2>3, <2>4 DEF FrameOK
<1>13. ASSUME NEW k \in 1 .. n
       PROVE  FrameOK(s, k)
    <2>1. FrameOK(a, k)
        BY <1>3, <1>4 DEF StackOK
    <2>2. s[k] = a[k] /\ \A j \in 1 .. k - 1 : s[j] = a[j]
        BY <1>11
    <2> QED
        BY <2>1, <2>2 DEF FrameOK
<1>14. ASSUME NEW k \in 1 .. n
       PROVE  LinkOK(s, k)
    <2>1. CASE k = n
        <3>1. s[n].i - 1 = Top.i /\ s[n].objno = Top.objno
            BY <1>4, <1>5, <1>11, <1>1
        <3>2. s[n + 1].objno = file.members[Top.objno][Top.i].objno
            BY <1>8, <1>11 DEF Member, Members
        <3> QED
            BY <2>1, <3>1, <3>2, <1>6 DEF LinkOK
    <2>2. CASE k # n
        <3>1. k \in 1 .. n - 1 /\ k + 1 \in 1 .. n
            BY <2>2
        <3>2. LinkOK(a, k)
            BY <1>3, <1>4, <3>1 DEF StackOK
        <3>3. s[k] = a[k] /\ s[k + 1] = a[k + 1]
            BY <1>11, <3>1
        <3> QED
            BY <3>2, <3>3 DEF LinkOK
    <2> QED
        BY <2>1, <2>2
<1>15. s[1].objno = RootGroup
    BY <1>1, <1>3, <1>4, <1>11 DEF StackOK
<1>16. \A k \in 1 .. n + 1 : FrameOK(s, k)
    BY <1>12, <1>13
<1>17. Len(s) <= StackSize /\ Len(s) - 1 = n
    BY <1>1, <1>11, WalkAssumption
<1> QED
    BY <1>11, <1>14, <1>15, <1>16, <1>17 DEF StackOK

\* A call returns.
LEMMA PopOK ==
    ASSUME StackOK(stack), stack # <<>>, NEW s, s = SubSeq(stack, 1, Len(stack) - 1)
    PROVE  /\ StackOK(s)
           /\ Len(s) = Len(stack) - 1
           /\ \A k \in 1 .. Len(s) : s[k] = stack[k]
           /\ s = <<>> <=> Len(stack) = 1
<1>1. PICK n \in Nat : n = Len(stack) /\ n # 0
    BY StackElements
<1>2. s \in Seq(Frame) /\ Len(s) = n - 1 /\ \A k \in 1 .. n - 1 : s[k] = stack[k]
    <2> DEFINE F == Frame
    <2> HIDE DEF F
    <2>1. stack \in Seq(F)
        BY DEF F, StackOK
    <2> QED
        BY <1>1, <2>1 DEF F
<1>3. s = <<>> <=> n = 1
    <2> DEFINE F == Frame
    <2> HIDE DEF F
    <2>1. s \in Seq(F)
        BY <1>2 DEF F
    <2>2. s = <<>> <=> Len(s) = 0
        BY <2>1, EmptySeq
    <2> QED
        BY <1>1, <1>2, <2>2
<1>4. \A k \in 1 .. n - 1 : FrameOK(s, k)
    BY <1>1, <1>2 DEF StackOK, FrameOK
<1>5. \A k \in 1 .. n - 2 : LinkOK(s, k)
    BY <1>1, <1>2 DEF StackOK, LinkOK
<1>6. s # <<>> => s[1].objno = RootGroup
    BY <1>1, <1>2, <1>3 DEF StackOK
<1>7. Len(s) <= StackSize
    BY <1>1, <1>2, WalkAssumption DEF StackOK
<1> QED
    BY <1>1, <1>2, <1>3, <1>4, <1>5, <1>6, <1>7 DEF StackOK

\* The walk starts with the root.
LEMMA CallsInit == Init => CallsInv
<1> SUFFICES ASSUME Init
             PROVE  CallsInv
    OBVIOUS
<1>1. PICK c : c = Call(RootGroup, 0, <<>>)
    OBVIOUS
<1>2. c \in Frame /\ c.objno = RootGroup /\ c.objID = 0 /\ c.fullpath = <<>> /\ c.i = 0
    BY <1>1, WalkAssumption DEF Call, Frame
<1>3. stack = <<c>>
    BY <1>1 DEF Init
<1>4. stack \in Seq(Frame) /\ Len(stack) = 1 /\ stack[1] = c /\ stack # <<>>
    BY <1>2, <1>3
<1>5. FrameOK(stack, 1)
    <2>1. Len(file.members[RootGroup]) \in Nat
        BY WalkAssumption DEF Init
    <2> QED
        BY <1>2, <1>4, <2>1 DEF FrameOK
<1>6. 1 <= StackSize
    BY WalkAssumption
<1> QED
    BY <1>2, <1>4, <1>5, <1>6 DEF Init, CallsInv, StackOK

\* What a call is asked about while it is under way.
LEMMA AtMember ==
    ASSUME CallsInv, stack # <<>>, InLoop
    PROVE  /\ Readable(Top.objno) /\ Top.i # 0 /\ Top.i <= Len(file.members[Top.objno])
           /\ Member.objno \in Groups
           /\ \A types : Member.type \in types => Top.i \in MembersOf(Top.objno, types)
<1>1. PICK n \in Nat : n = Len(stack) /\ n # 0
    BY StackElements DEF CallsInv
<1>2. Top = stack[n] /\ Top \in Frame /\ Top.i \in Nat /\ Top.objno \in Groups
    <2>1. Top \in Frame /\ Top = stack[n]
        BY <1>1, StackElements DEF CallsInv, Top
    <2> QED
        BY <2>1 DEF Frame
<1>3. file.members[Top.objno] \in Seq([type : Kinds, objno : Groups])
    BY <1>2, WalkAssumption DEF CallsInv
<1>4. PICK l \in Nat : l = Len(file.members[Top.objno])
                       /\ DOMAIN file.members[Top.objno] = 1 .. l
    BY <1>3
<1>5. Top.i # 0 /\ Top.i <= l /\ Top.i \in DOMAIN file.members[Top.objno]
    BY <1>2, <1>4 DEF InLoop, Members
<1>6. Readable(Top.objno)
    <2>1. FrameOK(stack, n)
        BY <1>1 DEF CallsInv, StackOK
    <2> QED
        BY <1>2, <1>5, <2>1 DEF FrameOK
<1>7. \A types : Member.type \in types => Top.i \in MembersOf(Top.objno, types)
    BY <1>5, <1>6 DEF MembersOf, Member, Members
<1>8. Member.objno \in Groups
    <2>1. Top.i \in MembersOf(Top.objno, {Member.type})
        BY <1>7
    <2> QED
        BY <1>2, <2>1, MembersOfType DEF CallsInv, Member, Members
<1> QED
    BY <1>4, <1>5, <1>6, <1>7, <1>8

\* The file and the build stay.
LEMMA FileStays == [Step]_vars => file' = file /\ sizeofLong' = sizeofLong
BY DEF Step, vars, Begin, BeginError, BeginFault, MemberFault, MemberOther, MemberDataset,
       MemberGroup, MemberLoop, StackFault, LoopEnd, Return, Fault

\* The steps, by what they do with the stack.
Goes == /\ stack' = Advance(stack)
        /\ Readable(Top.objno) /\ Top.i <= Len(file.members[Top.objno])
        /\ status' = status

LEMMA StepKinds ==
    ASSUME CallsInv, Step
    PROVE  /\ stack # <<>>
           /\ \/ Goes
              \/ MemberGroup
              \/ Return
              \/ Fault
<1>1. stack # <<>>
    BY DEF Step, CallsInv
<1>2. Top.i \in Nat /\ Len(file.members[Top.objno]) \in Nat
    <2>1. Top \in Frame
        BY <1>1, StackElements DEF CallsInv
    <2>2. file.members[Top.objno] \in Seq([type : Kinds, objno : Groups])
        BY <2>1, WalkAssumption DEF CallsInv, Frame
    <2> QED
        BY <2>1, <2>2 DEF Frame
<1>3. CASE Begin
    <2>1. Readable(Top.objno) /\ stack' = Advance(stack) /\ status' = status /\ Top.i = 0
        BY <1>3 DEF Begin, Readable, Members
    <2> QED
        BY <1>1, <1>2, <2>1 DEF Goes
<1>4. CASE MemberOther \/ MemberDataset \/ MemberLoop
    <2>1. InLoop /\ stack' = Advance(stack) /\ status' = status
        BY <1>4 DEF MemberOther, MemberDataset, MemberLoop
    <2> QED
        BY <1>1, <2>1, AtMember DEF Goes
<1>5. CASE BeginError \/ LoopEnd
    BY <1>1, <1>5 DEF BeginError, LoopEnd
<1>6. CASE BeginFault \/ MemberFault \/ StackFault
    BY <1>1, <1>6 DEF BeginFault, MemberFault, StackFault
<1> QED
    BY <1>1, <1>3, <1>4, <1>5, <1>6 DEF Step

\* StackOK is about a stack and the file.
LEMMA StackOKStays ==
    ASSUME file' = file, StackOK(stack'), NEW s, s = stack'
    PROVE  StackOK(stack)'
<1>1. \A g, types : MembersOf(g, types)' = MembersOf(g, types)
    BY SameFile
<1> QED
    BY <1>1 DEF StackOK, FrameOK, LinkOK, Readable

LEMMA CallsStep == CallsInv /\ [Step]_vars => CallsInv'
<1> SUFFICES ASSUME CallsInv, [Step]_vars
             PROVE  CallsInv'
    OBVIOUS
<1>1. file' = file /\ sizeofLong' = sizeofLong
    BY FileStays
<1>2. CASE UNCHANGED vars
    <2>1. stack' = stack /\ status' = status
        BY <1>2 DEF vars
    <2>2. StackOK(stack')
        BY <2>1 DEF CallsInv
    <2>3. StackOK(stack)'
        BY <1>1, <2>2, StackOKStays
    <2> QED
        BY <1>1, <2>1, <2>3 DEF CallsInv
<1>3. CASE Step
    <2>1. stack # <<>> /\ status = "walking"
        BY <1>3, StepKinds DEF Step
    <2>2. CASE Goes
        <3>1. PICK s : s = stack' /\ s = Advance(stack)
            BY <2>2 DEF Goes
        <3>2. StackOK(s)
            BY <2>1, <2>2, <3>1, AdvanceOK DEF Goes
        <3>3. StackOK(stack)'
            BY <1>1, <3>1, <3>2, StackOKStays
        <3>4. stack' # <<>>
            BY <2>1, <3>1, Advanced DEF CallsInv
        <3> QED
            BY <1>1, <2>1, <2>2, <3>3, <3>4 DEF CallsInv, Goes
    <2>3. CASE MemberGroup
        <3>1. PICK s : s = stack'
                /\ s = Append(Advance(stack), Call(Member.objno, Member.objno, MemberPath))
            BY <2>3 DEF MemberGroup
        <3>2. StackOK(s)
            BY <2>1, <2>3, <3>1, AtMember, PushOK DEF MemberGroup
        <3>3. StackOK(stack)'
            BY <1>1, <3>1, <3>2, StackOKStays
        <3>4. stack' # <<>>
            <4>1. Advance(stack) \in Seq(Frame)
                BY <2>1, Advanced DEF CallsInv
            <4> QED
                BY <3>1, <4>1
        <3>5. status' = status
            BY <2>3 DEF MemberGroup
        <3> QED
            BY <1>1, <2>1, <3>3, <3>4, <3>5 DEF CallsInv
    <2>4. CASE Return
        <3>1. PICK s : s = stack' /\ s = SubSeq(stack, 1, Len(stack) - 1)
            BY <2>4 DEF Return
        <3>2. StackOK(s) /\ (s = <<>> <=> Len(stack) = 1)
            BY <2>1, <3>1, PopOK DEF CallsInv
        <3>3. StackOK(stack)'
            BY <1>1, <3>1, <3>2, StackOKStays
        <3> QED
            BY <1>1, <2>4, <3>1, <3>2, <3>3 DEF CallsInv, Return
    <2>5. CASE Fault
        <3>1. stack' = stack
            BY <2>5 DEF Fault
        <3>2. StackOK(stack')
            BY <3>1 DEF CallsInv
        <3>3. StackOK(stack)'
            BY <1>1, <3>2, StackOKStays
        <3> QED
            BY <1>1, <2>1, <2>5, <3>1, <3>3 DEF CallsInv, Fault
    <2> QED
        BY <1>3, <2>2, <2>3, <2>4, <2>5, StepKinds
<1> QED
    BY <1>2, <1>3
-----------------------------------------------------------------------------
(* The tree *)

\* The groups of the calls.
Way == [k \in 1 .. Len(stack) |-> stack[k].objno]

\* The calls are on the way that their members lead.
LEMMA CallsAlong ==
    ASSUME CallsInv, stack # <<>>,
           NEW p, \A j \in 1 .. Len(stack) - 1 : p[j] = stack[j].i - 1
    PROVE  Along(p, Way, Len(stack))
<1>1. PICK n \in Nat : n = Len(stack) /\ n # 0
    BY StackElements DEF CallsInv
<1>2. Way \in [1 .. n -> Groups] /\ \A k \in 1 .. n : Way[k] = stack[k].objno
    BY <1>1, StackElements DEF CallsInv, Way
<1>3. Way[1] = RootGroup
    BY <1>1, <1>2 DEF CallsInv, StackOK
<1>4. ASSUME NEW k \in 1 .. n - 1
      PROVE  /\ p[k] \in MembersOf(Way[k], {"H5G_GROUP"})
             /\ Way[k + 1] = file.members[Way[k]][p[k]].objno
    <2>1. LinkOK(stack, k)
        BY <1>1 DEF CallsInv, StackOK
    <2>2. k \in 1 .. n /\ k + 1 \in 1 .. n /\ p[k] = stack[k].i - 1
        BY <1>1
    <2> QED
        BY <1>2, <2>1, <2>2 DEF LinkOK
<1> QED
    BY <1>1, <1>2, <1>3, <1>4 DEF Along

\* Where the path of the member leads.
LEMMA MemberPathIs ==
    ASSUME CallsInv, stack # <<>>
    PROVE  /\ MemberPath \in Seq(Nat) /\ Len(MemberPath) = Len(stack)
           /\ MemberPath[Len(stack)] = Top.i
           /\ \A j \in 1 .. Len(stack) - 1 : MemberPath[j] = stack[j].i - 1
<1>1. PICK n \in Nat : n = Len(stack) /\ n # 0
    BY StackElements DEF CallsInv
<1>2. Top = stack[n] /\ Top.i \in Nat /\ Top.fullpath \in Seq(Nat)
    <2>1. Top \in Frame /\ Top = stack[n]
        BY <1>1, StackElements DEF CallsInv, Top
    <2> QED
        BY <2>1 DEF Frame
<1>3. Len(Top.fullpath) = n - 1 /\ \A j \in 1 .. n - 1 : Top.fullpath[j] = stack[j].i - 1
    <2>1. FrameOK(stack, n)
        BY <1>1 DEF CallsInv, StackOK
    <2> QED
        BY <1>2, <2>1 DEF FrameOK
<1> QED
    BY <1>1, <1>2, <1>3 DEF MemberPath

LEMMA MemberPathToMember ==
    ASSUME CallsInv, stack # <<>>, InLoop, Member.type \in {"H5G_GROUP", "H5G_DATASET"}
    PROVE  ToMember(MemberPath, Way)
<1>1. PICK n \in Nat : n = Len(stack) /\ n # 0
    BY StackElements DEF CallsInv
<1>2. Along(MemberPath, Way, n)
    BY <1>1, MemberPathIs, CallsAlong
<1>3. n <= StackSize /\ StackSize \in Nat
    BY <1>1, WalkAssumption DEF CallsInv, StackOK
<1>4. Top.i \in MembersOf(Top.objno, {"H5G_GROUP", "H5G_DATASET"})
    BY AtMember
<1>5. Way[n] = Top.objno
    BY <1>1 DEF Way, Top
<1> QED
    BY <1>1, <1>2, <1>3, <1>4, <1>5, MemberPathIs DEF ToMember

\* The walk has not come by the path.
Pending(s, p) == \E k \in 1 .. Len(s) : /\ k <= Len(p)
                                        /\ \A j \in 1 .. k - 1 : p[j] = s[j].i - 1
                                        /\ p[k] >= s[k].i

TreeInv ==
    /\ \A p \in tree : \E o : ToMember(p, o)
    /\ Acyclic => \A p, o : ToMember(p, o) => p \in tree \/ Pending(stack, p)

\* A path that is pending at the call that goes on leads to its member.
LEMMA PendingHere ==
    ASSUME CallsInv, stack # <<>>, NEW p, NEW o, ToMember(p, o), Len(stack) <= Len(p),
           \A j \in 1 .. Len(stack) - 1 : p[j] = stack[j].i - 1
    PROVE  /\ p[Len(stack)] \in MembersOf(Top.objno, {"H5G_GROUP", "H5G_DATASET"})
           /\ Len(stack) < Len(p) => p[Len(stack)] \in MembersOf(Top.objno, {"H5G_GROUP"})
<1>1. PICK n \in Nat : n = Len(stack) /\ n # 0
    BY StackElements DEF CallsInv
<1>2. PICK m \in Nat : m = Len(p) /\ n <= m /\ Along(p, o, m)
    BY <1>1 DEF ToMember
<1>3. Along(p, Way, n)
    BY <1>1, CallsAlong
<1>4. o[n] = Way[n]
    BY <1>1, <1>2, <1>3, SameWay
<1>5. Way[n] = Top.objno
    BY <1>1 DEF Way, Top
<1>6. CASE n = m
    BY <1>1, <1>2, <1>4, <1>5, <1>6 DEF ToMember
<1>7. CASE n # m
    <2>1. n \in 1 .. m - 1
        BY <1>1, <1>2, <1>7
    <2>2. p[n] \in MembersOf(o[n], {"H5G_GROUP"})
        BY <1>2, <2>1 DEF Along
    <2>3. p[n] \in MembersOf(o[n], {"H5G_GROUP", "H5G_DATASET"})
        BY <2>2 DEF MembersOf
    <2> QED
        BY <1>1, <1>4, <1>5, <2>2, <2>3
<1> QED
    BY <1>6, <1>7

\* The loop goes on, and what was pending at the member is in the tree.
LEMMA PendingAdvance ==
    ASSUME CallsInv, stack # <<>>, NEW p \in Seq(Nat), Pending(stack, p), NEW s,
           \A k \in 1 .. Len(stack) : k # Len(stack) => s[k] = stack[k],
           Len(s) >= Len(stack), Len(s) \in Nat,
           s[Len(stack)].i = Top.i + 1
    PROVE  \/ Pending(s, p)
           \/ /\ Len(stack) <= Len(p) /\ p[Len(stack)] = Top.i
              /\ \A j \in 1 .. Len(stack) - 1 : p[j] = stack[j].i - 1
<1>1. PICK n \in Nat : n = Len(stack) /\ n # 0
    BY StackElements DEF CallsInv
<1>2. PICK k \in 1 .. n : /\ k <= Len(p)
                          /\ \A j \in 1 .. k - 1 : p[j] = stack[j].i - 1
                          /\ p[k] >= stack[k].i
    BY <1>1 DEF Pending
<1>3. \A j \in 1 .. k - 1 : p[j] = s[j].i - 1
    BY <1>1, <1>2
<1>4. PICK l \in Nat : l = Len(s) /\ n <= l
    BY <1>1
<1>5. k \in 1 .. l
    BY <1>4
<1>6. CASE k # n
    <2>1. s[k] = stack[k]
        BY <1>1, <1>6
    <2> QED
        BY <1>2, <1>3, <1>4, <1>5, <2>1 DEF Pending
<1>7. CASE k = n /\ p[n] = Top.i
    BY <1>1, <1>2, <1>7
<1>8. CASE k = n /\ p[n] # Top.i
    <2>1. Top = stack[n] /\ Top.i \in Nat
        BY <1>1, StackElements DEF CallsInv, Top
    <2>2. p[n] \in Nat
        BY <1>2, <1>8
    <2>3. p[k] >= s[k].i
        BY <1>1, <1>2, <1>8, <2>1, <2>2
    <2> QED
        BY <1>2, <1>3, <1>4, <1>5, <2>3 DEF Pending
<1> QED
    BY <1>6, <1>7, <1>8

\* With a group in the loop, the file has a path without an end.
LEMMA LoopEndless ==
    ASSUME CallsInv, stack # <<>>, InLoop, Member.type = "H5G_GROUP", HasLoop(Member.objno)
    PROVE  ~ Acyclic
<1>1. PICK n \in Nat : n = Len(stack) /\ n # 0
    BY StackElements DEF CallsInv
<1>2. PICK l \in DOMAIN stack : <<stack[l].objID, 0>> = Ids(Member.objno)
    BY DEF HasLoop
<1>3. l \in 1 .. n
    BY <1>1, <1>2 DEF CallsInv, StackOK
<1>4. stack[l].objID = Member.objno
    BY <1>2 DEF Ids
<1>5. Member.objno \in Groups /\ Member.objno # 0
    BY AtMember, WalkAssumption
<1>6. stack[l].objno = Member.objno
    <2>1. FrameOK(stack, l)
        BY <1>1, <1>3 DEF CallsInv, StackOK
    <2> QED
        BY <1>4, <1>5, <2>1 DEF FrameOK
<1> DEFINE C == {stack[k].objno : k \in 1 .. n}
<1>7. RootGroup \in C
    <2>1. stack[1].objno = RootGroup /\ 1 \in 1 .. n
        BY <1>1 DEF CallsInv, StackOK
    <2> QED
        BY <2>1
<1>8. \A k \in 1 .. n : stack[k].objno \in C
    OBVIOUS
<1>9. ASSUME NEW g \in C
      PROVE  \E i \in MembersOf(g, {"H5G_GROUP"}) : file.members[g][i].objno \in C
    <2>1. PICK k \in 1 .. n : g = stack[k].objno
        OBVIOUS
    <2> HIDE DEF C
    <2>2. CASE k = n
        <3>1. Top.objno = g
            BY <1>1, <2>1, <2>2 DEF Top
        <3>2. Top.i \in MembersOf(g, {"H5G_GROUP"})
            BY <3>1, AtMember
        <3>3. file.members[g][Top.i].objno = stack[l].objno
            BY <1>6, <3>1 DEF Member, Members
        <3> QED
            BY <1>3, <1>8, <3>2, <3>3
    <2>3. CASE k # n
        <3>1. LinkOK(stack, k)
            BY <1>1, <2>3 DEF CallsInv, StackOK
        <3>2. k + 1 \in 1 .. n
            BY <2>3
        <3> QED
            BY <1>8, <2>1, <3>1, <3>2 DEF LinkOK
    <2> QED
        BY <2>2, <2>3
<1> HIDE DEF C
<1> QED
    BY <1>7, <1>9, Endless DEF CallsInv

\* No path is pending at a call that ends.
LEMMA PendingPop ==
    ASSUME CallsInv, stack # <<>>, NEW p, NEW o, ToMember(p, o), Pending(stack, p),
           ~ Readable(Top.objno) \/ Top.i > Len(Members),
           NEW s, s = SubSeq(stack, 1, Len(stack) - 1)
    PROVE  Pending(s, p)
<1>1. PICK n \in Nat : n = Len(stack) /\ n # 0
    BY StackElements DEF CallsInv
<1>2. Len(s) = n - 1 /\ \A k \in 1 .. n - 1 : s[k] = stack[k]
    BY <1>1, PopOK DEF CallsInv
<1>3. PICK k \in 1 .. n : /\ k <= Len(p)
                          /\ \A j \in 1 .. k - 1 : p[j] = stack[j].i - 1
                          /\ p[k] >= stack[k].i
    BY <1>1 DEF Pending
<1>4. k # n
    <2> SUFFICES ASSUME k = n
                 PROVE  FALSE
        OBVIOUS
    <2>1. p[n] \in MembersOf(Top.objno, {"H5G_GROUP", "H5G_DATASET"})
        BY <1>1, <1>3, PendingHere
    <2>2. Readable(Top.objno)
        BY <2>1 DEF MembersOf
    <2>3. Top = stack[n] /\ Top.objno \in Groups /\ Top.i \in Nat
        BY <1>1, StackElements DEF CallsInv, Top
    <2>4. PICK l \in Nat : l = Len(Members) /\ p[n] \in 1 .. l
        BY <2>1, <2>3, MembersOfType DEF CallsInv, Members
    <2>5. p[n] >= Top.i /\ Top.i > l
        BY <1>3, <2>2, <2>3, <2>4
    <2> QED
        BY <2>3, <2>4, <2>5
<1>5. k \in 1 .. n - 1 /\ \A j \in 1 .. k - 1 : j \in 1 .. n - 1
    BY <1>4
<1>6. s[k] = stack[k] /\ \A j \in 1 .. k - 1 : s[j] = stack[j]
    BY <1>2, <1>5
<1> QED
    BY <1>2, <1>3, <1>5, <1>6 DEF Pending

\* Everything is pending at the start.
LEMMA TreeInit == Init => TreeInv
<1> SUFFICES ASSUME Init
             PROVE  TreeInv
    OBVIOUS
<1>1. CallsInv
    BY CallsInit
<1>2. Len(stack) = 1 /\ stack[1].i = 0 /\ tree = {}
    BY DEF Init, Call
<1>3. ASSUME NEW p, NEW o, ToMember(p, o)
      PROVE  Pending(stack, p)
    <2>1. p \in Seq(Nat) /\ 1 <= Len(p) /\ Len(p) \in Nat
        BY <1>3, WalkAssumption DEF ToMember
    <2>2. p[1] \in Nat
        BY <2>1
    <2> QED
        BY <1>2, <2>1, <2>2 DEF Pending
<1> QED
    BY <1>2, <1>3 DEF TreeInv

\* The tree gets the paths of its members, and nothing is forgotten.
LEMMA TreeKept ==
    ASSUME TreeInv, file' = file,
           tree' = tree \/ (tree' = tree \union {MemberPath} /\ ToMember(MemberPath, Way)),
           Acyclic => \A p, o : ToMember(p, o) /\ Pending(stack, p) =>
                                    p \in tree' \/ Pending(stack', p)
    PROVE  TreeInv'
<1>1. (Acyclic <=> Acyclic') /\ \A p, o : ToMember(p, o) <=> ToMember(p, o)'
    BY SameFile
<1>2. \A p \in tree' : \E o : ToMember(p, o)
    BY DEF TreeInv
<1>3. Acyclic => \A p, o : ToMember(p, o) => p \in tree' \/ Pending(stack', p)
    <2> SUFFICES ASSUME Acyclic, NEW p, NEW o, ToMember(p, o)
                 PROVE  p \in tree' \/ Pending(stack', p)
        OBVIOUS
    <2>1. p \in tree \/ Pending(stack, p)
        BY DEF TreeInv
    <2> QED
        BY <2>1
<1>4. \A p : Pending(stack, p)' <=> Pending(stack', p)
    BY DEF Pending
<1> QED
    BY <1>1, <1>2, <1>3, <1>4 DEF TreeInv

\* A member is gone by.
LEMMA AdvanceTree ==
    ASSUME CallsInv, stack # <<>>, NEW p, NEW o, ToMember(p, o), Pending(stack, p),
           stack' = Advance(stack), NEW T,
           ASSUME Len(stack) <= Len(p), p[Len(stack)] = Top.i,
                  \A j \in 1 .. Len(stack) - 1 : p[j] = stack[j].i - 1
           PROVE  T
    PROVE  T \/ Pending(stack', p)
<1>1. PICK s : s = stack'
    OBVIOUS
<1>2. p \in Seq(Nat) /\ Len(s) = Len(stack) /\ Len(stack) \in Nat
      /\ s[Len(stack)].i = Top.i + 1
      /\ \A k \in 1 .. Len(stack) : k # Len(stack) => s[k] = stack[k]
    BY <1>1, Advanced, StackElements DEF CallsInv, ToMember
<1>3. \/ Pending(s, p)
      \/ /\ Len(stack) <= Len(p) /\ p[Len(stack)] = Top.i
         /\ \A j \in 1 .. Len(stack) - 1 : p[j] = stack[j].i - 1
    BY <1>2, PendingAdvance
<1> QED
    BY <1>1, <1>3

LEMMA BeginTree == CallsInv /\ TreeInv /\ stack # <<>> /\ Begin => TreeInv'
<1> SUFFICES ASSUME CallsInv, TreeInv, stack # <<>>, Begin
             PROVE  TreeInv'
    OBVIOUS
<1>1. stack' = Advance(stack) /\ Top.i = 0 /\ tree' = tree /\ file' = file
    BY DEF Begin
<1>2. ASSUME NEW p, NEW o, ToMember(p, o), Pending(stack, p)
      PROVE  Pending(stack', p)
    <2>1. ASSUME Len(stack) <= Len(p), p[Len(stack)] = Top.i,
                 \A j \in 1 .. Len(stack) - 1 : p[j] = stack[j].i - 1
          PROVE  FALSE
        <3>1. p[Len(stack)] \in MembersOf(Top.objno, {"H5G_GROUP", "H5G_DATASET"})
            BY <1>2, <2>1, PendingHere
        <3>2. Top.objno \in Groups
            BY StackElements DEF CallsInv, Frame
        <3>3. p[Len(stack)] \in 1 .. Len(file.members[Top.objno])
            BY <3>1, <3>2, MembersOfType DEF CallsInv
        <3> QED
            BY <1>1, <2>1, <3>3
    <2> QED
        BY <1>1, <1>2, <2>1, AdvanceTree
<1> QED
    BY <1>1, <1>2, TreeKept

LEMMA MemberOtherTree == CallsInv /\ TreeInv /\ stack # <<>> /\ MemberOther => TreeInv'
<1> SUFFICES ASSUME CallsInv, TreeInv, stack # <<>>, MemberOther
             PROVE  TreeInv'
    OBVIOUS
<1>1. stack' = Advance(stack) /\ Member.type = "other" /\ tree' = tree /\ file' = file
    BY DEF MemberOther
<1>2. ASSUME NEW p, NEW o, ToMember(p, o), Pending(stack, p)
      PROVE  Pending(stack', p)
    <2>1. ASSUME Len(stack) <= Len(p), p[Len(stack)] = Top.i,
                 \A j \in 1 .. Len(stack) - 1 : p[j] = stack[j].i - 1
          PROVE  FALSE
        <3>1. Top.i \in MembersOf(Top.objno, {"H5G_GROUP", "H5G_DATASET"})
            BY <1>2, <2>1, PendingHere
        <3> QED
            BY <1>1, <3>1 DEF MembersOf, Member, Members
    <2> QED
        BY <1>1, <1>2, <2>1, AdvanceTree
<1> QED
    BY <1>1, <1>2, TreeKept

\* A path to the member, and no further, is the member's.
LEMMA PathOfMember ==
    ASSUME CallsInv, stack # <<>>, NEW p \in Seq(Nat), Len(p) = Len(stack),
           p[Len(stack)] = Top.i, \A j \in 1 .. Len(stack) - 1 : p[j] = stack[j].i - 1
    PROVE  p = MemberPath
<1>1. PICK n \in Nat : n = Len(stack) /\ n # 0
    BY StackElements DEF CallsInv
<1>2. PICK q \in Seq(Nat) : q = MemberPath /\ Len(q) = n /\ q[n] = Top.i
                            /\ \A j \in 1 .. n - 1 : q[j] = stack[j].i - 1
    BY <1>1, MemberPathIs
<1>3. \A j \in 1 .. n : p[j] = q[j]
    BY <1>1, <1>2
<1>4. p = q
    BY <1>1, <1>2, <1>3, SeqEqual
<1> QED
    BY <1>2, <1>4

LEMMA MemberDatasetTree == CallsInv /\ TreeInv /\ stack # <<>> /\ MemberDataset => TreeInv'
<1> SUFFICES ASSUME CallsInv, TreeInv, stack # <<>>, MemberDataset
             PROVE  TreeInv'
    OBVIOUS
<1>1. stack' = Advance(stack) /\ InLoop /\ Member.type = "H5G_DATASET"
      /\ tree' = tree \union {MemberPath} /\ file' = file
    BY DEF MemberDataset
<1>2. ASSUME NEW p, NEW o, ToMember(p, o), Pending(stack, p)
      PROVE  p \in tree' \/ Pending(stack', p)
    <2>1. ASSUME Len(stack) <= Len(p), p[Len(stack)] = Top.i,
                 \A j \in 1 .. Len(stack) - 1 : p[j] = stack[j].i - 1
          PROVE  p \in tree'
        <3>1. CASE Len(stack) < Len(p)
            <4>1. Top.i \in MembersOf(Top.objno, {"H5G_GROUP"})
                BY <1>2, <2>1, <3>1, PendingHere
            <4> QED
                BY <1>1, <4>1 DEF MembersOf, Member, Members
        <3>2. CASE ~ (Len(stack) < Len(p))
            <4>1. p \in Seq(Nat) /\ Len(p) \in Nat /\ Len(stack) \in Nat
                BY <1>2, StackElements, WalkAssumption DEF CallsInv, ToMember
            <4>2. Len(p) = Len(stack)
                BY <2>1, <3>2, <4>1
            <4>3. p = MemberPath
                BY <2>1, <4>1, <4>2, PathOfMember
            <4> QED
                BY <1>1, <4>3
        <3> QED
            BY <3>1, <3>2
    <2> QED
        BY <1>1, <1>2, <2>1, AdvanceTree
<1>3. ToMember(MemberPath, Way)
    BY <1>1, MemberPathToMember
<1> QED
    BY <1>1, <1>2, <1>3, TreeKept

LEMMA MemberLoopTree == CallsInv /\ TreeInv /\ stack # <<>> /\ MemberLoop => TreeInv'
<1> SUFFICES ASSUME CallsInv, TreeInv, stack # <<>>, MemberLoop
             PROVE  TreeInv'
    OBVIOUS
<1>1. InLoop /\ Member.type = "H5G_GROUP" /\ HasLoop(Member.objno)
      /\ tree' = tree \union {MemberPath} /\ file' = file
    BY DEF MemberLoop
<1>2. ~ Acyclic
    BY <1>1, LoopEndless
<1>3. ToMember(MemberPath, Way)
    BY <1>1, MemberPathToMember
<1> QED
    BY <1>1, <1>2, <1>3, TreeKept

LEMMA MemberGroupTree == CallsInv /\ TreeInv /\ stack # <<>> /\ MemberGroup => TreeInv'
<1> SUFFICES ASSUME CallsInv, TreeInv, stack # <<>>, MemberGroup
             PROVE  TreeInv'
    OBVIOUS
<1>1. InLoop /\ Member.type = "H5G_GROUP" /\ tree' = tree \union {MemberPath} /\ file' = file
    BY DEF MemberGroup
<1>2. PICK n \in Nat : n = Len(stack) /\ n # 0
    BY StackElements DEF CallsInv
<1>3. PICK a : a = Advance(stack)
    OBVIOUS
<1>4. PICK c : c = Call(Member.objno, Member.objno, MemberPath)
    OBVIOUS
<1>5. c.i = 0
    BY <1>4 DEF Call
<1>6. a \in Seq(Frame) /\ Len(a) = n /\ a[n].i = Top.i + 1
      /\ \A k \in 1 .. n : k # n => a[k] = stack[k]
    BY <1>2, <1>3, Advanced DEF CallsInv
<1>7. PICK s : s = stack' /\ s = Append(a, c)
    BY <1>3, <1>4 DEF MemberGroup
<1>8. Len(s) = n + 1 /\ s[n + 1] = c /\ \A k \in 1 .. n : s[k] = a[k]
    <2> DEFINE F == Frame
    <2> HIDE DEF F
    <2>1. a \in Seq(F)
        BY <1>6 DEF F
    <2> QED
        BY <1>6, <1>7, <2>1
<1>9. ASSUME NEW p, NEW o, ToMember(p, o), Pending(stack, p)
      PROVE  p \in tree' \/ Pending(s, p)
    <2>1. p \in Seq(Nat) /\ Len(p) \in Nat
        BY <1>9, WalkAssumption DEF ToMember
    <2>2. \A k \in 1 .. Len(stack) : k # Len(stack) => s[k] = stack[k]
        BY <1>2, <1>6, <1>8
    <2>3. Len(s) >= Len(stack) /\ Len(s) \in Nat /\ s[Len(stack)].i = Top.i + 1
        BY <1>2, <1>6, <1>8
    <2>4. \/ Pending(s, p)
          \/ /\ Len(stack) <= Len(p) /\ p[Len(stack)] = Top.i
             /\ \A j \in 1 .. Len(stack) - 1 : p[j] = stack[j].i - 1
        BY <1>9, <2>1, <2>2, <2>3, PendingAdvance
    <2>5. ASSUME Len(stack) <= Len(p), p[Len(stack)] = Top.i,
                 \A j \in 1 .. Len(stack) - 1 : p[j] = stack[j].i - 1
          PROVE  p \in tree' \/ Pending(s, p)
        <3>1. CASE Len(p) = n
            <4>1. p = MemberPath
                BY <1>2, <2>1, <2>5, <3>1, PathOfMember
            <4> QED
                BY <1>1, <4>1
        <3>2. CASE Len(p) # n
            <4>1. n + 1 <= Len(p)
                BY <1>2, <2>1, <2>5, <3>2
            <4>2. p[n + 1] \in Nat
                BY <2>1, <4>1
            <4>3. ASSUME NEW j \in 1 .. n
                  PROVE  p[j] = s[j].i - 1
                <5>1. Top.i \in Nat
                    BY StackElements DEF CallsInv, Frame
                <5>2. CASE j = n
                    BY <1>2, <1>6, <1>8, <2>5, <5>1, <5>2
                <5>3. CASE j # n
                    BY <1>2, <2>2, <2>5, <5>3
                <5> QED
                    BY <5>2, <5>3
            <4>4. p[n + 1] >= s[n + 1].i
                BY <1>5, <1>8, <4>2
            <4> QED
                BY <1>8, <4>1, <4>3, <4>4 DEF Pending
        <3> QED
            BY <3>1, <3>2
    <2> QED
        BY <2>4, <2>5
<1>10. ToMember(MemberPath, Way)
    BY <1>1, MemberPathToMember
<1> QED
    BY <1>1, <1>7, <1>9, <1>10, TreeKept

LEMMA ReturnTree ==
    CallsInv /\ TreeInv /\ stack # <<>> /\ (BeginError \/ LoopEnd) => TreeInv'
<1> SUFFICES ASSUME CallsInv, TreeInv, stack # <<>>, BeginError \/ LoopEnd
             PROVE  TreeInv'
    OBVIOUS
<1>1. PICK s : s = stack' /\ s = SubSeq(stack, 1, Len(stack) - 1)
    BY DEF BeginError, LoopEnd, Return
<1>2. tree' = tree /\ file' = file
    BY DEF BeginError, LoopEnd, Return
<1>3. ~ Readable(Top.objno) \/ Top.i > Len(Members)
    BY DEF BeginError, LoopEnd, Readable, Members
<1>4. \A p, o : ToMember(p, o) /\ Pending(stack, p) => Pending(s, p)
    BY <1>1, <1>3, PendingPop
<1> QED
    BY <1>1, <1>2, <1>4, TreeKept

LEMMA TreeStep == CallsInv /\ TreeInv /\ [Step]_vars => TreeInv'
<1> SUFFICES ASSUME CallsInv, TreeInv, [Step]_vars
             PROVE  TreeInv'
    OBVIOUS
<1>1. CASE UNCHANGED vars \/ BeginFault \/ MemberFault \/ StackFault
    <2>1. file' = file /\ stack' = stack /\ tree' = tree
        BY <1>1 DEF vars, BeginFault, MemberFault, StackFault, Fault
    <2> QED
        BY <2>1, TreeKept
<1>2. CASE Step
    <2>1. stack # <<>>
        BY <1>2 DEF Step, CallsInv
    <2> QED
        BY <1>1, <1>2, <2>1, BeginTree, ReturnTree, MemberOtherTree, MemberDatasetTree,
           MemberGroupTree, MemberLoopTree DEF Step
<1> QED
    BY <1>1, <1>2
-----------------------------------------------------------------------------
(* Faults *)

\* With longs of four bytes no group is entered twice, but for the root.
EnteredOnce ==
    sizeofLong = 4 =>
        \A j, k \in 2 .. Len(stack) : stack[j].objID = stack[k].objID => j = k

FaultInv == EnteredOnce /\ FaultHasCause

\* The groups that are entered are as many as the file has, at most.
LEMMA CallsAreFew ==
    ASSUME CallsInv, IsFiniteSet(Groups), NEW g \in Groups,
           \A j, k \in 2 .. Len(stack) : stack[j].objID = stack[k].objID => j = k,
           \A k \in 2 .. Len(stack) : stack[k].objID # g, stack # <<>>
    PROVE  Len(stack) <= Cardinality(Groups)
<1>1. PICK n \in Nat : n = Len(stack) /\ n # 0
    BY StackElements DEF CallsInv
<1> DEFINE f == [k \in 1 .. n |-> IF k = 1 THEN g ELSE stack[k].objID]
<1>2. \A k \in 2 .. n : stack[k].objID \in Groups
    <2>1. \A k \in 1 .. n : FrameOK(stack, k) /\ stack[k].objno \in Groups
        BY <1>1, StackElements DEF CallsInv, StackOK
    <2> QED
        BY <2>1 DEF FrameOK
<1>3. f \in [1 .. n -> Groups]
    BY <1>2
<1>4. ASSUME NEW j \in 1 .. n, NEW k \in 1 .. n, f[j] = f[k]
      PROVE  j = k
    <2>1. CASE j = 1 /\ k = 1
        BY <2>1
    <2>2. CASE j = 1 /\ k # 1
        <3>1. k \in 2 .. Len(stack)
            BY <1>1, <2>2
        <3> QED
            BY <1>4, <2>2, <3>1
    <2>3. CASE j # 1 /\ k = 1
        <3>1. j \in 2 .. Len(stack)
            BY <1>1, <2>3
        <3> QED
            BY <1>4, <2>3, <3>1
    <2>4. CASE j # 1 /\ k # 1
        <3>1. j \in 2 .. Len(stack) /\ k \in 2 .. Len(stack)
            BY <1>1, <2>4
        <3> QED
            BY <1>4, <2>4, <3>1
    <2> QED
        BY <2>1, <2>2, <2>3, <2>4
<1> HIDE DEF f
<1>5. IsFiniteSet(1 .. n) /\ Cardinality(1 .. n) = n
    <2>1. 1 \in Int /\ n \in Int /\ ~ (1 > n) /\ n - 1 + 1 = n
        BY <1>1
    <2>2. IsFiniteSet(1 .. n) /\ Cardinality(1 .. n) = IF 1 > n THEN 0 ELSE n - 1 + 1
        BY <2>1, FS_Interval
    <2> QED
        BY <2>1, <2>2
<1>6. Cardinality(Groups) \in Nat
    BY FS_CardinalityType
<1>7. ~ (Cardinality(Groups) < Cardinality(1 .. n))
    BY <1>3, <1>4, <1>5, FS_PigeonHole
<1> QED
    BY <1>1, <1>5, <1>6, <1>7

\* A member that ends a full stack makes a path of that length.
LEMMA FullStack ==
    ASSUME CallsInv, stack # <<>>, InLoop, Member.type = "H5G_GROUP", Len(stack) = StackSize
    PROVE  ~ Acyclic
<1>1. ToMember(MemberPath, Way)
    BY MemberPathToMember
<1>2. Top.i \in MembersOf(Top.objno, {"H5G_GROUP"})
    BY AtMember
<1>3. PICK n \in Nat : n = Len(stack) /\ n # 0 /\ n = StackSize
    BY StackElements DEF CallsInv
<1>4. Top.fullpath \in Seq(Nat) /\ Len(Top.fullpath) = n - 1
      /\ \A j \in 1 .. n - 1 : Top.fullpath[j] = stack[j].i - 1
    <2>1. FrameOK(stack, n) /\ Top = stack[n] /\ Top \in Frame
        BY <1>3, StackElements DEF CallsInv, StackOK, Top
    <2> QED
        BY <2>1 DEF FrameOK, Frame
<1>5. PICK m \in Nat : n = m + 1 /\ m = n - 1
    BY <1>3
<1>6. Along(Top.fullpath, Way, m + 1)
    BY <1>3, <1>4, <1>5, CallsAlong
<1>7. Way[n] = Top.objno
    BY <1>3 DEF Way, Top
<1>8. LeadsTo(m, Top.fullpath, Top.objno)
    BY <1>4, <1>5, <1>6, <1>7 DEF LeadsTo
<1>9. LeadsTo(m + 1, Append(Top.fullpath, Top.i), file.members[Top.objno][Top.i].objno)
    BY <1>2, <1>8, LeadsOn DEF CallsInv
<1>10. PICK p, g : LeadsTo(StackSize, p, g)
    BY <1>3, <1>5, <1>9
<1>11. StackSize \in 0 .. StackSize
    BY WalkAssumption
<1>12. [path |-> p, objno |-> g] \in GroupPaths[StackSize]
    BY <1>10, <1>11, PathsLead DEF CallsInv
<1> QED
    BY <1>12 DEF Acyclic

\* Over a member without information, or members that cannot be listed.
LEMMA MemberFaults ==
    ASSUME CallsInv, stack # <<>>, BeginFault \/ MemberFault
    PROVE  \/ \E g \in Groups : \E i \in DOMAIN file.members[g] :
                    file.members[g][i].type = "noInfo"
           \/ file.uniterable # {}
<1>1. Top.objno \in Groups
    BY StackElements DEF CallsInv, Frame
<1>2. CASE BeginFault
    BY <1>2 DEF BeginFault
<1>3. CASE MemberFault
    <2>1. InLoop /\ Member.type = "noInfo"
        BY <1>3 DEF MemberFault
    <2>2. Top.i \in MembersOf(Top.objno, {"noInfo"})
        BY <2>1, AtMember
    <2>3. Top.i \in DOMAIN file.members[Top.objno]
        BY <2>2 DEF MembersOf
    <2> QED
        BY <1>1, <2>1, <2>3 DEF Member, Members
<1> QED
    BY <1>2, <1>3

LEMMA FaultInit == Init => FaultInv
BY DEF Init, FaultInv, EnteredOnce, FaultHasCause

LEMMA EnteredStep == CallsInv /\ EnteredOnce /\ [Step]_vars => EnteredOnce'
<1> SUFFICES ASSUME CallsInv, EnteredOnce, [Step]_vars, sizeofLong = 4
             PROVE  \A j, k \in 2 .. Len(stack') : stack'[j].objID = stack'[k].objID => j = k
    BY FileStays DEF EnteredOnce
<1>1. CASE UNCHANGED vars \/ Fault
    <2>1. stack' = stack
        BY <1>1 DEF vars, Fault
    <2> QED
        BY <2>1 DEF EnteredOnce
<1>2. CASE Step /\ ~ Fault
    <2>0. stack # <<>>
        BY <1>2 DEF Step, CallsInv
    <2>1. PICK n \in Nat : n = Len(stack) /\ n # 0
        BY <2>0, StackElements DEF CallsInv
    <2>2. PICK s : s = stack'
        OBVIOUS
    <2>3. CASE Goes
        <3>1. Len(s) = n /\ \A k \in 1 .. n : s[k].objID = stack[k].objID
            BY <2>0, <2>1, <2>2, <2>3, Advanced DEF CallsInv, Goes
        <3>2. \A k \in 2 .. n : k \in 1 .. n
            OBVIOUS
        <3> QED
            BY <2>1, <2>2, <3>1, <3>2 DEF EnteredOnce
    <2>4. CASE Return
        <3>1. Len(s) = n - 1 /\ \A k \in 1 .. n - 1 : s[k] = stack[k]
            BY <2>0, <2>1, <2>2, <2>4, PopOK DEF CallsInv, Return
        <3>2. \A k \in 2 .. n - 1 : k \in 1 .. n - 1 /\ k \in 2 .. n
            BY <2>1
        <3> QED
            BY <2>1, <2>2, <3>1, <3>2 DEF EnteredOnce
    <2>5. CASE MemberGroup
        <3>1. PICK a : a = Advance(stack)
            OBVIOUS
        <3>2. PICK c : c = Call(Member.objno, Member.objno, MemberPath)
            OBVIOUS
        <3>3. a \in Seq(Frame) /\ Len(a) = n
              /\ \A k \in 1 .. n : a[k].objID = stack[k].objID
            BY <2>0, <2>1, <3>1, Advanced DEF CallsInv
        <3>4. s = Append(a, c)
            BY <2>2, <2>5, <3>1, <3>2 DEF MemberGroup
        <3>5. Len(s) = n + 1 /\ s[n + 1] = c /\ \A k \in 1 .. n : s[k] = a[k]
            <4> DEFINE F == Frame
            <4> HIDE DEF F
            <4>1. a \in Seq(F)
                BY <3>3 DEF F
            <4> QED
                BY <3>3, <3>4, <4>1
        <3>6. \A k \in 1 .. n : s[k].objID = stack[k].objID
            BY <3>3, <3>5
        <3>7. s[n + 1].objID = Member.objno
            BY <3>2, <3>5 DEF Call
        <3>8. ~ HasLoop(Member.objno)
            BY <2>5 DEF MemberGroup
        <3>9. \A k \in 1 .. n : stack[k].objID # Member.objno
            <4>1. DOMAIN stack = 1 .. n
                BY <2>1 DEF CallsInv, StackOK
            <4>2. Ids(Member.objno) = <<Member.objno, 0>>
                BY DEF Ids
            <4> QED
                BY <3>8, <4>1, <4>2 DEF HasLoop
        <3>10. ASSUME NEW j \in 2 .. n + 1, NEW k \in 2 .. n + 1, s[j].objID = s[k].objID
               PROVE  j = k
            <4>1. CASE j = n + 1 \/ k = n + 1
                BY <4>1, <3>6, <3>7, <3>9, <3>10
            <4>2. CASE j # n + 1 /\ k # n + 1
                <5>1. j \in 2 .. n /\ k \in 2 .. n /\ j \in 1 .. n /\ k \in 1 .. n
                    BY <4>2
                <5> QED
                    BY <2>1, <3>6, <3>10, <5>1 DEF EnteredOnce
            <4> QED
                BY <4>1, <4>2
        <3> QED
            BY <2>2, <3>5, <3>10
    <2> QED
        BY <1>2, <2>3, <2>4, <2>5, StepKinds
<1> QED
    BY <1>1, <1>2 DEF Step

LEMMA FaultStep ==
    ASSUME IsFiniteSet(Groups), Cardinality(Groups) < StackSize,
           CallsInv, FaultInv, [Step]_vars
    PROVE  FaultInv'
<1>1. file' = file /\ sizeofLong' = sizeofLong /\ EnteredOnce' /\ (Acyclic <=> Acyclic')
    BY FileStays, EnteredStep, SameFile DEF FaultInv
<1>2. CASE UNCHANGED vars
    BY <1>1, <1>2 DEF FaultInv, FaultHasCause, vars
<1>3. CASE Step /\ status' # "faulted"
    BY <1>1, <1>3 DEF FaultInv, FaultHasCause
<1>4. CASE Step /\ status' = "faulted"
    <2>1. stack # <<>> /\ status = "walking"
        BY <1>4 DEF Step, CallsInv
    <2>2. BeginFault \/ MemberFault \/ StackFault
        BY <1>4, <2>1 DEF Step, Begin, BeginError, MemberOther, MemberDataset, MemberGroup,
            MemberLoop, LoopEnd, Return
    <2>3. CASE BeginFault \/ MemberFault
        BY <1>1, <2>1, <2>3, MemberFaults DEF FaultInv, FaultHasCause
    <2>4. CASE StackFault
        <3>1. InLoop /\ Member.type = "H5G_GROUP" /\ ~ HasLoop(Member.objno)
              /\ Len(stack) = StackSize
            BY <2>4 DEF StackFault
        <3>2. ~ Acyclic
            BY <2>1, <3>1, FullStack
        <3>3. sizeofLong # 4
            <4> SUFFICES ASSUME sizeofLong = 4
                         PROVE  FALSE
                OBVIOUS
            <4>1. PICK n \in Nat : n = Len(stack) /\ n # 0
                BY <2>1, StackElements DEF CallsInv
            <4>2. \A k \in 2 .. n : stack[k].objID # Member.objno
                <5>1. DOMAIN stack = 1 .. n
                    BY <4>1 DEF CallsInv, StackOK
                <5>2. Ids(Member.objno) = <<Member.objno, 0>>
                    BY DEF Ids
                <5>3. \A k \in 2 .. n : k \in 1 .. n
                    OBVIOUS
                <5> QED
                    BY <3>1, <5>1, <5>2, <5>3 DEF HasLoop
            <4>3. Member.objno \in Groups
                BY <2>1, <3>1, AtMember
            <4>4. Len(stack) <= Cardinality(Groups)
                BY <2>1, <4>1, <4>2, <4>3, CallsAreFew DEF FaultInv, EnteredOnce
            <4>5. Cardinality(Groups) \in Nat
                BY FS_CardinalityType
            <4> QED
                BY <3>1, <4>1, <4>4, <4>5
        <3>4. sizeofLong = 8
            BY <3>3, WalkAssumption DEF CallsInv
        <3> QED
            BY <1>1, <3>2, <3>4 DEF FaultInv, FaultHasCause
    <2> QED
        BY <2>2, <2>3, <2>4
<1> QED
    BY <1>2, <1>3, <1>4
-----------------------------------------------------------------------------
(* Theorems *)

\* The calls and the tree of a walk are always in order: each call is for the
\* member its caller is at, with the path that leads to it.
THEOREM H5WalkInductive == Spec => [](CallsInv /\ TreeInv)
<1>1. Init => CallsInv /\ TreeInv
    BY CallsInit, TreeInit
<1>2. CallsInv /\ TreeInv /\ [Step]_vars => (CallsInv /\ TreeInv)'
    BY CallsStep, TreeStep
<1> QED
    BY <1>1, <1>2, PTL DEF Spec

\* The walk's variables have their types, and its paths fit the stack.
THEOREM H5WalkTypeOK == Spec => []TypeOK
<1>1. CallsInv /\ TreeInv => TypeOK
    BY DEF CallsInv, TreeInv, StackOK, ToMember, TypeOK
<1> QED
    BY <1>1, H5WalkInductive, PTL

\* When H5File_get_structure is done with a file without loops, the tree has
\* each group and dataset of the file for every path to it, and no other:
\* an error in one group costs nothing elsewhere.
THEOREM H5WalkTreeIsFile == Spec => []TreeIsFile
<1>1. CallsInv /\ TreeInv => TreeIsFile
    <2> SUFFICES ASSUME CallsInv, TreeInv, status = "done", Acyclic
                 PROVE  tree = FilePaths
        BY DEF TreeIsFile
    <2>1. Len(stack) = 0
        BY DEF CallsInv
    <2>2. \A p : ~ Pending(stack, p)
        BY <2>1 DEF Pending
    <2>3. \A p : p \in tree <=> \E o : ToMember(p, o)
        BY <2>2 DEF TreeInv
    <2>4. \A p : p \in tree <=> p \in FilePaths
        BY <2>3, FilePathsAre DEF CallsInv
    <2> QED
        BY <2>4
<1> QED
    BY <1>1, H5WalkInductive, PTL

\* With a stack that has room for more calls than the file has groups, the
\* process ends only over a member without information, a group that cannot be
\* listed, or a loop in a build with longs of eight bytes: with longs of four
\* the callers are searched as they should.
THEOREM H5WalkFaultHasCause ==
    ASSUME IsFiniteSet(Groups), Cardinality(Groups) < StackSize
    PROVE  Spec => []FaultHasCause
<1>1. Init => CallsInv /\ FaultInv
    BY CallsInit, FaultInit
<1>2. CallsInv /\ FaultInv /\ [Step]_vars => (CallsInv /\ FaultInv)'
    BY CallsStep, FaultStep
<1>3. CallsInv /\ FaultInv => FaultHasCause
    BY DEF FaultInv
<1> QED
    BY <1>1, <1>2, <1>3, PTL DEF Spec
=============================================================================
