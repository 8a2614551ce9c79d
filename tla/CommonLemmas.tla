---------------------------- MODULE CommonLemmas ----------------------------
(***************************************************************************)
(* What operators that several modules share return, for every argument:   *)
(* Min, Max and FlattenSeq of the community modules, and the slabs of      *)
(* NcSlab in row order.  Induction is over sets of naturals here, of which *)
(* one that is not all of them has a least number missing.                 *)
(***************************************************************************)
EXTENDS NcSlab, WellFoundedInduction, SequenceTheorems, FiniteSetTheorems, TLAPS
-----------------------------------------------------------------------------
(* Min and Max *)

\* A non-empty set of naturals has a least element, which Min returns.
LEMMA MinOf ==
    ASSUME NEW T, T \subseteq Nat, T # {}
    PROVE  Min(T) \in T /\ \A y \in T : Min(T) <= y
<1> DEFINE R == OpToRel(<, Nat)
<1>1. IsWellFoundedOn(R, Nat)
    BY NatLessThanWellFounded
<1>2. \A x, y \in Nat : x < y => <<x, y>> \in R
    BY DEF OpToRel
<1> HIDE DEF R
<1>3. PICK x \in T : \A y \in T : ~ (<<y, x>> \in R)
    BY <1>1, WFMin
<1>4. \A y \in T : ~ (y < x)
    <2> TAKE y \in T
    <2>1. x \in Nat /\ y \in Nat /\ <<y, x>> \notin R
        BY <1>3
    <2> QED
        BY <2>1, <1>2
<1>5. \E z \in T : \A y \in T : z =< y
    <2>1. x \in Int /\ \A y \in T : y \in Int /\ x <= y
        BY <1>4
    <2> QED
        BY <2>1
<1> QED
    BY <1>5 DEF Min

\* A non-empty set of naturals up to n has a greatest, which Max returns.
LEMMA MaxOf ==
    ASSUME NEW n \in Nat, NEW T, T \subseteq 0 .. n, T # {}
    PROVE  Max(T) \in T /\ \A y \in T : Max(T) >= y
<1> DEFINE U == {n - y : y \in T}
<1>1. U \subseteq Nat /\ U # {}
    <2>1. \A y \in T : n - y \in Nat
        OBVIOUS
    <2> QED
        BY <2>1
<1>2. /\ \A y \in T : n - y \in U
      /\ \A u \in U : \E y \in T : u = n - y
    BY Zenon
<1> HIDE DEF U
<1>3. Min(U) \in U /\ \A u \in U : Min(U) <= u
    BY <1>1, MinOf
<1>4. PICK x \in T : Min(U) = n - x
    BY <1>2, <1>3
<1>5. ASSUME NEW y \in T PROVE y \in Int /\ x \in Int /\ x >= y
    <2>1. n - x <= n - y
        BY <1>2, <1>3, <1>4
    <2> QED
        BY <2>1
<1>6. \E z \in T : \A y \in T : z >= y
    BY <1>5
<1> QED
    BY <1>6 DEF Max
-----------------------------------------------------------------------------
(* Induction *)

\* A set of naturals that has 0 and with each its successor has all.
LEMMA NatInd ==
    ASSUME NEW T, 0 \in T, \A n \in Nat : n \in T => n + 1 \in T
    PROVE  \A n \in Nat : n \in T
<1> DEFINE U == Nat \ T
<1>1. ASSUME U # {}
      PROVE  FALSE
    <2>1. Min(U) \in U /\ \A y \in U : Min(U) <= y
        BY <1>1, MinOf
    <2>2. PICK m : m \in U /\ \A y \in U : m <= y
        BY <2>1
    <2>3. m \in Nat /\ m # 0 /\ m \notin T
        BY <2>2
    <2>4. m - 1 \in Nat /\ m - 1 + 1 = m /\ ~ (m <= m - 1)
        BY <2>3
    <2>5. m - 1 \in T
        BY <2>2, <2>4
    <2> QED
        BY <2>3, <2>4, <2>5
<1> QED
    BY <1>1
-----------------------------------------------------------------------------
(* FlattenSeq *)

\* f[k] are the first k of the sequences in s.
IsFlat(s, n, f) == f = [k \in 1 .. n |-> IF k = 1 THEN s[k] ELSE f[k - 1] \o s[k]]

\* Its first value is the first sequence.
LEMMA FlatFirst ==
    ASSUME NEW s, NEW n \in Nat, NEW f, IsFlat(s, n, f), n # 0
    PROVE  f[1] = s[1]
BY DEF IsFlat

\* Each next one has the next sequence at its end.
LEMMA FlatAt ==
    \A s, f : \A n, k \in Nat : IsFlat(s, n, f) /\ k # 0 /\ k + 1 \in 1 .. n =>
        f[k + 1] = f[k] \o s[k + 1]
<1> SUFFICES ASSUME NEW s, NEW f, NEW n \in Nat, NEW k \in Nat, IsFlat(s, n, f),
                    k # 0, k + 1 \in 1 .. n
             PROVE  f[k + 1] = f[k] \o s[k + 1]
    OBVIOUS
<1>1. PICK j : j = k + 1
    OBVIOUS
<1>2. j \in 1 .. n /\ j # 1 /\ j - 1 = k
    BY <1>1
<1>3. f[j] = f[j - 1] \o s[j]
    BY <1>2 DEF IsFlat
<1>4. f[j] = f[k] \o s[j]
    BY <1>2, <1>3
<1> QED
    BY <1>1, <1>4

\* There is such a function for every length.
LEMMA FlatExists ==
    ASSUME NEW S, NEW s \in Seq(Seq(S))
    PROVE  \A n \in 0 .. Len(s) : \E f \in [1 .. n -> Seq(S)] : IsFlat(s, n, f)
<1> DEFINE T == {n \in Nat : n <= Len(s) => \E f \in [1 .. n -> Seq(S)] : IsFlat(s, n, f)}
<1>1. 0 \in T
    <2> DEFINE f == [k \in 1 .. 0 |-> <<>>]
    <2>1. f \in [1 .. 0 -> Seq(S)]
        OBVIOUS
    <2>2. IsFlat(s, 0, f)
        BY DEF IsFlat
    <2> HIDE DEF f
    <2> QED
        BY <2>1, <2>2
<1>2. ASSUME NEW n \in Nat, n \in T
      PROVE  n + 1 \in T
    <2> SUFFICES ASSUME n + 1 <= Len(s)
                 PROVE  \E g \in [1 .. n + 1 -> Seq(S)] : IsFlat(s, n + 1, g)
        OBVIOUS
    <2>1. PICK f \in [1 .. n -> Seq(S)] : IsFlat(s, n, f)
        BY <1>2
    <2> DEFINE g == [k \in 1 .. n + 1 |->
                        IF k <= n THEN f[k] ELSE IF k = 1 THEN s[k] ELSE f[k - 1] \o s[k]]
    <2>2. \A k \in 1 .. n : f[k] = IF k = 1 THEN s[k] ELSE f[k - 1] \o s[k]
        BY <2>1 DEF IsFlat
    <2>3. \A k \in 1 .. n + 1 : s[k] \in Seq(S)
        OBVIOUS
    <2>4. g \in [1 .. n + 1 -> Seq(S)]
        <3>1. ASSUME NEW k \in 1 .. n + 1
              PROVE  (IF k <= n THEN f[k] ELSE IF k = 1 THEN s[k] ELSE f[k - 1] \o s[k]) \in Seq(S)
            <4>1. CASE k <= n
                BY <4>1
            <4>2. CASE k = 1 /\ ~ (k <= n)
                BY <4>2, <2>3
            <4>3. CASE k # 1 /\ ~ (k <= n)
                <5>1. k - 1 \in 1 .. n
                    BY <4>3
                <5>2. f[k - 1] \in Seq(S) /\ s[k] \in Seq(S)
                    BY <5>1, <2>3
                <5> QED
                    BY <4>3, <5>2
            <4> QED
                BY <4>1, <4>2, <4>3
        <3> QED
            BY <3>1
    <2>5. ASSUME NEW k \in 1 .. n + 1
          PROVE  g[k] = IF k = 1 THEN s[k] ELSE g[k - 1] \o s[k]
        <3>1. k # 1 => k - 1 \in 1 .. n + 1 /\ k - 1 <= n
            OBVIOUS
        <3>2. k # 1 => g[k - 1] = f[k - 1]
            BY <3>1
        <3>3. g[k] = IF k <= n THEN f[k] ELSE IF k = 1 THEN s[k] ELSE f[k - 1] \o s[k]
            OBVIOUS
        <3> HIDE DEF g
        <3>4. CASE k <= n
            <4>1. k \in 1 .. n
                BY <3>4
            <4> QED
                BY <3>2, <3>3, <3>4, <4>1, <2>2
        <3>5. CASE ~ (k <= n)
            BY <3>2, <3>3, <3>5
        <3> QED
            BY <3>4, <3>5
    <2>6. IsFlat(s, n + 1, g)
        <3>1. g = [k \in 1 .. n + 1 |-> g[k]]
            OBVIOUS
        <3> HIDE DEF g
        <3> QED
            BY <2>5, <3>1 DEF IsFlat
    <2> HIDE DEF g
    <2> QED
        BY <2>4, <2>6
<1> HIDE DEF T
<1>3. \A n \in Nat : n \in T
    BY <1>1, <1>2, NatInd
<1> QED
    BY <1>3 DEF T

\* FlattenSeq is read off such a function.
LEMMA FlatOf ==
    ASSUME NEW S, NEW s \in Seq(Seq(S)), s # <<>>
    PROVE  \E f \in [1 .. Len(s) -> Seq(S)] :
                IsFlat(s, Len(s), f) /\ FlattenSeq(s) = f[Len(s)]
<1> DEFINE F == CHOOSE f : f = [k \in 1 .. Len(s) |-> IF k = 1 THEN s[k] ELSE f[k - 1] \o s[k]]
<1>1. Len(s) # 0 /\ Len(s) \in Nat
    OBVIOUS
<1>2. FlattenSeq(s) = F[Len(s)]
    BY <1>1, Zenon DEF FlattenSeq
<1>3. PICK f \in [1 .. Len(s) -> Seq(S)] : IsFlat(s, Len(s), f)
    BY <1>1, FlatExists, SMTT(30)
<1>4. F = [k \in 1 .. Len(s) |-> IF k = 1 THEN s[k] ELSE F[k - 1] \o s[k]]
    BY <1>3, Zenon DEF IsFlat
<1> HIDE DEF F
<1>8. IsFlat(s, Len(s), F)
    BY <1>4 DEF IsFlat
<1>5. \A n \in Nat : n \in 1 .. Len(s) => F[n] \in Seq(S)
    <2> DEFINE T == {n \in Nat : n \in 1 .. Len(s) => F[n] \in Seq(S)}
    <2>1. 0 \in T
        OBVIOUS
    <2>2. ASSUME NEW n \in Nat, n \in T, n + 1 \in 1 .. Len(s)
          PROVE  F[n + 1] \in Seq(S)
        <3>1. s[n + 1] \in Seq(S)
            BY <2>2
        <3>2. CASE n = 0
            <4>1. F[1] = s[1]
                BY <1>1, <1>8, FlatFirst
            <4> QED
                BY <3>1, <3>2, <4>1
        <3>3. CASE n # 0
            <4>1. n \in 1 .. Len(s)
                BY <1>1, <2>2, <3>3
            <4>2. F[n] \in Seq(S)
                BY <2>2, <4>1
            <4>3. F[n + 1] = F[n] \o s[n + 1]
                BY <1>1, <1>8, <2>2, <3>3, FlatAt
            <4> QED
                BY <3>1, <4>2, <4>3
        <3> QED
            BY <3>2, <3>3
    <2>3. \A n \in Nat : n \in T => n + 1 \in T
        BY <2>2
    <2> HIDE DEF T
    <2>4. \A n \in Nat : n \in T
        BY <2>1, <2>3, NatInd
    <2> QED
        BY <2>4 DEF T
<1>6. DOMAIN F = 1 .. Len(s)
    BY <1>4
<1>7. F \in [1 .. Len(s) -> Seq(S)]
    <2>1. \A k \in 1 .. Len(s) : F[k] \in Seq(S)
        BY <1>5
    <2>2. F = [k \in 1 .. Len(s) |-> F[k]]
        BY <1>4, <1>6
    <2> QED
        BY <2>1, <2>2
<1> QED
    BY <1>2, <1>7, <1>8

Agree(s, t, l) == \A k \in 1 .. l : s[k] = t[k]

\* Two sequences of sequences that begin alike flatten alike.
LEMMA FlatsAgree ==
    \A s, t, f, g : \A n, m, l \in Nat :
        l <= n /\ l <= m /\ Agree(s, t, l) /\ IsFlat(s, n, f) /\ IsFlat(t, m, g)
            => Agree(f, g, l)
<1> SUFFICES ASSUME NEW s, NEW t, NEW f, NEW g, NEW n \in Nat, NEW m \in Nat, NEW l \in Nat,
                    l <= n, l <= m, \A k \in 1 .. l : s[k] = t[k],
                    IsFlat(s, n, f), IsFlat(t, m, g)
             PROVE  \A k \in 1 .. l : f[k] = g[k]
    BY DEF Agree
<1> DEFINE T == {k \in Nat : k \in 1 .. l => f[k] = g[k]}
<1>1. 0 \in T
    OBVIOUS
<1>2. ASSUME NEW k \in Nat, k \in T, k + 1 \in 1 .. l
      PROVE  f[k + 1] = g[k + 1]
    <2>1. k + 1 \in 1 .. n /\ k + 1 \in 1 .. m /\ s[k + 1] = t[k + 1]
        BY <1>2
    <2>2. CASE k = 0
        <3>1. n # 0 /\ m # 0
            BY <2>1, <2>2
        <3>2. f[1] = s[1] /\ g[1] = t[1]
            BY <3>1, FlatFirst
        <3> QED
            BY <2>1, <2>2, <3>2
    <2>3. CASE k # 0
        <3>1. f[k + 1] = f[k] \o s[k + 1]
            BY <2>1, <2>3, FlatAt
        <3>3. g[k + 1] = g[k] \o t[k + 1]
            BY <2>1, <2>3, FlatAt
        <3>2. k \in 1 .. l
            BY <1>2, <2>3
        <3> QED
            BY <1>2, <2>1, <3>1, <3>2, <3>3
    <2> QED
        BY <2>2, <2>3
<1>3. \A k \in Nat : k \in T => k + 1 \in T
    BY <1>2
<1> HIDE DEF T
<1>4. \A k \in Nat : k \in T
    BY <1>1, <1>3, NatInd
<1> QED
    BY <1>4 DEF T

\* The elements of a sequence with one more at its end.
LEMMA AppendIs ==
    \A S : \A s \in Seq(S), e \in S :
        /\ Append(s, e) \in Seq(S) /\ Len(Append(s, e)) = Len(s) + 1
        /\ DOMAIN Append(s, e) = 1 .. Len(s) + 1
        /\ Append(s, e)[Len(s) + 1] = e
        /\ \A k \in 1 .. Len(s) : Append(s, e)[k] = s[k]
OBVIOUS

\* The elements of a sequence without its last.
LEMMA FrontIs ==
    \A S : \A s \in Seq(S) : s # <<>> =>
        /\ Front(s) \in Seq(S) /\ Len(Front(s)) = Len(s) - 1
        /\ DOMAIN Front(s) = 1 .. Len(s) - 1
        /\ \A k \in 1 .. Len(s) - 1 : Front(s)[k] = s[k]
<1> SUFFICES ASSUME NEW S, NEW s \in Seq(S), s # <<>>
             PROVE  /\ Front(s) \in Seq(S) /\ Len(Front(s)) = Len(s) - 1
                    /\ DOMAIN Front(s) = 1 .. Len(s) - 1
                    /\ \A k \in 1 .. Len(s) - 1 : Front(s)[k] = s[k]
    OBVIOUS
<1>0. PICK n \in Nat : n = Len(s) - 1
    OBVIOUS
<1>1. Front(s) \in Seq(S) /\ Len(Front(s)) = Len(s) - 1
    <2>1. SubSeq(s, 1, n) \in Seq(S) /\ Len(SubSeq(s, 1, n)) = n
        BY <1>0
    <2> QED
        BY <1>0, <2>1 DEF Front
<1>2. \A k \in 1 .. Len(s) - 1 : Front(s)[k] = s[k]
    BY DEF Front
<1> HIDE DEF Front
<1> QED
    BY <1>1, <1>2

\* Nothing in no sequences.
LEMMA FlattenEmpty == FlattenSeq(<<>>) = <<>>
<1>1. Len(<<>>) = 0
    OBVIOUS
<1> QED
    BY <1>1, Zenon DEF FlattenSeq

\* The elements are those of the sequences.
LEMMA FlattenOfSeq == \A S : \A s \in Seq(Seq(S)) : FlattenSeq(s) \in Seq(S)
<1> SUFFICES ASSUME NEW S, NEW s \in Seq(Seq(S))
             PROVE  FlattenSeq(s) \in Seq(S)
    OBVIOUS
<1>1. CASE s = <<>>
    <2>1. <<>> \in Seq(S)
        OBVIOUS
    <2> QED
        BY <1>1, <2>1, FlattenEmpty
<1>2. CASE s # <<>>
    <2>1. PICK f \in [1 .. Len(s) -> Seq(S)] : FlattenSeq(s) = f[Len(s)]
        BY <1>2, FlatOf
    <2>2. Len(s) \in 1 .. Len(s)
        BY <1>2
    <2> HIDE DEF FlattenSeq
    <2> QED
        BY <2>1, <2>2
<1> QED
    BY <1>1, <1>2

\* One more sequence is joined at the end.
LEMMA FlattenAppend ==
    \A S : \A s \in Seq(Seq(S)), e \in Seq(S) :
        FlattenSeq(Append(s, e)) = FlattenSeq(s) \o e
<1> SUFFICES ASSUME NEW S, NEW s \in Seq(Seq(S)), NEW e \in Seq(S)
             PROVE  FlattenSeq(Append(s, e)) = FlattenSeq(s) \o e
    OBVIOUS
<1> DEFINE t == Append(s, e)
           U == Seq(S)
<1> HIDE DEF U
<1>0. s \in Seq(U) /\ e \in U
    BY DEF U
<1>1. /\ t \in Seq(U) /\ t # <<>> /\ Len(t) = Len(s) + 1 /\ Len(s) \in Nat
      /\ t[Len(s) + 1] = e /\ \A k \in 1 .. Len(s) : s[k] = t[k]
    BY <1>0
<1> HIDE DEF t
<1>2. PICK g : IsFlat(t, Len(t), g) /\ FlattenSeq(t) = g[Len(t)]
    BY <1>1, FlatOf DEF U
<1>3. \A k \in 1 .. Len(t) : g[k] = IF k = 1 THEN t[k] ELSE g[k - 1] \o t[k]
    BY <1>2 DEF IsFlat
<1>4. Len(t) \in 1 .. Len(t) /\ Len(t) - 1 = Len(s)
    BY <1>1
<1>5. CASE s = <<>>
    <2>1. Len(s) = 0
        BY <1>5
    <2>2. FlattenSeq(t) = e
        BY <1>1, <1>2, <1>3, <1>4, <2>1
    <2>3. FlattenSeq(s) = <<>>
        BY <1>5, FlattenEmpty
    <2>4. <<>> \o e = e
        OBVIOUS
    <2> QED
        BY <2>2, <2>3, <2>4 DEF t
<1>6. CASE s # <<>>
    <2>1. PICK f : IsFlat(s, Len(s), f) /\ FlattenSeq(s) = f[Len(s)]
        BY <1>6, FlatOf
    <2>2. PICK n \in Nat : n = Len(s) /\ n # 0 /\ n \in 1 .. n
        BY <1>1, <1>6
    <2>3. PICK m \in Nat : m = Len(t) /\ n + 1 \in 1 .. m /\ n <= n /\ n <= m
        BY <1>1, <2>2
    <2>4. IsFlat(s, n, f) /\ IsFlat(t, m, g)
        BY <1>2, <2>1, <2>2, <2>3
    <2>5. Agree(s, t, n)
        BY <1>1, <2>2 DEF Agree
    <2>6. f[n] = g[n]
        <3>1. n \in Nat /\ m \in Nat /\ n <= n /\ n <= m
            BY <2>3
        <3>2. Agree(f, g, n)
            BY <3>1, <2>4, <2>5, FlatsAgree
        <3> QED
            BY <2>2, <3>2 DEF Agree
    <2>7. g[n + 1] = g[n] \o t[n + 1]
        BY <2>2, <2>3, <2>4, FlatAt
    <2>8. FlattenSeq(t) = g[n + 1] /\ t[n + 1] = e
        BY <1>1, <1>2, <2>2
    <2> QED
        BY <2>1, <2>2, <2>6, <2>7, <2>8 DEF t
<1> QED
    BY <1>5, <1>6

\* Sequences are joined in any grouping.
LEMMA ConcatAssoc == \A S : \A a, b, c \in Seq(S) : a \o (b \o c) = (a \o b) \o c
<1> SUFFICES ASSUME NEW S, NEW a \in Seq(S), NEW b \in Seq(S), NEW c \in Seq(S)
             PROVE  a \o (b \o c) = (a \o b) \o c
    OBVIOUS
<1> QED
    BY ConcatAssociative

\* The last sequence is what is joined at the end.
LEMMA FlattenFront ==
    \A S : \A s \in Seq(Seq(S)) : s # <<>> =>
        FlattenSeq(s) = FlattenSeq(Front(s)) \o s[Len(s)]
<1> SUFFICES ASSUME NEW S, NEW s \in Seq(Seq(S)), s # <<>>
             PROVE  FlattenSeq(s) = FlattenSeq(Front(s)) \o s[Len(s)]
    OBVIOUS
<1> DEFINE U == Seq(S)
<1> HIDE DEF U
<1>0. s \in Seq(U)
    BY DEF U
<1>1. Front(s) \in Seq(U) /\ s[Len(s)] \in U /\ s = Append(Front(s), s[Len(s)])
    BY <1>0 DEF Front
<1> HIDE DEF Front
<1>2. PICK r \in Seq(U), e \in U : r = Front(s) /\ e = s[Len(s)]
    BY <1>1
<1>3. FlattenSeq(Append(r, e)) = FlattenSeq(r) \o e
    BY FlattenAppend DEF U
<1> QED
    BY <1>1, <1>2, <1>3

\* v is u with e joined at its end.
IsJoin(v, u, e) == v = u \o e

\* More in one more sequence is more at the end.
LEMMA FlattenMore ==
    \A S : \A r \in Seq(Seq(S)), u, e, v \in Seq(S) : IsJoin(v, u, e) =>
        IsJoin(FlattenSeq(Append(r, v)), FlattenSeq(Append(r, u)), e)
<1> SUFFICES ASSUME NEW S, NEW r \in Seq(Seq(S)), NEW u \in Seq(S), NEW e \in Seq(S),
                    NEW v \in Seq(S), v = u \o e
             PROVE  FlattenSeq(Append(r, v)) = FlattenSeq(Append(r, u)) \o e
    BY DEF IsJoin
<1>2. FlattenSeq(Append(r, v)) = FlattenSeq(r) \o v
    BY FlattenAppend
<1>3. FlattenSeq(Append(r, u)) = FlattenSeq(r) \o u
    BY FlattenAppend
<1>4. PICK f \in Seq(S) : f = FlattenSeq(r)
    BY FlattenOfSeq
<1>5. f \o (u \o e) = (f \o u) \o e
    BY ConcatAssoc
<1> QED
    BY <1>2, <1>3, <1>4, <1>5

\* t is s with e behind its last sequence.
LongerAtEnd(s, t, e) ==
    Len(t) = Len(s) /\ Agree(s, t, Len(s) - 1) /\ IsJoin(t[Len(s)], s[Len(s)], e)

\* More at the end of the last sequence is more at the end.
LEMMA FlattenLast ==
    \A S : \A s, t \in Seq(Seq(S)), e \in Seq(S) :
        s # <<>> /\ LongerAtEnd(s, t, e) => IsJoin(FlattenSeq(t), FlattenSeq(s), e)
<1> SUFFICES ASSUME NEW S, NEW s \in Seq(Seq(S)), NEW t \in Seq(Seq(S)), NEW e \in Seq(S),
                    s # <<>>, LongerAtEnd(s, t, e)
             PROVE  IsJoin(FlattenSeq(t), FlattenSeq(s), e)
    OBVIOUS
<1> DEFINE U == Seq(S)
<1> HIDE DEF U
<1>1. s \in Seq(U) /\ t \in Seq(U)
    BY DEF U
<1>2. PICK n \in Nat : Len(s) = n /\ Len(t) = n /\ n # 0 /\ t # <<>>
    BY <1>1 DEF LongerAtEnd
<1>3. PICK r \in Seq(U), u \in U :
        s = Append(r, u) /\ Len(r) = n - 1 /\ u = s[n] /\ \A k \in 1 .. n - 1 : r[k] = s[k]
    <2>1. Front(s) \in Seq(U) /\ s = Append(Front(s), s[n]) /\ Len(Front(s)) = n - 1
          /\ \A k \in 1 .. n - 1 : Front(s)[k] = s[k]
        BY <1>1, <1>2 DEF Front
    <2>2. s[n] \in U
        BY <1>1, <1>2
    <2> QED
        BY <2>1, <2>2
<1>4. PICK q \in Seq(U), v \in U :
        t = Append(q, v) /\ Len(q) = n - 1 /\ v = t[n] /\ \A k \in 1 .. n - 1 : q[k] = t[k]
    <2>1. Front(t) \in Seq(U) /\ t = Append(Front(t), t[n]) /\ Len(Front(t)) = n - 1
          /\ \A k \in 1 .. n - 1 : Front(t)[k] = t[k]
        BY <1>1, <1>2 DEF Front
    <2>2. t[n] \in U
        BY <1>1, <1>2
    <2> QED
        BY <2>1, <2>2
<1>5. q = r
    <2>1. Len(q) = Len(r) /\ \A k \in 1 .. Len(q) : q[k] = r[k]
        BY <1>2, <1>3, <1>4 DEF LongerAtEnd, Agree
    <2> QED
        BY <2>1, SeqEqual
<1>6. IsJoin(v, u, e)
    BY <1>2, <1>3, <1>4 DEF LongerAtEnd
<1>7. IsJoin(FlattenSeq(Append(r, v)), FlattenSeq(Append(r, u)), e)
    <2>1. r \in Seq(Seq(S)) /\ u \in Seq(S) /\ v \in Seq(S)
        BY DEF U
    <2> QED
        BY <1>6, <2>1, FlattenMore
<1> QED
    BY <1>3, <1>4, <1>5, <1>6, <1>7

\* One sequence behind another has what either has.
LEMMA ConcatSet ==
    \A S : \A a, b \in Seq(S) : \A x : x \in ToSet(a \o b) <=> x \in ToSet(a) \/ x \in ToSet(b)
<1> SUFFICES ASSUME NEW S, NEW a \in Seq(S), NEW b \in Seq(S), NEW x
             PROVE  x \in ToSet(a \o b) <=> x \in ToSet(a) \/ x \in ToSet(b)
    OBVIOUS
<1>1. PICK n \in Nat, m \in Nat : /\ n = Len(a) /\ DOMAIN a = 1 .. n
                                  /\ m = Len(b) /\ DOMAIN b = 1 .. m
    OBVIOUS
<1>2. PICK c : c = a \o b
    OBVIOUS
<1>3. /\ DOMAIN c = 1 .. n + m
      /\ \A k \in 1 .. n : c[k] = a[k]
      /\ \A k \in 1 .. m : c[n + k] = b[k]
    BY <1>1, <1>2
<1>4. ASSUME NEW k \in 1 .. n + m
      PROVE  k \in 1 .. n \/ \E j \in 1 .. m : k = n + j
    <2>1. CASE k <= n
        BY <2>1
    <2>2. CASE k > n
        <3>1. k - n \in 1 .. m /\ k = n + (k - n)
            BY <2>2
        <3> QED
            BY <3>1
    <2> QED
        BY <2>1, <2>2
<1>5. \A k \in 1 .. m : n + k \in 1 .. n + m
    OBVIOUS
<1>6. \A k \in 1 .. n : k \in 1 .. n + m
    OBVIOUS
<1>7. ASSUME x \in ToSet(c) PROVE x \in ToSet(a) \/ x \in ToSet(b)
    <2>1. PICK k \in 1 .. n + m : x = c[k]
        BY <1>3, <1>7 DEF ToSet
    <2>2. CASE k \in 1 .. n
        BY <1>1, <1>3, <2>1, <2>2 DEF ToSet
    <2>3. CASE \E j \in 1 .. m : k = n + j
        BY <1>1, <1>3, <2>1, <2>3 DEF ToSet
    <2> QED
        BY <1>4, <2>2, <2>3
<1>8. ASSUME x \in ToSet(a) PROVE x \in ToSet(c)
    BY <1>1, <1>3, <1>6, <1>8 DEF ToSet
<1>9. ASSUME x \in ToSet(b) PROVE x \in ToSet(c)
    BY <1>1, <1>3, <1>5, <1>9 DEF ToSet
<1> QED
    BY <1>2, <1>7, <1>8, <1>9

\* FlattenSeq has what the sequences have.
LEMMA FlattenElements ==
    \A S : \A s \in Seq(Seq(S)) : \A x :
        x \in ToSet(FlattenSeq(s)) <=> \E i \in DOMAIN s : x \in ToSet(s[i])
<1> SUFFICES ASSUME NEW S, NEW s \in Seq(Seq(S)), NEW x
             PROVE  x \in ToSet(FlattenSeq(s)) <=> \E i \in DOMAIN s : x \in ToSet(s[i])
    OBVIOUS
<1> DEFINE U == Seq(S)
<1>0. \A a, b \in U : x \in ToSet(a \o b) <=> x \in ToSet(a) \/ x \in ToSet(b)
    BY ConcatSet
<1> HIDE DEF U
<1>1. PICK n \in Nat : n = Len(s) /\ DOMAIN s = 1 .. n /\ \A k \in 1 .. n : s[k] \in U
    BY DEF U
<1>2. CASE s = <<>>
    <2>1. DOMAIN s = {} /\ ToSet(<<>>) = {}
        BY <1>2 DEF ToSet
    <2> QED
        BY <1>2, <2>1, FlattenEmpty
<1>3. CASE s # <<>>
    <2>1. PICK f \in [1 .. n -> U] : IsFlat(s, n, f) /\ FlattenSeq(s) = f[n]
        BY <1>1, <1>3, FlatOf DEF U
    <2> DEFINE Has(k) == x \in ToSet(f[k]) <=> \E i \in 1 .. k : x \in ToSet(s[i])
               T == {k \in Nat : k \in 1 .. n => Has(k)}
    <2>2. 0 \in T
        OBVIOUS
    <2>3. ASSUME NEW k \in Nat, k \in T, k + 1 \in 1 .. n
          PROVE  Has(k + 1)
        <3>1. PICK j \in 1 .. n : j = k + 1 /\ j - 1 = k
            BY <2>3
        <3>2. f[j] = IF j = 1 THEN s[j] ELSE f[k] \o s[j]
            BY <2>1, <3>1 DEF IsFlat
        <3>3. CASE j = 1
            <4>1. 1 .. j = {1} /\ f[j] = s[j]
                BY <3>2, <3>3
            <4> QED
                BY <3>1, <3>3, <4>1
        <3>4. CASE j # 1
            <4>0. k \in 1 .. n
                BY <3>1, <3>4
            <4>1. k \in 1 .. n /\ f[k] \in U /\ s[j] \in U
                BY <1>1, <2>1, <4>0
            <4>2. x \in ToSet(f[j]) <=> x \in ToSet(f[k]) \/ x \in ToSet(s[j])
                BY <1>0, <3>2, <3>4, <4>1
            <4>3. Has(k)
                BY <2>3, <4>1
            <4>4. (\E i \in 1 .. j : x \in ToSet(s[i])) <=>
                    (\E i \in 1 .. k : x \in ToSet(s[i])) \/ x \in ToSet(s[j])
                <5>1. 1 .. j = 1 .. k \union {j}
                    BY <3>1
                <5> QED
                    BY <5>1
            <4> QED
                BY <3>1, <4>2, <4>3, <4>4
        <3> QED
            BY <3>3, <3>4
    <2>4. \A k \in Nat : k \in T => k + 1 \in T
        <3> HIDE DEF Has
        <3> QED
            BY <2>3
    <2> HIDE DEF T
    <2>5. n \in T
        BY <2>2, <2>4, NatInd
    <2>6. n \in 1 .. n
        <3>1. n # 0
            BY <1>1, <1>3, EmptySeq
        <3> QED
            BY <3>1
    <2>7. Has(n)
        BY <2>5, <2>6 DEF T
    <2> QED
        BY <1>1, <2>1, <2>7
<1> QED
    BY <1>2, <1>3
-----------------------------------------------------------------------------
(* Division *)

\* Quotient and remainder make the number.
LEMMA DivSum == \A a \in Nat, w \in Nat \ {0} : a = w * (a \div w) + (a % w)
    BY SMTT(60)

\* A product of some rows of w and part of one more.
LEMMA RowsNat ==
    \A y, w, k, l \in Nat : k < w /\ y < l => y * w + k \in Nat /\ y * w + k < l * w
<1> SUFFICES ASSUME NEW y \in Nat, NEW w \in Nat, NEW k \in Nat, NEW l \in Nat, k < w, y < l
             PROVE  y * w + k \in Nat /\ y * w + k < l * w
    OBVIOUS
<1>1. PICK z \in Nat : l = y + 1 + z
    <2>1. l - y - 1 \in Nat /\ l = y + 1 + (l - y - 1)
        OBVIOUS
    <2> QED
        BY <2>1
<1>2. (y + 1 + z) * w = y * w + w + z * w
    OBVIOUS
<1>3. y * w \in Nat /\ z * w \in Nat
    OBVIOUS
<1> QED
    BY <1>1, <1>2, <1>3

\* A division leaves less than the divisor.
LEMMA DivMod ==
    \A a \in Nat, w \in Nat \ {0} :
        /\ a \div w \in Nat /\ a % w \in 0 .. w - 1
        /\ a = w * (a \div w) + (a % w)
<1> SUFFICES ASSUME NEW a \in Nat, NEW w \in Nat \ {0}
             PROVE  /\ a \div w \in Nat /\ a % w \in 0 .. w - 1
                    /\ a = w * (a \div w) + (a % w)
    OBVIOUS
<1>1. a % w \in Int
    OBVIOUS
<1>2. a % w >= 0
    OBVIOUS
<1>3. a % w < w
    OBVIOUS
<1>4. a = w * (a \div w) + (a % w)
    BY DivSum
<1>5. a \div w \in Int
    OBVIOUS
<1>6. a \div w >= 0
    OBVIOUS
<1>7. a \div w \in Nat
    BY <1>5, <1>6
<1>8. a % w \in 0 .. w - 1
    BY <1>1, <1>2, <1>3
<1> QED
    BY <1>4, <1>7, <1>8, Zenon

\* There is one quotient and one remainder.
LEMMA DivIs ==
    \A q, r \in Nat, w \in Nat \ {0} :
        r < w => (q * w + r) \div w = q /\ (q * w + r) % w = r
<1> SUFFICES ASSUME NEW q \in Nat, NEW r \in Nat, NEW w \in Nat \ {0}, r < w
             PROVE  (q * w + r) \div w = q /\ (q * w + r) % w = r
    OBVIOUS
<1>1. PICK a \in Nat : a = q * w + r
    OBVIOUS
<1>2. PICK b \in Nat : b = a \div w
    BY DivMod
<1>3. PICK c \in Nat : c = a % w /\ c < w
    BY DivMod
<1>4. a = w * b + c
    BY <1>2, <1>3, DivMod
<1>5. \A x, y \in Nat : x < y => x * w + w <= y * w
    <2> SUFFICES ASSUME NEW x \in Nat, NEW y \in Nat, x < y
                 PROVE  x * w + w <= y * w
        OBVIOUS
    <2>1. PICK z \in Nat : y = x + 1 + z
        <3>1. y - x - 1 \in Nat /\ y = x + 1 + (y - x - 1)
            OBVIOUS
        <3> QED
            BY <3>1
    <2>2. y * w = x * w + w + z * w /\ z * w \in Nat /\ x * w \in Nat
        BY <2>1
    <2> QED
        BY <2>2
<1>6. q * w \in Nat /\ b * w \in Nat /\ w * b = b * w
    OBVIOUS
<1>7. ~ (q < b)
    BY <1>1, <1>3, <1>4, <1>5, <1>6
<1>8. ~ (b < q)
    BY <1>1, <1>3, <1>4, <1>5, <1>6
<1>9. q = b
    BY <1>7, <1>8
<1> QED
    BY <1>1, <1>2, <1>3, <1>4, <1>6, <1>9

\* A division by one.
LEMMA DivOne == \A x \in Nat : x \div 1 = x
<1> SUFFICES ASSUME NEW x \in Nat PROVE x \div 1 = x
    OBVIOUS
<1>1. (x * 1 + 0) \div 1 = x
    <2>1. 0 \in Nat /\ 1 \in Nat \ {0} /\ 0 < 1
        OBVIOUS
    <2> QED
        BY <2>1, DivIs
<1>2. x * 1 + 0 = x
    OBVIOUS
<1> QED
    BY <1>1, <1>2
-----------------------------------------------------------------------------
(* Products *)

\* f[s] is the product of the numbers that c has at the places in s.
IsProduct(c, n, f) ==
    f = [s \in SUBSET (1 .. n) |-> IF s = {} THEN 1 ELSE f[s \ {Max(s)}] * c[Max(s)]]

\* There is such a function for every length.
LEMMA ProductExists == \A c : \A n \in Nat : \E f : IsProduct(c, n, f)
<1> SUFFICES ASSUME NEW c
             PROVE  \A n \in Nat : \E f : IsProduct(c, n, f)
    OBVIOUS
<1> DEFINE T == {n \in Nat : \E f : IsProduct(c, n, f)}
<1>1. 0 \in T
    <2> DEFINE f == [s \in SUBSET (1 .. 0) |-> 1]
    <2>1. \A s \in SUBSET (1 .. 0) : s = {} /\ f[s] = 1
        OBVIOUS
    <2>2. f = [s \in SUBSET (1 .. 0) |-> f[s]]
        OBVIOUS
    <2> HIDE DEF f
    <2>3. IsProduct(c, 0, f)
        BY <2>1, <2>2 DEF IsProduct
    <2> QED
        BY <2>3
<1>2. ASSUME NEW n \in Nat, n \in T
      PROVE  n + 1 \in T
    <2>1. PICK f : IsProduct(c, n, f)
        BY <1>2
    <2>2. PICK m \in Nat : m = n + 1
        OBVIOUS
    <2>3. 1 .. n \subseteq 1 .. m /\ m \notin 1 .. n
        BY <2>2
    <2>4. \A s \in SUBSET (1 .. m) : m \notin s => s \in SUBSET (1 .. n)
        BY <2>2
    <2>5. \A s \in SUBSET (1 .. m) : s # {} => Max(s) \in s /\ \A y \in s : Max(s) >= y
        <3>1. \A s \in SUBSET (1 .. m) : s \subseteq 0 .. m
            OBVIOUS
        <3> QED
            BY <3>1, MaxOf
    <2>6. \A s \in SUBSET (1 .. m) : m \in s => Max(s) = m
        <3> SUFFICES ASSUME NEW s \in SUBSET (1 .. m), m \in s
                     PROVE  Max(s) = m
            OBVIOUS
        <3>1. Max(s) \in 1 .. m /\ Max(s) >= m
            BY <2>5
        <3> QED
            BY <3>1
    <2> DEFINE g == [s \in SUBSET (1 .. m) |->
                        IF m \notin s THEN f[s] ELSE f[s \ {m}] * c[m]]
    <2>7. ASSUME NEW s \in SUBSET (1 .. m)
          PROVE  g[s] = IF s = {} THEN 1 ELSE g[s \ {Max(s)}] * c[Max(s)]
        <3>1. CASE m \notin s
            <4>1. s \in SUBSET (1 .. n)
                BY <2>4, <3>1
            <4>2. f[s] = IF s = {} THEN 1 ELSE f[s \ {Max(s)}] * c[Max(s)]
                BY <2>1, <4>1 DEF IsProduct
            <4>3. PICK t : t = s \ {Max(s)}
                OBVIOUS
            <4>4. t \in SUBSET (1 .. m) /\ m \notin t
                BY <3>1, <4>3
            <4>5. g[t] = f[t] /\ g[s] = f[s]
                BY <3>1, <4>4
            <4> HIDE DEF g
            <4> QED
                BY <4>2, <4>3, <4>5
        <3>2. CASE m \in s
            <4>1. Max(s) = m /\ s # {}
                BY <2>6, <3>2
            <4>2. PICK t : t = s \ {m}
                OBVIOUS
            <4>3. t \in SUBSET (1 .. m) /\ m \notin t
                BY <4>2
            <4>4. g[t] = f[t] /\ g[s] = f[t] * c[m]
                BY <3>2, <4>2, <4>3
            <4> HIDE DEF g
            <4> QED
                BY <4>1, <4>2, <4>4
        <3> QED
            BY <3>1, <3>2
    <2>8. g = [s \in SUBSET (1 .. m) |-> g[s]]
        OBVIOUS
    <2> HIDE DEF g
    <2>9. IsProduct(c, m, g)
        BY <2>7, <2>8 DEF IsProduct
    <2> QED
        BY <2>2, <2>9
<1> HIDE DEF T
<1>3. \A n \in Nat : n \in T
    BY <1>1, <1>2, NatInd
<1> QED
    BY <1>3 DEF T

\* g[k] is the product of the first k numbers of c.
Products(c, n, g) == g[0] = 1 /\ \A k \in 1 .. n : g[k] = g[k - 1] * c[k]

\* Volume is the product of all.
LEMMA VolumeIs ==
    \A S : \A c \in Seq(S) : \E g : Products(c, Len(c), g) /\ Volume(c) = g[Len(c)]
<1> SUFFICES ASSUME NEW S, NEW c \in Seq(S)
             PROVE  \E g : Products(c, Len(c), g) /\ Volume(c) = g[Len(c)]
    OBVIOUS
<1>1. PICK n \in Nat : n = Len(c) /\ DOMAIN c = 1 .. n
    OBVIOUS
<1>2. Volume(c) = (LET iter[s \in SUBSET DOMAIN c] ==
                        IF s = {} THEN 1 ELSE iter[s \ {Max(s)}] * c[Max(s)]
                   IN  iter[DOMAIN c])
    BY DEF Volume, FoldLeft, MapThenFoldSet
<1> DEFINE F == CHOOSE f : f = [s \in SUBSET DOMAIN c |->
                        IF s = {} THEN 1 ELSE f[s \ {Max(s)}] * c[Max(s)]]
<1>3. Volume(c) = F[DOMAIN c]
    BY <1>2, Zenon
<1>4. PICK f : IsProduct(c, n, f)
    BY ProductExists
<1>5. f = [s \in SUBSET DOMAIN c |-> IF s = {} THEN 1 ELSE f[s \ {Max(s)}] * c[Max(s)]]
    BY <1>1, <1>4 DEF IsProduct
<1>6. F = [s \in SUBSET DOMAIN c |-> IF s = {} THEN 1 ELSE F[s \ {Max(s)}] * c[Max(s)]]
    BY <1>5, Zenon
<1> HIDE DEF F
<1>7. \A s \in SUBSET (1 .. n) : F[s] = IF s = {} THEN 1 ELSE F[s \ {Max(s)}] * c[Max(s)]
    BY <1>1, <1>6
<1> DEFINE g == [k \in 0 .. n |-> F[1 .. k]]
<1>8. g[0] = 1
    <2>1. 1 .. 0 = {} /\ 0 \in 0 .. n /\ {} \in SUBSET (1 .. n)
        OBVIOUS
    <2>2. F[{}] = 1
        BY <1>7, <2>1
    <2> QED
        BY <2>1, <2>2
<1>9. ASSUME NEW k \in 1 .. n
      PROVE  g[k] = g[k - 1] * c[k]
    <2>1. PICK s : s = 1 .. k /\ s \in SUBSET (1 .. n) /\ s # {} /\ k \in s
        OBVIOUS
    <2>2. Max(s) = k
        <3>1. s \subseteq 0 .. k
            BY <2>1
        <3>2. Max(s) \in s /\ \A y \in s : Max(s) >= y
            <4>1. k \in Nat /\ s # {}
                BY <2>1
            <4> QED
                BY <3>1, <4>1, MaxOf
        <3>3. Max(s) \in 1 .. k /\ Max(s) >= k
            BY <2>1, <3>2
        <3> QED
            BY <3>3
    <2>3. PICK j \in 0 .. n : j = k - 1
        OBVIOUS
    <2>4. s \ {k} = 1 .. j
        BY <2>1, <2>3
    <2>5. F[s] = F[1 .. j] * c[k]
        BY <1>7, <2>1, <2>2, <2>4
    <2> QED
        BY <2>1, <2>3, <2>5
<1>10. g[n] = F[DOMAIN c]
    BY <1>1
<1> HIDE DEF g
<1>11. Products(c, n, g)
    BY <1>8, <1>9 DEF Products
<1> QED
    BY <1>1, <1>3, <1>10, <1>11

\* Products of the same numbers are the same.
LEMMA ProductsAgree ==
    \A c, d, g, h : \A n, m, l \in Nat :
        Products(c, n, g) /\ Products(d, m, h) /\ l <= n /\ l <= m /\ Agree(c, d, l) => g[l] = h[l]
<1> SUFFICES ASSUME NEW c, NEW d, NEW g, NEW h, NEW n \in Nat, NEW m \in Nat, NEW l \in Nat,
                    Products(c, n, g), Products(d, m, h), l <= n, l <= m, Agree(c, d, l)
             PROVE  g[l] = h[l]
    OBVIOUS
<1> DEFINE T == {k \in Nat : k <= l => g[k] = h[k]}
<1>1. 0 \in T
    BY DEF Products
<1>2. ASSUME NEW k \in Nat, k \in T, k + 1 <= l
      PROVE  g[k + 1] = h[k + 1]
    <2>1. PICK j \in Nat : j = k + 1 /\ j - 1 = k /\ j \in 1 .. n /\ j \in 1 .. m /\ j \in 1 .. l
        BY <1>2
    <2>2. g[j] = g[k] * c[j] /\ h[j] = h[k] * d[j]
        BY <2>1 DEF Products
    <2>3. g[k] = h[k] /\ c[j] = d[j]
        BY <1>2, <2>1 DEF Agree
    <2> QED
        BY <2>1, <2>2, <2>3
<1>3. \A k \in Nat : k \in T => k + 1 \in T
    BY <1>2
<1> HIDE DEF T
<1>4. \A k \in Nat : k \in T
    BY <1>1, <1>3, NatInd
<1> QED
    BY <1>4 DEF T

\* There is one cell in no dimensions.
LEMMA VolumeEmpty == Volume(<<>>) = 1
<1>1. <<>> \in Seq(Nat) /\ Len(<<>>) = 0
    OBVIOUS
<1>2. PICK g : Products(<<>>, Len(<<>>), g) /\ Volume(<<>>) = g[Len(<<>>)]
    BY <1>1, VolumeIs
<1> QED
    BY <1>1, <1>2 DEF Products

\* One dimension more.
LEMMA VolumeAppend == \A s \in Seq(Nat), x \in Nat : Volume(Append(s, x)) = Volume(s) * x
<1> SUFFICES ASSUME NEW s \in Seq(Nat), NEW x \in Nat
             PROVE  Volume(Append(s, x)) = Volume(s) * x
    OBVIOUS
<1>0. Append(s, x) \in Seq(Nat)
    OBVIOUS
<1>1. PICK t \in Seq(Nat) : t = Append(s, x)
    BY <1>0
<1>2. PICK n \in Nat : n = Len(s) /\ Len(t) = n + 1 /\ t[n + 1] = x /\ Agree(s, t, n)
    BY <1>1 DEF Agree
<1>3. PICK g : Products(s, n, g) /\ Volume(s) = g[n]
    BY <1>2, VolumeIs
<1>4. PICK h : Products(t, n + 1, h) /\ Volume(t) = h[n + 1]
    BY <1>2, VolumeIs
<1>5. PICK m \in Nat : m = n + 1 /\ m - 1 = n /\ m \in 1 .. m
    OBVIOUS
<1>6. h[m] = h[n] * t[m]
    BY <1>4, <1>5 DEF Products
<1>7. n \in Nat /\ m \in Nat /\ n <= n /\ n <= m
    BY <1>5
<1>8. g[n] = h[n]
    BY <1>2, <1>3, <1>4, <1>5, <1>7, ProductsAgree
<1> QED
    BY <1>1, <1>2, <1>3, <1>4, <1>5, <1>6, <1>8

\* A volume is a number of cells, and there are some if all lengths are.
LEMMA VolumeNat ==
    \A s \in Seq(Nat) : /\ Volume(s) \in Nat
                        /\ Volume(s) # 0 <=> \A k \in 1 .. Len(s) : s[k] # 0
<1> SUFFICES ASSUME NEW s \in Seq(Nat)
             PROVE  Volume(s) \in Nat /\ (Volume(s) # 0 <=> \A k \in 1 .. Len(s) : s[k] # 0)
    OBVIOUS
<1>1. PICK n \in Nat : n = Len(s) /\ \A k \in 1 .. n : s[k] \in Nat
    OBVIOUS
<1>2. PICK g : Products(s, n, g) /\ Volume(s) = g[n]
    BY <1>1, VolumeIs
<1> DEFINE T == {k \in Nat : k <= n => g[k] \in Nat /\ (g[k] # 0 <=> \A j \in 1 .. k : s[j] # 0)}
<1>3. 0 \in T
    BY <1>2 DEF Products
<1>4. ASSUME NEW k \in Nat, k \in T, k + 1 <= n
      PROVE  g[k + 1] \in Nat /\ (g[k + 1] # 0 <=> \A j \in 1 .. k + 1 : s[j] # 0)
    <2>1. PICK j \in Nat : j = k + 1 /\ j - 1 = k /\ j \in 1 .. n
        BY <1>4
    <2>2. g[j] = g[k] * s[j]
        BY <1>2, <2>1 DEF Products
    <2>3. PICK a \in Nat : a = g[k] /\ (a # 0 <=> \A i \in 1 .. k : s[i] # 0)
        BY <1>4
    <2>4. PICK b \in Nat : b = s[j]
        BY <1>1, <2>1
    <2>5. a * b \in Nat /\ (a * b # 0 <=> a # 0 /\ b # 0)
        OBVIOUS
    <2>6. (\A i \in 1 .. j : s[i] # 0) <=> (\A i \in 1 .. k : s[i] # 0) /\ s[j] # 0
        BY <2>1
    <2> QED
        BY <2>1, <2>2, <2>3, <2>4, <2>5, <2>6
<1>5. \A k \in Nat : k \in T => k + 1 \in T
    BY <1>4
<1> HIDE DEF T
<1>6. n \in T
    BY <1>3, <1>5, NatInd
<1> QED
    BY <1>1, <1>2, <1>6 DEF T

\* The volume of the dimensions from the j-th on.
From(c, j) == Volume(SubSeq(c, j, Len(c)))

\* A dimension more at the front.
LEMMA VolumeFrom ==
    \A c \in Seq(Nat) : \A j \in 1 .. Len(c) : From(c, j) = c[j] * From(c, j + 1)
<1> SUFFICES ASSUME NEW c \in Seq(Nat), NEW j \in 1 .. Len(c)
             PROVE  From(c, j) = c[j] * From(c, j + 1)
    OBVIOUS
<1>1. PICK n \in Nat : n = Len(c) /\ j \in 1 .. n /\ \A k \in 1 .. n : c[k] \in Nat
    OBVIOUS
<1> DEFINE V(i, m) == Volume(SubSeq(c, i, m))
           T == {m \in Nat : m >= j /\ m <= n => V(j, m) = c[j] * V(j + 1, m)}
<1>2. 0 \in T
    BY <1>1
<1>3. ASSUME NEW m \in Nat, m \in T, m + 1 >= j, m + 1 <= n
      PROVE  V(j, m + 1) = c[j] * V(j + 1, m + 1)
    <2>1. PICK k \in Nat : k = m + 1 /\ k \in 1 .. n /\ j <= k
        BY <1>1, <1>3
    <2>2. PICK x \in Nat : x = c[k]
        BY <1>1, <2>1
    <2>3. PICK y \in Nat : y = c[j]
        BY <1>1
    <2>4. CASE j = k
        <3>1. SubSeq(c, j, j) = <<y>>
            <4>1. SubSeq(c, j, j) \in Seq(Nat) /\ Len(SubSeq(c, j, j)) = 1
                BY <1>1
            <4>2. SubSeq(c, j, j)[1] = y
                BY <1>1, <2>3
            <4>3. <<y>> \in Seq(Nat) /\ Len(<<y>>) = 1 /\ <<y>>[1] = y
                BY <2>3
            <4>4. PICK t : t = SubSeq(c, j, j)
                OBVIOUS
            <4>5. PICK u : u = <<y>>
                OBVIOUS
            <4>6. t \in Seq(Nat) /\ u \in Seq(Nat) /\ Len(t) = 1 /\ Len(u) = 1 /\ t[1] = u[1]
                BY <4>1, <4>2, <4>3, <4>4, <4>5
            <4>7. \A i \in 1 .. Len(t) : t[i] = u[i]
                BY <4>6
            <4>8. t = u
                BY <4>6, <4>7, SeqEqual
            <4> QED
                BY <4>4, <4>5, <4>8
        <3>2. SubSeq(c, j + 1, j) = <<>>
            BY <1>1
        <3>3. <<y>> = Append(<<>>, y) /\ <<>> \in Seq(Nat)
            OBVIOUS
        <3>4. Volume(<<y>>) = Volume(<<>>) * y
            BY <3>3, VolumeAppend
        <3>5. 1 * y = y /\ y * 1 = y
            OBVIOUS
        <3> HIDE DEF V
        <3>6. V(j, j) = y /\ V(j + 1, j) = 1
            BY <3>1, <3>2, <3>4, <3>5, VolumeEmpty DEF V
        <3> QED
            BY <2>1, <2>3, <2>4, <3>5, <3>6
    <2>5. CASE j # k
        <3>1. m \in 1 .. n /\ j <= m /\ j + 1 <= m + 1
            BY <1>1, <2>1, <2>5
        <3>2. SubSeq(c, j, m) \in Seq(Nat) /\ SubSeq(c, j + 1, m) \in Seq(Nat)
            BY <1>1, <3>1
        <3>3. SubSeq(c, j, k) = Append(SubSeq(c, j, m), x)
            BY <1>1, <2>1, <2>2, <3>1
        <3>4. SubSeq(c, j + 1, k) = Append(SubSeq(c, j + 1, m), x)
            BY <1>1, <2>1, <2>2, <3>1
        <3>5. PICK a \in Nat : a = V(j, m)
            BY <3>2, VolumeNat
        <3>6. PICK b \in Nat : b = V(j + 1, m)
            BY <3>2, VolumeNat
        <3>7. V(j, k) = a * x
            BY <3>2, <3>3, <3>5, VolumeAppend
        <3>8. V(j + 1, k) = b * x
            BY <3>2, <3>4, <3>6, VolumeAppend
        <3>9. a = y * b
            BY <1>3, <2>3, <3>1, <3>5, <3>6
        <3>10. (y * b) * x = y * (b * x)
            OBVIOUS
        <3> QED
            BY <2>1, <2>3, <3>7, <3>8, <3>9, <3>10
    <2> QED
        BY <2>4, <2>5
<1>4. \A m \in Nat : m \in T => m + 1 \in T
    BY <1>3
<1> HIDE DEF T
<1>5. n \in T
    BY <1>2, <1>4, NatInd
<1> QED
    BY <1>1, <1>5 DEF T, From
-----------------------------------------------------------------------------
(* The cells of an array *)

\* The volumes of all dimensions and of none, and of those from any on.
LEMMA SlabVolumes ==
    \A count \in Seq(Nat) :
        /\ From(count, 1) = Volume(count) /\ From(count, Len(count) + 1) = 1
        /\ \A j \in 1 .. Len(count) + 1 : From(count, j) \in Nat
<1> SUFFICES ASSUME NEW count \in Seq(Nat)
             PROVE  /\ From(count, 1) = Volume(count) /\ From(count, Len(count) + 1) = 1
                    /\ \A j \in 1 .. Len(count) + 1 : From(count, j) \in Nat
    OBVIOUS
<1>1. PICK n \in Nat : n = Len(count)
    OBVIOUS
<1>2. SubSeq(count, 1, n) = count
    BY <1>1
<1>3. SubSeq(count, n + 1, n) = <<>>
    BY <1>1
<1>4. \A j \in 1 .. n + 1 : SubSeq(count, j, n) \in Seq(Nat)
    BY <1>1
<1> QED
    BY <1>1, <1>2, <1>3, <1>4, VolumeEmpty, VolumeNat DEF From

\* The indices of a cell lie in the lengths.
LEMMA IndexIn ==
    \A count \in Seq(Nat) : \A k \in 0 .. Volume(count) - 1 :
        \A j \in 1 .. Len(count) : /\ j \in DOMAIN Index(k, count)
                                   /\ Index(k, count)[j] \in 0 .. count[j] - 1
<1> SUFFICES ASSUME NEW count \in Seq(Nat), NEW k \in 0 .. Volume(count) - 1,
                    NEW j \in 1 .. Len(count)
             PROVE  j \in DOMAIN Index(k, count) /\ Index(k, count)[j] \in 0 .. count[j] - 1
    OBVIOUS
<1>1. Volume(count) \in Nat
    BY VolumeNat
<1>2. \A i \in 1 .. Len(count) : count[i] # 0
    BY <1>1, VolumeNat
<1>3. PICK l \in Nat \ {0} : l = count[j]
    BY <1>2
<1>4. From(count, j + 1) \in Nat
    BY SlabVolumes
<1>5. From(count, j + 1) # 0
    <2>1. SubSeq(count, j + 1, Len(count)) \in Seq(Nat)
        OBVIOUS
    <2>2. PICK s \in Seq(Nat) : s = SubSeq(count, j + 1, Len(count))
        BY <2>1
    <2>3. \A i \in 1 .. Len(s) : s[i] # 0
        BY <1>2, <2>2
    <2> QED
        BY <2>2, <2>3, VolumeNat DEF From
<1>6. PICK w \in Nat \ {0} : w = Volume(SubSeq(count, j + 1, Len(count)))
    BY <1>4, <1>5 DEF From
<1>7. k \in Nat
    BY <1>1
<1>8. k \div w \in Nat
    BY <1>7, DivMod
<1>9. (k \div w) % l \in 0 .. l - 1
    BY <1>8, DivMod
<1>10. DOMAIN count = 1 .. Len(count)
    OBVIOUS
<1>11. j \in DOMAIN Index(k, count) /\ Index(k, count)[j] = (k \div w) % l
    BY <1>3, <1>6, <1>10 DEF Index
<1> QED
    BY <1>3, <1>9, <1>11

\* Every choice of indices is that of a cell.
LEMMA IndexOf ==
    \A count \in Seq(Nat) : \A x \in Seq(Nat) :
        Len(x) = Len(count) /\ (\A j \in 1 .. Len(count) : x[j] < count[j]) =>
            \E k \in 0 .. Volume(count) - 1 : Index(k, count) = x
<1> SUFFICES ASSUME NEW count \in Seq(Nat), NEW x \in Seq(Nat), Len(x) = Len(count),
                    \A j \in 1 .. Len(count) : x[j] < count[j]
             PROVE  \E k \in 0 .. Volume(count) - 1 : Index(k, count) = x
    OBVIOUS
<1>1. PICK n \in Nat : /\ n = Len(count) /\ Len(x) = n /\ DOMAIN count = 1 .. n
                       /\ DOMAIN x = 1 .. n /\ x = [j \in 1 .. n |-> x[j]]
                       /\ \A j \in 1 .. n : x[j] \in Nat /\ count[j] \in Nat /\ x[j] < count[j]
    OBVIOUS
<1> DEFINE W(j) == From(count, j)
           Reached(i, k) == \A j \in i .. n : \A q \in Nat :
               ((q * W(i) + k) \div W(j + 1)) % count[j] = x[j]
           T == {m \in Nat : m <= n =>
                    \E k \in Nat : k < W(n + 1 - m) /\ Reached(n + 1 - m, k)}
<1>2. W(1) = Volume(count) /\ W(n + 1) = 1 /\ \A j \in 1 .. n + 1 : W(j) \in Nat
    BY <1>1, SlabVolumes
<1>3. \A j \in 1 .. n : W(j) = count[j] * W(j + 1)
    BY <1>1, VolumeFrom
<1> HIDE DEF W
<1>4. 0 \in T
    <2>1. n + 1 - 0 = n + 1 /\ 0 < W(n + 1) /\ 0 \in Nat
        BY <1>2
    <2>2. Reached(n + 1, 0)
        OBVIOUS
    <2> HIDE DEF Reached
    <2> QED
        BY <2>1, <2>2
<1>5. ASSUME NEW m \in Nat, m \in T, m + 1 <= n
      PROVE  \E k \in Nat : k < W(n + 1 - (m + 1)) /\ Reached(n + 1 - (m + 1), k)
    <2>1. PICK i \in 1 .. n : i = n - m
        BY <1>5
    <2>2. n + 1 - m = i + 1 /\ n + 1 - (m + 1) = i
        BY <2>1
    <2>3. PICK k \in Nat : k < W(i + 1) /\ Reached(i + 1, k)
        <3>1. m <= n
            BY <1>5
        <3>2. \E k \in Nat : k < W(n + 1 - m) /\ Reached(n + 1 - m, k)
            BY <1>5, <3>1, Zenon
        <3> HIDE DEF Reached
        <3> QED
            BY <2>2, <3>2
    <2>4. PICK w \in Nat \ {0} : w = W(i + 1)
        BY <1>2, <2>1, <2>3
    <2>5. PICK l \in Nat : l = count[i] /\ W(i) = l * w
        BY <1>1, <1>3, <2>1, <2>4
    <2>6. PICK y \in Nat : y = x[i] /\ y < l
        <3>1. x[i] \in Nat /\ x[i] < count[i]
            BY <1>1
        <3> QED
            BY <2>5, <3>1
    <2>7. y * w + k \in Nat /\ y * w + k < l * w
        <3>1. k < w
            BY <2>3, <2>4
        <3> QED
            BY <2>6, <3>1, RowsNat
    <2>8. PICK h \in Nat : h = y * w + k /\ h < l * w
        BY <2>7
    <2>9. ASSUME NEW q \in Nat
          PROVE  \E p \in Nat : /\ p = q * l + y
                                /\ q * W(i) + h = p * w + k
        <3>1. q * l + y \in Nat /\ q * (l * w) + (y * w + k) = (q * l + y) * w + k
            <4>1. q * (l * w) = (q * l) * w
                OBVIOUS
            <4>2. (q * l + y) * w = (q * l) * w + y * w
                OBVIOUS
            <4>3. q * l \in Nat /\ y * w \in Nat /\ (q * l) * w \in Nat
                OBVIOUS
            <4>4. q * l + y \in Nat
                <5>1. PICK c \in Nat : c = q * l
                    BY <4>3
                <5>2. c + y \in Nat
                    OBVIOUS
                <5> QED
                    BY <5>1, <5>2
            <4>5. PICK a \in Nat : a = (q * l) * w
                BY <4>3
            <4>6. PICK b \in Nat : b = y * w
                BY <4>3
            <4>7. q * (l * w) + (y * w + k) = a + (b + k)
                BY <4>1, <4>5, <4>6
            <4>8. (q * l + y) * w + k = (a + b) + k
                BY <4>2, <4>5, <4>6
            <4>9. a + (b + k) = (a + b) + k
                OBVIOUS
            <4> QED
                BY <4>4, <4>7, <4>8, <4>9
        <3>2. PICK p : p = q * l + y
            OBVIOUS
        <3>3. p \in Nat /\ q * W(i) + h = p * w + k
            BY <2>5, <2>8, <3>1, <3>2
        <3> QED
            BY <3>2, <3>3
    <2>10. ASSUME NEW j \in i .. n, NEW q \in Nat
           PROVE  ((q * W(i) + h) \div W(j + 1)) % count[j] = x[j]
        <3>1. PICK p \in Nat : p = q * l + y /\ q * W(i) + h = p * w + k
            BY <2>9
        <3>2. CASE j = i
            <4>0. k < w
                BY <2>3, <2>4
            <4>1. (p * w + k) \div w = p
                BY <4>0, DivIs
            <4>2. p % l = y
                <5>1. l \in Nat \ {0}
                    BY <2>6
                <5>2. (q * l + y) % l = y
                    BY <2>6, <5>1, DivIs
                <5> QED
                    BY <3>1, <5>2
            <4> QED
                BY <2>4, <2>5, <2>6, <3>1, <3>2, <4>1, <4>2
        <3>3. CASE j # i
            <4>1. j \in i + 1 .. n
                BY <2>1, <3>3
            <4>2. ((p * W(i + 1) + k) \div W(j + 1)) % count[j] = x[j]
                BY <2>3, <4>1
            <4> QED
                BY <2>4, <3>1, <4>2
        <3> QED
            BY <3>2, <3>3
    <2>11. Reached(i, h)
        BY <2>10
    <2> HIDE DEF Reached
    <2> QED
        BY <2>2, <2>5, <2>8, <2>11
<1>6. \A m \in Nat : m \in T => m + 1 \in T
    <2> HIDE DEF Reached
    <2> QED
        BY <1>5
<1> HIDE DEF T
<1>7. n \in T
    BY <1>4, <1>6, NatInd
<1>8. PICK k \in Nat : k < W(1) /\ Reached(1, k)
    <2>1. n + 1 - n = 1
        BY <1>1
    <2> HIDE DEF Reached
    <2> QED
        BY <1>7, <2>1 DEF T
<1>9. ASSUME NEW j \in 1 .. n
      PROVE  (k \div W(j + 1)) % count[j] = x[j]
    <2>1. ((0 * W(1) + k) \div W(j + 1)) % count[j] = x[j]
        BY <1>8
    <2>2. 0 * W(1) + k = k
        BY <1>2
    <2> QED
        BY <2>1, <2>2
<1>10. Index(k, count) = [j \in 1 .. n |-> (k \div W(j + 1)) % count[j]]
    BY <1>1 DEF Index, W, From
<1>11. Index(k, count) = x
    BY <1>1, <1>9, <1>10
<1>12. k \in 0 .. Volume(count) - 1
    BY <1>2, <1>8
<1> QED
    BY <1>11, <1>12
(* Slabs *)

\* The cells of a hyperslab: as many as its volume, and one for each choice of
\* indices that lies in it.
LEMMA SlabIs ==
    \A start, count \in Seq(Nat) : Len(start) = Len(count) =>
        /\ Volume(count) \in Nat
        /\ DOMAIN Slab(start, count) = 1 .. Volume(count)
        /\ Len(Slab(start, count)) = Volume(count)
        /\ \A k \in 1 .. Volume(count) :
            /\ Slab(start, count)[k] = Plus(start, Index(k - 1, count))
            /\ Slab(start, count)[k] \in Seq(Nat)
            /\ Len(Slab(start, count)[k]) = Len(count)
            /\ \A j \in 1 .. Len(count) :
                /\ Slab(start, count)[k][j] = start[j] + Index(k - 1, count)[j]
                /\ Index(k - 1, count)[j] \in 0 .. count[j] - 1
<1> SUFFICES ASSUME NEW start \in Seq(Nat), NEW count \in Seq(Nat), Len(start) = Len(count)
             PROVE  /\ Volume(count) \in Nat
                    /\ DOMAIN Slab(start, count) = 1 .. Volume(count)
                    /\ Len(Slab(start, count)) = Volume(count)
                    /\ \A k \in 1 .. Volume(count) :
                        /\ Slab(start, count)[k] = Plus(start, Index(k - 1, count))
                        /\ Slab(start, count)[k] \in Seq(Nat)
                        /\ Len(Slab(start, count)[k]) = Len(count)
                        /\ \A j \in 1 .. Len(count) :
                            /\ Slab(start, count)[k][j] = start[j] + Index(k - 1, count)[j]
                            /\ Index(k - 1, count)[j] \in 0 .. count[j] - 1
    OBVIOUS
<1>1. PICK vol \in Nat : vol = Volume(count)
    BY VolumeNat
<1>2. Slab(start, count) = [k \in 1 .. vol |-> Plus(start, Index(k - 1, count))]
    BY <1>1 DEF Slab
<1>3. PICK n \in Nat : n = Len(count) /\ DOMAIN start = 1 .. n
                       /\ \A j \in 1 .. n : start[j] \in Nat /\ count[j] \in Nat
    OBVIOUS
<1>4. ASSUME NEW k \in 1 .. vol
      PROVE  /\ Plus(start, Index(k - 1, count)) \in Seq(Nat)
             /\ Len(Plus(start, Index(k - 1, count))) = n
             /\ \A j \in 1 .. n :
                /\ Plus(start, Index(k - 1, count))[j] = start[j] + Index(k - 1, count)[j]
                /\ Index(k - 1, count)[j] \in 0 .. count[j] - 1
    <2>1. k - 1 \in 0 .. Volume(count) - 1
        BY <1>1
    <2>2. PICK x : x = Index(k - 1, count)
        OBVIOUS
    <2>3. \A j \in 1 .. n : x[j] \in 0 .. count[j] - 1
        BY <1>3, <2>1, <2>2, IndexIn
    <2>4. Plus(start, x) = [j \in 1 .. n |-> start[j] + x[j]]
        BY <1>3 DEF Plus
    <2>5. \A j \in 1 .. n : start[j] + x[j] \in Nat
        BY <1>3, <2>3
    <2>6. Plus(start, x) \in Seq(Nat) /\ Len(Plus(start, x)) = n
        BY <2>4, <2>5
    <2> QED
        BY <2>2, <2>3, <2>4, <2>6
<1>5. \A k \in 1 .. vol : Slab(start, count)[k] = Plus(start, Index(k - 1, count))
    BY <1>2
<1>6. DOMAIN Slab(start, count) = 1 .. vol /\ Len(Slab(start, count)) = vol
    BY <1>2
<1> HIDE DEF Slab, Plus, Index
<1> QED
    BY <1>1, <1>3, <1>4, <1>5, <1>6

\* A sequence has no more elements than places.
LEMMA ToSetFinite ==
    \A s : \A n \in Nat : DOMAIN s = 1 .. n =>
        IsFiniteSet(ToSet(s)) /\ Cardinality(ToSet(s)) <= n
<1> SUFFICES ASSUME NEW s, NEW n \in Nat, DOMAIN s = 1 .. n
             PROVE  IsFiniteSet(ToSet(s)) /\ Cardinality(ToSet(s)) <= n
    OBVIOUS
<1> DEFINE f == [i \in 1 .. n |-> s[i]]
<1>1. f \in Surjection(1 .. n, ToSet(s))
    BY DEF Surjection, ToSet
<1>2. IsFiniteSet(1 .. n) /\ Cardinality(1 .. n) = n
    <2>1. 1 \in Int /\ n \in Int
        OBVIOUS
    <2> QED
        BY <2>1, FS_Interval
<1> HIDE DEF f
<1> QED
    BY <1>1, <1>2, FS_Surjection
\* x is a cell of the slab.
InSlab(x, start, count) ==
    /\ x \in Seq(Nat) /\ Len(x) = Len(count)
    /\ \A j \in 1 .. Len(count) : start[j] <= x[j] /\ x[j] < start[j] + count[j]

\* A slab has the cells that lie in it, and no others.
LEMMA SlabHas ==
    \A start, count \in Seq(Nat) : Len(start) = Len(count) =>
        \A x : x \in ToSet(Slab(start, count)) <=> InSlab(x, start, count)
<1> SUFFICES ASSUME NEW start \in Seq(Nat), NEW count \in Seq(Nat), Len(start) = Len(count), NEW x
             PROVE  x \in ToSet(Slab(start, count)) <=> InSlab(x, start, count)
    OBVIOUS
<1>1. PICK n \in Nat : /\ n = Len(count) /\ DOMAIN start = 1 .. n /\ DOMAIN count = 1 .. n
                       /\ \A j \in 1 .. n : start[j] \in Nat /\ count[j] \in Nat
    OBVIOUS
<1>2. PICK vol \in Nat : vol = Volume(count)
    BY VolumeNat
<1>3. PICK s : s = Slab(start, count) /\ DOMAIN s = 1 .. vol
    BY <1>2, SlabIs
<1>4. ASSUME x \in ToSet(s) PROVE InSlab(x, start, count)
    <2>1. PICK k \in 1 .. vol : x = s[k]
        BY <1>3, <1>4 DEF ToSet
    <2>2. PICK y : y = Index(k - 1, count)
        OBVIOUS
    <2>3. /\ x \in Seq(Nat) /\ Len(x) = n
          /\ \A j \in 1 .. n : x[j] = start[j] + y[j] /\ y[j] \in 0 .. count[j] - 1
        <3>1. k \in 1 .. Volume(count)
            BY <1>2
        <3>2. /\ Slab(start, count)[k] \in Seq(Nat)
              /\ Len(Slab(start, count)[k]) = Len(count)
              /\ \A j \in 1 .. Len(count) :
                    /\ Slab(start, count)[k][j] = start[j] + Index(k - 1, count)[j]
                    /\ Index(k - 1, count)[j] \in 0 .. count[j] - 1
            BY <3>1, SlabIs, Zenon
        <3>3. x = Slab(start, count)[k]
            BY <1>3, <2>1
        <3> QED
            BY <1>1, <2>2, <3>2, <3>3
    <2>4. ASSUME NEW j \in 1 .. n
          PROVE  start[j] <= x[j] /\ x[j] < start[j] + count[j]
        <3>1. PICK a, b \in Nat : a = start[j] /\ b = count[j]
            BY <1>1
        <3>2. PICK i \in 0 .. b - 1 : i = y[j] /\ x[j] = a + i
            BY <2>3, <3>1
        <3>3. a <= a + i /\ a + i < a + b
            OBVIOUS
        <3> QED
            BY <3>1, <3>2, <3>3, Zenon
    <2> QED
        BY <1>1, <2>3, <2>4 DEF InSlab
<1>5. ASSUME InSlab(x, start, count) PROVE x \in ToSet(s)
    <2>1. /\ x \in Seq(Nat) /\ Len(x) = n
          /\ \A j \in 1 .. n : start[j] <= x[j] /\ x[j] < start[j] + count[j]
        BY <1>1, <1>5 DEF InSlab
    <2> DEFINE y == [j \in 1 .. n |-> x[j] - start[j]]
    <2>2. \A j \in 1 .. n : x[j] \in Nat
        BY <2>1
    <2>3. \A j \in 1 .. n : x[j] - start[j] \in Nat /\ x[j] - start[j] < count[j]
                            /\ start[j] + (x[j] - start[j]) = x[j]
        BY <1>1, <2>1, <2>2, SMTT(30)
    <2>4. \A j \in 1 .. n : y[j] \in Nat /\ y[j] < count[j] /\ start[j] + y[j] = x[j]
        BY <2>3
    <2>5. y \in Seq(Nat) /\ Len(y) = n
        BY <2>3
    <2> HIDE DEF y
    <2>6. PICK i \in 0 .. vol - 1 : Index(i, count) = y
        BY <1>1, <1>2, <2>4, <2>5, IndexOf
    <2>7. PICK k \in 1 .. vol : k - 1 = i
        <3>1. i + 1 \in 1 .. vol /\ (i + 1) - 1 = i
            OBVIOUS
        <3> QED
            BY <3>1
    <2>8. s[k] = Plus(start, y)
        BY <1>1, <1>2, <1>3, <2>6, <2>7, SlabIs
    <2>9. Plus(start, y) = [j \in 1 .. n |-> x[j]]
        BY <1>1, <2>4 DEF Plus
    <2>10. x = [j \in 1 .. n |-> x[j]]
        BY <2>1
    <2> QED
        BY <1>3, <2>8, <2>9, <2>10 DEF ToSet
<1> QED
    BY <1>3, <1>4, <1>5
-----------------------------------------------------------------------------
(* Row order *)

\* k lies in row q of w, which is row d of l of row a of u.
InRows(k, u, w, l) ==
    \E q, a, d \in Nat : q = k \div w /\ a = k \div u /\ d = q % l /\ d < l /\ q = l * a + d

\* The rows before a cell, from one dimension to the next.
LEMMA RowsWith ==
    ASSUME NEW k \in Nat, NEW u \in Nat, NEW w \in Nat \ {0}, NEW l \in Nat \ {0}, u = l * w
    PROVE  InRows(k, u, w, l)
<1>1. PICK q, r \in Nat : q = k \div w /\ r = k % w /\ r < w /\ k = w * q + r
    <2>1. k \div w \in Nat /\ k % w \in 0 .. w - 1 /\ k = w * (k \div w) + (k % w)
        BY DivMod
    <2> QED
        BY <2>1
<1>2. PICK a, d \in Nat : a = q \div l /\ d = q % l /\ d < l /\ q = l * a + d
    <2>1. q \div l \in Nat /\ q % l \in 0 .. l - 1 /\ q = l * (q \div l) + (q % l)
        BY DivMod
    <2> QED
        BY <2>1
<1>3. u # 0
    OBVIOUS
<1>4. PICK s \in Nat : s = d * w + r /\ s < u
    <2>1. d * w + r \in Nat /\ d * w + r < l * w
        BY <1>1, <1>2, RowsNat
    <2> QED
        BY <2>1
<1>5. k = a * u + s
    <2>1. PICK b \in Nat : b = l * a
        OBVIOUS
    <2>2. w * (b + d) = w * b + w * d
        OBVIOUS
    <2>3. w * b = a * u
        <3>1. w * (l * a) = a * (l * w)
            OBVIOUS
        <3> QED
            BY <2>1, <3>1
    <2>4. PICK c \in Nat : c = a * u
        OBVIOUS
    <2>5. PICK e \in Nat : e = w * d /\ e = d * w
        OBVIOUS
    <2>6. k = c + e + r /\ s = e + r
        BY <1>1, <1>2, <1>4, <2>1, <2>2, <2>3, <2>4, <2>5
    <2> QED
        BY <2>4, <2>6
<1>6. k \div u = a
    BY <1>3, <1>4, <1>5, DivIs
<1> QED
    BY <1>1, <1>2, <1>6, Zenon DEF InRows

\* A number that is less has no more rows before it.
LEMMA FewerRows ==
    \A k, m \in Nat, w \in Nat \ {0} : k < m => k \div w <= m \div w
<1> SUFFICES ASSUME NEW k \in Nat, NEW m \in Nat, NEW w \in Nat \ {0}, k < m
             PROVE  k \div w <= m \div w
    OBVIOUS
<1>1. PICK q, r \in Nat : q = k \div w /\ r < w /\ k = w * q + r
    <2>1. k \div w \in Nat /\ k % w \in 0 .. w - 1 /\ k = w * (k \div w) + (k % w)
        BY DivMod
    <2> QED
        BY <2>1
<1>2. PICK p, s \in Nat : p = m \div w /\ s < w /\ m = w * p + s
    <2>1. m \div w \in Nat /\ m % w \in 0 .. w - 1 /\ m = w * (m \div w) + (m % w)
        BY DivMod
    <2> QED
        BY <2>1
<1>3. ASSUME p < q PROVE FALSE
    <2>1. p * w + s < q * w
        BY <1>2, <1>3, RowsNat
    <2>2. p * w = w * p /\ q * w = w * q /\ w * p \in Nat /\ w * q \in Nat
        OBVIOUS
    <2> QED
        BY <1>1, <1>2, <2>1, <2>2
<1> QED
    BY <1>1, <1>2, <1>3

\* The cells of an array are in row order.
LEMMA IndexOrder ==
    \A count \in Seq(Nat) : \A k, m \in 0 .. Volume(count) - 1 :
        k < m => Before(Index(k, count), Index(m, count))
<1> SUFFICES ASSUME NEW count \in Seq(Nat), NEW k \in 0 .. Volume(count) - 1,
                    NEW m \in 0 .. Volume(count) - 1, k < m
             PROVE  Before(Index(k, count), Index(m, count))
    OBVIOUS
<1>1. PICK n \in Nat : n = Len(count) /\ DOMAIN count = 1 .. n
    OBVIOUS
<1>2. Volume(count) \in Nat /\ \A j \in 1 .. n : count[j] \in Nat \ {0}
    BY <1>1, VolumeNat
<1>3. k \in Nat /\ m \in Nat
    BY <1>2
<1> DEFINE W(j) == From(count, j)
<1>4. \A j \in 1 .. n + 1 : W(j) \in Nat \ {0}
    <2> TAKE j \in 1 .. n + 1
    <2>1. SubSeq(count, j, Len(count)) \in Seq(Nat)
        BY <1>1
    <2>2. PICK s \in Seq(Nat) : s = SubSeq(count, j, Len(count))
        BY <2>1
    <2>3. \A i \in 1 .. Len(s) : s[i] # 0
        <3> TAKE i \in 1 .. Len(s)
        <3>1. s[i] = count[i + j - 1] /\ i + j - 1 \in 1 .. n
            BY <1>1, <2>2
        <3> QED
            BY <1>2, <3>1
    <2> QED
        BY <2>2, <2>3, VolumeNat DEF From
<1>5. W(1) = Volume(count) /\ W(n + 1) = 1 /\ \A j \in 1 .. n : W(j) = count[j] * W(j + 1)
    BY <1>1, SlabVolumes, VolumeFrom
<1> HIDE DEF W
<1> DEFINE F == [j \in 1 .. n + 1 |-> k \div W(j)]
           G == [j \in 1 .. n + 1 |-> m \div W(j)]
<1>6. F[n + 1] = k /\ G[n + 1] = m
    BY <1>3, <1>5, DivOne
<1>7. F[1] = 0 /\ G[1] = 0
    <2>1. PICK v \in Nat \ {0} : v = W(1) /\ k < v /\ m < v
        BY <1>2, <1>3, <1>4, <1>5
    <2>2. (0 * v + k) \div v = 0 /\ (0 * v + m) \div v = 0
        BY <1>3, <2>1, DivIs
    <2>3. 0 * v + k = k /\ 0 * v + m = m
        BY <1>3
    <2>4. F[1] = k \div W(1) /\ G[1] = m \div W(1)
        OBVIOUS
    <2> QED
        BY <2>1, <2>2, <2>3, <2>4
<1>8. ASSUME NEW j \in 1 .. n, NEW i, i = j + 1
      PROVE  /\ F[j] \in Nat /\ F[i] \in Nat /\ G[j] \in Nat /\ G[i] \in Nat
             /\ F[i] % count[j] \in 0 .. count[j] - 1
             /\ G[i] % count[j] \in 0 .. count[j] - 1
             /\ F[i] = count[j] * F[j] + (F[i] % count[j])
             /\ G[i] = count[j] * G[j] + (G[i] % count[j])
             /\ F[i] <= G[i]
    <2>1. PICK w \in Nat \ {0} : w = W(i)
        BY <1>4, <1>8
    <2>2. PICK l \in Nat \ {0} : l = count[j]
        BY <1>2
    <2>3. PICK u \in Nat : u = W(j) /\ u = l * w
        BY <1>4, <1>5, <1>8, <2>1, <2>2
    <2>0. i \in 1 .. n + 1 /\ j \in 1 .. n + 1
        BY <1>8
    <2>4. F[j] = k \div u /\ F[i] = k \div w /\ G[j] = m \div u /\ G[i] = m \div w
        BY <2>0, <2>1, <2>3
    <2>00. k \in Nat /\ m \in Nat /\ u \in Nat /\ u = l * w /\ w \in Nat \ {0} /\ l \in Nat \ {0}
        BY <1>3, <2>1, <2>2, <2>3
    <2>5. InRows(k, u, w, l)
        BY <2>00, RowsWith, Zenon
    <2>6. InRows(m, u, w, l)
        BY <2>00, RowsWith, Zenon
    <2>7. k \div w <= m \div w
        BY <1>3, FewerRows
    <2>8. PICK q, a, d \in Nat : q = F[i] /\ a = F[j] /\ d = q % l /\ d < l /\ q = l * a + d
        BY <2>4, <2>5, Zenon DEF InRows
    <2>9. PICK p, b, e \in Nat : p = G[i] /\ b = G[j] /\ e = p % l /\ e < l /\ p = l * b + e
        BY <2>4, <2>6, Zenon DEF InRows
    <2>10. F[i] <= G[i]
        BY <2>4, <2>7
    <2> HIDE DEF F, G
    <2>11. F[j] \in Nat /\ F[i] \in Nat /\ F[i] = count[j] * F[j] + (F[i] % count[j])
        BY <2>2, <2>8, Zenon
    <2>12. G[j] \in Nat /\ G[i] \in Nat /\ G[i] = count[j] * G[j] + (G[i] % count[j])
        BY <2>2, <2>9, Zenon
    <2>13. F[i] % count[j] \in 0 .. count[j] - 1
        <3>1. d \in 0 .. l - 1
            BY <2>8
        <3> QED
            BY <2>2, <2>8, <3>1, Zenon
    <2>14. G[i] % count[j] \in 0 .. count[j] - 1
        <3>1. e \in 0 .. l - 1
            BY <2>9
        <3> QED
            BY <2>2, <2>9, <3>1, Zenon
    <2> QED
        BY <2>10, <2>11, <2>12, <2>13, <2>14, Zenon
<1>9. /\ Index(k, count) = [i \in 1 .. n |-> F[i + 1] % count[i]]
      /\ Index(m, count) = [i \in 1 .. n |-> G[i + 1] % count[i]]
    BY <1>1 DEF Index, W, From
<1> HIDE DEF F, G
<1> DEFINE D == {i \in Nat : i \in 1 .. n + 1 /\ F[i] # G[i]}
<1>10. n + 1 \in D
    BY <1>3, <1>6
<1>11. PICK i \in D : \A h \in D : i <= h
    BY <1>10, MinOf
<1>12. i \in 1 .. n + 1 /\ F[i] # G[i] /\ \A h \in 1 .. i - 1 : F[h] = G[h]
    BY <1>11
<1>13. i # 1
    BY <1>7, <1>12
<1>14. PICK j \in 1 .. n : i = j + 1
    <2>1. i - 1 \in 1 .. n /\ i = (i - 1) + 1
        BY <1>12, <1>13
    <2> QED
        BY <2>1
<1> HIDE DEF D
<1>15. F[j] = G[j] /\ \A h \in 1 .. j - 1 : F[h + 1] = G[h + 1]
    <2>1. \A h \in 1 .. j : F[h] = G[h]
        BY <1>12, <1>14
    <2>2. j \in 1 .. j /\ \A h \in 1 .. j - 1 : h + 1 \in 1 .. j
        OBVIOUS
    <2> QED
        BY <2>1, <2>2
<1>16. F[i] % count[j] < G[i] % count[j]
    <2>1. PICK a, b \in Nat : a = F[i] /\ b = G[i]
        BY <1>8, <1>14
    <2>2. PICK c, d \in Nat : c = F[i] % count[j] /\ d = G[i] % count[j]
        <3>1. F[i] % count[j] \in 0 .. count[j] - 1 /\ G[i] % count[j] \in 0 .. count[j] - 1
            BY <1>8, <1>14
        <3>2. PICK l \in Nat : l = count[j]
            BY <1>2
        <3> QED
            BY <3>1, <3>2
    <2>3. PICK e \in Nat : e = count[j] * F[j]
        <3>1. PICK l \in Nat : l = count[j]
            BY <1>2
        <3>2. PICK q \in Nat : q = F[j]
            BY <1>8, <1>14
        <3>3. l * q \in Nat
            OBVIOUS
        <3> QED
            BY <3>1, <3>2, <3>3
    <2>4. /\ F[i] = count[j] * F[j] + (F[i] % count[j])
          /\ G[i] = count[j] * F[j] + (G[i] % count[j])
          /\ F[i] <= G[i]
        BY <1>8, <1>14, <1>15, Zenon
    <2>5. a = e + c /\ b = e + d /\ a <= b
        BY <2>1, <2>2, <2>3, <2>4, Zenon
    <2>6. a # b
        BY <1>12, <2>1
    <2>7. c < d
        BY <2>5, <2>6
    <2> QED
        BY <2>2, <2>7
<1>17. PICK x, y : x = Index(k, count) /\ y = Index(m, count)
    OBVIOUS
<1>18. /\ DOMAIN x = 1 .. n
       /\ \A h \in 1 .. n : x[h] = F[h + 1] % count[h] /\ y[h] = G[h + 1] % count[h]
    BY <1>9, <1>17
<1>19. x[j] < y[j]
    BY <1>14, <1>16, <1>18
<1>20. \A h \in 1 .. j - 1 : x[h] = y[h]
    <2> TAKE h \in 1 .. j - 1
    <2>1. h \in 1 .. n
        OBVIOUS
    <2> QED
        BY <1>15, <1>18, <2>1
<1> QED
    BY <1>17, <1>18, <1>19, <1>20 DEF Before

\* No cell is before itself, or before and behind another.
LEMMA BeforeOne ==
    \A x, y \in Seq(Nat) : Len(x) = Len(y) /\ Before(x, y) => x # y /\ ~Before(y, x)
<1> SUFFICES ASSUME NEW x \in Seq(Nat), NEW y \in Seq(Nat), Len(x) = Len(y), Before(x, y)
             PROVE  x # y /\ ~Before(y, x)
    OBVIOUS
<1>1. PICK n \in Nat : n = Len(x) /\ DOMAIN x = 1 .. n /\ DOMAIN y = 1 .. n
                       /\ \A j \in 1 .. n : x[j] \in Nat /\ y[j] \in Nat
    OBVIOUS
<1>2. PICK j \in 1 .. n : x[j] < y[j] /\ \A i \in 1 .. j - 1 : x[i] = y[i]
    BY <1>1 DEF Before
<1>3. x # y
    BY <1>1, <1>2
<1>4. ASSUME NEW i \in 1 .. n, y[i] < x[i], \A h \in 1 .. i - 1 : y[h] = x[h]
      PROVE  FALSE
    <2>1. CASE i < j
        <3>1. i \in 1 .. j - 1
            BY <2>1
        <3> QED
            BY <1>1, <1>2, <1>4, <3>1
    <2>2. CASE j < i
        <3>1. j \in 1 .. i - 1
            BY <2>2
        <3> QED
            BY <1>1, <1>2, <1>4, <3>1
    <2>3. CASE i = j
        BY <1>1, <1>2, <1>4, <2>3
    <2> QED
        BY <2>1, <2>2, <2>3
<1> QED
    BY <1>1, <1>3, <1>4 DEF Before

\* As many values as places, if no value is at two.
LEMMA ImageCount ==
    ASSUME NEW n \in Nat, NEW S, \A i, j \in 1 .. n : S[i] = S[j] => i = j
    PROVE  Cardinality({S[i] : i \in 1 .. n}) = n
<1> DEFINE f == [i \in 1 .. n |-> S[i]]
           T == {S[i] : i \in 1 .. n}
<1>1. f \in Bijection(1 .. n, T)
    <2>1. f \in [1 .. n -> T]
        OBVIOUS
    <2>2. \A a, b \in 1 .. n : f[a] = f[b] => a = b
        OBVIOUS
    <2>3. \A t \in T : \E s \in 1 .. n : f[s] = t
        OBVIOUS
    <2> HIDE DEF f, T
    <2> QED
        BY <2>1, <2>2, <2>3 DEF Bijection, Injection, Surjection, IsInjective
<1>2. ExistsBijection(1 .. n, T)
    BY <1>1 DEF ExistsBijection
<1>3. IsFiniteSet(1 .. n) /\ Cardinality(1 .. n) = n
    <2>1. 1 \in Int /\ n \in Int
        OBVIOUS
    <2> QED
        BY <2>1, FS_Interval
<1> HIDE DEF T
<1>4. Cardinality(T) = n
    BY <1>2, <1>3, FS_Bijection
<1> QED
    BY <1>4 DEF T

\* The n things of S are in row order.
InOrder(S, n) ==
    /\ \A k, m \in 1 .. n : k < m => Before(S[k], S[m]) /\ S[k] # S[m] /\ ~Before(S[m], S[k])
    /\ \A k \in 1 .. n : ~Before(S[k], S[k])

\* They are n, and as many are before each as its place says.
Ranked(S, n) ==
    /\ Cardinality(ToSet(S)) = n
    /\ \A k \in 1 .. n : Cardinality({d \in ToSet(S) : Before(d, S[k])}) = k - 1

\* Of things in order as many are before the k-th as its place says.
LEMMA BeforeCount ==
    ASSUME NEW n \in Nat, NEW S, DOMAIN S = 1 .. n, InOrder(S, n)
    PROVE  Ranked(S, n)
<1>0. /\ \A k, m \in 1 .. n : k < m => Before(S[k], S[m]) /\ S[k] # S[m] /\ ~Before(S[m], S[k])
      /\ \A k \in 1 .. n : ~Before(S[k], S[k])
    BY DEF InOrder
<1>1. \A i, j \in 1 .. n : S[i] = S[j] => i = j
    <2> TAKE i \in 1 .. n, j \in 1 .. n
    <2>1. i < j \/ j < i \/ i = j
        OBVIOUS
    <2> QED
        BY <1>0, <2>1
<1>2. ToSet(S) = {S[i] : i \in 1 .. n}
    BY DEF ToSet
<1>3. Cardinality(ToSet(S)) = n
    BY <1>1, <1>2, ImageCount
<1>4. ASSUME NEW k \in 1 .. n
      PROVE  Cardinality({d \in ToSet(S) : Before(d, S[k])}) = k - 1
    <2>1. ASSUME NEW i \in 1 .. n
          PROVE  Before(S[i], S[k]) <=> i < k
        <3>1. i < k \/ k < i \/ i = k
            OBVIOUS
        <3> QED
            BY <1>0, <3>1
    <2>2. PICK l \in Nat : l = k - 1 /\ \A i : i \in 1 .. l <=> i \in 1 .. n /\ i < k
        <3>1. k - 1 \in Nat /\ \A i : i \in 1 .. k - 1 <=> i \in 1 .. n /\ i < k
            OBVIOUS
        <3> QED
            BY <3>1
    <2>3. {d \in ToSet(S) : Before(d, S[k])} = {S[i] : i \in 1 .. l}
        BY <1>2, <2>1, <2>2
    <2>4. \A i, j \in 1 .. l : S[i] = S[j] => i = j
        BY <1>1, <2>2
    <2> QED
        BY <2>2, <2>3, <2>4, ImageCount
<1> QED
    BY <1>3, <1>4 DEF Ranked

\* The cells of a slab are in row order.
LEMMA SlabOrder ==
    ASSUME NEW start \in Seq(Nat), NEW count \in Seq(Nat), Len(start) = Len(count),
           NEW k \in 1 .. Volume(count), NEW m \in 1 .. Volume(count), k < m
    PROVE  Before(Slab(start, count)[k], Slab(start, count)[m])
<1>0. PICK vol \in Nat : vol = Volume(count)
    BY VolumeNat
<1>1. PICK n \in Nat : /\ n = Len(count) /\ DOMAIN start = 1 .. n /\ DOMAIN count = 1 .. n
                       /\ \A j \in 1 .. n : start[j] \in Nat /\ count[j] \in Nat
    <2>1. PICK n \in Nat : n = Len(start) /\ n = Len(count)
        OBVIOUS
    <2>2. DOMAIN start = 1 .. n /\ \A j \in 1 .. n : start[j] \in Nat
        BY <2>1
    <2>3. DOMAIN count = 1 .. n /\ \A j \in 1 .. n : count[j] \in Nat
        BY <2>1
    <2> QED
        BY <2>1, <2>2, <2>3, Zenon
<1>2. PICK s : s = Slab(start, count)
    OBVIOUS
<1>3. PICK x, y : x = Index(k - 1, count) /\ y = Index(m - 1, count)
    OBVIOUS
<1>4. /\ DOMAIN s[k] = 1 .. n
      /\ \A j \in 1 .. n : s[k][j] = start[j] + x[j] /\ x[j] \in 0 .. count[j] - 1
    <2>1. /\ Slab(start, count)[k] \in Seq(Nat)
          /\ Len(Slab(start, count)[k]) = Len(count)
          /\ \A j \in 1 .. Len(count) :
                /\ Slab(start, count)[k][j] = start[j] + Index(k - 1, count)[j]
                /\ Index(k - 1, count)[j] \in 0 .. count[j] - 1
        BY SlabIs, Zenon
    <2> QED
        BY <1>1, <1>2, <1>3, <2>1
<1>5. /\ \A j \in 1 .. n : s[m][j] = start[j] + y[j] /\ y[j] \in 0 .. count[j] - 1
    <2>1. /\ \A j \in 1 .. Len(count) :
                /\ Slab(start, count)[m][j] = start[j] + Index(m - 1, count)[j]
                /\ Index(m - 1, count)[j] \in 0 .. count[j] - 1
        BY SlabIs, Zenon
    <2> QED
        BY <1>1, <1>2, <1>3, <2>1
<1>6. Before(x, y)
    <2>1. PICK a, b \in 0 .. vol - 1 : a = k - 1 /\ b = m - 1 /\ a < b
        <3>1. k - 1 \in 0 .. vol - 1 /\ m - 1 \in 0 .. vol - 1 /\ k - 1 < m - 1
            BY <1>0
        <3> QED
            BY <3>1
    <2>2. Before(Index(a, count), Index(b, count))
        BY <1>0, <2>1, IndexOrder
    <2> QED
        BY <1>3, <2>1, <2>2
<1>7. DOMAIN x = 1 .. n
    BY <1>1, <1>3 DEF Index
<1>8. PICK j \in 1 .. n : x[j] < y[j] /\ \A i \in 1 .. j - 1 : x[i] = y[i]
    BY <1>6, <1>7 DEF Before
<1>9. s[k][j] < s[m][j]
    <2>1. PICK a, b, c, d \in Nat : a = start[j] /\ b = x[j] /\ c = y[j] /\ d = count[j]
        <3>1. PICK d \in Nat : d = count[j]
            BY <1>1
        <3>2. x[j] \in 0 .. d - 1 /\ y[j] \in 0 .. d - 1 /\ start[j] \in Nat
            BY <1>1, <1>4, <1>5, <3>1
        <3> QED
            BY <3>1, <3>2, SMTT(30)
    <2>2. s[k][j] = a + b /\ s[m][j] = a + c /\ b < c
        BY <1>4, <1>5, <1>8, <2>1, Zenon
    <2> QED
        BY <2>2
<1>10. \A i \in 1 .. j - 1 : s[k][i] = s[m][i]
    <2> TAKE i \in 1 .. j - 1
    <2>1. i \in 1 .. n
        OBVIOUS
    <2> QED
        BY <1>4, <1>5, <1>8, <2>1
<1>11. Before(s[k], s[m])
    BY <1>4, <1>9, <1>10 DEF Before
<1> QED
    BY <1>2, <1>11

\* With strides of one the buffer has room for the slab.
LEMMA UnitSize ==
    ASSUME NEW count \in Seq(Nat), NEW stride \in Seq(Nat), Len(count) = Len(stride),
           \A j \in DOMAIN count : count[j] > 0 /\ stride[j] <= 1
    PROVE  Size(count, stride) = Volume(count)
<1> DEFINE step(j) == IF stride[j] <= 0 THEN 1 ELSE stride[j]
           c == [j \in DOMAIN count |-> (count[j] - 1) \div step(j) + 1]
<1>1. ASSUME NEW j \in DOMAIN count PROVE c[j] = count[j]
    <2>1. PICK a, b \in Nat : a = count[j] /\ b = stride[j] /\ a > 0 /\ b <= 1
        BY SMTT(30)
    <2>2. step(j) = 1
        BY <2>1
    <2>3. (a - 1) \div 1 = a - 1
        <3>1. a - 1 \in Nat
            BY <2>1
        <3> QED
            BY <3>1, DivOne
    <2>4. c[j] = (a - 1) \div 1 + 1
        BY <2>1, <2>2
    <2> QED
        BY <2>1, <2>3, <2>4
<1>2. c = [j \in DOMAIN count |-> count[j]]
    BY <1>1
<1>3. count = [j \in DOMAIN count |-> count[j]]
    OBVIOUS
<1>4. Size(count, stride) = Volume(c)
    BY DEF Size
<1> HIDE DEF c
<1> QED
    BY <1>2, <1>3, <1>4
-----------------------------------------------------------------------------
(* Sequences that have nothing twice, and how often they have a thing *)

\* Sequences that have nothing twice and nothing in common are joined to one that
\* has nothing twice.
LEMMA ConcatOnce ==
    \A S : \A a, b \in Seq(S) :
        IsInjective(a) /\ IsInjective(b) /\ ToSet(a) \intersect ToSet(b) = {} =>
            IsInjective(a \o b)
<1> SUFFICES ASSUME NEW S, NEW a \in Seq(S), NEW b \in Seq(S), IsInjective(a), IsInjective(b),
                    ToSet(a) \intersect ToSet(b) = {}
             PROVE  IsInjective(a \o b)
    OBVIOUS
<1>1. PICK n \in Nat, m \in Nat : /\ n = Len(a) /\ DOMAIN a = 1 .. n
                                  /\ m = Len(b) /\ DOMAIN b = 1 .. m
    OBVIOUS
<1>2. PICK c : c = a \o b
    OBVIOUS
<1>3. /\ DOMAIN c = 1 .. n + m
      /\ \A k \in 1 .. n : c[k] = a[k]
      /\ \A k \in 1 .. m : c[n + k] = b[k]
    BY <1>1, <1>2
<1>4. ASSUME NEW k \in 1 .. n + m
      PROVE  k \in 1 .. n \/ \E j \in 1 .. m : k = n + j
    <2>1. CASE k <= n
        BY <2>1
    <2>2. CASE k > n
        <3>1. k - n \in 1 .. m /\ k = n + (k - n)
            BY <2>2
        <3> QED
            BY <3>1
    <2> QED
        BY <2>1, <2>2
<1>5. \A j \in 1 .. n, k \in 1 .. m : a[j] # b[k]
    BY <1>1 DEF ToSet
<1>6. \A j, k \in 1 .. n : a[j] = a[k] => j = k
    BY <1>1 DEF IsInjective
<1>7. \A j, k \in 1 .. m : b[j] = b[k] => j = k
    BY <1>1 DEF IsInjective
<1>8. ASSUME NEW j \in 1 .. n + m, NEW k \in 1 .. n + m, c[j] = c[k]
      PROVE  j = k
    <2>1. CASE j \in 1 .. n /\ k \in 1 .. n
        BY <1>3, <1>6, <1>8, <2>1
    <2>2. ASSUME NEW p \in 1 .. m, j = n + p, k \in 1 .. n
          PROVE  FALSE
        BY <1>3, <1>5, <1>8, <2>2
    <2>3. ASSUME NEW p \in 1 .. m, k = n + p, j \in 1 .. n
          PROVE  FALSE
        BY <1>3, <1>5, <1>8, <2>3
    <2>4. ASSUME NEW p \in 1 .. m, NEW q \in 1 .. m, j = n + p, k = n + q
          PROVE  j = k
        <3>1. b[p] = b[q]
            BY <1>3, <1>8, <2>4
        <3>2. p = q
            BY <1>7, <3>1
        <3> QED
            BY <2>4, <3>2
    <2> QED
        BY <1>4, <2>1, <2>2, <2>3, <2>4
<1> QED
    BY <1>2, <1>3, <1>8 DEF IsInjective

\* Nothing is in two of the sequences, nor twice in one.
AllOnce(s) ==
    /\ \A k \in DOMAIN s : IsInjective(s[k])
    /\ \A k, l \in DOMAIN s : k # l => ToSet(s[k]) \intersect ToSet(s[l]) = {}

LEMMA FlattenOnce ==
    \A S : \A s \in Seq(Seq(S)) : AllOnce(s) => IsInjective(FlattenSeq(s))
<1> SUFFICES ASSUME NEW S
             PROVE  \A s \in Seq(Seq(S)) : AllOnce(s) => IsInjective(FlattenSeq(s))
    OBVIOUS
<1> DEFINE U == Seq(S)
           T == {n \in Nat : \A s \in Seq(U) :
                    Len(s) = n /\ AllOnce(s) => IsInjective(FlattenSeq(s))}
<1> HIDE DEF U
<1>1. 0 \in T
    <2>1. ASSUME NEW s \in Seq(U), Len(s) = 0
          PROVE  IsInjective(FlattenSeq(s))
        <3>1. s = <<>>
            BY <2>1
        <3> QED
            BY <3>1, FlattenEmpty DEF IsInjective
    <2> QED
        BY <2>1
<1>2. ASSUME NEW n \in Nat, n \in T
      PROVE  n + 1 \in T
    <2> SUFFICES ASSUME NEW s \in Seq(U), Len(s) = n + 1, AllOnce(s)
                 PROVE  IsInjective(FlattenSeq(s))
        OBVIOUS
    <2>1. s # <<>> /\ DOMAIN s = 1 .. n + 1 /\ Len(s) \in DOMAIN s
        OBVIOUS
    <2>2. PICK t \in Seq(U) : t = Front(s) /\ Len(t) = n /\ DOMAIN t = 1 .. n
                              /\ \A k \in 1 .. n : t[k] = s[k]
        <3>1. /\ Front(s) \in Seq(U) /\ Len(Front(s)) = Len(s) - 1
              /\ DOMAIN Front(s) = 1 .. Len(s) - 1
              /\ \A k \in 1 .. Len(s) - 1 : Front(s)[k] = s[k]
            BY <2>1, FrontIs
        <3>2. Len(s) - 1 = n
            BY <1>2, <2>1
        <3> QED
            BY <3>1, <3>2
    <2>3. PICK e \in U : e = s[n + 1]
        BY <2>1
    <2>4. FlattenSeq(s) = FlattenSeq(t) \o e
        BY <2>1, <2>2, <2>3, FlattenFront DEF U
    <2>5. \A k \in 1 .. n : k \in 1 .. n + 1 /\ k # n + 1
        OBVIOUS
    <2>6. AllOnce(t)
        BY <2>1, <2>2, <2>5 DEF AllOnce
    <2>7. IsInjective(FlattenSeq(t))
        BY <1>2, <2>2, <2>6
    <2>8. IsInjective(e)
        BY <2>1, <2>3 DEF AllOnce
    <2>9. ToSet(FlattenSeq(t)) \intersect ToSet(e) = {}
        <3> SUFFICES ASSUME NEW x, x \in ToSet(FlattenSeq(t)), x \in ToSet(e)
                     PROVE  FALSE
            OBVIOUS
        <3>1. PICK k \in 1 .. n : x \in ToSet(t[k])
            BY <2>2, FlattenElements DEF U
        <3>2. k # n + 1 /\ k \in DOMAIN s /\ n + 1 \in DOMAIN s
            BY <2>1, <2>5
        <3>3. ToSet(s[k]) \intersect ToSet(s[n + 1]) = {}
            BY <3>2 DEF AllOnce
        <3> QED
            BY <2>2, <2>3, <3>1, <3>3
    <2>10. FlattenSeq(t) \in U
        BY <2>2, FlattenOfSeq DEF U
    <2> QED
        BY <2>3, <2>4, <2>7, <2>8, <2>9, <2>10, ConcatOnce DEF U
<1>3. \A n \in Nat : n \in T => n + 1 \in T
    BY <1>2
<1> HIDE DEF T
<1>4. \A n \in Nat : n \in T
    BY <1>1, <1>3, NatInd
<1> SUFFICES ASSUME NEW s \in Seq(U), AllOnce(s)
             PROVE  IsInjective(FlattenSeq(s))
    BY DEF U
<1>5. Len(s) \in T
    BY <1>4
<1> QED
    BY <1>5 DEF T

\* How often something is in a sequence.
Times(x, s) == Cardinality({k \in DOMAIN s : s[k] = x})

LEMMA CountType ==
    \A S : \A s \in Seq(S) : \A x :
        /\ IsFiniteSet({k \in DOMAIN s : s[k] = x})
        /\ Times(x, s) \in Nat
<1> SUFFICES ASSUME NEW S, NEW s \in Seq(S), NEW x
             PROVE  IsFiniteSet({k \in DOMAIN s : s[k] = x}) /\ Times(x, s) \in Nat
    OBVIOUS
<1>1. PICK n \in Nat : DOMAIN s = 1 .. n
    OBVIOUS
<1>2. IsFiniteSet(1 .. n)
    BY FS_Interval
<1>3. IsFiniteSet({k \in 1 .. n : s[k] = x})
    BY <1>2, FS_Subset
<1>4. IsFiniteSet({k \in DOMAIN s : s[k] = x})
    BY <1>1, <1>3
<1> QED
    BY <1>4, FS_CardinalityType DEF Times

\* Nothing is in the empty sequence.
LEMMA CountEmpty == \A x : Times(x, <<>>) = 0
<1> SUFFICES ASSUME NEW x PROVE Times(x, <<>>) = 0
    OBVIOUS
<1>1. {k \in DOMAIN <<>> : <<>>[k] = x} = {}
    OBVIOUS
<1> QED
    BY <1>1, FS_EmptySet DEF Times

\* In a sequence that has nothing twice.
LEMMA CountOnce ==
    \A s : \A x : IsInjective(s) => Times(x, s) = IF x \in ToSet(s) THEN 1 ELSE 0
<1> SUFFICES ASSUME NEW s, NEW x, IsInjective(s)
             PROVE  Times(x, s) = IF x \in ToSet(s) THEN 1 ELSE 0
    OBVIOUS
<1>1. PICK A : A = {k \in DOMAIN s : s[k] = x}
    OBVIOUS
<1>2. CASE x \in ToSet(s)
    <2>1. PICK k \in DOMAIN s : s[k] = x
        BY <1>2 DEF ToSet
    <2>2. A = {k}
        BY <1>1, <2>1 DEF IsInjective
    <2>3. Cardinality({k}) = 1
        BY FS_Singleton
    <2> QED
        BY <1>1, <1>2, <2>2, <2>3 DEF Times
<1>3. CASE x \notin ToSet(s)
    <2>1. A = {}
        BY <1>1, <1>3 DEF ToSet
    <2> QED
        BY <1>1, <1>3, <2>1, FS_EmptySet DEF Times
<1> QED
    BY <1>2, <1>3

\* What is joined is counted together.
LEMMA CountConcat ==
    \A S : \A a, b \in Seq(S) : \A x : Times(x, a \o b) = Times(x, a) + Times(x, b)
<1> SUFFICES ASSUME NEW S, NEW a \in Seq(S), NEW b \in Seq(S), NEW x
             PROVE  Times(x, a \o b) = Times(x, a) + Times(x, b)
    OBVIOUS
<1>1. PICK n \in Nat, m \in Nat : /\ n = Len(a) /\ DOMAIN a = 1 .. n
                                  /\ m = Len(b) /\ DOMAIN b = 1 .. m
    OBVIOUS
<1>2. PICK c : c = a \o b
    OBVIOUS
<1>3. /\ DOMAIN c = 1 .. n + m
      /\ \A k \in 1 .. n : c[k] = a[k]
      /\ \A k \in 1 .. m : c[n + k] = b[k]
    BY <1>1, <1>2
<1>4. ASSUME NEW k \in 1 .. n + m
      PROVE  k \in 1 .. n \/ \E j \in 1 .. m : k = n + j
    <2>1. CASE k <= n
        BY <2>1
    <2>2. CASE k > n
        <3>1. k - n \in 1 .. m /\ k = n + (k - n)
            BY <2>2
        <3> QED
            BY <3>1
    <2> QED
        BY <2>1, <2>2
<1>5. PICK A : A = {k \in 1 .. n : a[k] = x}
    OBVIOUS
<1>6. PICK B : B = {k \in 1 .. m : b[k] = x}
    OBVIOUS
<1>7. PICK C : C = {n + k : k \in B}
    OBVIOUS
<1>8. {k \in 1 .. n + m : c[k] = x} = A \union C
    <2>1. ASSUME NEW k \in 1 .. n + m, c[k] = x
          PROVE  k \in A \union C
        <3>1. CASE k \in 1 .. n
            BY <1>3, <1>5, <2>1, <3>1
        <3>2. ASSUME NEW j \in 1 .. m, k = n + j
              PROVE  k \in C
            BY <1>3, <1>6, <1>7, <2>1, <3>2
        <3> QED
            BY <1>4, <3>1, <3>2
    <2>2. ASSUME NEW k \in A
          PROVE  k \in 1 .. n + m /\ c[k] = x
        BY <1>3, <1>5, <2>2
    <2>3. ASSUME NEW k \in C
          PROVE  k \in 1 .. n + m /\ c[k] = x
        <3>1. PICK j \in 1 .. m : k = n + j /\ b[j] = x
            BY <1>6, <1>7, <2>3
        <3> QED
            BY <1>3, <3>1
    <2> QED
        BY <2>1, <2>2, <2>3
<1>9. A \intersect C = {}
    BY <1>5, <1>6, <1>7
<1>10. IsFiniteSet(A) /\ IsFiniteSet(B)
    BY <1>1, <1>5, <1>6, CountType
<1>11. IsFiniteSet(C) /\ Cardinality(C) = Cardinality(B)
    <2> DEFINE f == [k \in B |-> n + k]
    <2>1. f \in [B -> C] /\ \A k \in B : f[k] = n + k
        BY <1>7
    <2>2. \A j, k \in B : f[j] = f[k] => j = k
        BY <1>6, <2>1
    <2>3. \A t \in C : \E k \in B : f[k] = t
        BY <1>7, <2>1
    <2> HIDE DEF f
    <2>4. f \in Bijection(B, C)
        BY <2>1, <2>2, <2>3 DEF Bijection, Injection, Surjection, IsInjective
    <2> QED
        BY <1>10, <2>4, FS_Bijection DEF ExistsBijection
<1>12. Cardinality(A \union C) = Cardinality(A) + Cardinality(C)
    <2>1. Cardinality(A \union C) = Cardinality(A) + Cardinality(C) - Cardinality(A \intersect C)
        BY <1>10, <1>11, FS_Union
    <2>2. Cardinality(A \intersect C) = 0
        BY <1>9, FS_EmptySet
    <2>3. PICK p \in Nat, q \in Nat : p = Cardinality(A) /\ q = Cardinality(C)
        BY <1>10, <1>11, FS_CardinalityType
    <2> QED
        BY <2>1, <2>2, <2>3
<1>13. Times(x, c) = Cardinality(A \union C)
    BY <1>3, <1>8 DEF Times
<1>14. Times(x, a) = Cardinality(A) /\ Times(x, b) = Cardinality(B)
    BY <1>1, <1>5, <1>6 DEF Times
<1> QED
    BY <1>2, <1>11, <1>12, <1>13, <1>14
=============================================================================
