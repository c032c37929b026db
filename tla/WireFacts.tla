------------------------------ MODULE WireFacts ------------------------------
(***************************************************************************)
(* What the operators of Wire on texts return, for texts over any symbols: *)
(* the first position of a symbol, the words of a line, words joined into  *)
(* a line and taken apart again, tag values escaped and unescaped, tags    *)
(* formatted and parsed, a line with tags taken apart, sequences put       *)
(* together from parts. Induction over the length of a text is over a set  *)
(* of numbers (NatUpward and Iterates), which needs no operator as a       *)
(* parameter.                                                              *)
(***************************************************************************)
EXTENDS Wire, SequenceFacts, FunctionTheorems, WellFoundedInduction, TLAPS

(* Positions *)

\* Induction over the naturals, as a property of sets.
LEMMA NatUpward ==
    ASSUME NEW T, 0 \in T, \A n \in Nat : n \in T => n + 1 \in T
    PROVE  Nat \subseteq T
<1> DEFINE R == OpToRel(<, Nat)
<1>1. IsWellFoundedOn(R, Nat)
    BY NatLessThanWellFounded
<1>2. \A x, y \in Nat : x < y => <<x, y>> \in R
    BY DEF OpToRel
<1> HIDE DEF R
<1> SUFFICES ASSUME Nat \ T # {} PROVE FALSE
    OBVIOUS
<1>3. PICK m \in Nat \ T : \A y \in Nat \ T : <<y, m>> \notin R
    <2>1. Nat \ T \subseteq Nat
        OBVIOUS
    <2> QED
        BY <1>1, <2>1, WFMin
<1>4. m # 0 /\ m - 1 \in Nat \ T
    <2>1. m # 0
        OBVIOUS
    <2>2. m - 1 \in Nat /\ (m - 1) + 1 = m
        BY <2>1
    <2> QED
        BY <2>1, <2>2
<1>5. <<m - 1, m>> \in R
    BY <1>2, <1>4
<1> QED
    BY <1>3, <1>4, <1>5

\* A set of naturals that is not empty has a least element,
LEMMA Least ==
    ASSUME NEW S, S \subseteq Nat, S # {}
    PROVE  Min(S) \in S /\ \A i \in S : Min(S) <= i
<1> DEFINE T == {n \in Nat : \A i \in S : n <= i}
<1>1. PICK n \in T : n + 1 \notin T
    <2> SUFFICES ASSUME \A n \in T : n + 1 \in T PROVE FALSE
        OBVIOUS
    <2>1. 0 \in T
        OBVIOUS
    <2> HIDE DEF T
    <2>2. Nat \subseteq T
        BY <2>1, NatUpward
    <2>3. PICK i \in S : TRUE
        OBVIOUS
    <2>4. i + 1 \in T
        BY <2>2
    <2> QED
        BY <2>4 DEF T
<1>2. n \in S /\ \A i \in S : n <= i
    <2>1. PICK i \in S : ~(n + 1 <= i)
        BY <1>1
    <2> QED
        BY <1>1, <2>1
<1> QED
    BY <1>2 DEF Min

\* and a greatest one if it is bounded.
LEMMA Greatest ==
    ASSUME NEW n \in Nat, NEW S, S \subseteq 0..n, S # {}
    PROVE  Max(S) \in S /\ \A i \in S : i <= Max(S)
<1> DEFINE T == {n - i : i \in S}
<1>0. \A i \in S : i \in Nat /\ i <= n
    OBVIOUS
<1>1. T \subseteq Nat /\ T # {}
    <2>1. PICK i \in S : TRUE
        OBVIOUS
    <2>2. n - i \in T
        OBVIOUS
    <2>3. ASSUME NEW j \in S PROVE n - j \in Nat
        BY <1>0
    <2> QED
        BY <2>2, <2>3
<1>2. Min(T) \in T /\ \A i \in T : Min(T) <= i
    BY <1>1, Least
<1>3. PICK i \in S : Min(T) = n - i
    BY <1>2
<1>4. \A j \in S : j <= i
    <2> SUFFICES ASSUME NEW j \in S PROVE j <= i
        OBVIOUS
    <2>1. n - i <= n - j
        BY <1>2, <1>3
    <2> QED
        BY <1>0, <2>1
<1> QED
    BY <1>4 DEF Max

\* The first of some positions.
LEMMA FirstIs ==
    ASSUME NEW n \in Nat, NEW S, S \subseteq 1..n
    PROVE  /\ First(S) \in 0..n
           /\ S = {} => First(S) = 0
           /\ S # {} => First(S) \in S /\ \A i \in S : First(S) <= i
<1>1. CASE S = {}
    BY <1>1 DEF First
<1>2. CASE S # {}
    <2>1. S \subseteq Nat
        OBVIOUS
    <2>2. Min(S) \in S /\ \A i \in S : Min(S) <= i
        BY <1>2, <2>1, Least
    <2>3. First(S) = Min(S)
        BY <1>2 DEF First
    <2>4. Min(S) \in 1..n
        BY <2>2
    <2> QED
        BY <1>2, <2>2, <2>3, <2>4
<1> QED
    BY <1>1, <1>2

\* The numbering of a set of positions has a position for each number.
LEMMA NthIs ==
    ASSUME NEW n \in Nat, NEW S, S \subseteq 1..n, NEW k \in 1..Cardinality(S)
    PROVE  /\ Nth(S, k) \in S
           /\ Cardinality({j \in S : j < Nth(S, k)}) = k - 1
<1> DEFINE upto(i) == {j \in S : j < i}
           T == {m \in Nat : m < Cardinality(S) => \E i \in S : Cardinality(upto(i)) = m}
<1>0. \A i \in S : i \in Nat
    OBVIOUS
<1>1. IsFiniteSet(S) /\ Cardinality(S) \in Nat
    <2>1. IsFiniteSet(1..n)
        BY FS_Interval
    <2> QED
        BY <2>1, FS_Subset, FS_CardinalityType
<1>2. ASSUME NEW i PROVE IsFiniteSet(upto(i)) /\ Cardinality(upto(i)) \in Nat
    <2>1. upto(i) \subseteq S
        OBVIOUS
    <2> HIDE DEF upto
    <2> QED
        BY <1>1, <2>1, FS_Subset, FS_CardinalityType
<1>3. 0 \in T
    <2> SUFFICES ASSUME 0 < Cardinality(S) PROVE \E i \in S : Cardinality(upto(i)) = 0
        OBVIOUS
    <2>1. S # {}
        BY FS_EmptySet
    <2>2. Min(S) \in S /\ upto(Min(S)) = {}
        <3>1. S \subseteq Nat
            OBVIOUS
        <3>2. Min(S) \in S /\ \A i \in S : Min(S) <= i
            BY <2>1, <3>1, Least
        <3>3. ASSUME NEW j \in S PROVE ~(j < Min(S))
            <4>1. j \in Nat /\ Min(S) \in Nat /\ Min(S) <= j
                BY <1>0, <3>2
            <4> QED
                BY <4>1
        <3> QED
            BY <3>2, <3>3
    <2> HIDE DEF upto
    <2> QED
        BY <2>2, FS_EmptySet
<1>4. ASSUME NEW m \in Nat, m \in T PROVE m + 1 \in T
    <2> SUFFICES ASSUME m + 1 < Cardinality(S) PROVE \E i \in S : Cardinality(upto(i)) = m + 1
        OBVIOUS
    <2>1. PICK i \in S : Cardinality(upto(i)) = m
        BY <1>1, <1>4
    <2> DEFINE above == {j \in S : i < j}
               next  == upto(i) \cup {i}
    <2>2. next \subseteq S /\ Cardinality(next) = m + 1
        <3>1. i \notin upto(i) /\ next \subseteq S
            OBVIOUS
        <3> HIDE DEF upto
        <3> QED
            BY <1>2, <2>1, <3>1, FS_AddElement
    <2>3. above # {}
        <3> SUFFICES ASSUME above = {} PROVE FALSE
            OBVIOUS
        <3>1. ASSUME NEW j \in S PROVE j < i \/ j = i
            BY <1>0
        <3>2. S = next
            BY <3>1
        <3> HIDE DEF next, upto
        <3> QED
            BY <1>1, <2>2, <3>2
    <2>4. Min(above) \in above /\ \A j \in above : Min(above) <= j
        <3>1. above \subseteq Nat
            BY <1>0
        <3> HIDE DEF above
        <3> QED
            BY <2>3, <3>1, Least
    <2>5. upto(Min(above)) = next
        <3> DEFINE l == Min(above)
        <3>1. l \in S /\ i < l /\ \A j \in S : i < j => l <= j
            BY <2>4
        <3> HIDE DEF l
        <3>2. ASSUME NEW j \in S PROVE j < l <=> j < i \/ j = i
            BY <1>0, <3>1
        <3>3. upto(l) = next
            BY <3>2
        <3> QED
            BY <3>3 DEF l
    <2> HIDE DEF upto, next
    <2> QED
        BY <2>2, <2>4, <2>5
<1>5. k - 1 \in Nat /\ k - 1 < Cardinality(S)
    BY <1>1
<1>6. k - 1 \in T
    <2> HIDE DEF T
    <2> QED
        BY <1>3, <1>4, <1>5, NatUpward
<1> QED
    BY <1>5, <1>6 DEF Nth

Enumerates(f, m, S) ==
    /\ f \in [1..m -> S]
    /\ \A i, j \in 1..m : i < j => f[i] < f[j]
    /\ \A x \in S : \E i \in 1..m : f[i] = x

\* An increasing enumeration of the positions is the numbering.
LEMMA Enumerated ==
    ASSUME NEW n \in Nat, NEW S, S \subseteq 1..n, NEW m \in Nat, NEW f, Enumerates(f, m, S)
    PROVE  Cardinality(S) = m /\ \A k \in 1..m : Nth(S, k) = f[k]
<1> DEFINE upto(i) == {j \in S : j < i}
<1>a. f \in [1..m -> S]
    BY DEF Enumerates
<1>b. \A i, j \in 1..m : i < j => f[i] < f[j]
    BY DEF Enumerates
<1>c. \A x \in S : \E i \in 1..m : f[i] = x
    BY DEF Enumerates
<1> USE <1>a, <1>b, <1>c
<1>0. (\A i \in S : i \in Nat) /\ \A i \in 1..m : f[i] \in Nat
    <2>1. \A i \in S : i \in Nat
        OBVIOUS
    <2> QED
        BY <2>1
<1>1. \A i, j \in 1..m : f[i] = f[j] => i = j
    <2> SUFFICES ASSUME NEW i \in 1..m, NEW j \in 1..m, f[i] = f[j], i # j PROVE FALSE
        OBVIOUS
    <2>1. f[i] \in Nat /\ (i < j \/ j < i)
        BY <1>0
    <2> QED
        BY <2>1
<1>2. Cardinality(S) = m
    <2>1. f \in Bijection(1..m, S)
        BY <1>1, Fun_IsBij
    <2>2. IsFiniteSet(1..m) /\ Cardinality(1..m) = m
        BY FS_Interval
    <2> QED
        BY <2>1, <2>2, FS_Bijection DEF ExistsBijection
<1>3. ASSUME NEW k \in 1..m PROVE Cardinality(upto(f[k])) = k - 1
    <2> DEFINE g == [i \in 1..(k - 1) |-> f[i]]
    <2>1. g \in [1..(k - 1) -> upto(f[k])]
        OBVIOUS
    <2>2. \A x \in upto(f[k]) : \E i \in 1..(k - 1) : g[i] = x
        <3> SUFFICES ASSUME NEW x \in S, x < f[k] PROVE \E i \in 1..(k - 1) : f[i] = x
            OBVIOUS
        <3>1. PICK i \in 1..m : f[i] = x
            OBVIOUS
        <3>2. i < k
            <4> SUFFICES ASSUME k <= i PROVE FALSE
                OBVIOUS
            <4>1. f[k] \in Nat /\ f[i] \in Nat /\ (k = i \/ k < i)
                BY <1>0
            <4>2. f[k] = f[i] \/ f[k] < f[i]
                BY <4>1
            <4> QED
                BY <3>1, <4>1, <4>2
        <3> QED
            BY <3>1, <3>2
    <2>3. \A i, j \in 1..(k - 1) : g[i] = g[j] => i = j
        BY <1>1
    <2>4. g \in Bijection(1..(k - 1), upto(f[k]))
        <3> HIDE DEF g, upto
        <3> QED
            BY <2>1, <2>2, <2>3, Fun_IsBij
    <2>5. IsFiniteSet(1..(k - 1)) /\ Cardinality(1..(k - 1)) = k - 1
        BY FS_Interval
    <2> HIDE DEF g, upto
    <2> QED
        BY <2>4, <2>5, FS_Bijection DEF ExistsBijection
<1>4. ASSUME NEW k \in 1..m PROVE Nth(S, k) = f[k]
    <2>1. Nth(S, k) \in S /\ Cardinality(upto(Nth(S, k))) = k - 1
        BY <1>2, NthIs
    <2>2. PICK i \in 1..m : f[i] = Nth(S, k)
        BY <2>1
    <2>3. i - 1 = k - 1
        <3> HIDE DEF upto
        <3> QED
            BY <1>3, <2>1, <2>2
    <2> QED
        BY <2>2, <2>3
<1> QED
    BY <1>2, <1>4

-----------------------------------------------------------------------------
(* Recursive functions *)

\* g is the n-fold iteration of a step from x0.
Iteration(g, n, X, x0, step) ==
    /\ g \in [0..n -> X]
    /\ g[0] = x0
    /\ \A i \in 1..n : g[i] = step[<<i, g[i - 1]>>]

\* A function defined by recursion over the places of a sequence exists.
LEMMA Iterates ==
    ASSUME NEW n \in Nat, NEW X, NEW x0 \in X, NEW step \in [(1..n) \X X -> X]
    PROVE  \E g : Iteration(g, n, X, x0, step)
<1> DEFINE Upto(g, m) == g[0] = x0 /\ \A i \in 1..m : g[i] = step[<<i, g[i - 1]>>]
           T == {m \in Nat : m <= n => \E g \in [0..m -> X] : Upto(g, m)}
<1>1. 0 \in T
    <2>1. [i \in 0..0 |-> x0] \in [0..0 -> X] /\ Upto([i \in 0..0 |-> x0], 0)
        OBVIOUS
    <2> QED
        BY <2>1
<1>2. ASSUME NEW m \in Nat, m \in T PROVE m + 1 \in T
    <2> SUFFICES ASSUME m + 1 <= n PROVE \E g \in [0..(m + 1) -> X] : Upto(g, m + 1)
        OBVIOUS
    <2>1. PICK g \in [0..m -> X] : Upto(g, m)
        BY <1>2
    <2> DEFINE h == [i \in 0..(m + 1) |-> IF i <= m THEN g[i] ELSE step[<<m + 1, g[m]>>]]
    <2>2. g[m] \in X /\ step[<<m + 1, g[m]>>] \in X
        <3>1. g[m] \in X /\ m + 1 \in 1..n
            OBVIOUS
        <3> QED
            BY <3>1
    <2>3. h \in [0..(m + 1) -> X]
        BY <2>2
    <2>4. Upto(h, m + 1)
        <3>1. h[0] = x0
            BY <2>1
        <3>2. ASSUME NEW i \in 1..(m + 1) PROVE h[i] = step[<<i, h[i - 1]>>]
            <4>1. CASE i <= m
                <5>1. i \in 1..m /\ i - 1 \in 0..(m + 1) /\ i - 1 <= m /\ i \in 0..(m + 1)
                    BY <4>1
                <5>2. h[i] = g[i] /\ h[i - 1] = g[i - 1]
                    BY <4>1, <5>1
                <5> QED
                    BY <2>1, <5>1, <5>2
            <4>2. CASE i = m + 1
                <5>1. i \in 0..(m + 1) /\ ~(i <= m) /\ i - 1 = m /\ m \in 0..(m + 1)
                    BY <4>2
                <5>2. h[i] = step[<<m + 1, g[m]>>] /\ h[m] = g[m]
                    BY <5>1
                <5> QED
                    BY <4>2, <5>1, <5>2
            <4> QED
                BY <4>1, <4>2
        <3> QED
            BY <3>1, <3>2
    <2> QED
        BY <2>3, <2>4
<1>3. n \in T
    <2> HIDE DEF T
    <2> QED
        BY <1>1, <1>2, NatUpward
<1> QED
    BY <1>3 DEF Iteration

\* FlattenSeq concatenates the parts one after the other: g[i] are the first i.
LEMMA FlattenPrefixes ==
    ASSUME NEW S, NEW ss \in Seq(Seq(S))
    PROVE  \E g \in [0..Len(ss) -> Seq(S)] :
             /\ g[0] = <<>>
             /\ \A i \in 1..Len(ss) : g[i] = g[i - 1] \o ss[i]
             /\ FlattenSeq(ss) = g[Len(ss)]
<1> DEFINE n == Len(ss)
           step == [p \in (1..n) \X Seq(S) |-> p[2] \o ss[p[1]]]
<1>1. n \in Nat /\ (\A i \in 1..n : ss[i] \in Seq(S)) /\ <<>> \in Seq(S)
    OBVIOUS
<1>2. step \in [(1..n) \X Seq(S) -> Seq(S)]
    <2>1. ASSUME NEW p \in (1..n) \X Seq(S) PROVE p[2] \o ss[p[1]] \in Seq(S)
        <3>1. p[2] \in Seq(S) /\ ss[p[1]] \in Seq(S)
            BY <1>1
        <3> QED
            BY <3>1, ConcatProperties
    <2> QED
        BY <2>1
<1>3. PICK g \in [0..n -> Seq(S)] : g[0] = <<>> /\ \A i \in 1..n : g[i] = step[<<i, g[i - 1]>>]
    <2> HIDE DEF n, step
    <2>1. \E g : Iteration(g, n, Seq(S), <<>>, step)
        BY <1>1, <1>2, Iterates
    <2> QED
        BY <2>1 DEF Iteration
<1>4. ASSUME NEW i \in 1..n PROVE g[i - 1] \in Seq(S) /\ g[i] = g[i - 1] \o ss[i]
    <2>1. i - 1 \in 0..n
        OBVIOUS
    <2>2. g[i - 1] \in Seq(S)
        BY <2>1
    <2>3. <<i, g[i - 1]>> \in (1..n) \X Seq(S)
        BY <2>2
    <2>4. step[<<i, g[i - 1]>>] = g[i - 1] \o ss[i]
        BY <2>3
    <2> QED
        BY <1>3, <2>2, <2>4
<1>5. g[0] = <<>>
    BY <1>3
<1>6. FlattenSeq(ss) = g[n]
    <2>1. CASE n = 0
        BY <1>3, <2>1 DEF FlattenSeq
    <2>2. CASE n # 0
        <3> DEFINE Def(f) == f = [i \in 1..n |-> IF i = 1 THEN ss[i] ELSE f[i - 1] \o ss[i]]
                   h == [i \in 1..n |-> g[i]]
                   c == CHOOSE f : Def(f)
                   T == {i \in Nat : i \in 1..n => c[i] = g[i]}
        <3>1. Def(h)
            <4> SUFFICES ASSUME NEW i \in 1..n
                         PROVE  g[i] = IF i = 1 THEN ss[i] ELSE h[i - 1] \o ss[i]
                OBVIOUS
            <4>1. CASE i = 1
                <5>1. ss[1] \in Seq(S)
                    BY <1>1, <4>1
                <5>2. i - 1 = 0 /\ g[i - 1] = <<>>
                    BY <1>5, <4>1
                <5>3. g[i] = g[i - 1] \o ss[i]
                    BY <1>4
                <5>4. <<>> \o ss[i] = ss[i]
                    BY <1>1, ConcatEmptySeq
                <5> QED
                    BY <4>1, <5>2, <5>3, <5>4
            <4>2. CASE i # 1
                <5>1. i - 1 \in 1..n
                    BY <4>2
                <5>2. h[i - 1] = g[i - 1]
                    BY <5>1
                <5> QED
                    BY <1>4, <4>2, <5>2
            <4> QED
                BY <4>1, <4>2
        <3> HIDE DEF h
        <3>2. Def(c)
            BY <3>1
        <3>3. FlattenSeq(ss) = c[n]
            BY <2>2 DEF FlattenSeq
        <3> HIDE DEF c
        <3>4. ASSUME NEW i \in 1..n PROVE c[i] = IF i = 1 THEN ss[i] ELSE c[i - 1] \o ss[i]
            BY <3>2
        <3> HIDE DEF Def
        <3>5. 0 \in T
            OBVIOUS
        <3>6. ASSUME NEW i \in Nat, i \in T PROVE i + 1 \in T
            <4> SUFFICES ASSUME i + 1 \in 1..n PROVE c[i + 1] = g[i + 1]
                OBVIOUS
            <4>1. CASE i = 0
                <5>1. ss[1] \in Seq(S) /\ c[1] = ss[1]
                    BY <1>1, <3>4, <4>1
                <5>2. g[(i + 1) - 1] = <<>>
                    BY <1>5, <4>1
                <5>3. g[i + 1] = g[(i + 1) - 1] \o ss[i + 1]
                    BY <1>4
                <5>4. <<>> \o ss[i + 1] = ss[i + 1]
                    BY <1>1, ConcatEmptySeq
                <5> QED
                    BY <4>1, <5>1, <5>2, <5>3, <5>4
            <4>2. CASE i # 0
                <5>1. i \in 1..n /\ (i + 1) - 1 = i /\ i + 1 # 1
                    BY <4>2
                <5>2. c[i] = g[i]
                    BY <3>6, <5>1
                <5>3. c[i + 1] = c[i] \o ss[i + 1]
                    BY <3>4, <5>1
                <5>4. g[i + 1] = g[i] \o ss[i + 1]
                    BY <1>4, <5>1
                <5> QED
                    BY <5>2, <5>3, <5>4
            <4> QED
                BY <4>1, <4>2
        <3>7. n \in T
            <4> HIDE DEF T
            <4> QED
                BY <1>1, <3>5, <3>6, NatUpward
        <3> QED
            BY <1>1, <2>2, <3>3, <3>7
    <2> QED
        BY <2>1, <2>2
<1> QED
    BY <1>3, <1>4, <1>6

-----------------------------------------------------------------------------
(* Values of tags *)

GrowsBy(g, ss) == \A i \in 1..Len(ss) : g[i] = g[i - 1] \o ss[i]
Placed(g, ss) ==
    \A i \in 1..Len(ss) :
        /\ Len(g[i]) = Len(g[i - 1]) + Len(ss[i]) /\ Len(g[i]) <= Len(g[Len(ss)])
        /\ \A k \in 1..Len(ss[i]) : g[Len(ss)][Len(g[i - 1]) + k] = ss[i][k]

\* Each part is where the parts before it end.
LEMMA FlattenParts ==
    ASSUME NEW S, NEW ss \in Seq(Seq(S)), NEW g \in [0..Len(ss) -> Seq(S)], GrowsBy(g, ss)
    PROVE  Placed(g, ss)
<1> DEFINE n == Len(ss)
           Kept(i, m) == Len(g[i]) <= Len(g[m]) /\ \A x \in 1..Len(g[i]) : g[m][x] = g[i][x]
           T == {m \in Nat : m <= n => \A i \in 0..m : Kept(i, m)}
<1>1. n \in Nat /\ \A i \in 0..n : g[i] \in Seq(S) /\ Len(g[i]) \in Nat
    OBVIOUS
<1>2. ASSUME NEW i \in 1..n
      PROVE  /\ ss[i] \in Seq(S) /\ Len(ss[i]) \in Nat /\ i - 1 \in 0..n /\ i \in 0..n
             /\ Len(g[i]) = Len(g[i - 1]) + Len(ss[i])
             /\ \A x \in 1..(Len(g[i - 1]) + Len(ss[i])) :
                  g[i][x] = IF x <= Len(g[i - 1]) THEN g[i - 1][x] ELSE ss[i][x - Len(g[i - 1])]
    <2>1. ss[i] \in Seq(S) /\ Len(ss[i]) \in Nat /\ i - 1 \in 0..n /\ i \in 0..n
        OBVIOUS
    <2>2. g[i - 1] \in Seq(S) /\ g[i] = g[i - 1] \o ss[i]
        BY <1>1, <2>1 DEF GrowsBy
    <2> DEFINE a == g[i - 1]
               b == ss[i]
    <2>3. a \in Seq(S) /\ b \in Seq(S) /\ g[i] = a \o b
        BY <2>1, <2>2
    <2> HIDE DEF a, b
    <2>4. /\ Len(g[i]) = Len(a) + Len(b)
          /\ \A x \in 1..(Len(a) + Len(b)) : g[i][x] = IF x <= Len(a) THEN a[x] ELSE b[x - Len(a)]
        BY <2>3, ConcatProperties
    <2> QED
        BY <2>1, <2>4 DEF a, b
<1> HIDE DEF n
<1>3. 0 \in T
    <2> SUFFICES ASSUME NEW i \in 0..0 PROVE Kept(i, 0)
        OBVIOUS
    <2>1. i = 0 /\ Len(g[0]) \in Nat
        BY <1>1
    <2> QED
        BY <2>1
<1>4. ASSUME NEW m \in Nat, m \in T PROVE m + 1 \in T
    <2> SUFFICES ASSUME m + 1 <= n, NEW i \in 0..(m + 1) PROVE Kept(i, m + 1)
        OBVIOUS
    <2>1. CASE i = m + 1
        <3>1. Len(g[m + 1]) \in Nat
            BY <1>1
        <3> QED
            BY <2>1, <3>1
    <2>2. CASE i <= m
        <3>1. Kept(i, m)
            <4>1. m <= n /\ i \in 0..m
                BY <1>1, <2>2
            <4> QED
                BY <1>4, <4>1
        <3>2. m + 1 \in 1..n /\ (m + 1) - 1 = m /\ m \in 0..n /\ i \in 0..n
            BY <1>1, <2>2
        <3>3. Len(g[i]) \in Nat /\ Len(g[m]) \in Nat
            BY <1>1, <3>2
        <3>4. /\ Len(ss[m + 1]) \in Nat /\ Len(g[m + 1]) = Len(g[m]) + Len(ss[m + 1])
              /\ \A x \in 1..(Len(g[m]) + Len(ss[m + 1])) :
                   g[m + 1][x] = IF x <= Len(g[m]) THEN g[m][x] ELSE ss[m + 1][x - Len(g[m])]
            BY <1>2, <3>2
        <3> DEFINE a == Len(g[i])
                   b == Len(g[m])
                   d == Len(ss[m + 1])
        <3>a. a \in Nat /\ b \in Nat /\ d \in Nat /\ a <= b
            BY <3>1, <3>3, <3>4
        <3>5. ASSUME NEW x \in 1..Len(g[i]) PROVE g[m + 1][x] = g[i][x]
            <4>1. x \in 1..(b + d) /\ x <= b
                <5>1. x \in 1..a
                    OBVIOUS
                <5> HIDE DEF a, b, d
                <5> QED
                    BY <3>a, <5>1
            <4>2. g[m + 1][x] = g[m][x] /\ g[m][x] = g[i][x]
                BY <3>1, <3>4, <4>1
            <4> QED
                BY <4>2
        <3>6. Len(g[i]) <= Len(g[m + 1])
            <4>1. Len(g[m + 1]) = b + d
                BY <3>4
            <4> HIDE DEF b, d
            <4>2. a <= Len(g[m + 1])
                <5> HIDE DEF a
                <5> QED
                    BY <3>a, <4>1
            <4> QED
                BY <4>2
        <3> QED
            BY <3>5, <3>6
    <2> QED
        BY <2>1, <2>2
<1>5. n \in T
    <2> HIDE DEF T
    <2> QED
        BY <1>1, <1>3, <1>4, NatUpward
<1> SUFFICES ASSUME NEW i \in 1..n
             PROVE  /\ Len(g[i]) = Len(g[i - 1]) + Len(ss[i]) /\ Len(g[i]) <= Len(g[n])
                    /\ \A k \in 1..Len(ss[i]) : g[n][Len(g[i - 1]) + k] = ss[i][k]
    BY DEF n, Placed
<1>6. Kept(i, n)
    BY <1>1, <1>2, <1>5
<1>7. ASSUME NEW k \in 1..Len(ss[i]) PROVE g[n][Len(g[i - 1]) + k] = ss[i][k]
    <2> DEFINE l == Len(g[i - 1])
               q == Len(ss[i])
               x == l + k
    <2>1. l \in Nat /\ q \in Nat /\ k \in 1..q
        BY <1>1, <1>2
    <2>2. x \in 1..(l + q) /\ ~(x <= l) /\ x - l = k
        <3> HIDE DEF l, q
        <3> QED
            BY <2>1
    <2> HIDE DEF x
    <2>3. g[i][x] = ss[i][k] /\ x \in 1..Len(g[i])
        BY <1>2, <2>2
    <2>4. g[n][x] = g[i][x]
        BY <1>6, <2>3
    <2> QED
        BY <2>3, <2>4 DEF x
<1> QED
    BY <1>2, <1>6, <1>7

\* the symbols a tag cannot hold as they are, next to the backslash
Separators == {";", " ", "CR", "LF"}

Scans(S) == [out : Seq(S), escaped : BOOLEAN]

\* UnescapeTagValue goes through the value once, symbol by symbol.
LEMMA UnescapeIs ==
    ASSUME NEW S, Separators \subseteq S, NEW value \in Seq(S)
    PROVE  \E g \in [0..Len(value) -> Scans(S)] :
             /\ g[0] = [out |-> <<>>, escaped |-> FALSE]
             /\ \A i \in 1..Len(value) : g[i] = Scanned(g[i - 1], value[i])
             /\ UnescapeTagValue(value) =
                  IF g[Len(value)].escaped THEN Append(g[Len(value)].out, "\\")
                                           ELSE g[Len(value)].out
<1> DEFINE n == Len(value)
           X == Scans(S)
           start == [out |-> <<>>, escaped |-> FALSE]
           step == [p \in (1..n) \X X |-> Scanned(p[2], value[p[1]])]
<1>1. n \in Nat /\ \A i \in 1..n : value[i] \in S
    OBVIOUS
<1>0. start \in X
    <2>1. <<>> \in Seq(S)
        BY EmptySeq
    <2> QED
        BY <2>1 DEF Scans
<1>2. ASSUME NEW st \in X, NEW x \in S PROVE Scanned(st, x) \in X
    <2>1. st.out \in Seq(S) /\ st.escaped \in BOOLEAN /\ Unescaped(x) \in S
        BY DEF Scans, Unescaped, Separators
    <2>2. Append(st.out, Unescaped(x)) \in Seq(S) /\ Append(st.out, x) \in Seq(S)
        BY <2>1, AppendProperties
    <2>3. CASE st.escaped
        BY <2>2, <2>3 DEF Scans, Scanned
    <2>4. CASE ~st.escaped /\ x = "\\"
        BY <2>1, <2>4 DEF Scans, Scanned
    <2>5. CASE ~st.escaped /\ x # "\\"
        BY <2>1, <2>2, <2>5 DEF Scans, Scanned
    <2> QED
        BY <2>3, <2>4, <2>5
<1> HIDE DEF X
<1>3. step \in [(1..n) \X X -> X]
    <2>1. ASSUME NEW p \in (1..n) \X X PROVE Scanned(p[2], value[p[1]]) \in X
        <3>1. p[2] \in X /\ value[p[1]] \in S
            BY <1>1
        <3> QED
            BY <1>2, <3>1
    <2> QED
        BY <2>1
<1>4. PICK g : Iteration(g, n, X, start, step)
    <2> HIDE DEF n, step, start
    <2> QED
        BY <1>0, <1>1, <1>3, Iterates
<1>5. g \in [0..n -> X] /\ g[0] = start
    BY <1>4 DEF Iteration
<1>6. ASSUME NEW i \in 1..n PROVE g[i] = Scanned(g[i - 1], value[i])
    <2>1. g[i] = step[<<i, g[i - 1]>>]
        BY <1>4 DEF Iteration
    <2>2. <<i, g[i - 1]>> \in (1..n) \X X
        <3>1. i - 1 \in 0..n
            BY <1>1
        <3> QED
            BY <1>5, <3>1
    <2>3. step[<<i, g[i - 1]>>] = Scanned(g[i - 1], value[i])
        BY <2>2
    <2> QED
        BY <2>1, <2>3
<1>7. UnescapeTagValue(value) = IF g[n].escaped THEN Append(g[n].out, "\\") ELSE g[n].out
    <2> DEFINE Def(f) == f = [i \in 0..n |-> IF i = 0 THEN start ELSE Scanned(f[i - 1], value[i])]
               c == CHOOSE f : Def(f)
               T == {i \in Nat : i \in 0..n => c[i] = g[i]}
    <2>1. Def(g)
        <3>1. ASSUME NEW i \in 0..n
              PROVE  g[i] = IF i = 0 THEN start ELSE Scanned(g[i - 1], value[i])
            <4>1. i = 0 \/ i \in 1..n
                BY <1>1
            <4> HIDE DEF start
            <4> QED
                BY <1>5, <1>6, <4>1
        <3>2. g = [i \in 0..n |-> g[i]]
            BY <1>5
        <3> QED
            BY <3>1, <3>2
    <2>2. Def(c)
        BY <2>1
    <2>3. UnescapeTagValue(value) = IF c[n].escaped THEN Append(c[n].out, "\\") ELSE c[n].out
        BY DEF UnescapeTagValue
    <2> HIDE DEF c
    <2>4. ASSUME NEW i \in 0..n
          PROVE  c[i] = IF i = 0 THEN start ELSE Scanned(c[i - 1], value[i])
        BY <2>2
    <2> HIDE DEF Def, start, n
    <2>5. 0 \in T
        BY <1>1, <1>5, <2>4
    <2>6. ASSUME NEW i \in Nat, i \in T PROVE i + 1 \in T
        <3> SUFFICES ASSUME i + 1 \in 0..n PROVE c[i + 1] = g[i + 1]
            OBVIOUS
        <3>1. i \in 0..n /\ i + 1 \in 1..n /\ (i + 1) - 1 = i /\ i + 1 # 0
            BY <1>1
        <3>2. c[i] = g[i]
            BY <2>6, <3>1
        <3>3. c[i + 1] = Scanned(c[i], value[i + 1])
            BY <2>4, <3>1
        <3>4. g[i + 1] = Scanned(g[i], value[i + 1])
            BY <1>6, <3>1
        <3> QED
            BY <3>2, <3>3, <3>4
    <2>7. n \in T
        <3> HIDE DEF T
        <3> QED
            BY <1>1, <2>5, <2>6, NatUpward
    <2>8. c[n] = g[n]
        BY <1>1, <2>7
    <2> QED
        BY <2>3, <2>8
<1> QED
    BY <1>5, <1>6, <1>7 DEF X

Marks == {"\\", ":", "s", "r", "n"}
Clean(S) == (S \cup Marks) \ Separators

\* A symbol stands for itself, or it is escaped by a backslash and a mark.
LEMMA EscapeShape ==
    ASSUME NEW S, NEW x \in S
    PROVE  /\ EscapeSymbol(x) \in Seq(Clean(S))
           /\ \/ x # "\\" /\ EscapeSymbol(x) = <<x>>
              \/ \E y : EscapeSymbol(x) = <<"\\", y>> /\ Unescaped(y) = x
<1> DEFINE C == Clean(S)
<1>1. ASSUME NEW y \in Marks PROVE <<"\\", y>> \in Seq(C)
    <2>1. "\\" \in C /\ y \in C
        BY DEF Clean, Marks, Separators
    <2> HIDE DEF C
    <2> QED
        BY <2>1
<1>2. CASE x \in Separators \cup {"\\"}
    <2>1. PICK y \in Marks : EscapeSymbol(x) = <<"\\", y>> /\ Unescaped(y) = x
        BY <1>2 DEF Marks, Separators, EscapeSymbol, Unescaped
    <2> QED
        BY <1>1, <2>1
<1>3. CASE x \notin Separators \cup {"\\"}
    <2>1. EscapeSymbol(x) = <<x>> /\ x # "\\"
        BY <1>3 DEF Separators, EscapeSymbol
    <2>2. x \in C
        BY <1>3 DEF Clean
    <2>3. <<x>> \in Seq(C)
        BY <2>2, SingletonFacts
    <2> QED
        BY <2>1, <2>3
<1> QED
    BY <1>2, <1>3

\* The scanner that unescapes, position by position.
LEMMA ScannedIs ==
    ASSUME NEW s, NEW x
    PROVE  /\ x # "\\" => Scanned([out |-> s, escaped |-> FALSE], x)
                            = [out |-> Append(s, x), escaped |-> FALSE]
           /\ Scanned([out |-> s, escaped |-> FALSE], "\\") = [out |-> s, escaped |-> TRUE]
           /\ Scanned([out |-> s, escaped |-> TRUE], x)
                = [out |-> Append(s, Unescaped(x)), escaped |-> FALSE]
BY DEF Scanned

\* The client takes out of a tag the value the server put in it, and nothing
\* of the value ends the tag or the tags: escape_tag_value (server.rs) and
\* _unescape_tag_value (client.py) are inverse, whatever the value.
THEOREM TagRoundTrip ==
    ASSUME NEW S, NEW v \in Seq(S)
    PROVE  /\ UnescapeTagValue(EscapeTagValue(v)) = v
           /\ ToSet(EscapeTagValue(v)) \cap Separators = {}
<1> DEFINE n == Len(v)
           C == Clean(S)
           A == S \cup Marks \cup Separators
           ss == [i \in DOMAIN v |-> EscapeSymbol(v[i])]
           e == EscapeTagValue(v)
<1>1. n \in Nat /\ DOMAIN v = 1..n /\ \A i \in 1..n : v[i] \in S
    BY LenProperties, ElementOfSeq
<1>2. ASSUME NEW i \in 1..n
      PROVE  /\ ss[i] = EscapeSymbol(v[i]) /\ ss[i] \in Seq(C)
             /\ \/ v[i] # "\\" /\ ss[i] = <<v[i]>>
                \/ \E y : ss[i] = <<"\\", y>> /\ Unescaped(y) = v[i]
    <2>1. ss[i] = EscapeSymbol(v[i]) /\ v[i] \in S
        BY <1>1
    <2> HIDE DEF ss, C
    <2> QED
        BY <2>1, EscapeShape DEF C
<1>3. ss \in Seq(Seq(C)) /\ Len(ss) = n
    <2>1. ss \in [1..n -> Seq(C)]
        BY <1>1, <1>2
    <2> HIDE DEF ss, C, n
    <2> QED
        BY <1>1, <2>1
<1>4. e = FlattenSeq(ss)
    BY DEF EscapeTagValue
<1> HIDE DEF ss, e, n
<1>5. PICK g \in [0..n -> Seq(C)] :
        g[0] = <<>> /\ (\A i \in 1..n : g[i] = g[i - 1] \o ss[i]) /\ e = g[n]
    <2> HIDE DEF C
    <2> QED
        BY <1>3, <1>4, FlattenPrefixes
<1>6. ASSUME NEW i \in 1..n
      PROVE  /\ Len(g[i - 1]) \in Nat /\ Len(g[i]) = Len(g[i - 1]) + Len(ss[i]) /\ Len(g[i]) <= Len(e)
             /\ \A k \in 1..Len(ss[i]) : e[Len(g[i - 1]) + k] = ss[i][k]
    <2> HIDE DEF C
    <2>1. GrowsBy(g, ss)
        BY <1>3, <1>5 DEF GrowsBy
    <2>2. i - 1 \in 0..n
        BY <1>1
    <2>3. g[i - 1] \in Seq(C)
        BY <2>2
    <2>4. Len(g[i - 1]) \in Nat
        BY <2>3, LenProperties
    <2>5. g \in [0..Len(ss) -> Seq(C)] /\ i \in 1..Len(ss) /\ Len(ss) = n /\ e = g[Len(ss)]
        BY <1>3, <1>5
    <2>6. /\ Len(g[i]) = Len(g[i - 1]) + Len(ss[i]) /\ Len(g[i]) <= Len(g[Len(ss)])
          /\ \A k \in 1..Len(ss[i]) : g[Len(ss)][Len(g[i - 1]) + k] = ss[i][k]
        <3>1. Placed(g, ss)
            BY <1>3, <2>1, <2>5, FlattenParts
        <3> QED
            BY <2>5, <3>1 DEF Placed
    <2> QED
        BY <2>4, <2>5, <2>6
<1>7. e \in Seq(C) /\ e \in Seq(A) /\ Len(e) \in Nat
    <2>1. C \subseteq A
        BY DEF Clean
    <2> HIDE DEF C, A
    <2>2. e \in Seq(C)
        BY <1>1, <1>5
    <2> QED
        BY <2>1, <2>2, SeqMonotonic, LenProperties
<1>8. ToSet(e) \cap Separators = {}
    <2>1. ToSet(e) \subseteq C
        <3> HIDE DEF C
        <3> QED
            BY <1>7, ToSetMember
    <2> QED
        BY <2>1 DEF Clean
<1>9. PICK h \in [0..Len(e) -> Scans(A)] :
        /\ h[0] = [out |-> <<>>, escaped |-> FALSE]
        /\ \A i \in 1..Len(e) : h[i] = Scanned(h[i - 1], e[i])
        /\ UnescapeTagValue(e) = IF h[Len(e)].escaped THEN Append(h[Len(e)].out, "\\")
                                                      ELSE h[Len(e)].out
    <2>1. Separators \subseteq A
        OBVIOUS
    <2> HIDE DEF A
    <2> QED
        BY <1>7, <2>1, UnescapeIs
<1> DEFINE Done(i) == [out |-> SubSeq(v, 1, i), escaped |-> FALSE]
           T == {i \in Nat : i <= n => h[Len(g[i])] = Done(i)}
<1> HIDE DEF C, A
<1>10. 0 \in T
    <2>1. SubSeq(v, 1, 0) = <<>> /\ Len(g[0]) = 0
        BY <1>5
    <2> QED
        BY <1>9, <2>1
<1>11. ASSUME NEW j \in Nat, j \in T PROVE j + 1 \in T
    <2> SUFFICES ASSUME j + 1 <= n PROVE h[Len(g[j + 1])] = Done(j + 1)
        OBVIOUS
    <2> DEFINE i == j + 1
               l == Len(g[j])
               x == v[i]
               before == SubSeq(v, 1, j)
    <2>1. i \in 1..n /\ i - 1 = j /\ j \in 0..n
        BY <1>1
    <2>2. h[l] = [out |-> before, escaped |-> FALSE]
        BY <1>1, <1>11
    <2>3. SubSeq(v, 1, i) = Append(before, x)
        BY <1>1, <2>1
    <2>4. /\ l \in Nat /\ Len(g[i]) = l + Len(ss[i]) /\ Len(g[i]) <= Len(e)
          /\ \A k \in 1..Len(ss[i]) : e[l + k] = ss[i][k]
        BY <1>6, <2>1
    <2> HIDE DEF l, x, before, i
    <2>5. CASE x # "\\" /\ ss[i] = <<x>>
        <3>1. Len(g[i]) = l + 1 /\ e[l + 1] = x /\ l + 1 \in 1..Len(e) /\ (l + 1) - 1 = l
            BY <1>7, <2>4, <2>5
        <3>2. h[l + 1] = Scanned(h[l], x)
            BY <1>9, <3>1
        <3>3. h[l + 1] = [out |-> Append(before, x), escaped |-> FALSE]
            BY <2>2, <2>5, <3>2, ScannedIs
        <3> QED
            BY <2>3, <3>1, <3>3 DEF i
    <2>6. ASSUME NEW y, ss[i] = <<"\\", y>>, Unescaped(y) = x
          PROVE  h[Len(g[i])] = Done(i)
        <3>1. /\ Len(g[i]) = l + 2 /\ e[l + 1] = "\\" /\ e[l + 2] = y
              /\ l + 1 \in 1..Len(e) /\ (l + 1) - 1 = l /\ l + 2 \in 1..Len(e) /\ (l + 2) - 1 = l + 1
            BY <1>7, <2>4, <2>6
        <3>2. h[l + 1] = Scanned(h[l], "\\") /\ h[l + 2] = Scanned(h[l + 1], y)
            BY <1>9, <3>1
        <3>3. h[l + 1] = [out |-> before, escaped |-> TRUE]
            BY <2>2, <3>2, ScannedIs
        <3>4. h[l + 2] = [out |-> Append(before, x), escaped |-> FALSE]
            BY <2>6, <3>2, <3>3, ScannedIs
        <3> QED
            BY <2>3, <3>1, <3>4
    <2> QED
        BY <1>2, <2>1, <2>5, <2>6 DEF x, i
<1>12. h[Len(e)] = Done(n)
    <2>1. n \in T
        <3> HIDE DEF T
        <3> QED
            BY <1>1, <1>10, <1>11, NatUpward
    <2> QED
        BY <1>1, <1>5, <2>1
<1>13. SubSeq(v, 1, n) = v
    BY SubSeqFull DEF n
<1> QED
    BY <1>8, <1>9, <1>12, <1>13 DEF e

-----------------------------------------------------------------------------
(* Words *)

Below(P, x) == {j \in P : j < x}

\* Later positions have more positions below them.
LEMMA BelowGrows ==
    ASSUME NEW n \in Nat, NEW P, P \subseteq 1..n
    PROVE  /\ IsFiniteSet(P) /\ Cardinality(P) \in Nat
           /\ \A x \in P : Cardinality(Below(P, x)) \in Nat /\ Cardinality(Below(P, x)) + 1 <= Cardinality(P)
           /\ \A x, y \in P : x < y => Cardinality(Below(P, x)) + 1 <= Cardinality(Below(P, y))
<1>1. IsFiniteSet(P) /\ Cardinality(P) \in Nat
    <2>1. IsFiniteSet(1..n)
        BY FS_Interval
    <2> QED
        BY <2>1, FS_Subset, FS_CardinalityType
<1>2. \A x \in P : x \in Nat
    OBVIOUS
<1>3. ASSUME NEW x \in P, NEW Q, Below(P, x) \cup {x} \subseteq Q, Q \subseteq P
      PROVE  /\ Cardinality(Below(P, x)) \in Nat /\ Cardinality(Q) \in Nat
             /\ Cardinality(Below(P, x)) + 1 <= Cardinality(Q)
    <2>1. IsFiniteSet(Q) /\ Cardinality(Q) \in Nat
        BY <1>1, <1>3, FS_Subset, FS_CardinalityType
    <2>2. IsFiniteSet(Below(P, x))
        BY <1>3, <2>1, FS_Subset
    <2>3. x \notin Below(P, x)
        BY <1>2 DEF Below
    <2>4. Cardinality(Below(P, x) \cup {x}) = Cardinality(Below(P, x)) + 1
        BY <2>2, <2>3, FS_AddElement
    <2>5. Cardinality(Below(P, x) \cup {x}) <= Cardinality(Q)
        BY <1>3, <2>1, FS_Subset
    <2> QED
        BY <2>1, <2>2, <2>4, <2>5, FS_CardinalityType
<1>4. ASSUME NEW x \in P
      PROVE  Cardinality(Below(P, x)) \in Nat /\ Cardinality(Below(P, x)) + 1 <= Cardinality(P)
    <2>1. Below(P, x) \cup {x} \subseteq P
        BY DEF Below
    <2> QED
        BY <1>3, <2>1
<1>5. ASSUME NEW x \in P, NEW y \in P, x < y
      PROVE  Cardinality(Below(P, x)) + 1 <= Cardinality(Below(P, y))
    <2>1. Below(P, x) \cup {x} \subseteq Below(P, y) /\ Below(P, y) \subseteq P
        <3>1. x \in Nat /\ y \in Nat
            BY <1>2
        <3>2. ASSUME NEW j \in Below(P, x) \cup {x} PROVE j \in P /\ j < y
            <4>1. j \in P /\ (j < x \/ j = x)
                BY DEF Below
            <4>2. j \in Nat
                BY <1>2, <4>1
            <4> QED
                BY <1>5, <3>1, <4>1, <4>2
        <3> QED
            BY <3>2 DEF Below
    <2> QED
        BY <1>3, <2>1
<1> QED
    BY <1>1, <1>4, <1>5

\* The numbering is increasing and leaves no position out.
LEMMA NthOrder ==
    ASSUME NEW n \in Nat, NEW P, P \subseteq 1..n
    PROVE  /\ \A i, k \in 1..Cardinality(P) : i < k => Nth(P, i) < Nth(P, k)
           /\ \A x \in P : \E k \in 1..Cardinality(P) : Nth(P, k) = x
<1>1. ASSUME NEW k \in 1..Cardinality(P)
      PROVE  Nth(P, k) \in P /\ Nth(P, k) \in Nat /\ Cardinality(Below(P, Nth(P, k))) = k - 1
    <2>1. Nth(P, k) \in P /\ Cardinality(Below(P, Nth(P, k))) = k - 1
        BY NthIs DEF Below
    <2>2. \A x \in P : x \in Nat
        OBVIOUS
    <2> QED
        BY <2>1, <2>2
<1>2. Cardinality(P) \in Nat
    BY BelowGrows
<1>3. ASSUME NEW i \in 1..Cardinality(P), NEW k \in 1..Cardinality(P), i < k
      PROVE  Nth(P, i) < Nth(P, k)
    <2> DEFINE x == Nth(P, i)
               y == Nth(P, k)
    <2>1. /\ x \in P /\ y \in P /\ x \in Nat /\ y \in Nat
          /\ Cardinality(Below(P, x)) = i - 1 /\ Cardinality(Below(P, y)) = k - 1
        BY <1>1
    <2> HIDE DEF x, y
    <2>2. x # y /\ ~(y < x)
        <3>1. y < x => Cardinality(Below(P, y)) + 1 <= Cardinality(Below(P, x))
            BY <2>1, BelowGrows
        <3>2. i \in Nat /\ k \in Nat
            BY <1>2
        <3> QED
            BY <1>3, <2>1, <3>1, <3>2
    <2> QED
        BY <2>1, <2>2 DEF x, y
<1>4. ASSUME NEW x \in P PROVE \E k \in 1..Cardinality(P) : Nth(P, k) = x
    <2> DEFINE k == Cardinality(Below(P, x)) + 1
               y == Nth(P, k)
    <2>1. k \in 1..Cardinality(P) /\ Cardinality(Below(P, x)) = k - 1
        <3>1. Cardinality(Below(P, x)) \in Nat /\ k <= Cardinality(P)
            BY BelowGrows
        <3> QED
            BY <1>2, <3>1
    <2> HIDE DEF k
    <2>2. y \in P /\ y \in Nat /\ x \in Nat /\ Cardinality(Below(P, y)) = k - 1
        BY <1>1, <2>1
    <2> HIDE DEF y
    <2>3. ~(x < y) /\ ~(y < x)
        <3>1. /\ x < y => Cardinality(Below(P, x)) + 1 <= Cardinality(Below(P, y))
              /\ y < x => Cardinality(Below(P, y)) + 1 <= Cardinality(Below(P, x))
            BY <2>2, BelowGrows
        <3>2. k \in Nat
            BY <1>2, <2>1
        <3> QED
            BY <2>1, <2>2, <3>1, <3>2
    <2>4. x = y
        BY <2>2, <2>3
    <2> QED
        BY <2>1, <2>4 DEF y
<1> QED
    BY <1>3, <1>4

\* A word ends before the first position after its start that is white or outside.
LEMMA WordEndIs ==
    ASSUME NEW S, NEW s \in Seq(S), NEW i \in 1..Len(s)
    PROVE  /\ WordEnd(s, i) \in i..Len(s)
           /\ \A e \in i..Len(s) :
                e + 1 \notin Black(s) /\ (\A j \in i..(e - 1) : j + 1 \in Black(s)) => WordEnd(s, i) = e
           /\ WordEnd(s, i) + 1 \notin Black(s)
           /\ \A j \in i..(WordEnd(s, i) - 1) : j + 1 \in Black(s)
<1> DEFINE E == {j \in i..Len(s) : j + 1 \notin Black(s)}
           w == WordEnd(s, i)
<1>1. Len(s) \in Nat /\ DOMAIN s = 1..Len(s)
    BY LenProperties
<1>2. Len(s) \in E
    <2>1. Len(s) + 1 \notin 1..Len(s)
        BY <1>1
    <2> QED
        BY <1>1, <2>1 DEF Black
<1>3. \A j \in E : j \in Nat
    BY <1>1
<1>4. w = Min(E)
    BY DEF WordEnd
<1>5. Min(E) \in E /\ \A j \in E : Min(E) <= j
    <2> HIDE DEF E
    <2>1. E \subseteq Nat /\ E # {}
        BY <1>2, <1>3
    <2> QED
        BY <2>1, Least
<1> HIDE DEF w
<1>6. w \in i..Len(s) /\ w + 1 \notin Black(s) /\ w \in Nat
    BY <1>3, <1>4, <1>5
<1>7. ASSUME NEW j \in i..Len(s), j + 1 \notin Black(s) PROVE w <= j
    BY <1>4, <1>5, <1>7
<1>8. ASSUME NEW j \in i..(w - 1) PROVE j + 1 \in Black(s)
    <2> SUFFICES ASSUME j + 1 \notin Black(s) PROVE FALSE
        OBVIOUS
    <2>1. j \in i..Len(s) /\ j < w /\ j \in Nat
        BY <1>1, <1>6
    <2> QED
        BY <1>6, <1>7, <2>1
<1>9. ASSUME NEW e \in i..Len(s), e + 1 \notin Black(s), \A j \in i..(e - 1) : j + 1 \in Black(s)
      PROVE  w = e
    <2>1. w <= e
        BY <1>7, <1>9
    <2>2. ~(w < e)
        <3> SUFFICES ASSUME w < e PROVE FALSE
            OBVIOUS
        <3>1. w \in i..(e - 1)
            BY <1>1, <1>6
        <3> QED
            BY <1>6, <1>9, <3>1
    <2> QED
        BY <1>1, <1>6, <2>1, <2>2
<1> QED
    BY <1>6, <1>8, <1>9 DEF w

\* Words are texts.
LEMMA WordsType ==
    ASSUME NEW S, NEW s \in Seq(S)
    PROVE  /\ Words(s) \in Seq(Seq(S)) /\ Len(Words(s)) = Cardinality(Starts(s))
           /\ Starts(s) \subseteq 1..Len(s) /\ Cardinality(Starts(s)) \in Nat
<1>1. Len(s) \in Nat /\ DOMAIN s = 1..Len(s) /\ \A i \in 1..Len(s) : s[i] \in S
    BY LenProperties, ElementOfSeq
<1>2. Starts(s) \subseteq 1..Len(s)
    BY <1>1 DEF Starts, Black
<1>3. Cardinality(Starts(s)) \in Nat
    BY <1>1, <1>2, BelowGrows
<1>4. ASSUME NEW k \in 1..Cardinality(Starts(s))
      PROVE  SubSeq(s, Nth(Starts(s), k), WordEnd(s, Nth(Starts(s), k))) \in Seq(S)
    <2> DEFINE i == Nth(Starts(s), k)
               e == WordEnd(s, i)
    <2>1. i \in 1..Len(s)
        BY <1>1, <1>2, NthIs
    <2> HIDE DEF i
    <2>2. e \in i..Len(s)
        BY <2>1, WordEndIs
    <2> HIDE DEF e
    <2>3. i \in Int /\ e \in Int /\ \A j \in i..e : s[j] \in S
        BY <1>1, <2>1, <2>2
    <2>4. SubSeq(s, i, e) \in Seq(S)
        BY <2>3, SubSeqProperties
    <2> QED
        BY <2>4 DEF i, e
<1>5. Words(s) \in [1..Cardinality(Starts(s)) -> Seq(S)]
    BY <1>4 DEF Words
<1> QED
    BY <1>2, <1>3, <1>5

Solid(a) == a # <<>> /\ \A i \in 1..Len(a) : a[i] \notin Space

\* s is a, a space and b.
Spaced(s, a, b) ==
    /\ Len(s) = Len(a) + 1 + Len(b)
    /\ \A i \in 1..Len(a) : s[i] = a[i]
    /\ s[Len(a) + 1] = " "
    /\ \A j \in 1..Len(b) : s[Len(a) + 1 + j] = b[j]

\* The first word of a line ends at its first space.
LEMMA WordsCons ==
    ASSUME NEW S, NEW a \in Seq(S), NEW b \in Seq(S), NEW s \in Seq(S), Solid(a), Spaced(s, a, b)
    PROVE  Words(s) = <<a>> \o Words(b)
<1> DEFINE p == Len(a)
           q == Len(b)
           o == p + 1
           P == Starts(b)
           N == Cardinality(P)
           f == [k \in 1..(N + 1) |-> IF k = 1 THEN 1 ELSE o + Nth(P, k - 1)]
<1>1. p \in Nat /\ p >= 1 /\ q \in Nat /\ DOMAIN b = 1..q
    <2>1. a # <<>> => Len(a) # 0
        BY EmptySeq
    <2> QED
        BY <2>1, LenProperties DEF Solid
<1>2. Len(s) = o + q /\ DOMAIN s = 1..(o + q)
    BY LenProperties DEF Spaced
<1>3. \A i \in 1..p : s[i] = a[i] /\ s[i] \notin Space
    BY DEF Spaced, Solid
<1>4. s[o] \in Space
    BY DEF Spaced, Space
<1>5. \A j \in 1..q : s[o + j] = b[j]
    BY DEF Spaced
<1>6. P \subseteq 1..q /\ N \in Nat /\ Words(b) \in Seq(Seq(S)) /\ Len(Words(b)) = N
    BY WordsType
<1>7. ASSUME NEW i \in Int
      PROVE  i \in Black(s) <=> i \in 1..p \/ i - o \in Black(b)
    <2>1. CASE i \in 1..p
        <3>1. i \in 1..(o + q)
            BY <1>1, <2>1
        <3> QED
            BY <1>2, <1>3, <2>1, <3>1 DEF Black
    <2>2. CASE i = o
        <3>1. i \notin 1..p /\ i - o \notin 1..q
            BY <1>1, <2>2
        <3> QED
            BY <1>1, <1>4, <2>2, <3>1 DEF Black
    <2>3. CASE i > o
        <3> DEFINE j == i - o
        <3>1. i \notin 1..p /\ o + j = i /\ (i \in 1..(o + q) <=> j \in 1..q)
            BY <1>1, <2>3
        <3> HIDE DEF j, o, p, q
        <3>2. j \in 1..q => s[i] = b[j]
            BY <1>5, <3>1
        <3> QED
            BY <1>1, <1>2, <3>1, <3>2 DEF Black, j
    <2>4. CASE i < 1
        <3>1. i \notin 1..p /\ i \notin 1..(o + q) /\ i - o \notin 1..q
            BY <1>1, <2>4
        <3> QED
            BY <1>1, <1>2, <3>1 DEF Black
    <2> QED
        BY <1>1, <2>1, <2>2, <2>3, <2>4
<1>8. Black(s) \subseteq 1..(o + q) /\ Black(b) \subseteq 1..q
    BY <1>1, <1>2 DEF Black
<1> HIDE DEF p, q
<1>9. ASSUME NEW i \in Int
      PROVE  i \in Starts(s) <=> i = 1 \/ i - o \in P
    <2>1. i \in Starts(s) <=> i \in Black(s) /\ i - 1 \notin Black(s)
        BY DEF Starts
    <2>2. i - o \in P <=> i - o \in Black(b) /\ (i - o) - 1 \notin Black(b)
        BY DEF Starts
    <2>3. i \in Black(s) <=> i \in 1..p \/ i - o \in Black(b)
        BY <1>7
    <2>4. i - 1 \in Black(s) <=> i - 1 \in 1..p \/ (i - 1) - o \in Black(b)
        BY <1>1, <1>7
    <2>5. (i - 1) - o = (i - o) - 1
        BY <1>1
    <2>6. \A x \in Int : x \in Black(b) => x >= 1
        BY <1>1, <1>8
    <2>7. i \in 1..p <=> i >= 1 /\ i <= p
        BY <1>1
    <2>8. i - 1 \in 1..p <=> i >= 2 /\ i <= o
        BY <1>1
    <2>9. i - o \in Black(b) => i >= o + 1
        BY <1>1, <2>6
    <2>10. (i - o) - 1 \in Black(b) => i >= o + 2
        BY <1>1, <2>6
    <2> QED
        BY <1>1, <2>1, <2>2, <2>3, <2>4, <2>5, <2>7, <2>8, <2>9, <2>10
<1>10. /\ Starts(s) \subseteq 1..(o + q)
       /\ \A i \in Starts(s) : i \in Int
    <2>1. Starts(s) \subseteq 1..(o + q)
        BY <1>8 DEF Starts
    <2> QED
        BY <1>1, <2>1
<1>11. \A k \in 1..N : Nth(P, k) \in P /\ Nth(P, k) \in 1..q /\ Nth(P, k) \in Nat
    <2>1. \A k \in 1..N : Nth(P, k) \in P
        BY <1>1, <1>6, NthIs
    <2> QED
        BY <1>1, <1>6, <2>1
<1>12. Cardinality(Starts(s)) = N + 1 /\ \A k \in 1..(N + 1) : Nth(Starts(s), k) = f[k]
    <2>1. f \in [1..(N + 1) -> Starts(s)]
        <3>1. ASSUME NEW k \in 1..(N + 1)
              PROVE  (IF k = 1 THEN 1 ELSE o + Nth(P, k - 1)) \in Starts(s)
            <4>1. CASE k = 1
                BY <1>9, <4>1
            <4>2. CASE k # 1
                <5>1. k - 1 \in 1..N
                    BY <1>6, <4>2
                <5> DEFINE x == Nth(P, k - 1)
                <5>2. x \in P /\ x \in Nat
                    BY <1>11, <5>1
                <5> HIDE DEF x
                <5>3. o + x \in Int /\ (o + x) - o = x
                    BY <1>1, <5>2
                <5>4. o + x \in Starts(s)
                    BY <1>9, <5>2, <5>3
                <5> QED
                    BY <4>2, <5>4 DEF x
            <4> QED
                BY <4>1, <4>2
        <3> QED
            BY <3>1
    <2>2. ASSUME NEW i \in 1..(N + 1), NEW k \in 1..(N + 1), i < k PROVE f[i] < f[k]
        <3>1. k # 1 /\ k - 1 \in 1..N
            BY <1>6, <2>2
        <3> DEFINE y == Nth(P, k - 1)
        <3>2. y \in Nat /\ y >= 1 /\ f[k] = o + y
            BY <1>1, <1>11, <3>1
        <3>3. CASE i = 1
            <4>1. f[i] = 1
                BY <3>3
            <4> HIDE DEF y, f
            <4> QED
                BY <1>1, <3>2, <4>1
        <3>4. CASE i # 1
            <4> DEFINE x == Nth(P, i - 1)
            <4>1. i - 1 \in 1..N /\ i - 1 < k - 1
                BY <1>6, <2>2, <3>4
            <4>2. x \in Nat /\ f[i] = o + x
                BY <1>11, <3>4, <4>1
            <4>3. x < y
                BY <1>1, <1>6, <3>1, <4>1, NthOrder
            <4> HIDE DEF x, y, f
            <4> QED
                BY <1>1, <3>2, <4>2, <4>3
        <3> QED
            BY <3>3, <3>4
    <2>3. ASSUME NEW x \in Starts(s) PROVE \E i \in 1..(N + 1) : f[i] = x
        <3>1. x \in Int /\ (x = 1 \/ x - o \in P)
            BY <1>9, <1>10
        <3>2. CASE x = 1
            <4>1. 1 \in 1..(N + 1)
                BY <1>6
            <4>2. f[1] = x
                BY <3>2, <4>1
            <4> QED
                BY <4>1, <4>2
        <3>3. CASE x - o \in P
            <4>1. PICK k \in 1..N : Nth(P, k) = x - o
                BY <1>1, <1>6, <3>3, NthOrder
            <4>2. k + 1 \in 1..(N + 1) /\ k + 1 # 1 /\ (k + 1) - 1 = k
                BY <1>6
            <4>3. f[k + 1] = o + Nth(P, k)
                BY <4>2
            <4> HIDE DEF f
            <4>4. f[k + 1] = x
                BY <1>1, <3>1, <4>1, <4>3
            <4> QED
                BY <4>2, <4>4
        <3> QED
            BY <3>1, <3>2, <3>3
    <2> DEFINE m == N + 1
               h == o + q
               Q == Starts(s)
    <2>4. m \in Nat /\ h \in Nat /\ Q \subseteq 1..h
        BY <1>1, <1>6, <1>10
    <2>5. f \in [1..m -> Q] /\ \A x \in Q : \E i \in 1..m : f[i] = x
        BY <2>1, <2>3
    <2>6. \A i, j \in 1..m : i < j => f[i] < f[j]
        BY <2>2
    <2> HIDE DEF f, m, h, Q
    <2>8. Enumerates(f, m, Q)
        BY <2>5, <2>6 DEF Enumerates
    <2>7. Cardinality(Q) = m /\ \A k \in 1..m : Nth(Q, k) = f[k]
        BY <2>4, <2>8, Enumerated
    <2> QED
        BY <2>7 DEF m, Q
<1>13. WordEnd(s, 1) = p
    <2>1. 1 \in 1..Len(s) /\ p \in 1..Len(s) /\ p + 1 = o
        BY <1>1, <1>2
    <2>2. p + 1 \notin Black(s)
        <3>1. p + 1 \notin 1..p /\ (p + 1) - o \notin 1..q
            BY <1>1
        <3> QED
            BY <1>1, <1>7, <1>8, <3>1
    <2>3. ASSUME NEW j \in 1..(p - 1) PROVE j + 1 \in Black(s)
        <3>1. j + 1 \in Int /\ j + 1 \in 1..p
            BY <1>1
        <3> QED
            BY <1>7, <3>1
    <2> QED
        BY <2>1, <2>2, <2>3, WordEndIs
<1>14. ASSUME NEW i \in 1..q PROVE WordEnd(s, o + i) = o + WordEnd(b, i) /\ WordEnd(b, i) \in i..q
    <2> DEFINE e == WordEnd(b, i)
    <2>1. e \in i..q /\ e + 1 \notin Black(b) /\ \A j \in i..(e - 1) : j + 1 \in Black(b)
        BY WordEndIs DEF q
    <2> HIDE DEF e
    <2>2. o + i \in 1..Len(s) /\ o + e \in (o + i)..Len(s)
        BY <1>1, <1>2, <2>1
    <2>3. (o + e) + 1 \notin Black(s)
        <3>1. (o + e) + 1 \in Int /\ ((o + e) + 1) - o = e + 1 /\ (o + e) + 1 \notin 1..p
            BY <1>1, <2>1
        <3> QED
            BY <1>7, <2>1, <3>1
    <2>4. ASSUME NEW j \in (o + i)..((o + e) - 1) PROVE j + 1 \in Black(s)
        <3>1. j - o \in i..(e - 1) /\ j + 1 \in Int /\ (j + 1) - o = (j - o) + 1
            BY <1>1, <2>1
        <3>2. (j - o) + 1 \in Black(b)
            BY <2>1, <3>1
        <3> QED
            BY <1>7, <3>1, <3>2
    <2>5. WordEnd(s, o + i) = o + e
        BY <2>2, <2>3, <2>4, WordEndIs
    <2> QED
        BY <2>1, <2>5 DEF e
<1> DEFINE W == Words(s)
           V == <<a>> \o Words(b)
<1>15. /\ W \in Seq(Seq(S)) /\ Len(W) = N + 1
       /\ V \in Seq(Seq(S)) /\ Len(V) = N + 1 /\ V[1] = a
       /\ \A k \in 1..N : V[k + 1] = Words(b)[k]
    <2>1. W \in Seq(Seq(S)) /\ Len(W) = N + 1
        BY <1>12, WordsType
    <2>2. <<a>> \in Seq(Seq(S)) /\ Len(<<a>>) = 1 /\ <<a>>[1] = a
        OBVIOUS
    <2> DEFINE w == <<a>>
               u == Words(b)
    <2>3. w \in Seq(Seq(S)) /\ Len(w) = 1 /\ w[1] = a /\ u \in Seq(Seq(S)) /\ Len(u) = N
        BY <1>6, <2>2
    <2> HIDE DEF w, u, N
    <2>4. /\ w \o u \in Seq(Seq(S)) /\ Len(w \o u) = Len(w) + Len(u)
          /\ \A i \in 1..(Len(w) + Len(u)) : (w \o u)[i] = IF i <= Len(w) THEN w[i] ELSE u[i - Len(w)]
        BY <2>3, ConcatProperties
    <2>5. Len(w \o u) = N + 1 /\ (w \o u)[1] = a /\ \A k \in 1..N : (w \o u)[k + 1] = u[k]
        <3>1. N \in Nat
            BY <1>6
        <3>2. 1 \in 1..(Len(w) + Len(u)) /\ 1 <= Len(w)
            BY <2>3, <3>1
        <3>3. ASSUME NEW k \in 1..N PROVE (w \o u)[k + 1] = u[k]
            <4>1. k + 1 \in 1..(Len(w) + Len(u)) /\ ~(k + 1 <= Len(w)) /\ (k + 1) - Len(w) = k
                BY <2>3, <3>1
            <4> QED
                BY <2>4, <4>1
        <3>4. (w \o u)[1] = w[1]
            BY <2>4, <3>2
        <3> QED
            BY <2>3, <2>4, <3>1, <3>3, <3>4
    <2> QED
        BY <2>1, <2>4, <2>5 DEF w, u
<1>16. W[1] = a
    <2>1. 1 \in 1..(N + 1)
        BY <1>6
    <2>2. Nth(Starts(s), 1) = 1
        BY <1>12, <2>1
    <2>3. W[1] = SubSeq(s, 1, p)
        BY <1>12, <1>13, <2>1, <2>2 DEF Words
    <2>4. SubSeq(s, 1, p) = a
        <3>1. SubSeq(s, 1, p) \in Seq(S) /\ Len(SubSeq(s, 1, p)) = p /\ \A i \in 1..p : SubSeq(s, 1, p)[i] = s[i]
            BY <1>1, <1>2
        <3> QED
            BY <1>3, <3>1, SeqEqual DEF p
    <2> QED
        BY <2>3, <2>4
<1>17. ASSUME NEW k \in 1..N PROVE W[k + 1] = Words(b)[k]
    <2> DEFINE i == Nth(P, k)
               e == WordEnd(b, i)
    <2>1. i \in 1..q /\ e \in i..q /\ WordEnd(s, o + i) = o + e
        BY <1>11, <1>14
    <2>2. Words(b)[k] = SubSeq(b, i, e)
        BY <1>6 DEF Words
    <2>3. k + 1 \in 1..(N + 1) /\ k + 1 # 1 /\ (k + 1) - 1 = k
        BY <1>6
    <2>4. Nth(Starts(s), k + 1) = o + i
        BY <1>12, <2>3
    <2>5. W[k + 1] = SubSeq(s, o + i, o + e)
        BY <1>12, <2>1, <2>3, <2>4 DEF Words
    <2> HIDE DEF i, e
    <2>6. SubSeq(s, o + i, o + e) = SubSeq(b, i, e)
        <3> DEFINE c == SubSeq(s, o + i, o + e)
                   d == SubSeq(b, i, e)
        <3>1. o + i \in Int /\ o + e \in Int /\ i \in Int /\ e \in Int /\ o + i <= o + e /\ i <= e
              /\ (o + e) - (o + i) + 1 = e - i + 1
            BY <1>1, <2>1
        <3>2. (\A j \in i..e : b[j] \in S) /\ \A j \in (o + i)..(o + e) : s[j] \in S
            <4>1. i..e \subseteq 1..q /\ (o + i)..(o + e) \subseteq 1..(o + q)
                BY <1>1, <2>1
            <4>2. (\A j \in 1..q : b[j] \in S) /\ \A j \in 1..(o + q) : s[j] \in S
                BY <1>2, ElementOfSeq DEF q
            <4> QED
                BY <4>1, <4>2
        <3>3. /\ c \in Seq(S) /\ Len(c) = e - i + 1
              /\ \A j \in 1..(e - i + 1) : c[j] = s[o + i + j - 1]
            BY <3>1, <3>2, SubSeqProperties
        <3>4. /\ d \in Seq(S) /\ Len(d) = e - i + 1
              /\ \A j \in 1..(e - i + 1) : d[j] = b[i + j - 1]
            BY <3>1, <3>2, SubSeqProperties
        <3> HIDE DEF c, d
        <3>5. ASSUME NEW j \in 1..(e - i + 1) PROVE c[j] = d[j]
            <4>1. i + j - 1 \in 1..q /\ o + (i + j - 1) = o + i + j - 1
                BY <1>1, <2>1
            <4>2. s[o + i + j - 1] = b[i + j - 1]
                BY <1>5, <4>1 DEF q
            <4> QED
                BY <3>3, <3>4, <4>2
        <3> QED
            BY <3>3, <3>4, <3>5, SeqEqual DEF c, d
    <2> QED
        BY <2>2, <2>5, <2>6 DEF i, e
<1>18. ASSUME NEW k \in 1..(N + 1) PROVE W[k] = V[k]
    <2>1. CASE k = 1
        BY <1>15, <1>16, <2>1
    <2>2. CASE k # 1
        <3>1. k - 1 \in 1..N /\ (k - 1) + 1 = k
            BY <1>6, <2>2
        <3>2. W[(k - 1) + 1] = Words(b)[k - 1] /\ V[(k - 1) + 1] = Words(b)[k - 1]
            BY <1>15, <1>17, <3>1
        <3> QED
            BY <3>1, <3>2
    <2> QED
        BY <2>1, <2>2
<1> HIDE DEF W, V, N
<1>19. W = V
    BY <1>15, <1>18, SeqEqual
<1> QED
    BY <1>19 DEF W, V

\* A text without white space is one word.
LEMMA WordsOne ==
    ASSUME NEW S, NEW a \in Seq(S), Solid(a)
    PROVE  Words(a) = <<a>>
<1> DEFINE p == Len(a)
           f == [k \in 1..1 |-> 1]
<1>1. p \in Nat /\ p >= 1 /\ DOMAIN a = 1..p
    <2>1. a # <<>> => Len(a) # 0
        BY EmptySeq
    <2> QED
        BY <2>1, LenProperties DEF Solid
<1>2. Black(a) = 1..p
    BY <1>1 DEF Black, Solid
<1>3. Starts(a) = {1}
    <2>1. 1 \in 1..p /\ 1 - 1 \notin 1..p
        BY <1>1
    <2>2. ASSUME NEW i \in 1..p, i - 1 \notin 1..p PROVE i = 1
        BY <1>1, <2>2
    <2> QED
        BY <1>2, <2>1, <2>2 DEF Starts
<1>4. Cardinality(Starts(a)) = 1 /\ Nth(Starts(a), 1) = 1
    <2>1. Cardinality(Starts(a)) = 1
        BY <1>3, FS_Singleton
    <2>2. Starts(a) \subseteq 1..p
        BY <1>1, <1>3
    <2>3. Nth(Starts(a), 1) \in Starts(a)
        <3>1. 1 \in 1..Cardinality(Starts(a))
            BY <2>1
        <3> QED
            BY <1>1, <2>2, <3>1, NthIs
    <2> QED
        BY <1>3, <2>1, <2>3
<1>5. WordEnd(a, 1) = p
    <2>1. 1 \in 1..Len(a) /\ p \in 1..Len(a) /\ p + 1 \notin Black(a)
        BY <1>1, <1>2
    <2>2. \A j \in 1..(p - 1) : j + 1 \in Black(a)
        BY <1>1, <1>2
    <2> QED
        BY <2>1, <2>2, WordEndIs
<1>6. SubSeq(a, 1, p) = a
    BY SubSeqFull
<1>7. Words(a) = [k \in 1..1 |-> SubSeq(a, Nth(Starts(a), k), WordEnd(a, Nth(Starts(a), k)))]
    BY <1>4 DEF Words
<1>8. Words(a) \in Seq(Seq(S)) /\ Len(Words(a)) = 1 /\ Words(a)[1] = a
    <2>1. Words(a)[1] = a
        BY <1>4, <1>5, <1>6, <1>7
    <2> QED
        BY <1>4, <2>1, WordsType
<1> QED
    BY <1>8

-----------------------------------------------------------------------------
(* Lines of words *)

\* The elements of a sequence after its first.
LEMMA HeadIs ==
    ASSUME NEW X, NEW x \in X, NEW s \in Seq(X)
    PROVE  /\ <<x>> \o s \in Seq(X) /\ Len(<<x>> \o s) = Len(s) + 1 /\ (<<x>> \o s)[1] = x
           /\ Len(s) \in Nat /\ \A i \in 1..Len(s) : (<<x>> \o s)[i + 1] = s[i]
<1> DEFINE w == <<x>>
           n == Len(s)
<1>1. w \in Seq(X) /\ Len(w) = 1 /\ w[1] = x
    OBVIOUS
<1> HIDE DEF w
<1>2. /\ w \o s \in Seq(X) /\ Len(w \o s) = Len(w) + n
      /\ \A i \in 1..(Len(w) + n) : (w \o s)[i] = IF i <= Len(w) THEN w[i] ELSE s[i - Len(w)]
    BY <1>1, ConcatProperties
<1>3. n \in Nat
    BY LenProperties
<1> HIDE DEF n
<1>4. (w \o s)[1] = x
    <2>1. 1 \in 1..(Len(w) + n) /\ 1 <= Len(w)
        BY <1>1, <1>3
    <2> QED
        BY <1>1, <1>2, <2>1
<1>5. ASSUME NEW i \in 1..n PROVE (w \o s)[i + 1] = s[i]
    <2>1. i + 1 \in 1..(Len(w) + n) /\ ~(i + 1 <= Len(w)) /\ (i + 1) - Len(w) = i
        BY <1>1, <1>3
    <2> QED
        BY <1>2, <2>1
<1> QED
    BY <1>1, <1>2, <1>3, <1>4, <1>5 DEF w, n

\* What follows the first element.
LEMMA TailCons ==
    ASSUME NEW X, NEW x \in X, NEW s \in Seq(X)
    PROVE  Tail(<<x>> \o s) = s
<1> DEFINE u == <<x>> \o s
<1>1. /\ u \in Seq(X) /\ Len(u) = Len(s) + 1 /\ Len(s) \in Nat
      /\ \A i \in 1..Len(s) : u[i + 1] = s[i]
    BY HeadIs
<1> HIDE DEF u
<1>2. Tail(u) \in Seq(X) /\ Len(Tail(u)) = Len(s) /\ \A i \in 1..Len(s) : Tail(u)[i] = u[i + 1]
    BY <1>1
<1>3. Tail(u) = s
    BY <1>1, <1>2, SeqEqual
<1> QED
    BY <1>3 DEF u

\* The first part of a flattened sequence comes first.
LEMMA FlattenCons ==
    ASSUME NEW S, NEW ss \in Seq(Seq(S)), NEW a \in Seq(S)
    PROVE  /\ FlattenSeq(<<a>> \o ss) = a \o FlattenSeq(ss)
           /\ FlattenSeq(ss) \in Seq(S)
<1> DEFINE tt == <<a>> \o ss
           n == Len(ss)
<1>0. \A b, c \in Seq(S) : (a \o b) \o c = a \o (b \o c)
    BY ConcatAssociative
<1>1. /\ n \in Nat /\ tt \in Seq(Seq(S)) /\ Len(tt) = n + 1 /\ tt[1] = a
      /\ \A i \in 1..n : tt[i + 1] = ss[i] /\ ss[i] \in Seq(S)
    BY HeadIs, ElementOfSeq
<1> HIDE DEF tt
<1>2. PICK g \in [0..n -> Seq(S)] :
        g[0] = <<>> /\ (\A i \in 1..n : g[i] = g[i - 1] \o ss[i]) /\ FlattenSeq(ss) = g[n]
    BY FlattenPrefixes
<1>3. PICK h \in [0..Len(tt) -> Seq(S)] :
        h[0] = <<>> /\ (\A i \in 1..Len(tt) : h[i] = h[i - 1] \o tt[i]) /\ FlattenSeq(tt) = h[Len(tt)]
    BY <1>1, FlattenPrefixes
<1> HIDE DEF n
<1> DEFINE T == {i \in Nat : i <= n => h[i + 1] = a \o g[i]}
<1>4. 0 \in T
    <2>1. 1 \in 1..Len(tt) /\ 1 - 1 = 0
        BY <1>1
    <2>2. h[1] = h[1 - 1] \o tt[1]
        BY <1>3, <2>1
    <2>3. h[1] = h[0] \o tt[1]
        BY <2>1, <2>2
    <2>4. h[0] \o a = a /\ a \o g[0] = a
        BY <1>2, <1>3, ConcatEmptySeq
    <2>5. h[1] = a \o g[0]
        BY <1>1, <2>3, <2>4
    <2> QED
        BY <2>5
<1>5. ASSUME NEW i \in Nat, i \in T PROVE i + 1 \in T
    <2> SUFFICES ASSUME i + 1 <= n PROVE h[(i + 1) + 1] = a \o g[i + 1]
        OBVIOUS
    <2> DEFINE j == i + 1
               k == j + 1
    <2>1. j \in 1..n /\ j - 1 = i /\ k \in 1..Len(tt) /\ k - 1 = j /\ i \in 0..n
        BY <1>1
    <2>2. h[j] = a \o g[i]
        <3>1. i <= n
            BY <1>1
        <3> QED
            BY <1>5, <3>1
    <2> HIDE DEF j, k
    <2>3. h[k] = h[k - 1] \o tt[k] /\ g[j] = g[j - 1] \o ss[j]
        BY <1>2, <1>3, <2>1
    <2>4. tt[k] = ss[j] /\ ss[j] \in Seq(S) /\ g[i] \in Seq(S)
        BY <1>1, <2>1 DEF k
    <2>5. h[k] = (a \o g[i]) \o ss[j] /\ g[j] = g[i] \o ss[j]
        BY <2>1, <2>2, <2>3, <2>4
    <2>6. h[k] = a \o g[j]
        <3>2. (a \o g[i]) \o ss[j] = a \o (g[i] \o ss[j])
            BY <1>0, <2>4, Zenon
        <3> QED
            BY <2>5, <3>2
    <2> QED
        BY <2>6 DEF j, k
<1>6. n \in T
    <2> HIDE DEF T
    <2> QED
        BY <1>1, <1>4, <1>5, NatUpward
<1>7. h[n + 1] = a \o g[n] /\ g[n] \in Seq(S)
    BY <1>1, <1>6
<1> QED
    BY <1>1, <1>2, <1>3, <1>7 DEF tt

Joins(w, ws, x) == Join(<<w>> \o ws, x) = IF ws = <<>> THEN w ELSE w \o (<<x>> \o Join(ws, x))

\* Join puts the separator between the words.
LEMMA JoinCons ==
    ASSUME NEW S, NEW x \in S, NEW w \in Seq(S), NEW ws \in Seq(Seq(S))
    PROVE  Joins(w, ws, x) /\ Join(ws, x) \in Seq(S)
<1> DEFINE Each(vs) == [k \in DOMAIN vs |-> <<x>> \o vs[k]]
           F(vs) == FlattenSeq(Each(vs))
           y == <<x>>
<1>1. y \in Seq(S)
    BY SingletonFacts
<1>2. ASSUME NEW vs \in Seq(Seq(S)) PROVE Each(vs) \in Seq(Seq(S)) /\ Len(Each(vs)) = Len(vs)
    <2>1. Len(vs) \in Nat /\ DOMAIN vs = 1..Len(vs) /\ \A k \in 1..Len(vs) : vs[k] \in Seq(S)
        BY LenProperties, ElementOfSeq
    <2>2. ASSUME NEW k \in 1..Len(vs) PROVE y \o vs[k] \in Seq(S)
        BY <1>1, <2>1, <2>2, ConcatProperties
    <2>3. Each(vs) \in [1..Len(vs) -> Seq(S)]
        BY <2>1, <2>2
    <2> DEFINE l == Len(vs)
               E == Each(vs)
    <2>4. l \in Nat /\ E \in [1..l -> Seq(S)]
        BY <2>1, <2>3
    <2> HIDE DEF E, l
    <2>5. E \in Seq(Seq(S)) /\ Len(E) = l
        BY <2>4
    <2> QED
        BY <2>5 DEF E, l
<1>3. ASSUME NEW v \in Seq(S), NEW vs \in Seq(Seq(S))
      PROVE  /\ <<v>> \o vs \in Seq(Seq(S)) /\ <<v>> \o vs # <<>>
             /\ F(<<v>> \o vs) = y \o (v \o F(vs)) /\ F(vs) \in Seq(S)
    <2> DEFINE us == <<v>> \o vs
               e == y \o v
    <2>1. /\ us \in Seq(Seq(S)) /\ Len(us) = Len(vs) + 1 /\ us[1] = v
          /\ Len(vs) \in Nat /\ \A k \in 1..Len(vs) : us[k + 1] = vs[k]
        BY HeadIs
    <2>2. e \in Seq(S)
        BY <1>1, ConcatProperties
    <2> DEFINE es == <<e>> \o Each(vs)
    <2>3. /\ es \in Seq(Seq(S)) /\ Len(es) = Len(vs) + 1 /\ es[1] = e
          /\ \A k \in 1..Len(vs) : es[k + 1] = Each(vs)[k]
        <3> HIDE DEF e, Each
        <3> QED
            BY <1>2, <2>2, HeadIs
    <2>4. Each(us) \in Seq(Seq(S)) /\ Len(Each(us)) = Len(vs) + 1
        BY <1>2, <2>1
    <2>5. DOMAIN us = 1..(Len(vs) + 1) /\ DOMAIN vs = 1..Len(vs)
        BY <2>1, LenProperties
    <2> HIDE DEF us, es
    <2>6. ASSUME NEW k \in 1..(Len(vs) + 1) PROVE Each(us)[k] = es[k]
        <3>1. Each(us)[k] = y \o us[k]
            BY <2>5
        <3>2. CASE k = 1
            BY <2>1, <2>3, <3>1, <3>2
        <3>3. CASE k # 1
            <4>1. k - 1 \in 1..Len(vs) /\ (k - 1) + 1 = k
                BY <2>1, <3>3
            <4>2. us[k] = vs[k - 1] /\ es[k] = Each(vs)[k - 1]
                BY <2>1, <2>3, <4>1
            <4>3. Each(vs)[k - 1] = y \o vs[k - 1]
                BY <2>5, <4>1
            <4> QED
                BY <3>1, <4>2, <4>3
        <3> QED
            BY <3>2, <3>3
    <2>7. Each(us) = es
        <3> HIDE DEF Each
        <3> QED
            BY <2>3, <2>4, <2>6, SeqEqual
    <2>8. FlattenSeq(es) = e \o F(vs) /\ F(vs) \in Seq(S)
        <3> HIDE DEF e, Each
        <3> QED
            BY <1>2, <2>2, FlattenCons DEF es
    <2>9. e \o F(vs) = y \o (v \o F(vs))
        <3> DEFINE z == F(vs)
        <3>1. y \in Seq(S) /\ z \in Seq(S)
            BY <1>1, <2>8
        <3> HIDE DEF y, z
        <3>2. (y \o v) \o z = y \o (v \o z)
            BY <3>1, ConcatAssociative
        <3> QED
            BY <3>2 DEF z, e
    <2>10. us # <<>>
        BY <2>1
    <2> QED
        BY <2>1, <2>7, <2>8, <2>9, <2>10 DEF us
<1>4. ASSUME NEW v \in Seq(S), NEW vs \in Seq(Seq(S))
      PROVE  Join(<<v>> \o vs, x) = v \o F(vs) /\ v \o F(vs) \in Seq(S)
    <2> DEFINE t == v \o F(vs)
    <2>1. t \in Seq(S) /\ F(<<v>> \o vs) = y \o t /\ <<v>> \o vs # <<>>
        <3> HIDE DEF F, y
        <3> QED
            BY <1>3, ConcatProperties
    <2>2. Tail(y \o t) = t
        <3> HIDE DEF t
        <3> QED
            BY <2>1, TailCons
    <2>3. Join(<<v>> \o vs, x) = Tail(F(<<v>> \o vs))
        BY <2>1 DEF Join
    <2> QED
        BY <2>1, <2>2, <2>3
<1>5. F(<<>>) = <<>>
    BY DEF FlattenSeq
<1>6. CASE ws = <<>>
    <2>1. Join(ws, x) = <<>>
        BY <1>6 DEF Join
    <2>2. Join(<<w>> \o ws, x) = w \o F(ws)
        BY <1>4
    <2>3. w \o <<>> = w /\ <<>> \in Seq(S)
        BY ConcatEmptySeq, EmptySeq
    <2> QED
        BY <1>5, <1>6, <2>1, <2>2, <2>3 DEF Joins
<1>7. CASE ws # <<>>
    <2> DEFINE v == Head(ws)
               vs == Tail(ws)
    <2>1. v \in Seq(S) /\ vs \in Seq(Seq(S)) /\ ws = <<v>> \o vs
        BY <1>7, TailFacts
    <2> HIDE DEF v, vs, F, y
    <2>2. Join(ws, x) = v \o F(vs) /\ v \o F(vs) \in Seq(S)
        BY <1>4, <2>1
    <2>3. F(ws) = y \o Join(ws, x)
        <3>1. F(<<v>> \o vs) = y \o (v \o F(vs))
            BY <1>3, <2>1
        <3> QED
            BY <2>1, <2>2, <3>1
    <2>4. Join(<<w>> \o ws, x) = w \o F(ws)
        BY <1>4
    <2> QED
        BY <1>7, <2>2, <2>3, <2>4 DEF y, Joins
<1> QED
    BY <1>6, <1>7 DEF Joins

HasSigns(S) == " " \in S /\ ":" \in S /\ "CR" \in S

Word(S) == {a \in Seq(S) : Solid(a) /\ a[1] # ":"}

\* The line is the words, starts and ends in one and has no trailing parameter.
LineOf(ws, l) ==
    /\ Words(l) = ws /\ l # <<>> /\ Len(l) >= 1
    /\ l[1] = ws[1][1] /\ l[Len(l)] \notin Space
    /\ Cuts(l) = {}

\* A word, a space and a text.
LEMMA SpacedConcat ==
    ASSUME NEW S, HasSigns(S), NEW a \in Seq(S), NEW b \in Seq(S)
    PROVE  /\ a \o (<<" ">> \o b) \in Seq(S)
           /\ Spaced(a \o (<<" ">> \o b), a, b)
<1> DEFINE x == " "
           c == <<x>> \o b
           s == a \o c
           p == Len(a)
           q == Len(b)
<1>0. x \in S
    BY DEF HasSigns
<1> HIDE DEF x
<1>1. /\ c \in Seq(S) /\ Len(c) = q + 1 /\ c[1] = x /\ q \in Nat
      /\ \A i \in 1..q : c[i + 1] = b[i]
    BY <1>0, HeadIs
<1>2. p \in Nat
    BY LenProperties
<1> HIDE DEF c
<1>3. /\ s \in Seq(S) /\ Len(s) = p + Len(c)
      /\ \A i \in 1..(p + Len(c)) : s[i] = IF i <= p THEN a[i] ELSE c[i - p]
    BY <1>1, ConcatProperties
<1> HIDE DEF s, p, q
<1>4. Len(s) = p + 1 + q
    BY <1>1, <1>2, <1>3
<1>5. ASSUME NEW i \in 1..p PROVE s[i] = a[i]
    <2>1. i \in 1..(p + Len(c)) /\ i <= p
        BY <1>1, <1>2
    <2> QED
        BY <1>3, <2>1
<1>6. s[p + 1] = x
    <2>1. p + 1 \in 1..(p + Len(c)) /\ ~(p + 1 <= p) /\ (p + 1) - p = 1
        BY <1>1, <1>2
    <2> QED
        BY <1>1, <1>3, <2>1
<1>7. ASSUME NEW j \in 1..q PROVE s[p + 1 + j] = b[j]
    <2>1. p + 1 + j \in 1..(p + Len(c)) /\ ~(p + 1 + j <= p) /\ (p + 1 + j) - p = j + 1
        BY <1>1, <1>2
    <2> QED
        BY <1>1, <1>3, <2>1
<1> QED
    BY <1>3, <1>4, <1>5, <1>6, <1>7 DEF Spaced, s, c, x, p, q

\* A line with one more word in front.
LEMMA LineCons ==
    ASSUME NEW S, HasSigns(S), NEW a \in Word(S), NEW ws \in Seq(Word(S)), ws # <<>>,
           NEW b \in Seq(S), LineOf(ws, b), ws[1][1] # ":",
           NEW s \in Seq(S), Spaced(s, a, b)
    PROVE  LineOf(<<a>> \o ws, s)
<1> DEFINE p == Len(a)
           q == Len(b)
           o == p + 1
<1>0. a \in Seq(S) /\ Solid(a)
    BY DEF Word
<1>1. p \in Nat /\ p >= 1 /\ q \in Nat /\ q >= 1
    <2>1. a # <<>> => Len(a) # 0
        BY <1>0, EmptySeq
    <2> QED
        BY <1>0, <2>1, LenProperties DEF Solid, LineOf
<1>2. Len(s) = o + q
    BY DEF Spaced
<1>3. \A i \in 1..p : s[i] = a[i] /\ s[i] \notin Space
    BY <1>0 DEF Spaced, Solid
<1>4. s[o] = " "
    BY DEF Spaced
<1>5. \A j \in 1..q : s[o + j] = b[j]
    BY DEF Spaced
<1>6. Words(s) = <<a>> \o ws
    <2>1. Words(s) = <<a>> \o Words(b)
        BY <1>0, WordsCons
    <2> QED
        BY <2>1 DEF LineOf
<1>7. (<<a>> \o ws)[1] = a
    <2> DEFINE X == Word(S)
    <2>1. a \in X /\ ws \in Seq(X)
        OBVIOUS
    <2> HIDE DEF X
    <2> QED
        BY <2>1, HeadIs
<1> HIDE DEF q
<1>8. s[1] = a[1] /\ s # <<>> /\ Len(s) >= 1
    <2>1. Len(s) >= 1 /\ 1 \in 1..p
        BY <1>1, <1>2
    <2> QED
        BY <1>3, <2>1
<1>9. s[Len(s)] \notin Space
    <2>1. q \in 1..q /\ b[q] \notin Space
        BY <1>1 DEF LineOf, q
    <2>2. s[o + q] = b[q]
        BY <1>5, <2>1
    <2> QED
        BY <1>2, <2>1, <2>2
<1>10. ASSUME NEW i \in 1..(Len(s) - 1), s[i] = " ", s[i + 1] = ":" PROVE FALSE
    <2> HIDE DEF p
    <2>1. i \notin 1..p
        BY <1>3, <1>10 DEF Space
    <2>2. i # o
        <3>1. s[o + 1] = b[1]
            BY <1>1, <1>5
        <3>2. b[1] # ":"
            BY DEF LineOf
        <3> QED
            BY <1>10, <3>1, <3>2
    <2> DEFINE j == i - o
    <2>3. j \in 1..(q - 1) /\ j \in 1..q /\ j + 1 \in 1..q /\ o + j = i /\ o + (j + 1) = i + 1
        BY <1>1, <1>2, <2>1, <2>2
    <2> HIDE DEF j
    <2>4. b[j] = " " /\ b[j + 1] = ":"
        BY <1>5, <1>10, <2>3
    <2>5. j \in Cuts(b)
        BY <2>3, <2>4 DEF Cuts, q
    <2> QED
        BY <2>5 DEF LineOf
<1>11. Cuts(s) = {}
    BY <1>10 DEF Cuts
<1> QED
    BY <1>6, <1>7, <1>8, <1>9, <1>11 DEF LineOf

\* A word is a line of one word.
LEMMA LineOne ==
    ASSUME NEW S, NEW a \in Word(S)
    PROVE  LineOf(<<a>>, a)
<1>0. a \in Seq(S) /\ Solid(a)
    BY DEF Word
<1>1. Len(a) \in Nat /\ Len(a) >= 1
    <2>1. a # <<>> => Len(a) # 0
        BY <1>0, EmptySeq
    <2> QED
        BY <1>0, <2>1, LenProperties DEF Solid
<1>2. Words(a) = <<a>>
    BY <1>0, WordsOne
<1>3. Cuts(a) = {}
    <2>1. ASSUME NEW i \in 1..(Len(a) - 1) PROVE a[i] # " "
        <3>1. i \in 1..Len(a)
            BY <1>1
        <3> QED
            BY <1>0, <3>1 DEF Solid, Space
    <2> QED
        BY <2>1 DEF Cuts
<1>4. a[Len(a)] \notin Space
    <2>1. Len(a) \in 1..Len(a)
        BY <1>1
    <2> QED
        BY <1>0, <2>1 DEF Solid
<1> QED
    BY <1>0, <1>1, <1>2, <1>3, <1>4 DEF LineOf, Solid

Comes(S, ws) == Join(ws, " ") \in Seq(S) /\ LineOf(ws, Join(ws, " "))

\* One word, joined, is a line.
LEMMA ComesOne ==
    ASSUME NEW S, HasSigns(S), NEW a \in Word(S)
    PROVE  Comes(S, <<a>>)
<1> DEFINE x == " "
<1>1. x \in S /\ a \in Seq(S) /\ <<>> \in Seq(Seq(S)) /\ <<a>> \o <<>> = <<a>>
    <2>1. x \in S
        BY DEF HasSigns
    <2>2. a \in Seq(S)
        BY DEF Word
    <2>3. <<>> \in Seq(Seq(S))
        BY EmptySeq
    <2>4. <<a>> \o <<>> = <<a>>
        OBVIOUS
    <2> QED
        BY <2>1, <2>2, <2>3, <2>4
<1> HIDE DEF x
<1>2. Join(<<a>> \o <<>>, x) = a
    BY <1>1, JoinCons DEF Joins
<1> QED
    BY <1>1, <1>2, LineOne DEF Comes, x

\* Words that make a line make one with another word in front.
LEMMA ComesCons ==
    ASSUME NEW S, HasSigns(S), NEW a \in Word(S), NEW ws \in Seq(Word(S)), ws # <<>>, Comes(S, ws)
    PROVE  Comes(S, <<a>> \o ws)
<1> DEFINE x == " "
           b == Join(ws, x)
           s == a \o (<<x>> \o b)
<1>1. x \in S /\ a \in Seq(S) /\ ws \in Seq(Seq(S))
    <2>1. x \in S
        BY DEF HasSigns
    <2>2. a \in Seq(S) /\ Word(S) \subseteq Seq(S)
        BY DEF Word
    <2>3. ws \in Seq(Seq(S))
        BY <2>2, SeqMonotonic
    <2> QED
        BY <2>1, <2>2, <2>3
<1>2. Join(<<a>> \o ws, x) = s
    <2>1. Joins(a, ws, x)
        <3> HIDE DEF x
        <3> QED
            BY <1>1, JoinCons
    <2> QED
        BY <2>1 DEF Joins
<1>3. b \in Seq(S) /\ LineOf(ws, b)
    BY DEF Comes
<1>4. ws[1][1] # ":"
    <2>1. ws[1] \in Word(S)
        <3> DEFINE X == Word(S)
        <3>1. ws \in Seq(X)
            OBVIOUS
        <3> HIDE DEF X
        <3>2. 1 \in 1..Len(ws)
            BY <3>1, EmptySeq
        <3>3. ws[1] \in X
            BY <3>1, <3>2, ElementOfSeq
        <3> QED
            BY <3>3 DEF X
    <2> QED
        BY <2>1 DEF Word
<1> HIDE DEF b
<1>5. s \in Seq(S) /\ Spaced(s, a, b)
    BY <1>1, <1>3, SpacedConcat
<1> HIDE DEF s
<1>6. LineOf(<<a>> \o ws, s)
    BY <1>3, <1>4, <1>5, LineCons
<1> QED
    BY <1>2, <1>5, <1>6 DEF Comes, x

\* What is joined comes apart again: Words undoes Join.
LEMMA JoinedLine ==
    ASSUME NEW S, HasSigns(S), NEW vs \in Seq(Word(S)), vs # <<>>
    PROVE  Join(vs, " ") \in Seq(S) /\ LineOf(vs, Join(vs, " "))
<1> DEFINE X == Word(S)
           T == {n \in Nat : \A ws \in Seq(X) : Len(ws) = n + 1 => Comes(S, ws)}
<1> HIDE DEF X
<1>1. ASSUME NEW ws \in Seq(X), NEW n \in Nat, Len(ws) = n + 1
      PROVE  /\ Head(ws) \in X /\ Tail(ws) \in Seq(X) /\ ws = <<Head(ws)>> \o Tail(ws)
             /\ Len(Tail(ws)) = n
    <2>1. ws # <<>>
        BY <1>1
    <2>2. Len(Tail(ws)) = Len(ws) - 1
        BY <2>1
    <2> QED
        BY <1>1, <2>1, <2>2, TailFacts
<1>2. 0 \in T
    <2> SUFFICES ASSUME NEW ws \in Seq(X), Len(ws) = 0 + 1 PROVE Comes(S, ws)
        OBVIOUS
    <2> DEFINE w == Head(ws)
               us == Tail(ws)
    <2>1. w \in X /\ us \in Seq(X) /\ ws = <<w>> \o us /\ Len(us) = 0
        BY <1>1
    <2> HIDE DEF w, us
    <2>2. us = <<>> /\ <<w>> \o <<>> = <<w>>
        BY <2>1
    <2>3. ws = <<w>>
        BY <2>1, <2>2
    <2> QED
        BY <2>1, <2>3, ComesOne DEF X
<1>3. ASSUME NEW n \in Nat, n \in T PROVE n + 1 \in T
    <2> DEFINE m == n + 1
    <2> SUFFICES ASSUME NEW ws \in Seq(X), Len(ws) = m + 1 PROVE Comes(S, ws)
        OBVIOUS
    <2> DEFINE w == Head(ws)
               us == Tail(ws)
    <2>1. w \in X /\ us \in Seq(X) /\ ws = <<w>> \o us /\ Len(us) = m
        <3>1. m \in Nat
            OBVIOUS
        <3> HIDE DEF m
        <3> QED
            BY <1>1, <3>1
    <2> HIDE DEF w, us
    <2>2. us # <<>>
        BY <2>1
    <2>3. Comes(S, us)
        BY <1>3, <2>1
    <2> QED
        BY <2>1, <2>2, <2>3, ComesCons DEF X
<1>4. Nat \subseteq T
    <2> HIDE DEF T
    <2> QED
        BY <1>2, <1>3, NatUpward
<1>5. vs \in Seq(X) /\ Len(vs) - 1 \in Nat /\ Len(vs) = (Len(vs) - 1) + 1
    <2>1. vs \in Seq(X)
        BY DEF X
    <2> QED
        BY <2>1, EmptySeq, LenProperties
<1>6. Comes(S, vs)
    BY <1>4, <1>5
<1> QED
    BY <1>6 DEF Comes

-----------------------------------------------------------------------------
(* Texts taken apart where they were put together *)

\* s is a, x and b
Meets(s, a, x, b) ==
    /\ Len(s) = Len(a) + 1 + Len(b)
    /\ \A i \in 1..Len(a) : s[i] = a[i]
    /\ s[Len(a) + 1] = x
    /\ \A j \in 1..Len(b) : s[Len(a) + 1 + j] = b[j]

\* Two texts with a symbol between them.
LEMMA MeetsConcat ==
    ASSUME NEW S, NEW x \in S, NEW a \in Seq(S), NEW b \in Seq(S)
    PROVE  /\ a \o (<<x>> \o b) \in Seq(S)
           /\ Meets(a \o (<<x>> \o b), a, x, b)
<1> DEFINE c == <<x>> \o b
           s == a \o c
           p == Len(a)
           q == Len(b)
<1>1. /\ c \in Seq(S) /\ Len(c) = q + 1 /\ c[1] = x /\ q \in Nat
      /\ \A i \in 1..q : c[i + 1] = b[i]
    BY HeadIs
<1>2. p \in Nat
    BY LenProperties
<1> HIDE DEF c
<1>3. /\ s \in Seq(S) /\ Len(s) = p + Len(c)
      /\ \A i \in 1..(p + Len(c)) : s[i] = IF i <= p THEN a[i] ELSE c[i - p]
    BY <1>1, ConcatProperties
<1> HIDE DEF s, p, q
<1>4. Len(s) = p + 1 + q
    BY <1>1, <1>2, <1>3
<1>5. ASSUME NEW i \in 1..p PROVE s[i] = a[i]
    <2>1. i \in 1..(p + Len(c)) /\ i <= p
        BY <1>1, <1>2
    <2> QED
        BY <1>3, <2>1
<1>6. s[p + 1] = x
    <2>1. p + 1 \in 1..(p + Len(c)) /\ ~(p + 1 <= p) /\ (p + 1) - p = 1
        BY <1>1, <1>2
    <2> QED
        BY <1>1, <1>3, <2>1
<1>7. ASSUME NEW j \in 1..q PROVE s[p + 1 + j] = b[j]
    <2>1. p + 1 + j \in 1..(p + Len(c)) /\ ~(p + 1 + j <= p) /\ (p + 1 + j) - p = j + 1
        BY <1>1, <1>2
    <2> QED
        BY <1>1, <1>3, <2>1
<1> QED
    BY <1>3, <1>4, <1>5, <1>6, <1>7 DEF Meets, s, c, p, q

\* What is in front of the symbol between them, and what follows it.
LEMMA MeetsCut ==
    ASSUME NEW S, NEW x \in S, NEW a \in Seq(S), NEW b \in Seq(S), NEW s \in Seq(S), Meets(s, a, x, b)
    PROVE  /\ Len(a) + 1 \in 1..Len(s) /\ DOMAIN s = 1..Len(s) /\ Len(s) \in Nat
           /\ Before(s, Len(a) + 1) = a /\ After(s, Len(a) + 1) = b
<1> DEFINE p == Len(a)
           q == Len(b)
<1>1. p \in Nat /\ q \in Nat /\ Len(s) = p + 1 + q /\ DOMAIN s = 1..Len(s)
    BY LenProperties DEF Meets
<1>2. /\ \A i \in 1..p : s[i] = a[i]
      /\ \A j \in 1..q : s[(p + 1) + j] = b[j]
    BY DEF Meets
<1>3. a \in Seq(S) /\ Len(a) = p /\ b \in Seq(S) /\ Len(b) = q
    OBVIOUS
<1> HIDE DEF p, q
<1>4. SubSeq(s, 1, p) = a
    <2> DEFINE u == SubSeq(s, 1, p)
    <2>1. p \in 0..Len(s)
        BY <1>1
    <2>2. u \in Seq(S) /\ Len(u) = p
        BY <2>1, CutFacts
    <2>3. ASSUME NEW i \in 1..p PROVE u[i] = a[i]
        <3>1. u[i] = s[i]
            BY <1>1, <2>1
        <3> QED
            BY <1>2, <3>1
    <2> HIDE DEF u
    <2>4. u = a
        BY <1>3, <2>2, <2>3, SeqEqual
    <2> QED
        BY <2>4 DEF u
<1>5. SubSeq(s, (p + 1) + 1, Len(s)) = b
    <2> DEFINE k == p + 1
               u == SubSeq(s, k + 1, Len(s))
    <2>1. k \in 0..Len(s) /\ Len(s) - k = q
        BY <1>1
    <2> HIDE DEF k
    <2>2. u \in Seq(S) /\ Len(u) = q
        <3>1. u \in Seq(S) /\ Len(u) = Len(s) - k
            BY <2>1, CutFacts
        <3> QED
            BY <2>1, <3>1
    <2>3. ASSUME NEW i \in 1..q PROVE u[i] = b[i]
        <3> DEFINE j == k + 1
        <3>1. j \in 1..(Len(s) + 1) /\ i \in 1..(Len(s) - j + 1) /\ j + i - 1 = k + i
              /\ s \in Seq(S) /\ Len(s) \in Nat
            BY <1>1, <2>1
        <3> HIDE DEF j
        <3>2. SubSeq(s, j, Len(s))[i] = s[j + i - 1]
            BY <3>1
        <3>3. u[i] = s[k + i]
            BY <3>1, <3>2 DEF j
        <3> QED
            BY <1>2, <3>3 DEF k
    <2> HIDE DEF u
    <2>4. u = b
        BY <1>3, <2>2, <2>3, SeqEqual
    <2> QED
        BY <2>4 DEF u, k
<1>6. (p + 1) - 1 = p /\ p + 1 \in 1..Len(s)
    BY <1>1
<1> QED
    BY <1>1, <1>4, <1>5, <1>6 DEF Before, After, p

Free(f, y) == \A i \in 1..Len(f) : f[i] # y
Parted(y, s, a, b) ==
    /\ Find(s, y) = Len(a) + 1 /\ Len(a) + 1 # 0
    /\ Before(s, Len(a) + 1) = a /\ After(s, Len(a) + 1) = b

\* A text is cut at the first y, which is the one put in.
LEMMA CutAt ==
    ASSUME NEW S, NEW y \in S, NEW a \in Seq(S), NEW b \in Seq(S), Free(a, y)
    PROVE  Parted(y, a \o (<<y>> \o b), a, b)
<1> DEFINE s == a \o (<<y>> \o b)
           p == Len(a) + 1
           C == {i \in DOMAIN s : s[i] = y}
<1>1. s \in Seq(S) /\ Meets(s, a, y, b)
    BY MeetsConcat
<1> HIDE DEF s
<1>2. /\ p \in 1..Len(s) /\ DOMAIN s = 1..Len(s) /\ Len(s) \in Nat
      /\ Before(s, p) = a /\ After(s, p) = b
    BY <1>1, MeetsCut
<1>3. s[p] = y /\ \A i \in 1..Len(a) : s[i] # y
    BY <1>1 DEF Meets, Free
<1>4. Len(a) \in Nat
    BY LenProperties
<1>5. p \in C /\ C \subseteq 1..Len(s) /\ \A i \in C : i \in Nat /\ ~(i < p)
    <2>1. ASSUME NEW i \in C, i < p PROVE FALSE
        <3>1. i \in 1..Len(a)
            BY <1>2, <1>4, <2>1
        <3> QED
            BY <1>3, <3>1
    <2> QED
        BY <1>2, <1>3, <2>1
<1>6. First(C) = p
    <2> HIDE DEF C
    <2>1. First(C) \in C /\ First(C) <= p
        BY <1>2, <1>5, FirstIs
    <2>2. First(C) \in Nat /\ ~(First(C) < p)
        BY <1>5, <2>1
    <2> HIDE DEF p
    <2>3. p \in Nat
        BY <1>2
    <2> QED
        BY <2>1, <2>2, <2>3
<1>7. p # 0
    BY <1>4
<1> QED
    BY <1>2, <1>6, <1>7 DEF Parted, Find, s

Inner(y, s, m, u) == s # <<>> /\ s[1] = m /\ SubSeq(s, 2, Find(s, y) - 1) = u

\* A mark at the beginning of the first part is left out.
LEMMA CutInner ==
    ASSUME NEW S, NEW m \in S, NEW y \in S, NEW u \in Seq(S), NEW b \in Seq(S), Free(<<m>> \o u, y)
    PROVE  Inner(y, (<<m>> \o u) \o (<<y>> \o b), m, u)
<1> DEFINE a == <<m>> \o u
           s == a \o (<<y>> \o b)
           q == Len(u)
<1>1. a \in Seq(S) /\ Len(a) = q + 1 /\ a[1] = m /\ q \in Nat /\ \A i \in 1..q : a[i + 1] = u[i]
    BY HeadIs
<1> HIDE DEF a
<1>2. s \in Seq(S) /\ Meets(s, a, y, b) /\ Find(s, y) = Len(a) + 1
    BY <1>1, MeetsConcat, CutAt DEF Parted, a
<1>3. /\ Len(a) + 1 \in 1..Len(s) /\ Len(s) \in Nat
    BY <1>1, <1>2, MeetsCut
<1>4. \A i \in 1..Len(a) : s[i] = a[i]
    BY <1>2 DEF Meets
<1> HIDE DEF s
<1>5. s # <<>> /\ s[1] = m
    <2>1. 1 \in 1..Len(a)
        BY <1>1
    <2>2. Len(s) # 0
        BY <1>3
    <2> QED
        BY <1>1, <1>4, <2>1, <2>2
<1>6. SubSeq(s, 2, q + 1) = u
    <2> DEFINE w == SubSeq(s, 2, q + 1)
    <2> HIDE DEF q
    <2>1. q + 1 \in 1..Len(s) /\ q + 1 - 2 + 1 = q
        BY <1>1, <1>3
    <2>2. \A i \in 2..(q + 1) : s[i] \in S
        BY <1>2, <1>3, <2>1, ElementOfSeq
    <2>3. w \in Seq(S) /\ Len(w) = q /\ \A i \in 1..q : w[i] = s[i + 1]
        <3> DEFINE k == q + 1
        <3>1. k \in Nat /\ 2 <= k + 1 /\ k - 2 + 1 = q
            BY <1>1
        <3>2. \A i \in 1..q : 2 + i - 1 = i + 1
            BY <1>1
        <3> HIDE DEF k
        <3>3. \A i \in 2..k : s[i] \in S
            BY <2>2 DEF k
        <3>4. /\ SubSeq(s, 2, k) \in Seq(S)
              /\ Len(SubSeq(s, 2, k)) = IF 2 <= k THEN k - 2 + 1 ELSE 0
              /\ \A i \in 1..(k - 2 + 1) : SubSeq(s, 2, k)[i] = s[2 + i - 1]
            BY <3>1, <3>3, SubSeqProperties
        <3>5. IF 2 <= k THEN k - 2 + 1 = q ELSE q = 0
            BY <1>1, <3>1 DEF k
        <3> QED
            BY <3>1, <3>2, <3>4, <3>5 DEF k
    <2>4. ASSUME NEW i \in 1..q PROVE w[i] = u[i]
        <3>1. i + 1 \in 1..Len(a)
            BY <1>1
        <3> QED
            BY <1>1, <1>4, <2>3, <3>1
    <2> HIDE DEF w
    <2>5. w = u
        BY <2>3, <2>4, SeqEqual DEF q
    <2> QED
        BY <2>5 DEF w
<1>7. (Len(a) + 1) - 1 = q + 1
    BY <1>1
<1> QED
    BY <1>2, <1>5, <1>6, <1>7 DEF s, a, Inner

\* A pair is one symbol and another.
LEMMA PairIs ==
    ASSUME NEW S, NEW x \in S, NEW y \in S
    PROVE  <<x, y>> = <<x>> \o <<y>>
<1> DEFINE a == <<x>>
           b == <<y>>
           c == <<x, y>>
<1>1. /\ a \in Seq(S) /\ Len(a) = 1 /\ a[1] = x /\ b \in Seq(S) /\ Len(b) = 1 /\ b[1] = y
      /\ c \in Seq(S) /\ Len(c) = 2 /\ c[1] = x /\ c[2] = y
    OBVIOUS
<1> HIDE DEF a, b, c
<1>2. /\ a \o b \in Seq(S) /\ Len(a \o b) = Len(a) + Len(b)
      /\ \A i \in 1..(Len(a) + Len(b)) : (a \o b)[i] = IF i <= Len(a) THEN a[i] ELSE b[i - Len(a)]
    BY <1>1, ConcatProperties
<1> DEFINE d == a \o b
<1>3. d \in Seq(S) /\ Len(d) = 2 /\ d[1] = x /\ d[2] = y
    BY <1>1, <1>2
<1> HIDE DEF d
<1>4. \A i \in 1..2 : c[i] = d[i]
    BY <1>1, <1>3
<1>5. c = d
    BY <1>1, <1>3, <1>4, SeqEqual
<1> QED
    BY <1>5 DEF a, b, c, d

Taken(l, j, t) ==
    /\ l # <<>> /\ TrailingAt(l) = Len(j) + 1 /\ Len(j) + 1 # 0
    /\ Before(l, Len(j) + 1) = j /\ After(l, (Len(j) + 1) + 1) = t

\* Words without a " :" in them and a text are cut between them.
LEMMA TextTaken ==
    ASSUME NEW S, HasSigns(S), NEW j \in Seq(S), Cuts(j) = {}, NEW t \in Seq(S)
    PROVE  /\ j \o (<<" ", ":">> \o t) \in Seq(S)
           /\ Taken(j \o (<<" ", ":">> \o t), j, t)
<1> DEFINE x == " "
           y == ":"
           b == <<y>> \o t
           l == j \o (<<x>> \o b)
           k == j \o <<x>>
           p == Len(j)
<1>0. x \in S /\ y \in S /\ x # y
    BY DEF HasSigns
<1>1. <<" ", ":">> \o t = <<x>> \o b
    <2> HIDE DEF x, y
    <2>1. <<x, y>> = <<x>> \o <<y>>
        BY <1>0, PairIs
    <2>2. <<x>> \in Seq(S) /\ <<y>> \in Seq(S)
        BY <1>0, SingletonFacts
    <2>3. (<<x>> \o <<y>>) \o t = <<x>> \o (<<y>> \o t)
        BY <2>2, ConcatAssociative
    <2> QED
        BY <2>1, <2>3 DEF x, y
<1> HIDE DEF x, y
<1>2. b \in Seq(S) /\ b[1] = y /\ Len(b) >= 1
    BY <1>0, HeadIs
<1>3. k \in Seq(S) /\ Len(k) = p + 1 /\ p \in Nat
    <2>1. <<x>> \in Seq(S) /\ Len(<<x>>) = 1
        BY <1>0
    <2> DEFINE w == <<x>>
    <2> HIDE DEF w
    <2>2. j \o w \in Seq(S) /\ Len(j \o w) = Len(j) + Len(w)
        BY <2>1, ConcatProperties DEF w
    <2> QED
        BY <2>1, <2>2, LenProperties DEF w
<1>4. l = k \o (<<y>> \o t)
    <2>1. <<x>> \in Seq(S)
        BY <1>0, SingletonFacts
    <2> DEFINE w == <<x>>
    <2> HIDE DEF w, b
    <2>2. (j \o w) \o b = j \o (w \o b)
        BY <1>2, <2>1, ConcatAssociative DEF w
    <2> QED
        BY <2>2 DEF w, b
<1>5. l \in Seq(S) /\ Meets(l, j, x, b) /\ Meets(l, k, y, t)
    <2>1. l \in Seq(S) /\ Meets(l, j, x, b)
        <3> HIDE DEF b
        <3> QED
            BY <1>0, <1>2, MeetsConcat
    <2>2. Meets(k \o (<<y>> \o t), k, y, t)
        <3> HIDE DEF k
        <3> QED
            BY <1>0, <1>3, MeetsConcat
    <2> QED
        BY <1>4, <2>1, <2>2
<1> HIDE DEF l, k, b
<1>6. Before(l, p + 1) = j /\ p + 1 \in 1..Len(l) /\ Len(l) \in Nat
    BY <1>0, <1>2, <1>5, MeetsCut
<1>7. After(l, (p + 1) + 1) = t /\ (p + 1) + 1 \in 1..Len(l)
    <2>1. After(l, Len(k) + 1) = t /\ Len(k) + 1 \in 1..Len(l)
        BY <1>0, <1>3, <1>5, MeetsCut
    <2> QED
        BY <1>3, <2>1
<1>8. /\ \A i \in 1..p : l[i] = j[i]
      /\ l[p + 1] = x /\ l[(p + 1) + 1] = y
    <2>1. l[p + 1] = x /\ \A i \in 1..p : l[i] = j[i]
        BY <1>5 DEF Meets
    <2>2. l[Len(k) + 1] = y
        BY <1>5 DEF Meets
    <2> QED
        BY <1>3, <2>1, <2>2
<1>9. p + 1 \in Cuts(l) /\ Cuts(l) \subseteq 1..Len(l)
    <2>1. p + 1 \in 1..(Len(l) - 1)
        BY <1>3, <1>6, <1>7
    <2>2. \A i \in 1..(Len(l) - 1) : i \in 1..Len(l)
        BY <1>6
    <2> QED
        BY <1>8, <2>1, <2>2 DEF Cuts, x, y
<1>10. \A i \in Cuts(l) : i \in Nat /\ ~(i < p + 1)
    <2>1. ASSUME NEW i \in Cuts(l), i < p + 1 PROVE FALSE
        <3>1. i \in 1..Len(l) /\ l[i] = x /\ l[i + 1] = y
            BY <1>9 DEF Cuts, x, y
        <3>2. i \in 1..p /\ (i + 1 \in 1..p \/ i + 1 = p + 1)
            BY <1>3, <1>6, <2>1, <3>1
        <3>3. i + 1 \in 1..p
            BY <1>0, <1>8, <3>1, <3>2
        <3>4. j[i] = x /\ j[i + 1] = y /\ i \in 1..(p - 1)
            BY <1>3, <1>8, <3>1, <3>2, <3>3
        <3>5. i \in Cuts(j)
            BY <3>4 DEF Cuts, x, y, p
        <3> QED
            BY <3>5
    <2> QED
        BY <1>6, <1>9, <2>1
<1>11. TrailingAt(l) = p + 1
    <2> DEFINE C == Cuts(l)
               n == p + 1
    <2>1. First(C) \in C /\ First(C) <= n
        <3> HIDE DEF C, n
        <3>1. C \subseteq 1..Len(l) /\ n \in C
            BY <1>9 DEF C, n
        <3> QED
            BY <1>6, <3>1, FirstIs
    <2>2. First(C) \in Nat /\ ~(First(C) < n)
        BY <1>10, <2>1
    <2>3. n \in Nat
        BY <1>3
    <2> HIDE DEF n, C
    <2>4. First(C) = n
        BY <2>1, <2>2, <2>3
    <2> QED
        BY <2>4 DEF TrailingAt, C, n
<1>12. l # <<>>
    <2>1. Len(l) # 0
        BY <1>6
    <2> QED
        BY <2>1
<1>13. Taken(l, j, t)
    <2>1. p + 1 # 0
        BY <1>3
    <2> QED
        BY <1>6, <1>7, <1>11, <1>12, <2>1 DEF Taken, p
<1>14. j \o (<<" ", ":">> \o t) = l
    BY <1>1 DEF l
<1> QED
    BY <1>5, <1>13, <1>14

\* the parts of b are the parts of s that begin h symbols later
Shifted(s, b, h) ==
    \A i, j \in Nat : i < j /\ j <= Len(b) + 1 =>
        SubSeq(s, (h + i) + 1, (h + j) - 1) = SubSeq(b, i + 1, j - 1)

\* A part of the second text is a part of the whole.
LEMMA PartShift ==
    ASSUME NEW S, NEW x \in S, NEW a \in Seq(S), NEW b \in Seq(S), NEW s \in Seq(S), Meets(s, a, x, b)
    PROVE  Shifted(s, b, Len(a) + 1)
<1> DEFINE h == Len(a) + 1
<1> SUFFICES ASSUME NEW i \in Nat, NEW j \in Nat, i < j, j <= Len(b) + 1
             PROVE  SubSeq(s, (h + i) + 1, (h + j) - 1) = SubSeq(b, i + 1, j - 1)
    BY DEF Shifted
<1> DEFINE p == Len(a)
           q == Len(b)
           m == (h + i) + 1
           n == (h + j) - 1
           c == i + 1
           d == j - 1
           u == SubSeq(s, m, n)
           v == SubSeq(b, c, d)
           l == d - c + 1
<1>1. p \in Nat /\ q \in Nat /\ Len(s) = p + 1 + q /\ h = p + 1 /\ \A k \in 1..q : s[h + k] = b[k]
    BY LenProperties DEF Meets
<1>2. \A k \in 1..Len(s) : s[k] \in S
    BY ElementOfSeq
<1>3. \A k \in 1..q : b[k] \in S
    BY ElementOfSeq
<1> HIDE DEF p, q, h
<1>4. /\ m \in Int /\ n \in Int /\ c \in Int /\ d \in Int /\ l \in Nat /\ n - m + 1 = l
      /\ (m <= n <=> c <= d) /\ (~(c <= d) => l = 0)
      /\ (\A k \in m..n : k \in 1..Len(s)) /\ (\A k \in c..d : k \in 1..q)
      /\ \A k \in 1..l : /\ c + k - 1 \in 1..q /\ m + k - 1 = h + (c + k - 1)
    BY <1>1 DEF q
<1> HIDE DEF m, n, c, d, l
<1>5. u \in Seq(S) /\ Len(u) = l /\ \A k \in 1..l : u[k] = s[m + k - 1]
    <2>1. \A k \in m..n : s[k] \in S
        BY <1>2, <1>4
    <2>2. /\ SubSeq(s, m, n) \in Seq(S)
          /\ Len(SubSeq(s, m, n)) = IF m <= n THEN n - m + 1 ELSE 0
          /\ \A k \in 1..(n - m + 1) : SubSeq(s, m, n)[k] = s[m + k - 1]
        BY <1>4, <2>1, SubSeqProperties
    <2> QED
        BY <1>4, <2>2
<1>6. v \in Seq(S) /\ Len(v) = l /\ \A k \in 1..l : v[k] = b[c + k - 1]
    <2>1. \A k \in c..d : b[k] \in S
        BY <1>3, <1>4
    <2>0. c \in Int /\ d \in Int
        BY <1>4
    <2>2. /\ SubSeq(b, c, d) \in Seq(S)
          /\ Len(SubSeq(b, c, d)) = IF c <= d THEN d - c + 1 ELSE 0
          /\ \A k \in 1..(d - c + 1) : SubSeq(b, c, d)[k] = b[c + k - 1]
        BY <2>0, <2>1, SubSeqProperties
    <2> QED
        BY <1>4, <2>2 DEF l
<1>7. ASSUME NEW k \in 1..l PROVE u[k] = v[k]
    <2>1. s[m + k - 1] = b[c + k - 1]
        BY <1>1, <1>4
    <2> QED
        BY <1>5, <1>6, <2>1
<1> HIDE DEF u, v
<1>8. u = v
    BY <1>5, <1>6, <1>7, SeqEqual
<1> QED
    BY <1>8 DEF u, v, m, n, c, d

\* Where Split cuts, and the pairs of neighbouring cuts.
CutsOf(s, x) == {i \in DOMAIN s : s[i] = x} \cup {0, Len(s) + 1}
EndsOf(s, x) ==
    {e \in CutsOf(s, x) \X CutsOf(s, x) :
        e[1] < e[2] /\ \A i \in CutsOf(s, x) : i <= e[1] \/ e[2] <= i}
Part(s, e) == SubSeq(s, e[1] + 1, e[2] - 1)

\* The pieces are between neighbouring cuts.
LEMMA SplitIs ==
    ASSUME NEW s, NEW x
    PROVE  Split(s, x) = {Part(s, e) : e \in EndsOf(s, x)}
BY DEF Split, Part, EndsOf, CutsOf

\* What the symbol is not in is one piece.
LEMMA SplitOne ==
    ASSUME NEW S, NEW x \in S, NEW a \in Seq(S), Free(a, x)
    PROVE  Split(a, x) = {a}
<1> DEFINE n == Len(a) + 1
           e == <<0, n>>
<1>1. n \in Nat /\ 0 < n /\ n - 1 = Len(a) /\ DOMAIN a = 1..Len(a)
    BY LenProperties
<1>2. CutsOf(a, x) = {0, n}
    BY <1>1 DEF CutsOf, Free
<1>3. Part(a, e) = a
    BY <1>1, SubSeqFull DEF Part
<1> HIDE DEF n
<1>4. EndsOf(a, x) = {e}
    <2>1. ASSUME NEW d \in {0, n} \X {0, n}, d[1] < d[2] PROVE d = e
        BY <1>1, <2>1
    <2>2. e \in {0, n} \X {0, n} /\ e[1] < e[2] /\ \A i \in {0, n} : i <= e[1] \/ e[2] <= i
        BY <1>1
    <2> QED
        BY <1>2, <2>1, <2>2 DEF EndsOf
<1> QED
    BY <1>3, <1>4, SplitIs

\* What is in front of the first cut is the first piece.
LEMMA SplitCons ==
    ASSUME NEW S, NEW x \in S, NEW a \in Seq(S), Free(a, x), NEW b \in Seq(S)
    PROVE  Split(a \o (<<x>> \o b), x) = {a} \cup Split(b, x)
<1> DEFINE s == a \o (<<x>> \o b)
           n == Len(a) + 1
           q == Len(b)
           A == CutsOf(s, x)
           B == CutsOf(b, x)
<1>1. s \in Seq(S) /\ Meets(s, a, x, b)
    BY MeetsConcat
<1> HIDE DEF s
<1>2. /\ n \in Nat /\ n >= 1 /\ q \in Nat /\ DOMAIN s = 1..Len(s) /\ DOMAIN b = 1..q /\ Len(s) = n + q
      /\ n - 1 = Len(a)
    BY <1>1, LenProperties DEF Meets
<1>3. /\ \A i \in 1..(n - 1) : s[i] # x
      /\ s[n] = x /\ \A j \in 1..q : s[n + j] = b[j]
    BY <1>1, <1>2 DEF Meets, Free
<1>4. Before(s, n) = a
    BY <1>1, MeetsCut
<1>5. ASSUME NEW i \in Nat, NEW j \in Nat, i < j, j <= q + 1
      PROVE  SubSeq(s, (n + i) + 1, (n + j) - 1) = SubSeq(b, i + 1, j - 1)
    <2>1. Shifted(s, b, n)
        BY <1>1, PartShift
    <2> HIDE DEF n
    <2> QED
        BY <1>5, <2>1 DEF Shifted
<1> HIDE DEF n, q
<1>6. 0 \in A /\ A \subseteq Nat /\ B \subseteq 0..(q + 1)
    BY <1>2 DEF CutsOf, q
<1>7. ASSUME NEW i \in B PROVE n + i \in A
    <2>1. CASE i = 0
        BY <1>2, <1>3, <2>1 DEF CutsOf
    <2>2. CASE i = q + 1
        <3>1. n + i = Len(s) + 1
            BY <1>2, <2>2
        <3> QED
            BY <3>1 DEF CutsOf
    <2>3. CASE i \in 1..q /\ b[i] = x
        <3>1. n + i \in 1..Len(s) /\ s[n + i] = x
            BY <1>2, <1>3, <2>3
        <3> QED
            BY <1>2, <3>1 DEF CutsOf
    <2> QED
        BY <1>2, <2>1, <2>2, <2>3 DEF CutsOf, q
<1>8. ASSUME NEW k \in A, k # 0 PROVE \E i \in B : k = n + i
    <2>1. CASE k = Len(s) + 1
        <3>1. q + 1 \in B /\ k = n + (q + 1)
            BY <1>2, <2>1 DEF CutsOf, q
        <3> QED
            BY <3>1
    <2>2. CASE k \in 1..Len(s) /\ s[k] = x
        <3>1. ~(k <= n - 1)
            BY <1>2, <1>3, <2>2
        <3>2. CASE k = n
            <4>1. 0 \in B /\ k = n + 0
                BY <1>2, <3>2 DEF CutsOf
            <4> QED
                BY <4>1
        <3>3. CASE k # n
            <4> DEFINE i == k - n
            <4>1. i \in 1..q /\ k = n + i
                BY <1>2, <2>2, <3>1, <3>3
            <4>2. b[i] = x
                BY <1>3, <2>2, <4>1
            <4>3. i \in B
                BY <1>2, <4>1, <4>2 DEF CutsOf
            <4> QED
                BY <4>1, <4>3
        <3> QED
            BY <3>2, <3>3
    <2> QED
        BY <1>2, <1>8, <2>1, <2>2 DEF CutsOf
<1>0. 0 \in B
    BY DEF CutsOf
<1> HIDE DEF A, B
<1>9. ASSUME NEW e \in EndsOf(s, x)
      PROVE  Part(s, e) = a \/ \E d \in EndsOf(b, x) : Part(s, e) = Part(b, d)
    <2>1. e[1] \in A /\ e[2] \in A /\ e[1] < e[2] /\ \A k \in A : k <= e[1] \/ e[2] <= k
        BY DEF EndsOf, A
    <2>2. e[2] # 0
        <3>1. e[1] \in Nat /\ e[2] \in Nat
            BY <1>6, <2>1
        <3> QED
            BY <2>1, <3>1
    <2>3. PICK j \in B : e[2] = n + j
        BY <1>8, <2>1, <2>2
    <2>4. CASE e[1] = 0
        <3>1. n + 0 \in A
            BY <1>0, <1>7
        <3>2. e[2] = n
            BY <1>2, <1>6, <2>1, <2>3, <2>4, <3>1
        <3>3. Part(s, e) = a
            BY <1>2, <1>4, <2>4, <3>2 DEF Part, Before
        <3> QED
            BY <3>3
    <2>5. CASE e[1] # 0
        <3>1. PICK i \in B : e[1] = n + i
            BY <1>8, <2>1, <2>5
        <3>2. i \in Nat /\ j \in Nat /\ i < j /\ j <= q + 1
            BY <1>2, <1>6, <2>1, <2>3, <3>1
        <3> DEFINE d == <<i, j>>
        <3>3. \A k \in B : k <= i \/ j <= k
            <4> SUFFICES ASSUME NEW k \in B PROVE k <= i \/ j <= k
                OBVIOUS
            <4>1. n + k <= n + i \/ n + j <= n + k
                BY <1>7, <2>1, <2>3, <3>1
            <4> QED
                BY <1>2, <1>6, <3>2, <4>1
        <3>4. d \in EndsOf(b, x)
            BY <3>2, <3>3 DEF EndsOf, B
        <3>5. Part(s, e) = Part(b, d)
            BY <1>5, <2>3, <3>1, <3>2 DEF Part
        <3> QED
            BY <3>4, <3>5
    <2> QED
        BY <2>4, <2>5
<1>10. \E e \in EndsOf(s, x) : Part(s, e) = a
    <2> DEFINE e == <<0, n>>
    <2>1. n \in A
        <3>1. n + 0 \in A /\ n + 0 = n
            BY <1>0, <1>2, <1>7
        <3> QED
            BY <3>1
    <2>2. \A k \in A : k <= 0 \/ n <= k
        <3> SUFFICES ASSUME NEW k \in A, k # 0 PROVE n <= k
            BY <1>6
        <3>1. PICK i \in B : k = n + i
            BY <1>8
        <3> QED
            BY <1>2, <1>6, <3>1
    <2>3. e \in EndsOf(s, x)
        BY <1>2, <1>6, <2>1, <2>2 DEF EndsOf, A
    <2>4. Part(s, e) = a
        BY <1>2, <1>4 DEF Part, Before
    <2> QED
        BY <2>3, <2>4
<1>11. ASSUME NEW d \in EndsOf(b, x)
       PROVE  \E e \in EndsOf(s, x) : Part(s, e) = Part(b, d)
    <2>1. d[1] \in B /\ d[2] \in B /\ d[1] < d[2] /\ \A k \in B : k <= d[1] \/ d[2] <= k
        BY DEF EndsOf, B
    <2> DEFINE i == d[1]
               j == d[2]
    <2>2. i \in Nat /\ j \in Nat /\ i < j /\ j <= q + 1 /\ i \in B /\ j \in B
        <3>1. i \in B /\ j \in B /\ i < j
            BY <2>1
        <3> HIDE DEF i, j
        <3> QED
            BY <1>2, <1>6, <3>1
    <2> DEFINE e == <<n + i, n + j>>
    <2>3. n + i \in A /\ n + j \in A
        BY <1>7, <2>1
    <2>4. \A k \in A : k <= n + i \/ n + j <= k
        <3> SUFFICES ASSUME NEW k \in A, k # 0 PROVE k <= n + i \/ n + j <= k
            BY <1>2, <2>2
        <3>1. PICK l \in B : k = n + l
            BY <1>8
        <3>2. l <= i \/ j <= l
            BY <2>1
        <3> QED
            BY <1>2, <1>6, <2>2, <3>1, <3>2
    <2>5. e \in EndsOf(s, x)
        <3>1. n + i < n + j
            BY <1>2, <2>2
        <3> QED
            BY <2>3, <2>4, <3>1 DEF EndsOf, A
    <2>6. Part(s, e) = Part(b, d)
        BY <1>5, <2>2 DEF Part
    <2> QED
        BY <2>5, <2>6
<1>12. Split(s, x) = {Part(s, e) : e \in EndsOf(s, x)} /\ Split(b, x) = {Part(b, d) : d \in EndsOf(b, x)}
    BY SplitIs
<1> QED
    BY <1>9, <1>10, <1>11, <1>12 DEF s

\* texts with no x in them; what Split gives back of them when x joined them
Piece(S, x) == {a \in Seq(S) : Free(a, x)}
Pieces(ps, x) == Split(Join(ps, x), x) = ToSet(ps)

\* One more piece.
LEMMA PiecesCons ==
    ASSUME NEW S, NEW x \in S, NEW a \in Piece(S, x), NEW ps \in Seq(Piece(S, x)),
           ps = <<>> \/ Pieces(ps, x)
    PROVE  Pieces(<<a>> \o ps, x)
<1> DEFINE X == Piece(S, x)
           j == Join(ps, x)
<1>1. a \in Seq(S) /\ Free(a, x) /\ a \in X /\ ps \in Seq(X)
    BY DEF Piece
<1>2. X \subseteq Seq(S)
    BY DEF Piece
<1> HIDE DEF X
<1>3. ps \in Seq(Seq(S))
    BY <1>1, <1>2, SeqMonotonic
<1>4. j \in Seq(S) /\ Joins(a, ps, x)
    BY <1>1, <1>3, JoinCons
<1>5. ToSet(<<a>> \o ps) = {a} \cup ToSet(ps)
    <2>1. <<a>> \in Seq(X) /\ ToSet(<<a>>) = {a}
        BY <1>1, SingletonFacts
    <2> DEFINE w == <<a>>
    <2> HIDE DEF w, j
    <2>3. w \in Seq(X) /\ ps \in Seq(X)
        BY <1>1, <2>1 DEF w
    <2>2. ToSet(w \o ps) = ToSet(w) \cup ToSet(ps)
        BY <2>3, ToSetConcat
    <2> QED
        BY <2>1, <2>2 DEF w
<1> HIDE DEF j
<1>6. CASE ps = <<>>
    <2>1. Join(<<a>> \o ps, x) = a
        BY <1>4, <1>6 DEF Joins
    <2>2. Split(a, x) = {a}
        BY <1>1, SplitOne
    <2>3. ToSet(ps) = {}
        BY <1>1, <1>6, SingletonFacts
    <2> QED
        BY <1>5, <2>1, <2>2, <2>3 DEF Pieces
<1>7. CASE ps # <<>>
    <2>1. Join(<<a>> \o ps, x) = a \o (<<x>> \o j)
        BY <1>4, <1>7 DEF Joins, j
    <2>2. Split(a \o (<<x>> \o j), x) = {a} \cup Split(j, x)
        BY <1>1, <1>4, SplitCons
    <2>3. Split(j, x) = ToSet(ps)
        BY <1>7 DEF Pieces, j
    <2> QED
        BY <1>5, <2>1, <2>2, <2>3 DEF Pieces
<1> QED
    BY <1>6, <1>7

\* Split undoes Join, up to the order.
LEMMA JoinedPieces ==
    ASSUME NEW S, NEW x \in S, NEW ps \in Seq(Piece(S, x)), ps # <<>>
    PROVE  Join(ps, x) \in Seq(S) /\ Pieces(ps, x)
<1> DEFINE X == Piece(S, x)
           T == {n \in Nat : \A ws \in Seq(X) : Len(ws) = n => ws = <<>> \/ Pieces(ws, x)}
<1>0. X \subseteq Seq(S)
    BY DEF Piece
<1>1. ps \in Seq(X)
    OBVIOUS
<1> HIDE DEF X
<1>2. 0 \in T
    OBVIOUS
<1>3. ASSUME NEW n \in Nat, n \in T PROVE n + 1 \in T
    <2> SUFFICES ASSUME NEW ws \in Seq(X), Len(ws) = n + 1 PROVE Pieces(ws, x)
        OBVIOUS
    <2> DEFINE w == Head(ws)
               us == Tail(ws)
    <2>1. w \in X /\ us \in Seq(X) /\ ws = <<w>> \o us /\ Len(us) = n
        <3>1. ws # <<>>
            BY <1>3
        <3>2. Len(Tail(ws)) = Len(ws) - 1
            BY <3>1
        <3> QED
            BY <1>3, <3>1, <3>2, TailFacts
    <2> HIDE DEF w, us
    <2>2. us = <<>> \/ Pieces(us, x)
        BY <1>3, <2>1
    <2> QED
        BY <2>1, <2>2, PiecesCons DEF X
<1>4. Nat \subseteq T
    <2> HIDE DEF T
    <2> QED
        BY <1>2, <1>3, NatUpward
<1>5. Pieces(ps, x)
    <2>1. Len(ps) \in Nat
        BY <1>1, LenProperties
    <2> QED
        BY <1>1, <1>4, <2>1
<1>6. Join(ps, x) \in Seq(S)
    <2>1. ps \in Seq(Seq(S))
        BY <1>0, <1>1, SeqMonotonic
    <2>2. <<>> \in Seq(S)
        BY EmptySeq
    <2> QED
        BY <2>1, <2>2, JoinCons
<1> QED
    BY <1>5, <1>6

-----------------------------------------------------------------------------
(* Tags *)

\* What is escaped has no separator in it.
LEMMA EscapedIs ==
    ASSUME NEW S, NEW v \in Seq(S)
    PROVE  EscapeTagValue(v) \in Seq(Clean(S))
<1> DEFINE n == Len(v)
           C == Clean(S)
           ss == [i \in DOMAIN v |-> EscapeSymbol(v[i])]
<1>1. n \in Nat /\ DOMAIN v = 1..n /\ \A i \in 1..n : v[i] \in S
    BY LenProperties, ElementOfSeq
<1>2. ASSUME NEW i \in 1..n PROVE EscapeSymbol(v[i]) \in Seq(C)
    <2>1. v[i] \in S
        BY <1>1
    <2> HIDE DEF C
    <2> QED
        BY <2>1, EscapeShape DEF C
<1>3. ss \in Seq(Seq(C))
    <2>1. ss \in [1..n -> Seq(C)]
        BY <1>1, <1>2
    <2> HIDE DEF ss, C, n
    <2> QED
        BY <1>1, <2>1
<1>4. FlattenSeq(ss) \in Seq(C)
    <2>1. <<>> \in Seq(C)
        BY EmptySeq
    <2> HIDE DEF ss, C
    <2> QED
        BY <1>3, <2>1, FlattenCons
<1> QED
    BY <1>4 DEF EscapeTagValue

Keys(K) == K \cap {"=", ";", " ", "CR", "LF"} = {}
TagSigns(V, K) == Clean(V) \cup K \cup {"="}
Written(t) == <<t[1], "=">> \o EscapeTagValue(t[2])
ReadTag(part) ==
    LET at == Find(part, "=") IN
      IF at = 0 THEN <<part, <<>>>> ELSE <<Before(part, at), UnescapeTagValue(After(part, at))>>

\* A tag is read as it was written.
LEMMA TagRead ==
    ASSUME NEW V, NEW K, Keys(K), NEW key \in K, NEW v \in Seq(V)
    PROVE  /\ Written(<<key, v>>) \in Seq(TagSigns(V, K))
           /\ ReadTag(Written(<<key, v>>)) = <<<<key>>, v>>
<1> DEFINE y == "="
           S == TagSigns(V, K)
           a == <<key>>
           b == EscapeTagValue(v)
           s == a \o (<<y>> \o b)
<1>1. key # y /\ key \in S /\ y \in S /\ Clean(V) \subseteq S
    BY DEF Keys, TagSigns
<1>2. Written(<<key, v>>) = <<key, y>> \o b
    BY DEF Written
<1>3. UnescapeTagValue(b) = v
    BY TagRoundTrip
<1>4. b \in Seq(S)
    <2>1. b \in Seq(Clean(V))
        BY EscapedIs
    <2> HIDE DEF b, S
    <2> QED
        BY <1>1, <2>1, SeqMonotonic
<1> HIDE DEF y, S, b
<1>5. <<key, y>> = a \o <<y>> /\ a \in Seq(S) /\ <<y>> \in Seq(S) /\ Len(a) = 1 /\ a[1] = key
    BY <1>1, PairIs, SingletonFacts
<1>6. (a \o <<y>>) \o b = s
    <2> DEFINE w == <<y>>
    <2>1. w \in Seq(S)
        BY <1>5
    <2> HIDE DEF a, w
    <2>2. (a \o w) \o b = a \o (w \o b)
        BY <1>4, <1>5, <2>1, ConcatAssociative
    <2> QED
        BY <2>2 DEF w
<1>7. Parted(y, s, a, b) /\ s \in Seq(S)
    <2>1. Free(a, y)
        BY <1>1, <1>5 DEF Free
    <2> HIDE DEF a
    <2> QED
        BY <1>1, <1>4, <1>5, <2>1, CutAt, MeetsConcat
<1> HIDE DEF s
<1>8. Find(s, y) = 2 /\ Before(s, 2) = a /\ After(s, 2) = b
    BY <1>5, <1>7 DEF Parted
<1>9. ReadTag(s) = <<a, UnescapeTagValue(b)>>
    BY <1>8 DEF ReadTag, y
<1>10. Written(<<key, v>>) = s
    BY <1>2, <1>5, <1>6
<1> QED
    BY <1>3, <1>7, <1>9, <1>10 DEF S

TagText(ts) == Join([k \in DOMAIN ts |-> Written(ts[k])], ";")
ReadTags(ts) == {<<<<ts[k][1]>>, ts[k][2]>> : k \in DOMAIN ts}

\* The client reads the tags the server wrote, and nothing in them ends them early.
LEMMA TagsRead ==
    ASSUME NEW V, NEW K, Keys(K), NEW ts \in Seq(K \X Seq(V)), ts # <<>>
    PROVE  /\ FormatMessageTags(ts) = <<"@">> \o TagText(ts)
           /\ TagText(ts) \in Seq(TagSigns(V, K) \cup {";"})
           /\ ParseTags(TagText(ts)) = ReadTags(ts)
<1> DEFINE n == Len(ts)
           x == ";"
           S == TagSigns(V, K)
           R == S \cup {x}
           X == Piece(R, x)
           ps == [k \in DOMAIN ts |-> Written(ts[k])]
<1>1. n \in Nat /\ DOMAIN ts = 1..n /\ \A k \in 1..n : ts[k] \in K \X Seq(V)
    BY LenProperties, ElementOfSeq
<1>2. n # 0
    BY EmptySeq
<1>3. x \notin S /\ x \in R
    BY DEF TagSigns, Clean, Separators, Keys
<1>4. ASSUME NEW k \in 1..n
      PROVE  Written(ts[k]) \in Seq(S) /\ ReadTag(Written(ts[k])) = <<<<ts[k][1]>>, ts[k][2]>>
    <2>1. PICK key \in K, v \in Seq(V) : ts[k] = <<key, v>>
        BY <1>1
    <2>2. ts[k][1] = key /\ ts[k][2] = v
        BY <2>1
    <2>3. /\ Written(<<key, v>>) \in Seq(TagSigns(V, K))
          /\ ReadTag(Written(<<key, v>>)) = <<<<key>>, v>>
        BY TagRead
    <2> QED
        BY <2>1, <2>2, <2>3
<1>5. ASSUME NEW k \in 1..n PROVE Written(ts[k]) \in X
    <2> DEFINE w == Written(ts[k])
    <2>1. w \in Seq(S) /\ S \subseteq R
        BY <1>4
    <2> HIDE DEF w, S, R, x
    <2>2. w \in Seq(R)
        BY <2>1, SeqMonotonic
    <2>3. Free(w, x)
        BY <1>3, <2>1, ElementOfSeq DEF Free
    <2> QED
        BY <2>2, <2>3 DEF Piece, w
<1>6. ps \in Seq(X) /\ Len(ps) = n /\ DOMAIN ps = 1..n
    <2>1. ps \in [1..n -> X]
        BY <1>1, <1>5
    <2> HIDE DEF ps, X, n
    <2> QED
        BY <1>1, <2>1
<1>7. ps # <<>>
    <2> HIDE DEF ps
    <2> QED
        BY <1>2, <1>6
<1>8. Join(ps, x) \in Seq(R) /\ Split(Join(ps, x), x) = ToSet(ps)
    <2> HIDE DEF ps, R, x
    <2> QED
        BY <1>3, <1>6, <1>7, JoinedPieces DEF Pieces
<1>9. ToSet(ps) = {Written(ts[k]) : k \in 1..n}
    <2>1. ToSet(ps) = {ps[k] : k \in DOMAIN ps}
        BY DEF ToSet
    <2> QED
        BY <1>1, <1>6, <2>1
<1>10. ParseTags(TagText(ts)) = {ReadTag(part) : part \in Split(TagText(ts), ";")}
    BY DEF ParseTags, ReadTag
<1>11. TagText(ts) = Join(ps, x)
    BY DEF TagText
<1>12. ParseTags(TagText(ts)) = {ReadTag(part) : part \in {Written(ts[k]) : k \in 1..n}}
    BY <1>8, <1>9, <1>10, <1>11
<1> HIDE DEF ps, S, x
<1>13. {ReadTag(part) : part \in {Written(ts[k]) : k \in 1..n}} = {<<<<ts[k][1]>>, ts[k][2]>> : k \in 1..n}
    BY <1>4
<1>14. ParseTags(TagText(ts)) = ReadTags(ts)
    BY <1>1, <1>12, <1>13 DEF ReadTags
<1>15. FormatMessageTags(ts) = <<"@">> \o TagText(ts)
    BY DEF FormatMessageTags, TagText, Written
<1>16. TagText(ts) \in Seq(TagSigns(V, K) \cup {";"})
    BY <1>8, <1>11 DEF S, x
<1> QED
    BY <1>14, <1>15, <1>16

-----------------------------------------------------------------------------
(* A line with tags, taken apart *)

Parses(l, u, p, w, t) ==
    ParseIrcLine(l) = [tags |-> ParseTags(u), prefix |-> p, command |-> Arg(w, 1),
                       params |-> Params(SubSeq(w, 2, Len(w)), t)]

\* What the client makes of the parts of a line.
LEMMA ParseIs ==
    ASSUME NEW l, NEW r, NEW n, NEW u, NEW p, NEW j, NEW t, NEW w,
           Inner(" ", l, "@", u), After(l, Find(l, " ")) = r,
           Inner(" ", r, ":", p), After(r, Find(r, " ")) = n, Taken(n, j, t), Words(j) = w
    PROVE  Parses(l, u, p, w, t)
<1>1. TrailingAt(n) # 0 /\ Before(n, TrailingAt(n)) = j /\ After(n, TrailingAt(n) + 1) = t
    BY DEF Taken
<1> QED
    BY <1>1 DEF Parses, ParseIrcLine, Inner

SameAs(s, t, z) ==
    /\ Len(z) = Len(s) + Len(t)
    /\ \A i \in 1..Len(s) : s[i] = z[i]
    /\ \A i \in 1..Len(t) : t[i] = z[Len(s) + i]

\* A concatenation, by its elements.
LEMMA ConcatIs ==
    ASSUME NEW X, NEW s \in Seq(X), NEW t \in Seq(X), NEW z \in Seq(X), SameAs(s, t, z)
    PROVE  s \o t = z
<1> DEFINE v == s \o t
<1>0. /\ Len(z) = Len(s) + Len(t)
      /\ \A i \in 1..Len(s) : s[i] = z[i]
      /\ \A i \in 1..Len(t) : t[i] = z[Len(s) + i]
    BY DEF SameAs
<1>1. /\ v \in Seq(X) /\ Len(v) = Len(s) + Len(t) /\ Len(s) \in Nat /\ Len(t) \in Nat
      /\ \A i \in 1..(Len(s) + Len(t)) : v[i] = IF i <= Len(s) THEN s[i] ELSE t[i - Len(s)]
    BY ConcatProperties, LenProperties
<1> HIDE DEF v
<1>2. ASSUME NEW i \in 1..Len(z) PROVE v[i] = z[i]
    <2>1. CASE i <= Len(s)
        <3>1. i \in 1..Len(s) /\ i \in 1..(Len(s) + Len(t))
            BY <1>0, <1>1, <2>1
        <3> QED
            BY <1>0, <1>1, <2>1, <3>1
    <2>2. CASE ~(i <= Len(s))
        <3>1. i - Len(s) \in 1..Len(t) /\ i \in 1..(Len(s) + Len(t)) /\ Len(s) + (i - Len(s)) = i
            BY <1>0, <1>1, <2>2
        <3> QED
            BY <1>0, <1>1, <2>2, <3>1
    <2> QED
        BY <2>1, <2>2
<1>3. v = z
    BY <1>0, <1>1, <1>2, SeqEqual
<1> QED
    BY <1>3 DEF v

Heads(a, s, z) == <<a>> \o s = z

\* Three words are one in front of the others.
LEMMA ThreeIs ==
    ASSUME NEW X, NEW a \in X, NEW b \in X, NEW c \in X
    PROVE  Heads(a, <<b, c>>, <<a, b, c>>)
<1> DEFINE s == <<a>>
           t == <<b, c>>
           z == <<a, b, c>>
<1>1. s \in Seq(X) /\ Len(s) = 1 /\ t \in Seq(X) /\ Len(t) = 2 /\ z \in Seq(X) /\ Len(z) = 3
    OBVIOUS
<1>2. s[1] = z[1] /\ t[1] = z[2] /\ t[2] = z[3]
    OBVIOUS
<1> HIDE DEF s, t, z
<1>3. (\A i \in 1..Len(s) : s[i] = z[i]) /\ (\A i \in 1..Len(t) : t[i] = z[Len(s) + i])
      /\ Len(z) = Len(s) + Len(t)
    BY <1>1, <1>2
<1>4. s \o t = z
    BY <1>1, <1>3, ConcatIs DEF SameAs
<1> QED
    BY <1>4 DEF Heads, s, t, z

\* Four words are one and three.
LEMMA ListIs ==
    ASSUME NEW X, NEW a \in X, NEW b \in X, NEW c \in X, NEW d \in X
    PROVE  Heads(a, <<b, c, d>>, <<a, b, c, d>>)
<1>1. <<a>> \o <<b, c, d>> = <<a, b, c, d>>
    <2> DEFINE s == <<a>>
               t == <<b, c, d>>
               z == <<a, b, c, d>>
    <2>1. s \in Seq(X) /\ Len(s) = 1 /\ t \in Seq(X) /\ Len(t) = 3 /\ z \in Seq(X) /\ Len(z) = 4
        OBVIOUS
    <2>2. s[1] = z[1] /\ t[1] = z[2] /\ t[2] = z[3] /\ t[3] = z[4]
        OBVIOUS
    <2> HIDE DEF s, t, z
    <2>3. (\A i \in 1..Len(s) : s[i] = z[i]) /\ (\A i \in 1..Len(t) : t[i] = z[Len(s) + i])
          /\ Len(z) = Len(s) + Len(t)
        BY <2>1, <2>2
    <2>4. s \o t = z
        BY <2>1, <2>3, ConcatIs DEF SameAs
    <2> QED
        BY <2>4 DEF s, t, z
<1> QED
    BY <1>1 DEF Heads

-----------------------------------------------------------------------------
(* Sequences put together from parts *)

Associates(a, h, g) == (a \o h) \o g = a \o (h \o g)

\* Three texts after each other.
LEMMA AssociatesIs ==
    ASSUME NEW S, NEW a \in Seq(S), NEW h \in Seq(S), NEW g \in Seq(S)
    PROVE  Associates(a, h, g)
BY ConcatAssociative DEF Associates

\* Flattening is of the parts.
LEMMA FlattenConcat ==
    ASSUME NEW S, NEW vs \in Seq(Seq(S)), NEW tt \in Seq(Seq(S))
    PROVE  FlattenSeq(vs \o tt) = FlattenSeq(vs) \o FlattenSeq(tt)
<1> DEFINE T == Seq(S)
           F(ss) == FlattenSeq(ss)
           P == {n \in Nat : \A ss \in Seq(T) : Len(ss) = n => F(ss \o tt) = F(ss) \o F(tt)}
<1>1. \A a \in T : \A ss \in Seq(T) : F(<<a>> \o ss) = a \o F(ss)
    BY FlattenCons
<1>2. \A ss \in Seq(T) : F(ss) \in T
    <2>1. <<>> \in T
        BY EmptySeq
    <2> QED
        BY <2>1, FlattenCons
<1>3. F(<<>>) = <<>>
    BY DEF FlattenSeq
<1> HIDE DEF F
<1>4. tt \in Seq(T) /\ vs \in Seq(T)
    OBVIOUS
<1>5. 0 \in P
    <2> SUFFICES ASSUME NEW ss \in Seq(T), Len(ss) = 0 PROVE F(ss \o tt) = F(ss) \o F(tt)
        OBVIOUS
    <2> DEFINE G == F(tt)
    <2>1. ss = <<>>
        BY EmptySeq
    <2>2. <<>> \o tt = tt
        BY <1>4, ConcatEmptySeq
    <2>3. G \in Seq(S)
        BY <1>2, <1>4
    <2> HIDE DEF G
    <2>4. <<>> \o G = G
        BY <2>3, ConcatEmptySeq
    <2> QED
        BY <1>3, <2>1, <2>2, <2>4 DEF G
<1>6. ASSUME NEW n \in Nat, n \in P PROVE n + 1 \in P
    <2> DEFINE k == n + 1
    <2>1. ASSUME NEW ss \in Seq(T), Len(ss) = k PROVE F(ss \o tt) = F(ss) \o F(tt)
        <3> DEFINE a == Head(ss)
                   us == Tail(ss)
                   G == F(tt)
                   H == F(us)
        <3> HIDE DEF T
        <3>1. ss # <<>>
            BY <2>1
        <3>2. a \in T /\ us \in Seq(T) /\ ss = <<a>> \o us
            BY <3>1, TailFacts
        <3>3. Len(us) = n
            BY <2>1, <3>1
        <3> HIDE DEF a, us
        <3>4. F(us \o tt) = H \o G
            BY <1>6, <3>2, <3>3
        <3>5. us \o tt \in Seq(T) /\ <<a>> \in Seq(T)
            BY <1>4, <3>2, ConcatProperties
        <3>6. (<<a>> \o us) \o tt = <<a>> \o (us \o tt)
            BY <1>4, <3>2, <3>5, ConcatAssociative
        <3>7. F(ss \o tt) = a \o (H \o G) /\ F(ss) = a \o H
            BY <1>1, <3>2, <3>4, <3>5, <3>6
        <3>8. G \in Seq(S) /\ H \in Seq(S) /\ a \in Seq(S)
            BY <1>2, <1>4, <3>2 DEF T
        <3> HIDE DEF G, H
        <3>9. Associates(a, H, G)
            BY <3>8, AssociatesIs
        <3> QED
            BY <3>7, <3>9 DEF G, Associates
    <2>2. k \in Nat
        OBVIOUS
    <2> HIDE DEF k
    <2>3. k \in P
        BY <2>1, <2>2
    <2> QED
        BY <2>3 DEF k
<1>7. Len(vs) \in P
    <2>1. Len(vs) \in Nat
        BY <1>4, LenProperties
    <2> HIDE DEF P
    <2> QED
        BY <1>5, <1>6, <2>1, NatUpward
<1> QED
    BY <1>4, <1>7 DEF F

\* a function on each element of a sequence
Mapped(f, v) == [k \in DOMAIN v |-> f[v[k]]]
MapsTo(f, v, u, Y) == u \in Seq(Y) /\ Len(u) = Len(v) /\ \A i \in 1..Len(v) : u[i] = f[v[i]]
MapsOver(f, v, w) == Mapped(f, v \o w) = Mapped(f, v) \o Mapped(f, w)

\* It has as many elements, and each is the value of the function.
LEMMA MappedIs ==
    ASSUME NEW X, NEW Y, NEW f \in [X -> Y], NEW v \in Seq(X)
    PROVE  MapsTo(f, v, Mapped(f, v), Y)
<1> DEFINE n == Len(v)
           u == Mapped(f, v)
<1>1. n \in Nat /\ DOMAIN v = 1..n /\ \A i \in 1..n : v[i] \in X
    BY ElementOfSeq, LenProperties
<1>2. u \in [1..n -> Y] /\ \A i \in 1..n : u[i] = f[v[i]]
    BY <1>1 DEF Mapped
<1> HIDE DEF n, u
<1>3. u \in Seq(Y) /\ Len(u) = n
    BY <1>1, <1>2
<1> QED
    BY <1>2, <1>3 DEF n, u, MapsTo

\* It is applied to each part.
LEMMA MappedConcat ==
    ASSUME NEW X, NEW Y, NEW f \in [X -> Y], NEW v \in Seq(X), NEW w \in Seq(X)
    PROVE  v \o w \in Seq(X) /\ MapsOver(f, v, w)
<1> DEFINE p == Len(v)
           q == Len(w)
           u == v \o w
           a == Mapped(f, v)
           b == Mapped(f, w)
           s == Mapped(f, u)
           t == a \o b
<1>1. p \in Nat /\ q \in Nat
    BY LenProperties
<1>2. u \in Seq(X) /\ Len(u) = p + q /\ \A i \in 1..(p + q) : u[i] = IF i <= p THEN v[i] ELSE w[i - p]
    BY ConcatProperties
<1> HIDE DEF u
<1>3. s \in Seq(Y) /\ Len(s) = p + q /\ \A i \in 1..(p + q) : s[i] = f[u[i]]
    <2>1. MapsTo(f, u, s, Y)
        BY <1>2, MappedIs
    <2> HIDE DEF s
    <2> QED
        BY <1>2, <2>1 DEF MapsTo
<1>4. a \in Seq(Y) /\ Len(a) = p /\ \A i \in 1..p : a[i] = f[v[i]]
    <2>1. MapsTo(f, v, a, Y)
        BY MappedIs
    <2> HIDE DEF a
    <2> QED
        BY <2>1 DEF MapsTo
<1>5. b \in Seq(Y) /\ Len(b) = q /\ \A i \in 1..q : b[i] = f[w[i]]
    <2>1. MapsTo(f, w, b, Y)
        BY MappedIs
    <2> HIDE DEF b
    <2> QED
        BY <2>1 DEF MapsTo
<1> HIDE DEF s, a, b
<1>6. t \in Seq(Y) /\ Len(t) = p + q /\ \A i \in 1..(p + q) : t[i] = IF i <= p THEN a[i] ELSE b[i - p]
    <2>1. /\ a \o b \in Seq(Y) /\ Len(a \o b) = Len(a) + Len(b)
          /\ \A i \in 1..(Len(a) + Len(b)) : (a \o b)[i] = IF i <= Len(a) THEN a[i] ELSE b[i - Len(a)]
        BY <1>4, <1>5, ConcatProperties
    <2> QED
        BY <1>4, <1>5, <2>1
<1> HIDE DEF t, p, q
<1>7. ASSUME NEW i \in 1..(p + q) PROVE s[i] = t[i]
    <2>1. CASE i <= p
        <3>1. i \in 1..p
            BY <1>1, <2>1
        <3>2. u[i] = v[i] /\ t[i] = a[i]
            BY <1>2, <1>6, <2>1
        <3> QED
            BY <1>3, <1>4, <3>1, <3>2
    <2>2. CASE ~(i <= p)
        <3> DEFINE j == i - p
        <3>1. j \in 1..q
            BY <1>1, <2>2
        <3>2. u[i] = w[j] /\ t[i] = b[j]
            BY <1>2, <1>6, <2>2
        <3> HIDE DEF j
        <3> QED
            BY <1>3, <1>5, <3>1, <3>2
    <2> QED
        BY <2>1, <2>2
<1>8. s = t
    BY <1>3, <1>6, <1>7, SeqEqual
<1> QED
    BY <1>2, <1>8 DEF MapsOver, s, t, u, a, b

-----------------------------------------------------------------------------
(* Places added and taken away, in order *)

\* f goes up through S: with one more place x at the end, and up to the place h
Grown(f, m, S, x) ==
    \E g : /\ Enumerates(g, m + 1, S \cup {x})
           /\ g[m + 1] = x
           /\ \A i \in 1..m : g[i] = f[i]
Shortened(f, m, S, h, n) ==
    \E j \in 0..m : /\ Enumerates([i \in 1..j |-> f[i]], j, {x \in S : x <= h})
                    /\ h = n => j = m

\* One more place after the others.
LEMMA GrownIs ==
    ASSUME NEW n \in Nat, NEW S, S \subseteq 1..n, NEW m \in Nat, NEW f, Enumerates(f, m, S)
    PROVE  Grown(f, m, S, n + 1)
<1> DEFINE x == n + 1
           p == m + 1
           T == S \cup {x}
           g == [i \in 1..p |-> IF i = p THEN x ELSE f[i]]
<1>1. /\ f \in [1..m -> S]
      /\ \A i, j \in 1..m : i < j => f[i] < f[j]
      /\ \A y \in S : \E i \in 1..m : f[i] = y
    BY DEF Enumerates
<1>2. p \in Nat /\ p \in 1..p /\ (\A i \in 1..m : i \in 1..p /\ i # p) /\ \A i \in 1..p : i # p => i \in 1..m
    OBVIOUS
<1>3. \A i \in 1..m : f[i] \in S /\ f[i] < x /\ f[i] \in Nat
    <2>1. ASSUME NEW i \in 1..m PROVE f[i] \in S /\ f[i] < x /\ f[i] \in Nat
        <3>1. f[i] \in S
            BY <1>1
        <3>2. f[i] \in 1..n
            BY <3>1
        <3> QED
            BY <3>1, <3>2
    <2> QED
        BY <2>1
<1> HIDE DEF x, p
<1>4. g \in [1..p -> T] /\ g[p] = x /\ \A i \in 1..m : g[i] = f[i]
    <2>1. \A i \in 1..p : (IF i = p THEN x ELSE f[i]) \in T
        BY <1>2, <1>3
    <2> QED
        BY <1>2, <2>1
<1> HIDE DEF g
<1>5. ASSUME NEW i \in 1..p, NEW j \in 1..p, i < j PROVE g[i] < g[j]
    <2>1. i # p
        BY <1>2, <1>5
    <2>2. i \in 1..m /\ g[i] = f[i]
        BY <1>2, <1>4, <2>1
    <2>3. CASE j = p
        BY <1>3, <1>4, <2>2, <2>3
    <2>4. CASE j # p
        <3>1. j \in 1..m /\ g[j] = f[j]
            BY <1>2, <1>4, <2>4
        <3> QED
            BY <1>1, <1>5, <2>2, <3>1
    <2> QED
        BY <2>3, <2>4
<1>6. ASSUME NEW y \in T PROVE \E i \in 1..p : g[i] = y
    <2>1. CASE y = x
        BY <1>2, <1>4, <2>1
    <2>2. CASE y # x
        <3>1. y \in S
            BY <2>2
        <3>2. PICK i \in 1..m : f[i] = y
            BY <1>1, <3>1
        <3> QED
            BY <1>2, <1>4, <3>2
    <2> QED
        BY <2>1, <2>2
<1>7. Enumerates(g, p, T)
    BY <1>4, <1>5, <1>6 DEF Enumerates
<1> QED
    BY <1>4, <1>7 DEF Grown, p, x

\* The places up to one of them.
LEMMA ShortenedIs ==
    ASSUME NEW n \in Nat, NEW S, S \subseteq 1..n, NEW m \in Nat, NEW f, Enumerates(f, m, S), NEW h \in 0..n
    PROVE  Shortened(f, m, S, h, n)
<1> DEFINE C == {k \in 1..m : f[k] <= h} \cup {0}
           j == Max(C)
           T == {x \in S : x <= h}
           g == [i \in 1..j |-> f[i]]
<1>1. /\ f \in [1..m -> S]
      /\ \A i, k \in 1..m : i < k => f[i] < f[k]
      /\ \A y \in S : \E i \in 1..m : f[i] = y
    BY DEF Enumerates
<1>2. \A i \in 1..m : f[i] \in S /\ f[i] \in Nat /\ f[i] <= n
    <2>1. ASSUME NEW i \in 1..m PROVE f[i] \in S /\ f[i] \in Nat /\ f[i] <= n
        <3>1. f[i] \in S
            BY <1>1
        <3>2. f[i] \in 1..n
            BY <3>1
        <3> QED
            BY <3>1, <3>2
    <2> QED
        BY <2>1
<1>3. C \subseteq 0..m /\ C # {} /\ 0 \in C
    OBVIOUS
<1>4. j \in C /\ \A k \in C : k <= j
    <2> HIDE DEF C
    <2> QED
        BY <1>3, Greatest
<1>5. j \in 0..m /\ (j # 0 => f[j] <= h) /\ \A k \in 1..m : f[k] <= h => k <= j
    <2>1. \A k \in 1..m : f[k] <= h => k \in C
        OBVIOUS
    <2>2. j # 0 => j \in {k \in 1..m : f[k] <= h}
        BY <1>4
    <2> HIDE DEF C, j
    <2> QED
        BY <1>3, <1>4, <2>1, <2>2
<1> HIDE DEF j, C
<1>6. ASSUME NEW i \in 1..j PROVE i \in 1..m /\ f[i] \in T
    <2>1. i \in 1..m /\ j \in 1..m /\ j # 0 /\ (i = j \/ i < j)
        BY <1>5
    <2>2. f[i] = f[j] \/ f[i] < f[j]
        BY <1>1, <2>1
    <2>3. f[i] <= h
        BY <1>2, <1>5, <2>1, <2>2
    <2> QED
        BY <1>2, <2>1, <2>3
<1>7. g \in [1..j -> T] /\ \A i \in 1..j : g[i] = f[i]
    BY <1>6
<1> HIDE DEF g
<1>8. \A i, k \in 1..j : i < k => g[i] < g[k]
    BY <1>1, <1>6, <1>7
<1>9. ASSUME NEW y \in T PROVE \E i \in 1..j : g[i] = y
    <2>1. PICK i \in 1..m : f[i] = y
        BY <1>1
    <2>2. i \in 1..j
        BY <1>5, <2>1
    <2> QED
        BY <1>7, <2>1, <2>2
<1>10. Enumerates(g, j, T)
    BY <1>7, <1>8, <1>9 DEF Enumerates
<1>11. ASSUME h = n PROVE j = m
    <2>1. CASE m = 0
        BY <1>5, <2>1
    <2>2. CASE m # 0
        <3>1. m \in 1..m
            BY <2>2
        <3>2. f[m] <= h
            BY <1>2, <1>11, <3>1
        <3> QED
            BY <1>5, <3>1, <3>2
    <2> QED
        BY <2>1, <2>2
<1> QED
    BY <1>5, <1>10, <1>11 DEF Shortened, g, T

=============================================================================
