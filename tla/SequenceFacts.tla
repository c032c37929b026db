--------------------------- MODULE SequenceFacts ----------------------------
(***************************************************************************)
(* What the operators on sequences that the models use return, as the      *)
(* proofs need it: which elements a sequence has, and whether any of them  *)
(* occurs twice.                                                           *)
(***************************************************************************)
EXTENDS Integers, Sequences, SequencesExt, SequenceTheorems, FiniteSetTheorems, TLAPS

\* A sequence has the elements of its places.
LEMMA ToSetMember ==
    ASSUME NEW S, NEW s \in Seq(S), NEW x
    PROVE  /\ x \in ToSet(s) <=> \E i \in 1..Len(s) : s[i] = x
           /\ ToSet(s) \subseteq S
BY DEF ToSet

\* Concatenation unites the elements.
LEMMA ToSetConcat ==
    ASSUME NEW S, NEW s \in Seq(S), NEW t \in Seq(S)
    PROVE  s \o t \in Seq(S) /\ ToSet(s \o t) = ToSet(s) \cup ToSet(t)
<1> DEFINE u == s \o t
<1>1. /\ u \in Seq(S) /\ Len(u) = Len(s) + Len(t)
      /\ Len(s) \in Nat /\ Len(t) \in Nat
      /\ DOMAIN s = 1..Len(s) /\ DOMAIN t = 1..Len(t) /\ DOMAIN u = 1..Len(u)
      /\ \A i \in 1..Len(s) + Len(t) : u[i] = IF i <= Len(s) THEN s[i] ELSE t[i - Len(s)]
    BY ConcatProperties, LenProperties
<1> HIDE DEF u
<1>2. ToSet(u) \subseteq ToSet(s) \cup ToSet(t)
    <2> SUFFICES ASSUME NEW i \in 1..Len(u) PROVE u[i] \in ToSet(s) \cup ToSet(t)
        BY <1>1 DEF ToSet
    <2>1. CASE i <= Len(s)
        BY <1>1, <2>1 DEF ToSet
    <2>2. CASE i > Len(s)
        <3>1. u[i] = t[i - Len(s)] /\ i - Len(s) \in 1..Len(t)
            BY <1>1, <2>2
        <3> QED
            BY <1>1, <3>1 DEF ToSet
    <2> QED
        BY <1>1, <2>1, <2>2
<1>3. ToSet(s) \subseteq ToSet(u)
    <2> SUFFICES ASSUME NEW i \in 1..Len(s) PROVE s[i] \in ToSet(u)
        BY DEF ToSet
    <2>1. i \in 1..Len(u) /\ u[i] = s[i]
        BY <1>1
    <2> QED
        BY <1>1, <2>1 DEF ToSet
<1>4. ToSet(t) \subseteq ToSet(u)
    <2> SUFFICES ASSUME NEW i \in 1..Len(t) PROVE t[i] \in ToSet(u)
        BY DEF ToSet
    <2>1. i + Len(s) \in 1..Len(u) /\ u[i + Len(s)] = t[i]
        BY <1>1
    <2> QED
        BY <1>1, <2>1 DEF ToSet
<1> QED
    BY <1>1, <1>2, <1>3, <1>4 DEF u

\* Nothing occurs twice in a concatenation if nothing does in either part and
\* they have nothing in common.
LEMMA InjectiveConcat ==
    ASSUME NEW S, NEW s \in Seq(S), NEW t \in Seq(S)
    PROVE  IsInjective(s \o t) <=>
             IsInjective(s) /\ IsInjective(t) /\ ToSet(s) \cap ToSet(t) = {}
<1> DEFINE u == s \o t
<1>1. /\ u \in Seq(S) /\ Len(u) = Len(s) + Len(t)
      /\ Len(s) \in Nat /\ Len(t) \in Nat
      /\ DOMAIN s = 1..Len(s) /\ DOMAIN t = 1..Len(t) /\ DOMAIN u = 1..Len(u)
      /\ \A i \in 1..Len(s) + Len(t) : u[i] = IF i <= Len(s) THEN s[i] ELSE t[i - Len(s)]
    BY ConcatProperties, LenProperties
<1> HIDE DEF u
<1>2. \A i \in 1..Len(s) : i \in 1..Len(u) /\ u[i] = s[i]
    BY <1>1
<1>3. ASSUME NEW i \in 1..Len(t) PROVE i + Len(s) \in 1..Len(u) /\ u[i + Len(s)] = t[i]
    <2>1. /\ i + Len(s) \in 1..Len(s) + Len(t) /\ ~(i + Len(s) <= Len(s))
          /\ (i + Len(s)) - Len(s) = i
        BY <1>1
    <2> QED
        BY <1>1, <2>1
<1>4. ASSUME IsInjective(u) PROVE IsInjective(s) /\ IsInjective(t) /\ ToSet(s) \cap ToSet(t) = {}
    <2>1. IsInjective(s)
        BY <1>1, <1>2, <1>4 DEF IsInjective
    <2>2. IsInjective(t)
        <3> SUFFICES ASSUME NEW i \in 1..Len(t), NEW j \in 1..Len(t), t[i] = t[j] PROVE i = j
            BY DEF IsInjective
        <3>1. i + Len(s) = j + Len(s)
            BY <1>1, <1>3, <1>4 DEF IsInjective
        <3> QED
            BY <3>1
    <2>3. ToSet(s) \cap ToSet(t) = {}
        <3> SUFFICES ASSUME NEW i \in 1..Len(s), NEW j \in 1..Len(t), s[i] = t[j] PROVE FALSE
            BY DEF ToSet
        <3>1. i = j + Len(s)
            BY <1>1, <1>2, <1>3, <1>4 DEF IsInjective
        <3> QED
            BY <3>1
    <2> QED
        BY <2>1, <2>2, <2>3
<1>5. ASSUME IsInjective(s), IsInjective(t), ToSet(s) \cap ToSet(t) = {} PROVE IsInjective(u)
    <2> SUFFICES ASSUME NEW i \in 1..Len(u), NEW j \in 1..Len(u), u[i] = u[j] PROVE i = j
        BY <1>1 DEF IsInjective
    <2>1. CASE i <= Len(s) /\ j <= Len(s)
        BY <1>1, <1>5, <2>1 DEF IsInjective
    <2>2. CASE i > Len(s) /\ j > Len(s)
        <3>1. t[i - Len(s)] = t[j - Len(s)] /\ i - Len(s) \in 1..Len(t) /\ j - Len(s) \in 1..Len(t)
            BY <1>1, <2>2
        <3>2. i - Len(s) = j - Len(s)
            BY <1>5, <3>1 DEF IsInjective
        <3> QED
            BY <3>2
    <2>3. CASE i <= Len(s) /\ j > Len(s)
        <3>1. u[i] = s[i] /\ i \in 1..Len(s) /\ u[j] = t[j - Len(s)] /\ j - Len(s) \in 1..Len(t)
            BY <1>1, <2>3
        <3> QED
            BY <1>1, <1>5, <3>1 DEF ToSet
    <2>4. CASE j <= Len(s) /\ i > Len(s)
        <3>1. u[j] = s[j] /\ j \in 1..Len(s) /\ u[i] = t[i - Len(s)] /\ i - Len(s) \in 1..Len(t)
            BY <1>1, <2>4
        <3> QED
            BY <1>1, <1>5, <3>1 DEF ToSet
    <2> QED
        BY <2>1, <2>2, <2>3, <2>4, <1>1
<1> QED
    BY <1>4, <1>5 DEF u

\* A sequence of one element, and the empty one.
LEMMA SingletonFacts ==
    ASSUME NEW S, NEW x \in S
    PROVE  /\ <<x>> \in Seq(S) /\ ToSet(<<x>>) = {x} /\ IsInjective(<<x>>)
           /\ <<>> \in Seq(S) /\ ToSet(<<>>) = {} /\ IsInjective(<<>>)
BY DEF ToSet, IsInjective

\* Append adds one element at the end.
LEMMA AppendFacts ==
    ASSUME NEW S, NEW s \in Seq(S), NEW x \in S
    PROVE  /\ Append(s, x) \in Seq(S) /\ ToSet(Append(s, x)) = ToSet(s) \cup {x}
           /\ IsInjective(Append(s, x)) <=> IsInjective(s) /\ x \notin ToSet(s)
<1> DEFINE w == <<x>>
<1>1. Append(s, x) = s \o w
    BY AppendIsConcat
<1>2. w \in Seq(S) /\ ToSet(w) = {x} /\ IsInjective(w)
    BY SingletonFacts
<1> HIDE DEF w
<1> QED
    BY <1>1, <1>2, ToSetConcat, InjectiveConcat

\* Reversing keeps the elements.
LEMMA ReverseFacts ==
    ASSUME NEW S, NEW s \in Seq(S)
    PROVE  /\ Reverse(s) \in Seq(S) /\ Len(Reverse(s)) = Len(s)
           /\ ToSet(Reverse(s)) = ToSet(s)
           /\ IsInjective(s) => IsInjective(Reverse(s))
<1> DEFINE r == Reverse(s)
<1>1. /\ Len(s) \in Nat /\ r \in Seq(S) /\ Len(r) = Len(s)
      /\ DOMAIN s = 1..Len(s) /\ DOMAIN r = 1..Len(s)
      /\ \A i \in 1..Len(s) : r[i] = s[(Len(s) - i) + 1]
    BY LenProperties DEF Reverse
<1> HIDE DEF r
<1>2. \A i \in 1..Len(s) : (Len(s) - i) + 1 \in 1..Len(s) /\ s[i] = r[(Len(s) - i) + 1]
    BY <1>1
<1>3. ToSet(r) = ToSet(s)
    <2>1. ASSUME NEW i \in 1..Len(s) PROVE r[i] \in ToSet(s) /\ s[i] \in ToSet(r)
        BY <1>1, <1>2 DEF ToSet
    <2>2. ToSet(r) = {r[i] : i \in 1..Len(s)} /\ ToSet(s) = {s[i] : i \in 1..Len(s)}
        BY <1>1 DEF ToSet
    <2> QED
        BY <2>1, <2>2
<1>4. ASSUME IsInjective(s) PROVE IsInjective(r)
    <2> SUFFICES ASSUME NEW i \in 1..Len(s), NEW j \in 1..Len(s), r[i] = r[j] PROVE i = j
        BY <1>1 DEF IsInjective
    <2>1. (Len(s) - i) + 1 = (Len(s) - j) + 1
        BY <1>1, <1>2, <1>4 DEF IsInjective
    <2> QED
        BY <1>1, <2>1
<1> QED
    BY <1>1, <1>3, <1>4 DEF r

\* A sequence is what it has up to some place, and what follows.
LEMMA CutFacts ==
    ASSUME NEW S, NEW s \in Seq(S), NEW k \in 0..Len(s)
    PROVE  /\ SubSeq(s, 1, k) \in Seq(S) /\ Len(SubSeq(s, 1, k)) = k
           /\ SubSeq(s, k + 1, Len(s)) \in Seq(S) /\ Len(SubSeq(s, k + 1, Len(s))) = Len(s) - k
           /\ s = SubSeq(s, 1, k) \o SubSeq(s, k + 1, Len(s))
           /\ ToSet(s) = ToSet(SubSeq(s, 1, k)) \cup ToSet(SubSeq(s, k + 1, Len(s)))
           /\ IsInjective(s) =>
                /\ IsInjective(SubSeq(s, 1, k)) /\ IsInjective(SubSeq(s, k + 1, Len(s)))
                /\ ToSet(SubSeq(s, 1, k)) \cap ToSet(SubSeq(s, k + 1, Len(s))) = {}
<1> DEFINE a == SubSeq(s, 1, k)
           b == SubSeq(s, k + 1, Len(s))
<1>1. /\ a \in Seq(S) /\ Len(a) = k
      /\ b \in Seq(S) /\ Len(b) = Len(s) - k
    OBVIOUS
<1>2. s = a \o b
    <2>1. /\ 1 \in 1..Len(s) + 1 /\ k \in 1 - 1..Len(s) /\ Len(s) \in k..Len(s)
          /\ Len(s) \in Nat
        OBVIOUS
    <2>2. SubSeq(s, 1, k) \o SubSeq(s, k + 1, Len(s)) = SubSeq(s, 1, Len(s))
        BY <2>1, ConcatAdjacentSubSeq
    <2> QED
        BY <2>2, SubSeqFull
<1> HIDE DEF a, b
<1>3. ToSet(s) = ToSet(a) \cup ToSet(b)
    BY <1>1, <1>2, ToSetConcat
<1>4. IsInjective(s) => IsInjective(a) /\ IsInjective(b) /\ ToSet(a) \cap ToSet(b) = {}
    BY <1>1, <1>2, InjectiveConcat
<1> QED
    BY <1>1, <1>2, <1>3, <1>4 DEF a, b

\* A sequence that is not empty is its head and its tail.
LEMMA TailFacts ==
    ASSUME NEW S, NEW s \in Seq(S), s # <<>>
    PROVE  /\ Head(s) \in S /\ Tail(s) \in Seq(S)
           /\ ToSet(s) = {Head(s)} \cup ToSet(Tail(s))
           /\ IsInjective(s) => IsInjective(Tail(s)) /\ Head(s) \notin ToSet(Tail(s))
<1>1. Head(s) \in S /\ Tail(s) \in Seq(S)
    OBVIOUS
<1>2. s = <<Head(s)>> \o Tail(s)
    OBVIOUS
<1> DEFINE h == Head(s)
           t == Tail(s)
           w == <<h>>
<1>3. h \in S /\ t \in Seq(S) /\ s = w \o t
    BY <1>1, <1>2
<1> HIDE DEF h, t
<1>4. w \in Seq(S) /\ ToSet(w) = {h} /\ IsInjective(w)
    BY <1>3, SingletonFacts
<1> HIDE DEF w
<1>5. ToSet(s) = {h} \cup ToSet(t)
    BY <1>3, <1>4, ToSetConcat
<1>6. IsInjective(s) => IsInjective(t) /\ h \notin ToSet(t)
    BY <1>3, <1>4, InjectiveConcat
<1> QED
    BY <1>1, <1>5, <1>6 DEF h, t

\* RemoveAt takes one place out.
LEMMA RemoveAtFacts ==
    ASSUME NEW S, NEW s \in Seq(S), NEW k \in 1..Len(s)
    PROVE  /\ RemoveAt(s, k) \in Seq(S) /\ Len(RemoveAt(s, k)) = Len(s) - 1
           /\ ToSet(s) = ToSet(RemoveAt(s, k)) \cup {s[k]}
           /\ IsInjective(s) => IsInjective(RemoveAt(s, k)) /\ s[k] \notin ToSet(RemoveAt(s, k))
<1> DEFINE a == SubSeq(s, 1, k - 1)
           b == SubSeq(s, k, Len(s))
           c == SubSeq(s, k + 1, Len(s))
           w == <<s[k]>>
<1>1. /\ k - 1 \in 0..Len(s) /\ k \in 0..Len(s) /\ (k - 1) + 1 = k
      /\ a \in Seq(S) /\ Len(a) = k - 1 /\ c \in Seq(S) /\ Len(c) = Len(s) - k
      /\ b \in Seq(S) /\ s[k] \in S
    OBVIOUS
<1>2. b = w \o c
    BY SubSeqRecursiveFirst
<1>3. w \in Seq(S) /\ ToSet(w) = {s[k]} /\ IsInjective(w)
    BY <1>1, SingletonFacts
<1>4. s = a \o b
    BY <1>1, CutFacts
<1>5. RemoveAt(s, k) = a \o c
    BY DEF RemoveAt
<1> HIDE DEF a, b, c, w
<1>6. ToSet(b) = {s[k]} \cup ToSet(c) /\ ToSet(s) = ToSet(a) \cup ToSet(b)
    <2>1. ToSet(b) = ToSet(w) \cup ToSet(c)
        BY <1>1, <1>2, <1>3, ToSetConcat
    <2>2. ToSet(s) = ToSet(a) \cup ToSet(b)
        BY <1>1, <1>4, ToSetConcat
    <2> QED
        BY <1>3, <2>1, <2>2
<1>7. ToSet(a \o c) = ToSet(a) \cup ToSet(c) /\ a \o c \in Seq(S)
    BY <1>1, ToSetConcat
<1>8. Len(a \o c) = Len(s) - 1
    <2>1. Len(a \o c) = Len(a) + Len(c)
        BY <1>1, ConcatProperties
    <2>2. Len(s) \in Nat /\ k \in Int
        BY LenProperties
    <2> QED
        BY <1>1, <2>1, <2>2
<1>9. ASSUME IsInjective(s) PROVE IsInjective(a \o c) /\ s[k] \notin ToSet(a \o c)
    <2>1. IsInjective(a) /\ IsInjective(b) /\ ToSet(a) \cap ToSet(b) = {}
        BY <1>1, <1>4, <1>9, InjectiveConcat
    <2>2. IsInjective(c) /\ {s[k]} \cap ToSet(c) = {}
        BY <1>1, <1>2, <1>3, <2>1, InjectiveConcat
    <2> QED
        BY <1>1, <1>6, <1>7, <2>1, <2>2, InjectiveConcat
<1> QED
    BY <1>5, <1>6, <1>7, <1>8, <1>9

\* What follows the deleted place moves up by one.
LEMMA RemoveAtElements ==
    ASSUME NEW S, NEW s \in Seq(S), NEW k \in 1..Len(s), NEW i \in 1..Len(s) - 1
    PROVE  RemoveAt(s, k)[i] = IF i < k THEN s[i] ELSE s[i + 1]
<1> DEFINE a == SubSeq(s, 1, k - 1)
           b == SubSeq(s, k + 1, Len(s))
<1>1. /\ a \in Seq(S) /\ Len(a) = k - 1 /\ b \in Seq(S) /\ Len(b) = Len(s) - k
      /\ \A j \in 1..k - 1 : a[j] = s[j]
      /\ \A j \in 1..Len(s) - k : b[j] = s[k + j]
    OBVIOUS
<1>2. RemoveAt(s, k) = a \o b
    BY DEF RemoveAt
<1> HIDE DEF a, b
<1>3. (a \o b)[i] = IF i <= k - 1 THEN a[i] ELSE b[i - (k - 1)]
    BY <1>1
<1> QED
    BY <1>1, <1>2, <1>3

\* A sequence in which nothing occurs twice is as long as it has elements.
LEMMA InjectiveCount ==
    ASSUME NEW S, NEW s \in Seq(S), IsInjective(s)
    PROVE  IsFiniteSet(ToSet(s)) /\ Cardinality(ToSet(s)) = Len(s)
<1>1. Len(s) \in Nat /\ DOMAIN s = 1..Len(s)
    OBVIOUS
<1>2. s \in Bijection(1..Len(s), ToSet(s))
    BY <1>1 DEF Bijection, Injection, Surjection, IsInjective, ToSet
<1>3. IsFiniteSet(1..Len(s)) /\ Cardinality(1..Len(s)) = Len(s)
    BY <1>1, FS_Interval
<1> QED
    BY <1>2, <1>3, FS_Bijection DEF ExistsBijection

\* Two elements in front of a sequence.
LEMMA PairConcat ==
    ASSUME NEW S, NEW a \in S, NEW b \in S, NEW s \in Seq(S)
    PROVE  /\ <<a, b>> \o s \in Seq(S) /\ Len(<<a, b>> \o s) = Len(s) + 2
           /\ (<<a, b>> \o s)[1] = a /\ (<<a, b>> \o s)[2] = b
           /\ SubSeq(<<a, b>> \o s, 3, Len(<<a, b>> \o s)) = s
<1> DEFINE pre == <<a, b>>
           t == pre \o s
           u == SubSeq(t, 3, Len(t))
<1>1. /\ Len(s) \in Nat
      /\ pre \in Seq(S) /\ Len(pre) = 2 /\ pre[1] = a /\ pre[2] = b
    OBVIOUS
<1> HIDE DEF pre
<1>a. /\ t \in Seq(S) /\ Len(t) = Len(pre) + Len(s)
      /\ \A i \in 1..Len(pre) + Len(s) : t[i] = IF i <= Len(pre) THEN pre[i] ELSE s[i - Len(pre)]
    BY <1>1, ConcatProperties
<1>2. /\ t \in Seq(S) /\ Len(t) = Len(s) + 2 /\ t[1] = a /\ t[2] = b
      /\ \A i \in 1..Len(s) : t[i + 2] = s[i]
    BY <1>1, <1>a
<1> HIDE DEF t
<1>3. u \in Seq(S) /\ Len(u) = Len(s) /\ \A i \in 1..Len(s) : u[i] = t[3 + i - 1]
    BY <1>1, <1>2, SubSeqProperties
<1> HIDE DEF u
<1>4. \A i \in 1..Len(s) : u[i] = s[i]
    BY <1>1, <1>2, <1>3
<1>5. u = s
    BY <1>1, <1>3, <1>4, SeqEqual
<1> QED
    BY <1>2, <1>5 DEF u, t, pre

\* A sequence of two elements or more is these and its rest.
LEMMA PairCut ==
    ASSUME NEW S, NEW t \in Seq(S), Len(t) >= 2
    PROVE  /\ SubSeq(t, 3, Len(t)) \in Seq(S) /\ Len(SubSeq(t, 3, Len(t))) = Len(t) - 2
           /\ t = <<t[1], t[2]>> \o SubSeq(t, 3, Len(t))
<1> DEFINE pre == <<t[1], t[2]>>
           u == SubSeq(t, 3, Len(t))
           v == pre \o u
<1>1. /\ Len(t) \in Nat /\ t[1] \in S /\ t[2] \in S
      /\ \A i \in 3..Len(t) : t[i] \in S
      /\ pre \in Seq(S) /\ Len(pre) = 2 /\ pre[1] = t[1] /\ pre[2] = t[2]
    OBVIOUS
<1>b. /\ u \in Seq(S) /\ Len(u) = IF 3 <= Len(t) THEN Len(t) - 3 + 1 ELSE 0
      /\ \A i \in 1..(Len(t) - 3 + 1) : u[i] = t[3 + i - 1]
    BY <1>1, SubSeqProperties
<1> HIDE DEF pre, u
<1>2. u \in Seq(S) /\ Len(u) = Len(t) - 2 /\ \A i \in 1..(Len(t) - 2) : u[i] = t[3 + i - 1]
    BY <1>1, <1>b
<1>a. /\ v \in Seq(S) /\ Len(v) = Len(pre) + Len(u)
      /\ \A i \in 1..Len(pre) + Len(u) : v[i] = IF i <= Len(pre) THEN pre[i] ELSE u[i - Len(pre)]
    BY <1>1, <1>2, ConcatProperties
<1>3. /\ v \in Seq(S) /\ Len(v) = Len(t)
      /\ \A i \in 1..Len(t) : v[i] = IF i <= 2 THEN pre[i] ELSE u[i - 2]
    BY <1>1, <1>2, <1>a
<1> HIDE DEF v
<1>4. ASSUME NEW i \in 1..Len(t) PROVE v[i] = t[i]
    <2>1. CASE i \in {1, 2}
        BY <1>1, <1>3, <2>1
    <2>2. CASE i > 2
        <3>1. v[i] = u[i - 2] /\ i - 2 \in 1..(Len(t) - 2)
            BY <1>1, <1>3, <2>2
        <3>2. u[i - 2] = t[3 + (i - 2) - 1] /\ 3 + (i - 2) - 1 = i
            BY <1>2, <3>1
        <3> QED
            BY <3>1, <3>2
    <2> QED
        BY <1>1, <2>1, <2>2
<1>5. v = t
    BY <1>1, <1>3, <1>4, SeqEqual
<1> QED
    BY <1>2, <1>5 DEF v, u, pre

\* How often an element occurs in a sequence.
Places(s, x) == {i \in 1..Len(s) : s[i] = x}
Occurs(s, x) == Cardinality(Places(s, x))

\* There are finitely many places, and none for what is not in the sequence.
LEMMA OccursFacts ==
    ASSUME NEW S, NEW s \in Seq(S), NEW x
    PROVE  /\ IsFiniteSet(Places(s, x)) /\ Occurs(s, x) \in Nat
           /\ x \notin ToSet(s) => Occurs(s, x) = 0
<1>1. Len(s) \in Nat /\ DOMAIN s = 1..Len(s)
    OBVIOUS
<1>2. IsFiniteSet(Places(s, x))
    <2>1. Places(s, x) \subseteq 1..Len(s) /\ IsFiniteSet(1..Len(s))
        BY <1>1, FS_Interval DEF Places
    <2> QED
        BY <2>1, FS_Subset
<1>3. x \notin ToSet(s) => Places(s, x) = {}
    BY <1>1 DEF Places, ToSet
<1> QED
    BY <1>2, <1>3, FS_CardinalityType, FS_EmptySet DEF Occurs

\* What occurs in a concatenation occurs in its parts.
LEMMA OccursConcat ==
    ASSUME NEW S, NEW s \in Seq(S), NEW t \in Seq(S), NEW x
    PROVE  Occurs(s \o t, x) = Occurs(s, x) + Occurs(t, x)
<1> DEFINE u == s \o t
           n == Len(s)
           A == Places(s, x)
           B == Places(t, x)
           C == {i \in 1..Len(u) : i > n /\ u[i] = x}
           f == [j \in B |-> n + j]
<1>1. /\ u \in Seq(S) /\ Len(u) = n + Len(t)
      /\ n \in Nat /\ Len(t) \in Nat
      /\ \A i \in 1..n + Len(t) : u[i] = IF i <= n THEN s[i] ELSE t[i - n]
    BY ConcatProperties, LenProperties
<1>2. IsFiniteSet(A) /\ IsFiniteSet(B)
    BY OccursFacts
<1> HIDE DEF u, n
<1>3. Places(u, x) = A \cup C /\ A \cap C = {}
    <2>1. \A i \in 1..n : i \in 1..Len(u) /\ u[i] = s[i]
        BY <1>1
    <2>2. A = {i \in 1..n : s[i] = x}
        BY DEF Places, n
    <2>3. Places(u, x) = {i \in 1..Len(u) : u[i] = x}
        BY DEF Places
    <2> HIDE DEF A
    <2> QED
        BY <1>1, <2>1, <2>2, <2>3
<1>4. f \in Bijection(B, C)
    <2>1. B = {j \in 1..Len(t) : t[j] = x}
        BY DEF Places
    <2> HIDE DEF B
    <2>2. \A j \in B : n + j \in C
        BY <1>1, <2>1
    <2>3. ASSUME NEW i \in C PROVE i - n \in B /\ n + (i - n) = i
        BY <1>1, <2>1, <2>3
    <2>4. f \in [B -> C]
        BY <2>2
    <2>5. \A i, j \in B : f[i] = f[j] => i = j
        BY <1>1, <2>1
    <2>6. \A i \in C : \E j \in B : f[j] = i
        BY <2>3
    <2> QED
        <3> HIDE DEF f
        <3> QED
            BY <2>4, <2>5, <2>6 DEF Bijection, Injection, Surjection, IsInjective
<1>5. IsFiniteSet(C) /\ Cardinality(C) = Cardinality(B)
    BY <1>2, <1>4, FS_Bijection DEF ExistsBijection
<1> HIDE DEF A, B, C
<1>6. Cardinality(A \cup C) = Cardinality(A) + Cardinality(C)
    <2>1. /\ Cardinality(A \cup C) = Cardinality(A) + Cardinality(C) - Cardinality(A \cap C)
          /\ Cardinality(A) \in Nat /\ Cardinality(C) \in Nat /\ Cardinality(A \cap C) = 0
        BY <1>2, <1>3, <1>5, FS_Union, FS_CardinalityType, FS_EmptySet
    <2> QED
        BY <2>1
<1> QED
    BY <1>3, <1>5, <1>6 DEF Occurs, u, A, B

\* What occurs in a sequence of one element.
LEMMA OccursOne ==
    ASSUME NEW x, NEW y
    PROVE  Occurs(<<y>>, x) = IF y = x THEN 1 ELSE 0
<1>1. Len(<<y>>) = 1 /\ <<y>>[1] = y
    OBVIOUS
<1>2. Places(<<y>>, x) = IF y = x THEN {1} ELSE {}
    BY <1>1 DEF Places
<1> QED
    BY <1>2, FS_Singleton, FS_EmptySet DEF Occurs

\* An element more at the end.
LEMMA OccursAppend ==
    ASSUME NEW S, NEW s \in Seq(S), NEW x, NEW y \in S
    PROVE  Occurs(Append(s, y), x) = Occurs(s, x) + Occurs(<<y>>, x)
<1> DEFINE w == <<y>>
<1>1. Append(s, y) = s \o w /\ w \in Seq(S)
    BY AppendIsConcat, SingletonFacts
<1> HIDE DEF w
<1>2. Occurs(s \o w, x) = Occurs(s, x) + Occurs(w, x)
    BY <1>1, OccursConcat
<1> QED
    BY <1>1, <1>2 DEF w

\* The first element taken away.
LEMMA OccursHead ==
    ASSUME NEW S, NEW s \in Seq(S), s # <<>>, NEW x
    PROVE  Occurs(s, x) = Occurs(<<Head(s)>>, x) + Occurs(Tail(s), x)
<1> DEFINE h == <<Head(s)>>
           t == Tail(s)
<1>1. h \in Seq(S) /\ t \in Seq(S) /\ s = h \o t
    OBVIOUS
<1> HIDE DEF h, t
<1>2. Occurs(h \o t, x) = Occurs(h, x) + Occurs(t, x)
    BY <1>1, OccursConcat
<1> QED
    BY <1>1, <1>2 DEF h, t

\* No more of it is in the first places of the sequence than in all.
LEMMA OccursPrefix ==
    ASSUME NEW S, NEW s \in Seq(S), NEW k \in 0..Len(s), NEW x
    PROVE  Occurs(SubSeq(s, 1, k), x) <= Occurs(s, x)
<1> DEFINE a == SubSeq(s, 1, k)
           b == SubSeq(s, k + 1, Len(s))
<1>1. a \in Seq(S) /\ b \in Seq(S) /\ s = a \o b
    BY CutFacts
<1> HIDE DEF a, b
<1>2. /\ Occurs(a \o b, x) = Occurs(a, x) + Occurs(b, x)
      /\ Occurs(a, x) \in Nat /\ Occurs(b, x) \in Nat
    BY <1>1, OccursConcat, OccursFacts
<1>3. Occurs(s, x) = Occurs(a, x) + Occurs(b, x)
    BY <1>1, <1>2
<1> QED
    BY <1>2, <1>3 DEF a

=============================================================================
