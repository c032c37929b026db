----------------------------- MODULE WireProofs -----------------------------
(***************************************************************************)
(* Proofs about Wire: the server parses the commands that the calls of     *)
(* client.py mean, the client is given the messages the server stored, and *)
(* the types.                                                              *)
(*                                                                         *)
(* To the server. A line is words, and perhaps a text: the first " :" is   *)
(* where Format put it, because a word has no space and no word begins     *)
(* with a colon, so the parser sees the words and the text that were meant *)
(* (TakenPlain, TakenText). The words of each call mean the command of     *)
(* that call (Meaning). And what is on its way to the server is the lines  *)
(* of the calls it has not parsed yet, as long as no text had a line break *)
(* (Owed), so the k-th command is of the k-th call.                        *)
(*                                                                         *)
(* To the client. A line with tags is read as it was written, because      *)
(* nothing in the escaped tags, the sender, the verb and the channel ends  *)
(* one of them early (TaggedRead). Every command, whatever the line it was *)
(* parsed from, stores a message whose channel is a word and whose text    *)
(* does not end in white space (StoredGood), and answers with the line of  *)
(* that message or with lines that are no live message (LinesNews,         *)
(* LinesAside). What is on its way to the client is lines (Underway), and  *)
(* read after those it has read they tell of the messages stored, the live *)
(* ones one by one and in order (Told).                                    *)
(***************************************************************************)
EXTENDS WireFacts

-----------------------------------------------------------------------------
(* A line of the client, as the server takes it apart *)

\* s is a, " :", t and the rest of a line end.
Texted(s, a, t) ==
    /\ Len(s) = Len(a) + 2 + Len(t) + 1
    /\ \A i \in 1..Len(a) : s[i] = a[i]
    /\ s[Len(a) + 1] = " " /\ s[Len(a) + 2] = ":"
    /\ \A j \in 1..Len(t) : s[Len(a) + 2 + j] = t[j]
    /\ s[Len(a) + 2 + Len(t) + 1] = "CR"

\* Where the parts of a line with a text are.
LEMMA TextConcat ==
    ASSUME NEW S, HasSigns(S), NEW a \in Seq(S), NEW t \in Seq(S)
    PROVE  /\ a \o (<<" ", ":">> \o t) \in Seq(S)
           /\ (a \o (<<" ", ":">> \o t)) \o <<"CR">> \in Seq(S)
           /\ Texted((a \o (<<" ", ":">> \o t)) \o <<"CR">>, a, t)
<1> DEFINE x == " "
           y == ":"
           z == "CR"
           c == <<x, y>> \o t
           e == <<z>>
           f == a \o c
           s == f \o e
           p == Len(a)
           q == Len(t)
<1>0. x \in S /\ y \in S /\ z \in S
    BY DEF HasSigns
<1> HIDE DEF x, y, z
<1>1. /\ c \in Seq(S) /\ Len(c) = q + 2 /\ c[1] = x /\ c[2] = y /\ p \in Nat /\ q \in Nat
      /\ SubSeq(c, 3, Len(c)) = t
    BY <1>0, PairConcat, LenProperties
<1> HIDE DEF c
<1>2. \A j \in 1..q : c[j + 2] = t[j]
    <2>1. ASSUME NEW j \in 1..q PROVE c[j + 2] = t[j]
        <3>1. 3 \in 1..(Len(c) + 1) /\ Len(c) \in Nat /\ j \in 1..(Len(c) - 3 + 1) /\ 3 + j - 1 = j + 2
            BY <1>1
        <3> QED
            BY <1>1, <3>1
    <2> QED
        BY <2>1
<1>3. e \in Seq(S) /\ Len(e) = 1 /\ e[1] = z
    BY <1>0
<1> HIDE DEF e, p, q
<1>4. /\ f \in Seq(S) /\ Len(f) = p + (q + 2)
      /\ \A i \in 1..(p + (q + 2)) : f[i] = IF i <= p THEN a[i] ELSE c[i - p]
    <2>1. /\ f \in Seq(S) /\ Len(f) = Len(a) + Len(c)
          /\ \A i \in 1..(Len(a) + Len(c)) : f[i] = IF i <= Len(a) THEN a[i] ELSE c[i - Len(a)]
        BY <1>1, ConcatProperties
    <2> HIDE DEF f
    <2> QED
        BY <1>1, <2>1 DEF p
<1> HIDE DEF f
<1> DEFINE n == p + (q + 2)
<1>n. n \in Nat /\ n = p + 2 + q
    BY <1>1
<1>5. /\ s \in Seq(S) /\ Len(s) = n + 1
      /\ \A i \in 1..(n + 1) : s[i] = IF i <= n THEN f[i] ELSE e[i - n]
    <2>1. /\ s \in Seq(S) /\ Len(s) = Len(f) + Len(e)
          /\ \A i \in 1..(Len(f) + Len(e)) : s[i] = IF i <= Len(f) THEN f[i] ELSE e[i - Len(f)]
        BY <1>3, <1>4, ConcatProperties
    <2> HIDE DEF s
    <2> QED
        BY <1>3, <1>4, <2>1
<1> HIDE DEF s
<1>6. ASSUME NEW i \in 1..p PROVE s[i] = a[i]
    <2>1. i \in 1..n /\ i \in 1..(n + 1) /\ i <= n /\ i <= p
        BY <1>1
    <2> QED
        BY <1>4, <1>5, <2>1
<1>7. ASSUME NEW k \in 1..(q + 2) PROVE s[p + k] = c[k]
    <2>1. p + k \in 1..n /\ p + k \in 1..(n + 1) /\ p + k <= n /\ ~(p + k <= p) /\ (p + k) - p = k
        BY <1>1
    <2> QED
        BY <1>4, <1>5, <2>1
<1>8. s[p + 1] = x /\ s[p + 2] = y
    <2>1. 1 \in 1..(q + 2) /\ 2 \in 1..(q + 2)
        BY <1>1
    <2> QED
        BY <1>1, <1>7, <2>1
<1>9. ASSUME NEW j \in 1..q PROVE s[p + 2 + j] = t[j]
    <2>1. j + 2 \in 1..(q + 2) /\ p + (j + 2) = p + 2 + j
        BY <1>1
    <2> QED
        BY <1>2, <1>7, <2>1
<1>10. s[n + 1] = z
    <2>1. n + 1 \in 1..(n + 1) /\ ~(n + 1 <= n) /\ (n + 1) - n = 1
        BY <1>n
    <2> QED
        BY <1>3, <1>5, <2>1
<1>11. Len(s) = p + 2 + q + 1 /\ s[p + 2 + q + 1] = z
    BY <1>n, <1>5, <1>10
<1> QED
    BY <1>4, <1>5, <1>6, <1>8, <1>9, <1>11 DEF Texted, s, f, c, e, x, y, z, p, q

\* White space at the end only.
LEMMA TrimIs ==
    ASSUME NEW S, NEW s \in Seq(S), NEW n \in 1..Len(s), s[1] \notin Space, s[n] \notin Space,
           \A i \in 1..Len(s) : i > n => s[i] \in Space
    PROVE  Trim(s) = SubSeq(s, 1, n)
<1> DEFINE B == Black(s)
<1>1. Len(s) \in Nat /\ DOMAIN s = 1..Len(s)
    BY LenProperties
<1>2. B \subseteq 1..Len(s) /\ 1 \in B /\ n \in B /\ \A i \in B : i <= n
    BY <1>1 DEF Black
<1>3. Min(B) = 1
    <2>1. B \subseteq Nat /\ B # {} /\ \A i \in B : i \in Nat /\ i >= 1
        BY <1>1, <1>2
    <2> HIDE DEF B
    <2>2. Min(B) \in B /\ \A i \in B : Min(B) <= i
        BY <2>1, Least
    <2>3. Min(B) <= 1 /\ Min(B) >= 1 /\ Min(B) \in Nat
        BY <1>2, <2>1, <2>2
    <2> QED
        BY <2>3
<1>4. Max(B) = n
    <2>1. B \subseteq 0..Len(s) /\ B # {} /\ n \in Nat
        BY <1>1, <1>2
    <2>0. \A i \in B : i \in Nat
        BY <1>1, <1>2
    <2> HIDE DEF B
    <2>2. Max(B) \in B /\ \A i \in B : i <= Max(B)
        BY <1>1, <2>1, Greatest
    <2>3. Max(B) <= n /\ n <= Max(B) /\ Max(B) \in Nat
        BY <1>2, <2>0, <2>2
    <2> QED
        BY <2>1, <2>3
<1>5. Trim(s) = SubSeq(s, Min(B), Max(B))
    BY <1>2 DEF Trim
<1> QED
    BY <1>3, <1>4, <1>5

\* Nothing but white space is cut off the end.
LEMMA TrimEndIs ==
    ASSUME NEW S, NEW t \in Seq(S)
    PROVE  \E m \in 0..Len(t) :
             /\ TrimEnd(t) = SubSeq(t, 1, m)
             /\ m # 0 => t[m] \notin Space
             /\ \A i \in 1..Len(t) : i > m => t[i] \in Space
<1> DEFINE B == Black(t) \cup {0}
           m == Max(B)
<1>1. Len(t) \in Nat /\ DOMAIN t = 1..Len(t)
    BY LenProperties
<1>2. B \subseteq 0..Len(t) /\ B # {}
    BY <1>1 DEF Black
<1>3. m \in B /\ \A i \in B : i <= m
    <2> HIDE DEF B
    <2> QED
        BY <1>1, <1>2, Greatest
<1>4. TrimEnd(t) = SubSeq(t, 1, m)
    BY DEF TrimEnd
<1>5. m # 0 => t[m] \notin Space
    BY <1>3 DEF Black
<1> HIDE DEF m
<1>6. ASSUME NEW i \in 1..Len(t), i > m PROVE t[i] \in Space
    <2>1. ~(i <= m)
        BY <1>1, <1>2, <1>3, <1>6
    <2>2. i \notin B
        BY <1>3, <2>1
    <2> QED
        BY <1>1, <2>2 DEF Black
<1>7. m \in 0..Len(t)
    BY <1>2, <1>3
<1> QED
    BY <1>4, <1>5, <1>6, <1>7

\* A line that does not start with a tag or a prefix is left alone.
LEMMA StripIs ==
    ASSUME NEW l, l[1] # "@", l[1] # ":"
    PROVE  StripTagsAndPrefix(l) = l
BY DEF StripTagsAndPrefix

Opens(ws) == ws[1][1] # "@" /\ ws[1][1] # ":"

\* The first word starts with no white space.
LEMMA FirstSign ==
    ASSUME NEW S, NEW ws \in Seq(Word(S)), ws # <<>>
    PROVE  ws[1][1] \notin Space
<1>2. ws[1] \in Word(S)
    <2> DEFINE X == Word(S)
    <2>1. ws \in Seq(X)
        OBVIOUS
    <2> HIDE DEF X
    <2>2. 1 \in 1..Len(ws)
        BY <2>1, EmptySeq
    <2>3. ws[1] \in X
        BY <2>1, <2>2, ElementOfSeq
    <2> QED
        BY <2>3 DEF X
<1>3. Solid(ws[1]) /\ ws[1] \in Seq(S)
    BY <1>2 DEF Word
<1>4. 1 \in 1..Len(ws[1])
    BY <1>3, EmptySeq DEF Solid
<1> QED
    BY <1>3, <1>4 DEF Solid

\* The server parses a line without a text as its words.
LEMMA TakenPlain ==
    ASSUME NEW S, HasSigns(S), NEW ws \in Seq(Word(S)), ws # <<>>, Opens(ws)
    PROVE  ParseCommand(Join(ws, " ") \o <<"CR">>) = ParseWords(ws, <<>>)
<1> DEFINE a == Join(ws, " ")
           z == "CR"
           e == <<z>>
           s == a \o e
           n == Len(a)
<1>1. a \in Seq(S) /\ LineOf(ws, a)
    BY JoinedLine
<1>2. z \in S /\ z \in Space
    BY DEF HasSigns, Space
<1> HIDE DEF a, z
<1>3. e \in Seq(S) /\ Len(e) = 1 /\ e[1] = z /\ n \in Nat
    BY <1>1, <1>2
<1> HIDE DEF e
<1>4. /\ s \in Seq(S) /\ Len(s) = n + 1
      /\ \A i \in 1..(n + 1) : s[i] = IF i <= n THEN a[i] ELSE e[i - n]
    <2>1. /\ s \in Seq(S) /\ Len(s) = Len(a) + Len(e)
          /\ \A i \in 1..(Len(a) + Len(e)) : s[i] = IF i <= Len(a) THEN a[i] ELSE e[i - Len(a)]
        BY <1>1, <1>3, ConcatProperties
    <2> HIDE DEF s
    <2> QED
        BY <1>3, <2>1
<1>5. n >= 1 /\ a # <<>> /\ a[n] \notin Space /\ a[1] = ws[1][1] /\ Words(a) = ws /\ Cuts(a) = {}
    BY <1>1 DEF LineOf
<1>6. a[1] \notin Space /\ a[1] # "@" /\ a[1] # ":"
    <2>1. a[1] # "@" /\ a[1] # ":"
        BY <1>5 DEF Opens
    <2>5. ws[1][1] \notin Space
        BY FirstSign
    <2> QED
        BY <1>5, <2>1, <2>5
<1> HIDE DEF s, n
<1>7. Trim(s) = SubSeq(s, 1, n)
    <2>1. n \in 1..Len(s) /\ s[1] \notin Space /\ s[n] \notin Space
        BY <1>3, <1>4, <1>5, <1>6
    <2>2. ASSUME NEW i \in 1..Len(s), i > n PROVE s[i] \in Space
        <3>1. i = n + 1 /\ ~(i <= n) /\ i - n = 1
            BY <1>3, <1>4, <2>2
        <3> QED
            BY <1>2, <1>3, <1>4, <3>1
    <2> QED
        BY <1>4, <2>1, <2>2, TrimIs
<1>8. SubSeq(s, 1, n) = a
    <2>1. n \in 0..Len(s) /\ 1 <= n + 1
        BY <1>3, <1>4
    <2>2. SubSeq(s, 1, n) \in Seq(S) /\ Len(SubSeq(s, 1, n)) = n
        BY <1>4, <2>1, CutFacts
    <2>3. ASSUME NEW i \in 1..n PROVE SubSeq(s, 1, n)[i] = a[i]
        <3>1. SubSeq(s, 1, n)[i] = s[i]
            BY <1>3, <1>4, <2>1
        <3>2. i \in 1..(n + 1) /\ i <= n
            BY <1>3
        <3> QED
            BY <1>4, <3>1, <3>2
    <2> QED
        BY <1>1, <2>2, <2>3, SeqEqual DEF n
<1>9. StripTagsAndPrefix(Trim(s)) = a
    BY <1>6, <1>7, <1>8, StripIs
<1>10. TrailingAt(a) = 0
    BY <1>5 DEF TrailingAt, First
<1>11. ParseCommand(s) = ParseWords(Words(a), <<>>)
    BY <1>9, <1>10, Zenon DEF ParseCommand
<1> QED
    BY <1>5, <1>11 DEF s, e, z, a

\* The server parses a line with a text as its words and the text, which loses
\* the white space at its end.
LEMMA TakenText ==
    ASSUME NEW S, HasSigns(S), NEW ws \in Seq(Word(S)), ws # <<>>, Opens(ws), NEW t \in Seq(S)
    PROVE  ParseCommand((Join(ws, " ") \o (<<" ", ":">> \o t)) \o <<"CR">>) =
             ParseWords(ws, <<TrimEnd(t)>>)
<1> DEFINE a == Join(ws, " ")
           s == (a \o (<<" ", ":">> \o t)) \o <<"CR">>
           p == Len(a)
           q == Len(t)
<1>1. a \in Seq(S) /\ LineOf(ws, a)
    BY JoinedLine
<1>2. a[1] \notin Space /\ a[1] # "@" /\ a[1] # ":"
    <2>1. a[1] = ws[1][1]
        BY <1>1 DEF LineOf
    <2>2. ws[1][1] \notin Space
        BY FirstSign
    <2> QED
        BY <2>1, <2>2 DEF Opens
<1> HIDE DEF a
<1>3. s \in Seq(S) /\ Texted(s, a, t)
    BY <1>1, TextConcat
<1> HIDE DEF s
<1>4. p \in Nat /\ q \in Nat /\ p >= 1 /\ a[p] \notin Space /\ Words(a) = ws /\ Cuts(a) = {}
    BY <1>1, LenProperties DEF LineOf
<1>a. p \in Nat /\ q \in Nat /\ p >= 1
    BY <1>4
<1>5. PICK m \in 0..q :
        /\ TrimEnd(t) = SubSeq(t, 1, m)
        /\ m # 0 => t[m] \notin Space
        /\ \A i \in 1..q : i > m => t[i] \in Space
    BY TrimEndIs
<1> DEFINE n == p + 2 + m
           l == SubSeq(s, 1, n)
<1>6. /\ Len(s) = p + 2 + q + 1
      /\ \A i \in 1..p : s[i] = a[i]
      /\ \A j \in 1..q : s[p + 2 + j] = t[j]
    BY <1>3 DEF Texted
<1>7. s[p + 1] \in Space /\ s[p + 2] \notin Space /\ s[p + 2 + q + 1] \in Space
    BY <1>3 DEF Texted, Space
<1> HIDE DEF p, q
<1>8. Trim(s) = l
    <2>1. n \in 1..Len(s)
        BY <1>4, <1>6
    <2>2. s[1] \notin Space
        <3>1. 1 \in 1..p
            BY <1>4
        <3> QED
            BY <1>2, <1>6, <3>1
    <2>3. s[n] \notin Space
        <3>1. CASE m = 0
            BY <1>4, <1>7, <3>1
        <3>2. CASE m # 0
            <4>1. m \in 1..q
                BY <1>4, <3>2
            <4> QED
                BY <1>5, <1>6, <3>2, <4>1
        <3> QED
            BY <3>1, <3>2
    <2>4. ASSUME NEW i \in 1..Len(s), i > n PROVE s[i] \in Space
        <3> DEFINE j == i - (p + 2)
        <3>1. j \in 1..(q + 1) /\ j > m /\ i = p + 2 + j
            BY <1>4, <1>6, <2>4
        <3> HIDE DEF j
        <3>2. CASE j = q + 1
            <4>1. i = p + 2 + q + 1
                BY <1>4, <3>1, <3>2
            <4> QED
                BY <1>7, <4>1
        <3>3. CASE j # q + 1
            <4>1. j \in 1..q
                BY <1>4, <3>1, <3>3
            <4> QED
                BY <1>5, <1>6, <3>1, <4>1
        <3> QED
            BY <3>2, <3>3
    <2> HIDE DEF n
    <2> QED
        BY <1>3, <2>1, <2>2, <2>3, <2>4, TrimIs
<1>9. /\ l \in Seq(S) /\ Len(l) = n
      /\ \A i \in 1..n : l[i] = s[i]
    <2>1. n \in 0..Len(s) /\ n \in 1..Len(s) /\ n \in Nat /\ Len(s) \in Nat
        BY <1>4, <1>6
    <2> HIDE DEF n
    <2>2. l \in Seq(S) /\ Len(l) = n
        BY <1>3, <2>1, CutFacts
    <2>3. ASSUME NEW i \in 1..n PROVE l[i] = s[i]
        BY <1>3, <2>1
    <2> QED
        BY <2>2, <2>3
<1> HIDE DEF l
<1>10. ASSUME NEW i \in 1..p PROVE l[i] = a[i]
    <2>1. i \in 1..n
        BY <1>4
    <2> QED
        BY <1>6, <1>9, <2>1
<1>11. StripTagsAndPrefix(l) = l
    <2>1. 1 \in 1..p
        BY <1>4
    <2>2. l[1] = a[1]
        BY <1>10, <2>1
    <2> QED
        BY <1>2, <2>2, StripIs
<1>12. l[p + 1] = " " /\ l[p + 2] = ":"
    <2>1. p + 1 \in 1..n /\ p + 2 \in 1..n
        BY <1>4
    <2>2. s[p + 1] = " " /\ s[p + 2] = ":"
        BY <1>3 DEF Texted, p
    <2> QED
        BY <1>9, <2>1, <2>2
<1>13. p + 1 \in Cuts(l) /\ Cuts(l) \subseteq 1..(n - 1) /\ n - 1 \in Nat
    <2>1. (p + 1) + 1 = p + 2 /\ p + 1 \in 1..(n - 1) /\ n - 1 \in Nat
        BY <1>4
    <2> HIDE DEF n
    <2> QED
        BY <1>9, <1>12, <2>1 DEF Cuts
<1>14. ASSUME NEW i \in Cuts(l), i < p + 1 PROVE FALSE
    <2>0. i \in 1..p
        <3>1. i \in 1..(n - 1)
            BY <1>13
        <3>2. i \in Nat /\ i >= 1
            BY <1>13, <3>1
        <3> QED
            BY <1>a, <1>14, <3>2
    <2>1. l[i] = " " /\ l[i + 1] = ":"
        BY DEF Cuts
    <2>2. i # p
        <3>1. p \in 1..p /\ a[p] \notin Space
            BY <1>4
        <3>2. l[p] = a[p]
            BY <1>10, <3>1
        <3>3. a[p] # " "
            BY <3>1 DEF Space
        <3> QED
            BY <2>1, <3>2, <3>3
    <2>3. i \in 1..(p - 1) /\ i + 1 \in 1..p
        BY <1>a, <2>0, <2>2
    <2>4. a[i] = " " /\ a[i + 1] = ":"
        BY <1>10, <2>0, <2>1, <2>3
    <2>5. i \in Cuts(a)
        BY <2>3, <2>4 DEF Cuts, p
    <2> QED
        BY <1>4, <2>5
<1>15. TrailingAt(l) = p + 1
    <2> DEFINE C == Cuts(l)
    <2>1. C \subseteq 1..(n - 1) /\ n - 1 \in Nat /\ p + 1 \in C /\ \A i \in C : i \in Nat /\ ~(i < p + 1)
        BY <1>13, <1>14
    <2> HIDE DEF C, n
    <2>2. First(C) \in C /\ \A i \in C : First(C) <= i
        BY <2>1, FirstIs
    <2>3. First(C) = p + 1
        <3>1. First(C) \in Nat /\ ~(First(C) < p + 1) /\ First(C) <= p + 1
            BY <2>1, <2>2
        <3> QED
            BY <1>a, <3>1
    <2> QED
        BY <2>3 DEF TrailingAt, C
<1>16. SubSeq(l, 1, p) = a
    <2>1. p \in 0..Len(l) /\ Len(l) \in Nat
        BY <1>4, <1>9
    <2>2. SubSeq(l, 1, p) \in Seq(S) /\ Len(SubSeq(l, 1, p)) = p
        BY <1>9, <2>1, CutFacts
    <2>3. ASSUME NEW i \in 1..p PROVE SubSeq(l, 1, p)[i] = a[i]
        <3>1. SubSeq(l, 1, p)[i] = l[i]
            BY <1>4, <1>9, <2>1
        <3> QED
            BY <1>10, <3>1
    <2> QED
        BY <1>1, <2>2, <2>3, SeqEqual DEF p
<1>17. SubSeq(l, p + 3, Len(l)) = TrimEnd(t)
    <2> DEFINE u == SubSeq(l, (p + 2) + 1, Len(l))
               v == SubSeq(t, 1, m)
    <2>1. p + 2 \in 0..Len(l) /\ Len(l) = p + 2 + m /\ m \in Nat /\ m \in 0..Len(t)
        BY <1>4, <1>9 DEF q
    <2>2. u \in Seq(S) /\ Len(u) = m
        <3>1. u \in Seq(S) /\ Len(u) = Len(l) - (p + 2)
            BY <1>9, <2>1, CutFacts
        <3> HIDE DEF u
        <3> QED
            BY <1>4, <2>1, <3>1
    <2>3. v \in Seq(S) /\ Len(v) = m
        BY <2>1, CutFacts
    <2>4. ASSUME NEW i \in 1..m PROVE u[i] = v[i]
        <3>1. /\ i \in 1..(Len(l) - ((p + 2) + 1) + 1) /\ ((p + 2) + 1) + i - 1 = p + 2 + i
              /\ (p + 2) + 1 \in 1..(Len(l) + 1)
            BY <1>4, <2>1
        <3>2. u[i] = l[p + 2 + i]
            <4> DEFINE j == (p + 2) + 1
            <4>1. j \in 1..(Len(l) + 1) /\ i \in 1..(Len(l) - j + 1) /\ j + i - 1 = p + 2 + i
                  /\ l \in Seq(S) /\ Len(l) \in Nat
                BY <1>9, <2>1, <3>1
            <4> HIDE DEF j
            <4>2. SubSeq(l, j, Len(l))[i] = l[j + i - 1]
                BY <4>1
            <4> QED
                BY <4>1, <4>2 DEF j
        <3>3. i \in 1..q /\ p + 2 + i \in 1..n
            BY <1>4
        <3>4. l[p + 2 + i] = t[i]
            BY <1>6, <1>9, <3>3
        <3>5. v[i] = t[i]
            BY <1>4, <3>3 DEF q
        <3> QED
            BY <3>2, <3>4, <3>5
    <2> HIDE DEF u, v
    <2>5. u = v
        BY <2>2, <2>3, <2>4, SeqEqual
    <2>6. (p + 2) + 1 = p + 3
        BY <1>4
    <2> QED
        BY <1>5, <2>5, <2>6 DEF u, v
<1>18. Before(l, p + 1) = a /\ After(l, (p + 1) + 1) = TrimEnd(t) /\ p + 1 # 0
    <2>1. (p + 1) - 1 = p /\ ((p + 1) + 1) + 1 = p + 3 /\ p + 1 # 0
        BY <1>4
    <2> QED
        BY <1>16, <1>17, <2>1 DEF Before, After
<1>19. ParseCommand(s) = ParseWords(Words(Before(l, p + 1)), <<After(l, (p + 1) + 1)>>)
    BY <1>8, <1>11, <1>15, <1>18, Zenon DEF ParseCommand
<1>20. ParseCommand(s) = ParseWords(ws, <<TrimEnd(t)>>)
    BY <1>4, <1>18, <1>19
<1> QED
    BY <1>20 DEF s, a

-----------------------------------------------------------------------------
(* The lines of client.py *)

\* The symbols of the commands.
Signs == {" ", ":", "CR", "#", "c", "t", "token", "me", "0", "1", "100", "302", "*",
          "LS", "REQ", "END", "aircd", "agent", "message-tags", "bye",
          "PRIVMSG", "TASK", "CREATE", "CLAIM", "DONE", "RELEASE", "LIST", "CHATHISTORY", "AFTER",
          "USER", "CAP", "PONG", "QUIT", "JOIN", "PART", "PASS", "NICK"}

Knows(S) == Signs \subseteq S
Plain == Signs \ {" ", ":", "CR", "@"}

\* The words of a line and its text, if it has one, over the symbols S.
IsLine(S, ws, text) ==
    /\ ws \in Seq(Word(S)) /\ ws # <<>> /\ Opens(ws)
    /\ text # <<>> => text = <<text[1]>> /\ text[1] \in Seq(S)

\* Of the symbols of the commands all but four have no meaning in a line.
LEMMA HasAll ==
    ASSUME NEW S, Knows(S)
    PROVE  HasSigns(S) /\ \A x \in Plain : x \in S /\ x # " " /\ x # ":" /\ x # "CR" /\ x # "LF" /\ x # "@"
BY DEF Knows, HasSigns, Signs, Plain

\* Such a symbol is a word.
LEMMA WordIs ==
    ASSUME NEW S, Knows(S), NEW x \in Plain
    PROVE  <<x>> \in Word(S) /\ <<x>>[1] = x
<1> DEFINE w == <<x>>
<1>1. x \in S /\ x \notin Space /\ x # ":"
    BY HasAll DEF Space
<1>2. w \in Seq(S) /\ Len(w) = 1 /\ w[1] = x /\ w # <<>>
    BY <1>1
<1> HIDE DEF w
<1>3. Solid(w)
    BY <1>1, <1>2 DEF Solid
<1> QED
    BY <1>1, <1>2, <1>3 DEF Word, w

\* A channel is a word.
LEMMA ChannelIs ==
    ASSUME NEW S, Knows(S), NEW w \in Channels
    PROVE  w \in Word(S)
<1>1. CASE w = <<"c">>
    <2>1. "c" \in Plain
        BY DEF Plain, Signs
    <2> QED
        BY <1>1, <2>1, WordIs
<1>2. CASE w = <<"#", "c">>
    <2> DEFINE x == "#"
               y == "c"
               v == <<x, y>>
    <2>1. x \in Plain /\ y \in Plain
        BY DEF Plain, Signs
    <2> HIDE DEF x, y
    <2>2. x \in S /\ y \in S /\ x \notin Space /\ y \notin Space /\ x # ":"
        BY <2>1, HasAll DEF Space
    <2>3. v \in Seq(S) /\ Len(v) = 2 /\ v[1] = x /\ v[2] = y /\ v # <<>>
        BY <2>2
    <2>4. v = w
        BY <1>2 DEF x, y
    <2> HIDE DEF v
    <2>5. Solid(v)
        BY <2>2, <2>3 DEF Solid
    <2>6. v \in Word(S)
        BY <2>2, <2>3, <2>5 DEF Word
    <2> QED
        BY <2>4, <2>6
<1> QED
    BY <1>1, <1>2 DEF Channels

\* A line of two to five words, the first of them a verb.
LEMMA LineIs ==
    ASSUME NEW S, Knows(S), NEW x \in Plain
    PROVE  /\ IsLine(S, <<<<x>>>>, <<>>)
           /\ \A a \in Word(S) : IsLine(S, <<<<x>>, a>>, <<>>)
           /\ \A a, b \in Word(S) : IsLine(S, <<<<x>>, a, b>>, <<>>)
           /\ \A a, b, d \in Word(S) : IsLine(S, <<<<x>>, a, b, d>>, <<>>)
           /\ \A a, b, d, e \in Word(S) : IsLine(S, <<<<x>>, a, b, d, e>>, <<>>)
<1> DEFINE W == Word(S)
           v == <<x>>
<1>1. v \in W /\ v[1] # "@" /\ v[1] # ":"
    BY WordIs, HasAll
<1> HIDE DEF W, v
<1>2. IsLine(S, <<v>>, <<>>)
    <2>1. <<v>> \in Seq(W) /\ <<v>> # <<>> /\ <<v>>[1] = v
        BY <1>1
    <2> QED
        BY <1>1, <2>1 DEF IsLine, W, Opens
<1>3. ASSUME NEW a \in W PROVE IsLine(S, <<v, a>>, <<>>)
    <2>1. <<v, a>> \in Seq(W) /\ <<v, a>> # <<>> /\ <<v, a>>[1] = v
        BY <1>1
    <2> QED
        BY <1>1, <2>1 DEF IsLine, W, Opens
<1>4. ASSUME NEW a \in W, NEW b \in W PROVE IsLine(S, <<v, a, b>>, <<>>)
    <2>1. <<v, a, b>> \in Seq(W) /\ <<v, a, b>> # <<>> /\ <<v, a, b>>[1] = v
        BY <1>1
    <2> QED
        BY <1>1, <2>1 DEF IsLine, W, Opens
<1>5. ASSUME NEW a \in W, NEW b \in W, NEW d \in W PROVE IsLine(S, <<v, a, b, d>>, <<>>)
    <2>1. <<v, a, b, d>> \in Seq(W) /\ <<v, a, b, d>> # <<>> /\ <<v, a, b, d>>[1] = v
        BY <1>1
    <2> QED
        BY <1>1, <2>1 DEF IsLine, W, Opens
<1>6. ASSUME NEW a \in W, NEW b \in W, NEW d \in W, NEW e \in W PROVE IsLine(S, <<v, a, b, d, e>>, <<>>)
    <2>1. <<v, a, b, d, e>> \in Seq(W) /\ <<v, a, b, d, e>> # <<>> /\ <<v, a, b, d, e>>[1] = v
        BY <1>1
    <2> QED
        BY <1>1, <2>1 DEF IsLine, W, Opens
<1> QED
    BY <1>2, <1>3, <1>4, <1>5, <1>6 DEF W, v

\* Any text may follow the words of a line.
LEMMA WithText ==
    ASSUME NEW S, NEW ws, IsLine(S, ws, <<>>), NEW t \in Seq(S)
    PROVE  IsLine(S, ws, <<t>>)
BY DEF IsLine

\* The calls, by their arguments.
LEMMA CallShapes ==
    ASSUME NEW c \in Calls
    PROVE  \/ c[1] \in {"privmsg", "task_create"} /\ c[2] \in Channels /\ c[3] \in Text
           \/ c[1] = "history" /\ c[2] \in Channels /\ c[3] \in {"0", "1"} /\ c[4] \in {"1", "100"}
           \/ c[1] \in {"join", "part", "task_list"} /\ c[2] \in Channels
           \/ c[1] \in {"task_claim", "task_done", "task_release"} /\ c[2] = <<"t">>
           \/ c[1] = "pass" /\ c[2] = <<"token">>
           \/ c[1] \in {"nick", "user"} /\ c[2] = <<"me">>
           \/ c[1] = "cap" /\ c[2] \in {"LS", "REQ", "END"}
           \/ c[1] \in {"pong", "quit"}
<1> HIDE DEF Channels, Text
<1> QED
    BY DEF Calls

\* From the last element on, and from after it.
LEMMA LastIs ==
    ASSUME NEW X, NEW w \in Seq(X), w # <<>>
    PROVE  /\ SubSeq(w, Len(w), Len(w)) = <<w[Len(w)]>> /\ w[Len(w)] \in X
           /\ SubSeq(w, Len(w) + 1, Len(w)) = <<>>
<1> DEFINE n == Len(w)
<1>1. n \in Nat /\ n >= 1
    BY EmptySeq, LenProperties
<1>2. w[n] \in X
    BY <1>1, ElementOfSeq
<1>3. SubSeq(w, n, n) \in Seq(X) /\ Len(SubSeq(w, n, n)) = 1 /\ SubSeq(w, n, n)[1] = w[n]
    BY <1>1
<1>4. SubSeq(w, n, n) = <<w[n]>>
    <2> DEFINE u == SubSeq(w, n, n)
               a == w[n]
    <2> HIDE DEF u, a
    <2>1. u \in Seq(X) /\ Len(u) = 1 /\ u[1] = a
        BY <1>3 DEF u, a
    <2>2. u = <<a>>
        BY <2>1
    <2> QED
        BY <2>2 DEF u, a
<1>5. SubSeq(w, n + 1, n) = <<>>
    BY <1>1
<1> QED
    BY <1>2, <1>4, <1>5

\* From the last word on there is that word, and then nothing.
LEMMA RestIs ==
    ASSUME NEW S, HasSigns(S), NEW w \in Seq(Seq(S)), w # <<>>
    PROVE  Rest(w, Len(w)) = w[Len(w)] /\ Rest(w, Len(w) + 1) = <<>>
<1> DEFINE x == " "
           n == Len(w)
           a == w[n]
           T == Seq(S)
<1>1. SubSeq(w, n, n) = <<a>> /\ a \in T /\ SubSeq(w, n + 1, n) = <<>>
    <2>1. w \in Seq(T)
        OBVIOUS
    <2> HIDE DEF T
    <2> QED
        BY <2>1, LastIs
<1>2. x \in S
    BY DEF HasSigns
<1>3. <<>> \in Seq(T)
    <2> HIDE DEF T
    <2> QED
        BY EmptySeq
<1>4. <<a>> \o <<>> = <<a>>
    <2> HIDE DEF a
    <2> QED
        OBVIOUS
<1> HIDE DEF x, a, n
<1>5. Join(<<a>> \o <<>>, x) = a
    BY <1>1, <1>2, <1>3, JoinCons DEF Joins
<1>6. Join(<<>>, x) = <<>>
    BY DEF Join
<1> QED
    BY <1>1, <1>4, <1>5, <1>6 DEF Rest, x, n, a

\* Nothing has no words.
LEMMA WordsNone == Words(<<>>) = <<>>
<1>1. Starts(<<>>) = {}
    BY DEF Starts, Black
<1>2. Words(<<>>) \in Seq(Seq({})) /\ Len(Words(<<>>)) = Cardinality(Starts(<<>>))
    <2>1. <<>> \in Seq({})
        BY EmptySeq
    <2> QED
        BY <2>1, WordsType
<1>3. Cardinality({}) = 0
    BY FS_EmptySet
<1> QED
    BY <1>1, <1>2, <1>3, EmptySeq

\* One symbol that is not white space is one word, and nothing to trim.
LEMMA OneSign ==
    ASSUME NEW S, Knows(S), NEW x \in Plain
    PROVE  Words(<<x>>) = <<<<x>>>> /\ TrimEnd(<<x>>) = <<x>>
<1> DEFINE w == <<x>>
<1>1. w \in Seq(S) /\ Solid(w)
    BY WordIs DEF Word
<1>2. Words(w) = <<w>>
    <2> HIDE DEF w
    <2> QED
        BY <1>1, WordsOne
<1>3. Len(w) = 1 /\ w[1] = x /\ x \notin Space
    BY HasAll DEF Space
<1> HIDE DEF w
<1>4. PICK m \in 0..Len(w) :
        /\ TrimEnd(w) = SubSeq(w, 1, m)
        /\ \A i \in 1..Len(w) : i > m => w[i] \in Space
    BY <1>1, TrimEndIs
<1>5. m = 1
    <2>1. ~(1 > m)
        BY <1>3, <1>4
    <2> QED
        BY <1>3, <2>1
<1>6. SubSeq(w, 1, 1) = w
    <2>1. SubSeq(w, 1, 1) \in Seq(S) /\ Len(SubSeq(w, 1, 1)) = 1 /\ SubSeq(w, 1, 1)[1] = w[1]
        BY <1>1, <1>3
    <2> QED
        BY <1>1, <1>3, <2>1
<1> QED
    BY <1>2, <1>4, <1>5, <1>6 DEF w

\* Appending to one or two elements.
LEMMA Appended ==
    ASSUME NEW X, NEW a \in X, NEW d \in X
    PROVE  /\ Append(<<a>>, d) = <<a, d>>
           /\ \A b \in X : Append(<<a, b>>, d) = <<a, b, d>>
<1>1. ASSUME NEW v \in Seq(X), Len(v) = 1, v[1] = a PROVE Append(v, d) = <<a, d>>
    <2> DEFINE r == Append(v, d)
               u == <<a, d>>
    <2>1. /\ r \in Seq(X) /\ Len(r) = Len(v) + 1 /\ \A i \in 1..Len(v) : r[i] = v[i]
          /\ r[Len(v) + 1] = d
        BY AppendProperties
    <2>2. u \in Seq(X) /\ Len(u) = 2 /\ u[1] = a /\ u[2] = d
        OBVIOUS
    <2> HIDE DEF u, r
    <2>3. Len(r) = 2 /\ \A i \in 1..2 : r[i] = u[i]
        BY <1>1, <2>1, <2>2
    <2>4. r = u
        BY <2>1, <2>2, <2>3, SeqEqual
    <2> QED
        BY <2>4 DEF r, u
<1>2. ASSUME NEW b \in X, NEW v \in Seq(X), Len(v) = 2, v[1] = a, v[2] = b
      PROVE  Append(v, d) = <<a, b, d>>
    <2> DEFINE r == Append(v, d)
               u == <<a, b, d>>
    <2>1. /\ r \in Seq(X) /\ Len(r) = Len(v) + 1 /\ \A i \in 1..Len(v) : r[i] = v[i]
          /\ r[Len(v) + 1] = d
        BY AppendProperties
    <2>2. u \in Seq(X) /\ Len(u) = 3 /\ u[1] = a /\ u[2] = b /\ u[3] = d
        OBVIOUS
    <2> HIDE DEF u, r
    <2>3. Len(r) = 3 /\ \A i \in 1..3 : r[i] = u[i]
        BY <1>2, <2>1, <2>2
    <2>4. r = u
        BY <2>1, <2>2, <2>3, SeqEqual
    <2> QED
        BY <2>4 DEF r, u
<1>3. <<a>> \in Seq(X) /\ Len(<<a>>) = 1 /\ <<a>>[1] = a
    OBVIOUS
<1>4. \A b \in X : <<a, b>> \in Seq(X) /\ Len(<<a, b>>) = 2 /\ <<a, b>>[1] = a /\ <<a, b>>[2] = b
    OBVIOUS
<1> QED
    BY <1>1, <1>2, <1>3, <1>4, Zenon

\* Appending the argument of a TASK command.
LEMMA AppendedTask ==
    ASSUME NEW S, Knows(S), NEW y \in Plain, NEW d \in Word(S)
    PROVE  Append(<<<<"TASK">>, <<y>>>>, d) = <<<<"TASK">>, <<y>>, d>>
<1> DEFINE X == Word(S)
           a == <<"TASK">>
           b == <<y>>
<1>1. "TASK" \in Plain
    BY DEF Plain, Signs
<1>2. a \in X /\ b \in X
    BY <1>1, WordIs
<1> HIDE DEF X, a, b
<1>3. Append(<<a, b>>, d) = <<a, b, d>>
    BY <1>2, Appended DEF X
<1> QED
    BY <1>3 DEF a, b

Texts(S, c) == c[1] \in {"privmsg", "task_create"} => c[3] \in Seq(S)

\* What client.py writes is a line of words.
LEMMA Formed ==
    ASSUME NEW S, Knows(S), NEW c \in Calls, Texts(S, c)
    PROVE  IsLine(S, FormatWords(c), FormatText(c))
<1> DEFINE ws == FormatWords(c)
           text == FormatText(c)
<1> HIDE DEF Channels, Text
<1>1. CASE c[1] = "privmsg" /\ c[2] \in Channels
    <2>1. ws = <<<<"PRIVMSG">>, c[2]>> /\ text = <<c[3]>>
        BY <1>1 DEF FormatWords, FormatText
    <2>2. c[3] \in Seq(S) /\ c[2] \in Word(S)
        BY <1>1, ChannelIs DEF Texts
    <2>3. "PRIVMSG" \in Plain
        BY DEF Plain, Signs
    <2> QED
        BY <2>1, <2>2, <2>3, LineIs, WithText
<1>2. CASE c[1] = "task_create" /\ c[2] \in Channels
    <2>1. ws = <<<<"TASK">>, <<"CREATE">>, c[2]>> /\ text = <<c[3]>>
        BY <1>2 DEF FormatWords, FormatText
    <2>2. c[3] \in Seq(S) /\ c[2] \in Word(S)
        BY <1>2, ChannelIs DEF Texts
    <2>3. "TASK" \in Plain /\ "CREATE" \in Plain
        BY DEF Plain, Signs
    <2>4. <<"CREATE">> \in Word(S)
        BY <2>3, WordIs
    <2> QED
        BY <2>1, <2>2, <2>3, <2>4, LineIs, WithText
<1>3. CASE c[1] = "history" /\ c[2] \in Channels /\ c[3] \in {"0", "1"} /\ c[4] \in {"1", "100"}
    <2>1. ws = <<<<"CHATHISTORY">>, <<"AFTER">>, c[2], <<c[3]>>, <<c[4]>>>> /\ text = <<>>
        BY <1>3 DEF FormatWords, FormatText
    <2>2. c[2] \in Word(S)
        BY <1>3, ChannelIs
    <2>3. "CHATHISTORY" \in Plain /\ "AFTER" \in Plain /\ c[3] \in Plain /\ c[4] \in Plain
        BY <1>3 DEF Plain, Signs
    <2>4. <<"AFTER">> \in Word(S) /\ <<c[3]>> \in Word(S) /\ <<c[4]>> \in Word(S)
        BY <2>3, WordIs
    <2> QED
        BY <2>1, <2>2, <2>3, <2>4, LineIs
<1>4. CASE c[1] \in {"join", "part", "task_list", "task_claim", "task_done", "task_release", "pass", "nick"}
            /\ c[2] \in Word(S)
    <2>1. "JOIN" \in Plain /\ "PART" \in Plain /\ "TASK" \in Plain /\ "PASS" \in Plain /\ "NICK" \in Plain
        BY DEF Plain, Signs
    <2>2. "LIST" \in Plain /\ "CLAIM" \in Plain /\ "DONE" \in Plain /\ "RELEASE" \in Plain
        BY DEF Plain, Signs
    <2>3. <<"LIST">> \in Word(S) /\ <<"CLAIM">> \in Word(S) /\ <<"DONE">> \in Word(S) /\ <<"RELEASE">> \in Word(S)
        BY <2>2, WordIs
    <2>4. text = <<>>
        BY <1>4 DEF FormatText
    <2>0. /\ <<"JOIN">> \in Word(S) /\ <<"PART">> \in Word(S) /\ <<"TASK">> \in Word(S)
          /\ <<"PASS">> \in Word(S) /\ <<"NICK">> \in Word(S)
        BY <2>1, WordIs
    <2>5. CASE c[1] = "join"
        <3>1. ws = Append(<<<<"JOIN">>>>, c[2])
            BY <2>5 DEF FormatWords, Simple
        <3>2. ws = <<<<"JOIN">>, c[2]>>
            BY <1>4, <2>0, <2>3, <3>1, Appended
        <3> QED
            BY <1>4, <2>1, <2>3, <2>4, <3>2, LineIs
    <2>6. CASE c[1] = "part"
        <3>1. ws = Append(<<<<"PART">>>>, c[2])
            BY <2>6 DEF FormatWords, Simple
        <3>2. ws = <<<<"PART">>, c[2]>>
            BY <1>4, <2>0, <2>3, <3>1, Appended
        <3> QED
            BY <1>4, <2>1, <2>3, <2>4, <3>2, LineIs
    <2>7. CASE c[1] = "pass"
        <3>1. ws = Append(<<<<"PASS">>>>, c[2])
            BY <2>7 DEF FormatWords, Simple
        <3>2. ws = <<<<"PASS">>, c[2]>>
            BY <1>4, <2>0, <2>3, <3>1, Appended
        <3> QED
            BY <1>4, <2>1, <2>3, <2>4, <3>2, LineIs
    <2>8. CASE c[1] = "nick"
        <3>1. ws = Append(<<<<"NICK">>>>, c[2])
            BY <2>8 DEF FormatWords, Simple
        <3>2. ws = <<<<"NICK">>, c[2]>>
            BY <1>4, <2>0, <2>3, <3>1, Appended
        <3> QED
            BY <1>4, <2>1, <2>3, <2>4, <3>2, LineIs
    <2>9. CASE c[1] = "task_list"
        <3>1. ws = Append(<<<<"TASK">>, <<"LIST">>>>, c[2])
            BY <2>9 DEF FormatWords, Simple
        <3>2. ws = <<<<"TASK">>, <<"LIST">>, c[2]>>
            BY <1>4, <2>2, <3>1, AppendedTask
        <3> QED
            BY <1>4, <2>1, <2>3, <2>4, <3>2, LineIs
    <2>10. CASE c[1] = "task_claim"
        <3>1. ws = Append(<<<<"TASK">>, <<"CLAIM">>>>, c[2])
            BY <2>10 DEF FormatWords, Simple
        <3>2. ws = <<<<"TASK">>, <<"CLAIM">>, c[2]>>
            BY <1>4, <2>2, <3>1, AppendedTask
        <3> QED
            BY <1>4, <2>1, <2>3, <2>4, <3>2, LineIs
    <2>11. CASE c[1] = "task_done"
        <3>1. ws = Append(<<<<"TASK">>, <<"DONE">>>>, c[2])
            BY <2>11 DEF FormatWords, Simple
        <3>2. ws = <<<<"TASK">>, <<"DONE">>, c[2]>>
            BY <1>4, <2>2, <3>1, AppendedTask
        <3> QED
            BY <1>4, <2>1, <2>3, <2>4, <3>2, LineIs
    <2>12. CASE c[1] = "task_release"
        <3>1. ws = Append(<<<<"TASK">>, <<"RELEASE">>>>, c[2])
            BY <2>12 DEF FormatWords, Simple
        <3>2. ws = <<<<"TASK">>, <<"RELEASE">>, c[2]>>
            BY <1>4, <2>2, <3>1, AppendedTask
        <3> QED
            BY <1>4, <2>1, <2>3, <2>4, <3>2, LineIs
    <2> QED
        BY <1>4, <2>5, <2>6, <2>7, <2>8, <2>9, <2>10, <2>11, <2>12
<1>5. CASE c[1] = "user" /\ c[2] = <<"me">>
    <2>1. ws = <<<<"USER">>, c[2], <<"0">>, <<"*">>>> /\ text = <<<<"aircd", " ", "agent">>>>
        BY <1>5 DEF FormatWords, FormatText
    <2>2. "USER" \in Plain /\ "me" \in Plain /\ "0" \in Plain /\ "*" \in Plain
        BY DEF Plain, Signs
    <2>3. c[2] \in Word(S) /\ <<"0">> \in Word(S) /\ <<"*">> \in Word(S)
        BY <1>5, <2>2, WordIs
    <2>4. <<"aircd", " ", "agent">> \in Seq(S)
        <3> DEFINE x == "aircd"
                   y == " "
                   z == "agent"
        <3>1. x \in S /\ y \in S /\ z \in S
            BY DEF Knows, Signs
        <3> HIDE DEF x, y, z
        <3>2. <<x, y, z>> \in Seq(S)
            BY <3>1
        <3> QED
            BY <3>2 DEF x, y, z
    <2> QED
        BY <2>1, <2>2, <2>3, <2>4, LineIs, WithText
<1>6. CASE c[1] = "cap" /\ c[2] \in {"LS", "REQ", "END"}
    <2>1. /\ c[2] = "LS" => ws = <<<<"CAP">>, <<c[2]>>, <<"302">>>> /\ text = <<>>
          /\ c[2] = "REQ" => ws = <<<<"CAP">>, <<c[2]>>>> /\ text = <<<<"message-tags">>>>
          /\ c[2] = "END" => ws = <<<<"CAP">>, <<c[2]>>>> /\ text = <<>>
        BY <1>6 DEF FormatWords, FormatText
    <2>2. "CAP" \in Plain /\ c[2] \in Plain /\ "302" \in Plain /\ "message-tags" \in Plain
        BY <1>6 DEF Plain, Signs
    <2>3. <<c[2]>> \in Word(S) /\ <<"302">> \in Word(S) /\ <<"message-tags">> \in Seq(S)
        BY <2>2, WordIs DEF Word
    <2> QED
        BY <1>6, <2>1, <2>2, <2>3, LineIs, WithText
<1>7. CASE c[1] = "pong"
    <2>1. ws = <<<<"PONG">>>> /\ text = <<<<"aircd">>>>
        BY <1>7 DEF FormatWords, FormatText
    <2>2. "PONG" \in Plain /\ "aircd" \in Plain
        BY DEF Plain, Signs
    <2>3. <<"aircd">> \in Seq(S)
        BY <2>2, WordIs DEF Word
    <2> QED
        BY <2>1, <2>2, <2>3, LineIs, WithText
<1>8. CASE c[1] = "quit"
    <2>1. ws = <<<<"QUIT">>>> /\ text = <<<<"bye">>>>
        BY <1>8 DEF FormatWords, FormatText
    <2>2. "QUIT" \in Plain /\ "bye" \in Plain
        BY DEF Plain, Signs
    <2>3. <<"bye">> \in Seq(S)
        BY <2>2, WordIs DEF Word
    <2> QED
        BY <2>1, <2>2, <2>3, LineIs, WithText
<1>9. c[2] = <<"t">> \/ c[2] = <<"token">> \/ c[2] = <<"me">> => c[2] \in Word(S)
    <2>1. "t" \in Plain /\ "token" \in Plain /\ "me" \in Plain
        BY DEF Plain, Signs
    <2> QED
        BY <2>1, WordIs
<1>10. c[2] \in Channels => c[2] \in Word(S)
    BY ChannelIs
<1> HIDE DEF ws, text
<1> QED
    BY <1>1, <1>2, <1>3, <1>4, <1>5, <1>6, <1>7, <1>8, <1>9, <1>10, CallShapes DEF ws, text

\* The last of the words of a line, and what is after it.
LEMMA RestOfTwo ==
    ASSUME NEW S, Knows(S), NEW x \in Plain, NEW y \in Plain
    PROVE  Rest(<<<<x>>, <<y>>>>, 2) = <<y>> /\ Rest(<<<<x>>, <<y>>>>, 3) = <<>>
<1> DEFINE T == Seq(S)
           a == <<x>>
           b == <<y>>
           w == <<a, b>>
<1>1. a \in T /\ b \in T /\ HasSigns(S)
    BY WordIs, HasAll DEF Word
<1> HIDE DEF a, b, T
<1>2. w \in Seq(T) /\ Len(w) = 2 /\ w[2] = b /\ w # <<>>
    BY <1>1
<1> HIDE DEF w
<1>3. Rest(w, Len(w)) = w[Len(w)] /\ Rest(w, Len(w) + 1) = <<>>
    BY <1>1, <1>2, RestIs DEF T
<1>4. Rest(w, 2) = b /\ Rest(w, 3) = <<>>
    BY <1>2, <1>3
<1> QED
    BY <1>4 DEF w, a, b

\* The same for three words.
LEMMA RestOfThree ==
    ASSUME NEW S, Knows(S), NEW x \in Plain, NEW y \in Plain, NEW z \in Plain
    PROVE  Rest(<<<<x>>, <<y>>, <<z>>>>, 3) = <<z>>
<1> DEFINE T == Seq(S)
           a == <<x>>
           b == <<y>>
           d == <<z>>
           w == <<a, b, d>>
<1>1. a \in T /\ b \in T /\ d \in T /\ HasSigns(S)
    BY WordIs, HasAll DEF Word
<1> HIDE DEF a, b, d, T
<1>2. w \in Seq(T) /\ Len(w) = 3 /\ w[3] = d /\ w # <<>>
    BY <1>1
<1> HIDE DEF w
<1>3. Rest(w, Len(w)) = w[Len(w)]
    BY <1>1, <1>2, RestIs DEF T
<1>4. Rest(w, 3) = d
    BY <1>2, <1>3
<1> QED
    BY <1>4 DEF w, a, b, d

\* The text of a line as the server gets it.
Got(text) == IF text = <<>> THEN <<>> ELSE <<TrimEnd(text[1])>>

\* The words and the text of a call's line mean the call.
LEMMA Meaning ==
    ASSUME NEW S, Knows(S), NEW c \in Calls, NamesChannel(c)
    PROVE  ParseWords(FormatWords(c), Got(FormatText(c))) = Meant(c)
<1> DEFINE ws == FormatWords(c)
           text == FormatText(c)
<1> HIDE DEF Channels, Text
<1>a. c[2] \in Word(S) => \A x \in Plain :
        /\ Append(<<<<x>>>>, c[2]) = <<<<x>>, c[2]>>
        /\ Append(<<<<"TASK">>, <<x>>>>, c[2]) = <<<<"TASK">>, <<x>>, c[2]>>
    BY WordIs, Appended, AppendedTask
<1>b. c[1] \notin {"history", "cap", "pong", "quit"} => c[2] \in Word(S)
    <2>1. "t" \in Plain /\ "token" \in Plain /\ "me" \in Plain
        BY DEF Plain, Signs
    <2>2. <<"t">> \in Word(S) /\ <<"token">> \in Word(S) /\ <<"me">> \in Word(S)
        BY <2>1, WordIs
    <2>3. c[2] \in Channels => c[2] \in Word(S)
        BY ChannelIs
    <2> QED
        BY <2>2, <2>3, CallShapes
<1>c. /\ "JOIN" \in Plain /\ "PART" \in Plain /\ "PASS" \in Plain /\ "NICK" \in Plain
      /\ "LIST" \in Plain /\ "CLAIM" \in Plain /\ "DONE" \in Plain /\ "RELEASE" \in Plain
    BY DEF Plain, Signs
<1>1. CASE c[1] = "privmsg"
    <2>1. ws = <<<<"PRIVMSG">>, c[2]>> /\ text = <<c[3]>> /\ Meant(c) = <<"Privmsg", c[2], TrimEnd(c[3])>>
        BY <1>1 DEF FormatWords, FormatText, Meant
    <2>2. Got(<<c[3]>>) = <<TrimEnd(c[3])>>
        BY DEF Got
    <2>3. \A t : ParseWords(<<<<"PRIVMSG">>, c[2]>>, <<t>>) = <<"Privmsg", c[2], t>>
        BY DEF ParseWords, Arg
    <2> QED
        BY <2>1, <2>2, <2>3
<1>2. CASE c[1] = "task_create"
    <2>1. /\ ws = <<<<"TASK">>, <<"CREATE">>, c[2]>> /\ text = <<c[3]>>
          /\ Meant(c) = <<"TaskCreate", c[2], TrimEnd(c[3])>>
        BY <1>2 DEF FormatWords, FormatText, Meant
    <2>2. Got(<<c[3]>>) = <<TrimEnd(c[3])>>
        BY DEF Got
    <2>3. \A t : ParseWords(<<<<"TASK">>, <<"CREATE">>, c[2]>>, <<t>>) = <<"TaskCreate", c[2], t>>
        BY DEF ParseWords, ParseTask, Arg
    <2> QED
        BY <2>1, <2>2, <2>3
<1>3. CASE c[1] = "history" /\ c[2] \in Channels /\ c[3] \in {"0", "1"} /\ c[4] \in {"1", "100"}
    <2> DEFINE w == <<<<"CHATHISTORY">>, <<"AFTER">>, c[2], <<c[3]>>, <<c[4]>>>>
    <2>1. ws = w /\ text = <<>> /\ Meant(c) = <<"History", c[2], c[3], c[4]>>
        BY <1>3 DEF FormatWords, FormatText, Meant
    <2>2. Arg(w, 1) = <<"CHATHISTORY">> /\ Arg(w, 2) = <<"AFTER">> /\ w[3] = c[2] /\ Arg(w, 3) = c[2]
        BY DEF Arg
    <2>3. Arg(w, 4) = <<c[3]>> /\ Arg(w, 4 + 1) = <<c[4]>>
        BY DEF Arg
    <2>4. IsChannel(c[2])
        <3>1. c[2][1] = "#"
            BY <1>3 DEF NamesChannel
        <3>2. c[2] # <<>>
            BY <1>3, ChannelIs DEF Word, Solid
        <3> QED
            BY <3>1, <3>2 DEF IsChannel
    <2>5. Number(<<c[3]>>, "0") = c[3] /\ Number(<<c[4]>>, "100") = c[4]
        BY <1>3 DEF Number, Numeral
    <2> HIDE DEF w
    <2>6. ParseChathistory(w) = <<"History", c[2], c[3], c[4]>>
        BY <2>2, <2>3, <2>4, <2>5 DEF ParseChathistory
    <2>7. ParseWords(w, <<>>) = ParseChathistory(w)
        BY <2>2 DEF ParseWords
    <2> QED
        BY <2>1, <2>6, <2>7 DEF Got
<1>4. CASE c[1] = "join"
    <2>1. ws = Append(<<<<"JOIN">>>>, c[2]) /\ text = <<>> /\ Meant(c) = <<"Join", c[2]>>
        BY <1>4 DEF FormatWords, FormatText, Meant, Simple
    <2>2. Append(<<<<"JOIN">>>>, c[2]) = <<<<"JOIN">>, c[2]>>
        BY <1>4, <1>a, <1>b, <1>c
    <2>3. ParseWords(<<<<"JOIN">>, c[2]>>, <<>>) = <<"Join", c[2]>>
        BY DEF ParseWords, Arg
    <2> QED
        BY <2>1, <2>2, <2>3 DEF Got
<1>5. CASE c[1] = "part"
    <2>1. ws = Append(<<<<"PART">>>>, c[2]) /\ text = <<>> /\ Meant(c) = <<"Part", c[2]>>
        BY <1>5 DEF FormatWords, FormatText, Meant, Simple
    <2>2. Append(<<<<"PART">>>>, c[2]) = <<<<"PART">>, c[2]>>
        BY <1>5, <1>a, <1>b, <1>c
    <2>3. ParseWords(<<<<"PART">>, c[2]>>, <<>>) = <<"Part", c[2]>>
        BY DEF ParseWords, Arg
    <2> QED
        BY <2>1, <2>2, <2>3 DEF Got
<1>6. CASE c[1] = "nick"
    <2>1. ws = Append(<<<<"NICK">>>>, c[2]) /\ text = <<>> /\ Meant(c) = <<"Nick", c[2]>>
        BY <1>6 DEF FormatWords, FormatText, Meant, Simple
    <2>2. Append(<<<<"NICK">>>>, c[2]) = <<<<"NICK">>, c[2]>>
        BY <1>6, <1>a, <1>b, <1>c
    <2>3. ParseWords(<<<<"NICK">>, c[2]>>, <<>>) = <<"Nick", c[2]>>
        BY DEF ParseWords, Arg
    <2> QED
        BY <2>1, <2>2, <2>3 DEF Got
<1>7. CASE c[1] = "task_list"
    <2>1. ws = Append(<<<<"TASK">>, <<"LIST">>>>, c[2]) /\ text = <<>> /\ Meant(c) = <<"TaskList", c[2]>>
        BY <1>7 DEF FormatWords, FormatText, Meant, Simple
    <2>2. Append(<<<<"TASK">>, <<"LIST">>>>, c[2]) = <<<<"TASK">>, <<"LIST">>, c[2]>>
        BY <1>7, <1>a, <1>b, <1>c
    <2>3. ParseWords(<<<<"TASK">>, <<"LIST">>, c[2]>>, <<>>) = <<"TaskList", c[2]>>
        BY DEF ParseWords, ParseTask, Arg
    <2> QED
        BY <2>1, <2>2, <2>3 DEF Got
<1>8. CASE c[1] = "task_claim"
    <2>1. ws = Append(<<<<"TASK">>, <<"CLAIM">>>>, c[2]) /\ text = <<>> /\ Meant(c) = <<"TaskClaim", c[2]>>
        BY <1>8 DEF FormatWords, FormatText, Meant, Simple
    <2>2. Append(<<<<"TASK">>, <<"CLAIM">>>>, c[2]) = <<<<"TASK">>, <<"CLAIM">>, c[2]>>
        BY <1>8, <1>a, <1>b, <1>c
    <2>3. ParseWords(<<<<"TASK">>, <<"CLAIM">>, c[2]>>, <<>>) = <<"TaskClaim", c[2]>>
        BY DEF ParseWords, ParseTask, Arg
    <2> QED
        BY <2>1, <2>2, <2>3 DEF Got
<1>9. CASE c[1] = "task_done"
    <2>1. ws = Append(<<<<"TASK">>, <<"DONE">>>>, c[2]) /\ text = <<>> /\ Meant(c) = <<"TaskDone", c[2]>>
        BY <1>9 DEF FormatWords, FormatText, Meant, Simple
    <2>2. Append(<<<<"TASK">>, <<"DONE">>>>, c[2]) = <<<<"TASK">>, <<"DONE">>, c[2]>>
        BY <1>9, <1>a, <1>b, <1>c
    <2>3. ParseWords(<<<<"TASK">>, <<"DONE">>, c[2]>>, <<>>) = <<"TaskDone", c[2]>>
        BY DEF ParseWords, ParseTask, Arg
    <2> QED
        BY <2>1, <2>2, <2>3 DEF Got
<1>10. CASE c[1] = "task_release"
    <2>1. ws = Append(<<<<"TASK">>, <<"RELEASE">>>>, c[2]) /\ text = <<>> /\ Meant(c) = <<"TaskRelease", c[2]>>
        BY <1>10 DEF FormatWords, FormatText, Meant, Simple
    <2>2. Append(<<<<"TASK">>, <<"RELEASE">>>>, c[2]) = <<<<"TASK">>, <<"RELEASE">>, c[2]>>
        BY <1>10, <1>a, <1>b, <1>c
    <2>3. ParseWords(<<<<"TASK">>, <<"RELEASE">>, c[2]>>, <<>>) = <<"TaskRelease", c[2]>>
        BY DEF ParseWords, ParseTask, Arg
    <2> QED
        BY <2>1, <2>2, <2>3 DEF Got
<1>11. CASE c[1] = "pass" /\ c[2] = <<"token">>
    <2>1. ws = Append(<<<<"PASS">>>>, c[2]) /\ text = <<>> /\ Meant(c) = <<"Pass", c[2]>>
        BY <1>11 DEF FormatWords, FormatText, Meant, Simple
    <2>2. Append(<<<<"PASS">>>>, c[2]) = <<<<"PASS">>, c[2]>>
        BY <1>11, <1>a, <1>b, <1>c
    <2>3. ParseWords(<<<<"PASS">>, c[2]>>, <<>>) = <<"Pass", Rest(<<<<"PASS">>, c[2]>>, 2)>>
        BY DEF ParseWords, Arg
    <2>4. "PASS" \in Plain /\ "token" \in Plain
        BY DEF Plain, Signs
    <2>5. Rest(<<<<"PASS">>, <<"token">>>>, 2) = <<"token">>
        BY <2>4, RestOfTwo
    <2> QED
        BY <1>11, <2>1, <2>2, <2>3, <2>5 DEF Got
<1>12. CASE c[1] = "user"
    <2> DEFINE w == <<<<"USER">>, c[2], <<"0">>, <<"*">>>>
    <2>1. ws = w /\ Meant(c) = <<"User", c[2]>>
        BY <1>12 DEF FormatWords, Meant
    <2>2. Arg(w, 1) = <<"USER">> /\ Arg(w, 2) = c[2]
        BY DEF Arg
    <2> HIDE DEF w
    <2>3. \A t : ParseWords(w, t) = <<"User", c[2]>>
        BY <2>2 DEF ParseWords
    <2> QED
        BY <2>1, <2>3
<1>13. CASE c[1] = "pong"
    <2>1. ws = <<<<"PONG">>>> /\ Meant(c) = <<"Pong">>
        BY <1>13 DEF FormatWords, Meant
    <2>2. \A t : ParseWords(<<<<"PONG">>>>, t) = <<"Pong">>
        BY DEF ParseWords, Arg
    <2> QED
        BY <2>1, <2>2
<1>14. CASE c[1] = "quit"
    <2>1. ws = <<<<"QUIT">>>> /\ Meant(c) = <<"Quit">>
        BY <1>14 DEF FormatWords, Meant
    <2>2. \A t : ParseWords(<<<<"QUIT">>>>, t) = <<"Quit">>
        BY DEF ParseWords, Arg
    <2> QED
        BY <2>1, <2>2
<1>15. CASE c[1] = "cap" /\ c[2] = "LS"
    <2> DEFINE w == <<<<"CAP">>, <<"LS">>, <<"302">>>>
    <2>1. ws = w /\ text = <<>> /\ Meant(c) = <<"Cap", <<"LS">>, <<<<"302">>>>>>
        BY <1>15 DEF FormatWords, FormatText, Meant
    <2>2. Arg(w, 1) = <<"CAP">> /\ Arg(w, 2) = <<"LS">>
        BY DEF Arg
    <2>3. "CAP" \in Plain /\ "LS" \in Plain /\ "302" \in Plain
        BY DEF Plain, Signs
    <2>4. Rest(w, 3) = <<"302">> /\ Words(<<"302">>) = <<<<"302">>>>
        BY <2>3, RestOfThree, OneSign
    <2> HIDE DEF w
    <2>5. ParseWords(w, <<>>) = <<"Cap", <<"LS">>, Words(Rest(w, 3))>>
        BY <2>2 DEF ParseWords
    <2> QED
        BY <2>1, <2>4, <2>5 DEF Got
<1>16. CASE c[1] = "cap" /\ c[2] = "REQ"
    <2> DEFINE w == <<<<"CAP">>, <<"REQ">>>>
               t == <<"message-tags">>
    <2>1. ws = w /\ text = <<t>> /\ Meant(c) = <<"Cap", <<"REQ">>, <<t>>>>
        BY <1>16 DEF FormatWords, FormatText, Meant
    <2>2. Arg(w, 1) = <<"CAP">> /\ Arg(w, 2) = <<"REQ">>
        BY DEF Arg
    <2>3. "message-tags" \in Plain
        BY DEF Plain, Signs
    <2>4. TrimEnd(t) = t /\ Words(t) = <<t>>
        BY <2>3, OneSign
    <2> HIDE DEF w, t
    <2>5. ParseWords(w, <<t>>) = <<"Cap", <<"REQ">>, Words(t)>>
        BY <2>2 DEF ParseWords
    <2>6. Got(<<t>>) = <<t>>
        BY <2>4 DEF Got
    <2> QED
        BY <2>1, <2>4, <2>5, <2>6
<1>17. CASE c[1] = "cap" /\ c[2] = "END"
    <2> DEFINE w == <<<<"CAP">>, <<"END">>>>
    <2>1. ws = w /\ text = <<>> /\ Meant(c) = <<"Cap", <<"END">>, <<>>>>
        BY <1>17 DEF FormatWords, FormatText, Meant
    <2>2. Arg(w, 1) = <<"CAP">> /\ Arg(w, 2) = <<"END">>
        BY DEF Arg
    <2>3. "CAP" \in Plain /\ "END" \in Plain
        BY DEF Plain, Signs
    <2>4. Rest(w, 3) = <<>> /\ Words(<<>>) = <<>>
        BY <2>3, RestOfTwo, WordsNone
    <2> HIDE DEF w
    <2>5. ParseWords(w, <<>>) = <<"Cap", <<"END">>, Words(Rest(w, 3))>>
        BY <2>2 DEF ParseWords
    <2> QED
        BY <2>1, <2>4, <2>5 DEF Got
<1> HIDE DEF ws, text
<1> QED
    BY <1>1, <1>2, <1>3, <1>4, <1>5, <1>6, <1>7, <1>8, <1>9, <1>10, <1>11, <1>12,
       <1>13, <1>14, <1>15, <1>16, <1>17, CallShapes DEF ws, text

\* The server parses a line of client.py as the command that was meant.
LEMMA LineParsed ==
    ASSUME NEW S, Knows(S), NEW c \in Calls, Texts(S, c)
    PROVE  /\ Format(c) \in Seq(S)
           /\ NamesChannel(c) => ParseCommand(Format(c) \o <<"CR">>) = Meant(c)
<1> DEFINE ws == FormatWords(c)
           text == FormatText(c)
           t == text[1]
<1>1. IsLine(S, ws, text) /\ HasSigns(S)
    BY Formed, HasAll
<1>2. NamesChannel(c) => ParseWords(ws, Got(text)) = Meant(c)
    BY Meaning
<1>3. Format(c) = Join(ws, " ") \o (IF text = <<>> THEN <<>> ELSE <<" ", ":">> \o t)
    BY DEF Format
<1>4. ws \in Seq(Word(S)) /\ ws # <<>> /\ Opens(ws) /\ (text # <<>> => t \in Seq(S))
    BY <1>1 DEF IsLine
<1> HIDE DEF ws, text, t
<1>5. CASE text = <<>>
    <2> DEFINE a == Join(ws, " ")
    <2>1. ParseCommand(a \o <<"CR">>) = ParseWords(ws, <<>>)
        BY <1>1, <1>4, TakenPlain
    <2>2. a \in Seq(S)
        BY <1>1, <1>4, JoinedLine
    <2> HIDE DEF a
    <2>3. a \o <<>> = a
        BY <2>2, ConcatEmptySeq
    <2>4. Format(c) = a
        BY <1>3, <1>5, <2>3 DEF a
    <2> QED
        BY <1>2, <1>5, <2>1, <2>2, <2>4 DEF Got
<1>6. CASE text # <<>>
    <2> DEFINE f == Join(ws, " ") \o (<<" ", ":">> \o t)
    <2>1. ParseCommand(f \o <<"CR">>) = ParseWords(ws, <<TrimEnd(t)>>)
        BY <1>1, <1>4, <1>6, TakenText
    <2>2. f \in Seq(S)
        BY <1>1, <1>4, <1>6, JoinedLine, TextConcat
    <2>3. Format(c) = f
        BY <1>3, <1>6
    <2>4. Got(text) = <<TrimEnd(t)>>
        BY <1>6 DEF Got, t
    <2> HIDE DEF f
    <2> QED
        BY <1>2, <2>1, <2>2, <2>3, <2>4
<1> QED
    BY <1>5, <1>6

-----------------------------------------------------------------------------
(* The lines on their way *)

\* A line as it is sent, and the lines of some calls.
Sent(c) == Format(c) \o <<"CR", "LF">>
Upstream(cs) == FlattenSeq([k \in DOMAIN cs |-> Sent(cs[k])])

\* The symbols of up.
Bytes == Alphabet \cup Signs \cup {"LF"}

\* A line of client.py has no line break but those of a text, and is parsed as meant.
LEMMA CallFormat ==
    ASSUME NEW c \in Calls
    PROVE  /\ Format(c) \in Seq(Bytes) /\ Sent(c) \in Seq(Bytes)
           /\ OneLine(c) => Format(c) \in Seq(Bytes \ {"LF"})
           /\ OneLine(c) /\ NamesChannel(c) => ParseCommand(Format(c) \o <<"CR">>) = Meant(c)
<1> DEFINE T == Bytes \ {"LF"}
<1>1. Knows(Bytes) /\ Knows(T)
    BY DEF Knows, Bytes, Signs
<1>2. Texts(Bytes, c)
    <2>1. c[1] \in {"privmsg", "task_create"} => c[3] \in Text
        BY CallShapes
    <2>2. Text \subseteq Seq(Alphabet)
        <3>1. ASSUME NEW m \in 0..MaxText, NEW f \in [1..m -> Alphabet] PROVE f \in Seq(Alphabet)
            <4>1. m \in Nat
                BY WireBounds
            <4> QED
                BY <4>1
        <3> QED
            BY <3>1 DEF Text, BoundedSeq, SeqOf
    <2>3. Seq(Alphabet) \subseteq Seq(Bytes)
        BY SeqMonotonic DEF Bytes
    <2> QED
        BY <2>1, <2>2, <2>3 DEF Texts
<1>3. Format(c) \in Seq(Bytes) /\ (NamesChannel(c) => ParseCommand(Format(c) \o <<"CR">>) = Meant(c))
    <2> HIDE DEF Bytes
    <2> QED
        BY <1>1, <1>2, LineParsed
<1>4. Sent(c) \in Seq(Bytes)
    <2> DEFINE x == "CR"
               y == "LF"
               e == <<x, y>>
    <2>1. x \in Bytes /\ y \in Bytes
        BY DEF Bytes, Signs
    <2> HIDE DEF x, y, Bytes
    <2>2. e \in Seq(Bytes)
        BY <2>1
    <2> HIDE DEF e
    <2>3. Format(c) \o e \in Seq(Bytes)
        BY <1>3, <2>2, ConcatProperties
    <2> QED
        BY <2>3 DEF Sent, e, x, y
<1>5. ASSUME OneLine(c) PROVE Texts(T, c)
    <2> SUFFICES ASSUME c[1] \in {"privmsg", "task_create"} PROVE c[3] \in Seq(T)
        BY DEF Texts
    <2> DEFINE s == c[3]
    <2>1. s \in Seq(Bytes) /\ "LF" \notin ToSet(s)
        BY <1>2, <1>5 DEF Texts, OneLine
    <2> HIDE DEF s, T
    <2>2. \A i \in 1..Len(s) : s[i] \in T
        <3>1. ASSUME NEW i \in 1..Len(s) PROVE s[i] \in T
            <4>1. s[i] \in Bytes /\ s[i] \in ToSet(s)
                BY <2>1, ElementOfSeq, ToSetMember
            <4> QED
                BY <2>1, <4>1 DEF T
        <3> QED
            BY <3>1
    <2>3. s \in Seq(T)
        BY <2>1, <2>2
    <2> QED
        BY <2>3 DEF s
<1>6. OneLine(c) => Format(c) \in Seq(T)
    <2> HIDE DEF T
    <2> QED
        BY <1>1, <1>5, LineParsed
<1> QED
    BY <1>3, <1>4, <1>6

\* The last part of a flattened sequence comes last.
LEMMA FlattenAppend ==
    ASSUME NEW S, NEW ss \in Seq(Seq(S)), NEW a \in Seq(S)
    PROVE  FlattenSeq(Append(ss, a)) = FlattenSeq(ss) \o a
<1> DEFINE T == Seq(S)
           n == Len(ss)
           tt == Append(ss, a)
<1>1. /\ n \in Nat /\ tt \in Seq(T) /\ Len(tt) = n + 1
      /\ \A i \in 1..n : tt[i] = ss[i]
      /\ tt[n + 1] = a
    <2>1. ss \in Seq(T) /\ a \in T
        OBVIOUS
    <2> HIDE DEF T
    <2> QED
        BY <2>1, AppendProperties, LenProperties
<1> HIDE DEF tt
<1>2. PICK g \in [0..n -> Seq(S)] :
        g[0] = <<>> /\ (\A i \in 1..n : g[i] = g[i - 1] \o ss[i]) /\ FlattenSeq(ss) = g[n]
    BY FlattenPrefixes
<1>3. PICK h \in [0..Len(tt) -> Seq(S)] :
        h[0] = <<>> /\ (\A i \in 1..Len(tt) : h[i] = h[i - 1] \o tt[i]) /\ FlattenSeq(tt) = h[Len(tt)]
    BY <1>1, FlattenPrefixes
<1> HIDE DEF n
<1> DEFINE P == {i \in Nat : i <= n => h[i] = g[i]}
<1>4. 0 \in P
    BY <1>2, <1>3
<1>5. ASSUME NEW i \in Nat, i \in P PROVE i + 1 \in P
    <2> SUFFICES ASSUME i + 1 <= n PROVE h[i + 1] = g[i + 1]
        OBVIOUS
    <2> DEFINE j == i + 1
    <2>1. j \in 1..n /\ j \in 1..Len(tt) /\ j - 1 = i /\ i <= n
        BY <1>1
    <2>2. h[i] = g[i]
        BY <1>5, <2>1
    <2> HIDE DEF j
    <2>3. h[j] = h[j - 1] \o tt[j] /\ g[j] = g[j - 1] \o ss[j] /\ tt[j] = ss[j]
        BY <1>1, <1>2, <1>3, <2>1
    <2>4. h[j] = g[j]
        BY <2>1, <2>2, <2>3
    <2> QED
        BY <2>4 DEF j
<1>6. n \in P
    <2> HIDE DEF P
    <2> QED
        BY <1>1, <1>4, <1>5, NatUpward
<1>7. h[n] = g[n]
    BY <1>1, <1>6
<1>8. h[n + 1] = h[n] \o a
    <2>1. n + 1 \in 1..Len(tt) /\ (n + 1) - 1 = n
        BY <1>1
    <2>2. h[n + 1] = h[(n + 1) - 1] \o tt[n + 1]
        BY <1>3, <2>1
    <2> QED
        BY <1>1, <2>1, <2>2
<1>9. FlattenSeq(tt) = FlattenSeq(ss) \o a
    BY <1>1, <1>2, <1>3, <1>7, <1>8
<1> QED
    BY <1>9 DEF tt

\* The lines of calls, at the front and at the end.
LEMMA UpstreamIs ==
    ASSUME NEW cs \in Seq(Calls), NEW c \in Calls
    PROVE  /\ Upstream(cs) \in Seq(Bytes) /\ Upstream(<<>>) = <<>>
           /\ Upstream(<<c>> \o cs) = Sent(c) \o Upstream(cs)
           /\ Upstream(Append(cs, c)) = Upstream(cs) \o Sent(c)
<1> DEFINE L(vs) == [k \in DOMAIN vs |-> Sent(vs[k])]
           T == Seq(Bytes)
           n == Len(cs)
<1>1. ASSUME NEW vs \in Seq(Calls) PROVE L(vs) \in Seq(T) /\ Len(L(vs)) = Len(vs) /\ DOMAIN vs = 1..Len(vs)
    <2>1. DOMAIN vs = 1..Len(vs) /\ Len(vs) \in Nat /\ \A k \in 1..Len(vs) : vs[k] \in Calls
        BY LenProperties, ElementOfSeq
    <2>2. \A k \in 1..Len(vs) : Sent(vs[k]) \in T
        BY <2>1, CallFormat
    <2> HIDE DEF T
    <2>3. L(vs) \in [1..Len(vs) -> T]
        BY <2>1, <2>2
    <2> DEFINE l == Len(vs)
               E == L(vs)
    <2>4. l \in Nat /\ E \in [1..l -> T]
        BY <2>1, <2>3
    <2> HIDE DEF E, l
    <2>5. E \in Seq(T) /\ Len(E) = l
        BY <2>4
    <2> QED
        BY <2>1, <2>5 DEF E, l
<1> HIDE DEF Calls
<1>2. n \in Nat /\ Sent(c) \in T
    BY CallFormat, LenProperties
<1>3. L(cs) \in Seq(T) /\ Len(L(cs)) = n /\ DOMAIN cs = 1..n
    BY <1>1
<1> DEFINE us == <<c>> \o cs
           ws == Append(cs, c)
<1>4. us \in Seq(Calls) /\ Len(us) = n + 1 /\ us[1] = c /\ \A i \in 1..n : us[i + 1] = cs[i]
    BY HeadIs
<1>5. ws \in Seq(Calls) /\ Len(ws) = n + 1 /\ ws[n + 1] = c /\ \A i \in 1..n : ws[i] = cs[i]
    BY AppendProperties
<1> HIDE DEF us, ws
<1> DEFINE e == Sent(c)
           A == <<e>> \o L(cs)
           B == Append(L(cs), e)
<1>6. A \in Seq(T) /\ Len(A) = n + 1 /\ A[1] = e /\ \A i \in 1..n : A[i + 1] = L(cs)[i]
    <2> HIDE DEF e, T, L
    <2> QED
        BY <1>2, <1>3, HeadIs DEF e
<1>7. B \in Seq(T) /\ Len(B) = n + 1 /\ B[n + 1] = e /\ \A i \in 1..n : B[i] = L(cs)[i]
    <2> DEFINE l == L(cs)
    <2>1. l \in Seq(T) /\ Len(l) = n /\ e \in T
        BY <1>2, <1>3
    <2> HIDE DEF l, e, T
    <2>2. /\ Append(l, e) \in Seq(T) /\ Len(Append(l, e)) = Len(l) + 1
          /\ \A i \in 1..Len(l) : Append(l, e)[i] = l[i]
          /\ Append(l, e)[Len(l) + 1] = e
        BY <2>1, AppendProperties
    <2> QED
        BY <2>1, <2>2 DEF l
<1>8. L(us) = A
    <2>1. L(us) \in Seq(T) /\ Len(L(us)) = n + 1 /\ DOMAIN us = 1..(n + 1)
        BY <1>1, <1>4
    <2>2. ASSUME NEW i \in 1..(n + 1) PROVE L(us)[i] = A[i]
        <3>0. L(us)[i] = Sent(us[i])
            BY <2>1
        <3>1. CASE i = 1
            BY <1>4, <1>6, <3>0, <3>1
        <3>2. CASE i # 1
            <4>1. i - 1 \in 1..n /\ (i - 1) + 1 = i
                BY <1>2, <3>2
            <4>2. L(cs)[i - 1] = Sent(cs[i - 1])
                BY <1>3, <4>1
            <4>3. us[i] = cs[i - 1]
                BY <1>4, <4>1
            <4>4. A[i] = L(cs)[i - 1]
                BY <1>6, <4>1
            <4> QED
                BY <3>0, <4>2, <4>3, <4>4
        <3> QED
            BY <3>1, <3>2
    <2> HIDE DEF T, A, L
    <2> QED
        BY <1>6, <2>1, <2>2, SeqEqual
<1>9. L(ws) = B
    <2>1. L(ws) \in Seq(T) /\ Len(L(ws)) = n + 1 /\ DOMAIN ws = 1..(n + 1)
        BY <1>1, <1>5
    <2>2. ASSUME NEW i \in 1..(n + 1) PROVE L(ws)[i] = B[i]
        <3>0. L(ws)[i] = Sent(ws[i])
            BY <2>1
        <3>1. CASE i = n + 1
            BY <1>5, <1>7, <3>0, <3>1
        <3>2. CASE i # n + 1
            <4>1. i \in 1..n
                BY <1>2, <3>2
            <4>2. L(cs)[i] = Sent(cs[i])
                BY <1>3, <4>1
            <4>3. ws[i] = cs[i] /\ B[i] = L(cs)[i]
                BY <1>5, <1>7, <4>1
            <4> QED
                BY <3>0, <4>2, <4>3
        <3> QED
            BY <3>1, <3>2
    <2> HIDE DEF T, B, L
    <2> QED
        BY <1>7, <2>1, <2>2, SeqEqual
<1>10. FlattenSeq(A) = e \o FlattenSeq(L(cs)) /\ FlattenSeq(L(cs)) \in Seq(Bytes)
    <2> HIDE DEF L, e
    <2> QED
        BY <1>2, <1>3, FlattenCons DEF e
<1>11. FlattenSeq(B) = FlattenSeq(L(cs)) \o e
    <2> HIDE DEF L, e
    <2> QED
        BY <1>2, <1>3, FlattenAppend DEF e
<1>12. L(<<>>) = <<>> /\ FlattenSeq(<<>>) = <<>>
    BY DEF FlattenSeq
<1>13. \A vs : Upstream(vs) = FlattenSeq(L(vs))
    BY DEF Upstream
<1> HIDE DEF L
<1> QED
    BY <1>8, <1>9, <1>10, <1>11, <1>12, <1>13 DEF us, ws, e

\* What ends at the first y, and what is left.
Divides(y, s, l, r) == Before(s, Find(s, y)) = l /\ After(s, Find(s, y)) = r

\* The first y ends the line l, and r is left.
LEMMA LineCut ==
    ASSUME NEW S, NEW x \in S, NEW y \in S, x # y, NEW f \in Seq(S), Free(f, y), NEW r \in Seq(S)
    PROVE  Divides(y, (f \o <<x, y>>) \o r, f \o <<x>>, r)
<1> DEFINE e == <<x, y>>
           g == f \o e
           s == g \o r
           h == f \o <<x>>
           p == Len(f)
           q == Len(r)
<1>1. e \in Seq(S) /\ Len(e) = 2 /\ e[1] = x /\ e[2] = y /\ p \in Nat /\ q \in Nat
    BY LenProperties
<1> HIDE DEF e
<1>2. /\ g \in Seq(S) /\ Len(g) = p + 2
      /\ \A i \in 1..(p + 2) : g[i] = IF i <= p THEN f[i] ELSE e[i - p]
    <2>1. /\ g \in Seq(S) /\ Len(g) = Len(f) + Len(e)
          /\ \A i \in 1..(Len(f) + Len(e)) : g[i] = IF i <= Len(f) THEN f[i] ELSE e[i - Len(f)]
        BY <1>1, ConcatProperties
    <2> HIDE DEF g
    <2> QED
        BY <1>1, <2>1
<1> HIDE DEF g
<1>3. /\ s \in Seq(S) /\ Len(s) = p + 2 + q
      /\ \A i \in 1..(p + 2 + q) : s[i] = IF i <= p + 2 THEN g[i] ELSE r[i - (p + 2)]
    <2>0. g \in Seq(S)
        BY <1>2
    <2>1. /\ s \in Seq(S) /\ Len(s) = Len(g) + Len(r)
          /\ \A i \in 1..(Len(g) + Len(r)) : s[i] = IF i <= Len(g) THEN g[i] ELSE r[i - Len(g)]
        BY <2>0, ConcatProperties
    <2> HIDE DEF s
    <2> QED
        BY <1>1, <1>2, <2>1
<1> HIDE DEF s
<1>4. /\ h \in Seq(S) /\ Len(h) = p + 1
      /\ \A i \in 1..p : h[i] = f[i]
      /\ h[p + 1] = x
    <2> DEFINE w == <<x>>
    <2>1. w \in Seq(S) /\ Len(w) = 1 /\ w[1] = x
        OBVIOUS
    <2> HIDE DEF w
    <2>2. /\ f \o w \in Seq(S) /\ Len(f \o w) = Len(f) + Len(w)
          /\ \A i \in 1..(Len(f) + Len(w)) : (f \o w)[i] = IF i <= Len(f) THEN f[i] ELSE w[i - Len(f)]
        BY <2>1, ConcatProperties
    <2> DEFINE v == f \o w
    <2>3. /\ v \in Seq(S) /\ Len(v) = p + 1
          /\ \A i \in 1..(p + 1) : v[i] = IF i <= p THEN f[i] ELSE w[i - p]
        BY <2>1, <2>2
    <2> HIDE DEF v
    <2>4. \A i \in 1..p : v[i] = f[i]
        BY <1>1, <2>3
    <2>5. v[p + 1] = x
        <3>1. p + 1 \in 1..(p + 1) /\ ~(p + 1 <= p) /\ (p + 1) - p = 1
            BY <1>1
        <3> QED
            BY <2>1, <2>3, <3>1
    <2> QED
        BY <2>3, <2>4, <2>5 DEF v, w
<1> HIDE DEF h, p, q
<1>5. ASSUME NEW i \in 1..p PROVE s[i] = f[i] /\ f[i] # y
    <2>1. i \in 1..(p + 2 + q) /\ i \in 1..(p + 2) /\ i <= p + 2 /\ i <= p
        BY <1>1
    <2> QED
        BY <1>2, <1>3, <2>1 DEF p, Free
<1>6. s[p + 1] = x /\ s[p + 2] = y
    <2>1. /\ p + 1 \in 1..(p + 2 + q) /\ p + 1 \in 1..(p + 2) /\ p + 1 <= p + 2 /\ ~(p + 1 <= p) /\ (p + 1) - p = 1
          /\ p + 2 \in 1..(p + 2 + q) /\ p + 2 \in 1..(p + 2) /\ p + 2 <= p + 2 /\ ~(p + 2 <= p) /\ (p + 2) - p = 2
        BY <1>1
    <2> QED
        BY <1>1, <1>2, <1>3, <2>1
<1>7. ASSUME NEW j \in 1..q PROVE s[(p + 2) + j] = r[j]
    <2>1. (p + 2) + j \in 1..(p + 2 + q) /\ ~((p + 2) + j <= p + 2) /\ ((p + 2) + j) - (p + 2) = j
        BY <1>1
    <2> QED
        BY <1>3, <2>1
<1>8. Find(s, y) = p + 2
    <2> DEFINE C == {i \in DOMAIN s : s[i] = y}
               n == p + 2 + q
    <2>1. DOMAIN s = 1..n /\ n \in Nat /\ p + 2 \in 1..n
        BY <1>1, <1>3
    <2>2. C \subseteq 1..n /\ p + 2 \in C /\ \A i \in C : i \in Nat /\ i >= 1
        BY <1>6, <2>1
    <2>3. \A i \in C : i >= p + 2
        <3>1. ASSUME NEW i \in C, ~(i >= p + 2) PROVE FALSE
            <4>1. i \in 1..p \/ i = p + 1
                BY <1>1, <2>2, <3>1
            <4>2. s[i] = y
                OBVIOUS
            <4> QED
                BY <1>5, <1>6, <4>1, <4>2
        <3> QED
            BY <3>1
    <2> HIDE DEF C, n
    <2>4. First(C) \in C /\ \A i \in C : First(C) <= i
        BY <2>1, <2>2, FirstIs
    <2>5. First(C) = p + 2
        <3>1. First(C) \in Nat /\ First(C) >= p + 2 /\ First(C) <= p + 2
            BY <2>2, <2>3, <2>4
        <3> QED
            BY <1>1, <3>1
    <2> QED
        BY <2>5 DEF Find, C
<1>9. SubSeq(s, 1, p + 1) = h
    <2>1. p + 1 \in 0..Len(s) /\ Len(s) \in Nat /\ p + 1 \in Nat
        BY <1>1, <1>3
    <2>2. SubSeq(s, 1, p + 1) \in Seq(S) /\ Len(SubSeq(s, 1, p + 1)) = p + 1
        BY <1>3, <2>1, CutFacts
    <2>3. ASSUME NEW i \in 1..(p + 1) PROVE SubSeq(s, 1, p + 1)[i] = h[i]
        <3>1. SubSeq(s, 1, p + 1)[i] = s[i]
            BY <1>3, <2>1
        <3>2. CASE i = p + 1
            BY <1>4, <1>6, <3>1, <3>2
        <3>3. CASE i # p + 1
            <4>1. i \in 1..p
                BY <1>1, <3>3
            <4> QED
                BY <1>4, <1>5, <3>1, <4>1
        <3> QED
            BY <3>2, <3>3
    <2> QED
        BY <1>4, <2>2, <2>3, SeqEqual
<1>10. SubSeq(s, (p + 2) + 1, Len(s)) = r
    <2> DEFINE u == SubSeq(s, (p + 2) + 1, Len(s))
    <2>1. p + 2 \in 0..Len(s) /\ Len(s) = p + 2 + q
        BY <1>1, <1>3
    <2>2. u \in Seq(S) /\ Len(u) = q
        <3>1. u \in Seq(S) /\ Len(u) = Len(s) - (p + 2)
            BY <1>3, <2>1, CutFacts
        <3> HIDE DEF u
        <3> QED
            BY <1>1, <2>1, <3>1
    <2>3. ASSUME NEW i \in 1..q PROVE u[i] = r[i]
        <3> DEFINE j == (p + 2) + 1
        <3>1. j \in 1..(Len(s) + 1) /\ i \in 1..(Len(s) - j + 1) /\ j + i - 1 = (p + 2) + i
              /\ s \in Seq(S) /\ Len(s) \in Nat
            BY <1>1, <1>3, <2>1
        <3> HIDE DEF j
        <3>2. SubSeq(s, j, Len(s))[i] = s[j + i - 1]
            BY <3>1
        <3>3. u[i] = s[(p + 2) + i]
            BY <3>1, <3>2 DEF j
        <3> QED
            BY <1>7, <3>3
    <2> HIDE DEF u
    <2>4. u = r
        BY <2>2, <2>3, SeqEqual DEF q
    <2> QED
        BY <2>4 DEF u
<1>11. (p + 2) - 1 = p + 1
    BY <1>1
<1>12. Before(s, p + 2) = h /\ After(s, p + 2) = r
    BY <1>9, <1>10, <1>11 DEF Before, After
<1> QED
    BY <1>8, <1>12 DEF s, g, e, h, Divides

\* What follows the n-th element: with one more at the end, and with one taken away.
LEMMA RestSteps ==
    ASSUME NEW X, NEW s \in Seq(X), NEW n \in 0..Len(s), NEW d \in X
    PROVE  /\ SubSeq(s, n + 1, Len(s)) \in Seq(X)
           /\ SubSeq(Append(s, d), n + 1, Len(s) + 1) = Append(SubSeq(s, n + 1, Len(s)), d)
           /\ n < Len(s) => SubSeq(s, n + 1, Len(s)) = <<s[n + 1]>> \o SubSeq(s, n + 2, Len(s))
           /\ n = Len(s) => SubSeq(s, n + 1, Len(s)) = <<>>
<1> DEFINE q == Len(s)
           t == Append(s, d)
           u == SubSeq(s, n + 1, q)
           m == q - n
<1>1. q \in Nat /\ n \in Nat /\ m \in Nat /\ \A i \in 1..q : s[i] \in X
    BY LenProperties, ElementOfSeq
<1>2. u \in Seq(X) /\ Len(u) = m
    BY CutFacts
<1>3. ASSUME NEW i \in 1..m PROVE u[i] = s[n + i]
    <2> DEFINE j == n + 1
    <2>1. j \in 1..(q + 1) /\ i \in 1..(q - j + 1) /\ j + i - 1 = n + i
        BY <1>1
    <2> HIDE DEF j
    <2>2. SubSeq(s, j, q)[i] = s[j + i - 1]
        BY <1>1, <2>1
    <2> QED
        BY <2>1, <2>2 DEF j
<1>4. t \in Seq(X) /\ Len(t) = q + 1 /\ (\A i \in 1..q : t[i] = s[i]) /\ t[q + 1] = d
    BY AppendProperties
<1> HIDE DEF t, u
<1>5. SubSeq(t, n + 1, q + 1) = Append(u, d)
    <2> DEFINE v == SubSeq(t, n + 1, q + 1)
               w == Append(u, d)
    <2>1. w \in Seq(X) /\ Len(w) = m + 1 /\ (\A i \in 1..m : w[i] = u[i]) /\ w[m + 1] = d
        <3>1. /\ w \in Seq(X) /\ Len(w) = Len(u) + 1 /\ (\A i \in 1..Len(u) : w[i] = u[i])
              /\ w[Len(u) + 1] = d
            BY <1>2, AppendProperties
        <3> HIDE DEF w
        <3> QED
            BY <1>2, <3>1
    <2>2. v \in Seq(X) /\ Len(v) = m + 1
        <3>1. n \in 0..Len(t) /\ Len(t) = q + 1 /\ (q + 1) - n = m + 1
            BY <1>1, <1>4
        <3>2. SubSeq(t, n + 1, Len(t)) \in Seq(X) /\ Len(SubSeq(t, n + 1, Len(t))) = Len(t) - n
            BY <1>4, <3>1, CutFacts
        <3> QED
            BY <3>1, <3>2
    <2>3. ASSUME NEW i \in 1..(m + 1) PROVE v[i] = t[n + i]
        <3> DEFINE j == n + 1
                   l == q + 1
        <3>1. j \in 1..(l + 1) /\ i \in 1..(l - j + 1) /\ j + i - 1 = n + i /\ l \in Nat
            BY <1>1
        <3>2. Len(t) = l
            BY <1>4
        <3> HIDE DEF j, l
        <3>3. SubSeq(t, j, l)[i] = t[j + i - 1]
            BY <1>4, <3>1, <3>2
        <3> QED
            BY <3>1, <3>3 DEF j, l
    <2> HIDE DEF v, w
    <2>4. ASSUME NEW i \in 1..(m + 1) PROVE v[i] = w[i]
        <3>1. CASE i = m + 1
            <4>1. n + i = q + 1
                BY <1>1, <3>1
            <4> QED
                BY <1>4, <2>1, <2>3, <3>1, <4>1
        <3>2. CASE i # m + 1
            <4>1. i \in 1..m /\ n + i \in 1..q
                BY <1>1, <3>2
            <4> QED
                BY <1>3, <1>4, <2>1, <2>3, <4>1
        <3> QED
            BY <3>1, <3>2
    <2>5. v = w
        BY <2>1, <2>2, <2>4, SeqEqual
    <2> QED
        BY <2>5 DEF v, w
<1>6. ASSUME n < q PROVE u = <<s[n + 1]>> \o SubSeq(s, n + 2, q)
    <2> DEFINE v == SubSeq(s, (n + 1) + 1, q)
               x == s[n + 1]
               w == <<x>> \o v
    <2>1. n + 1 \in 0..q /\ n + 1 \in 1..q /\ q - (n + 1) = m - 1 /\ (n + 1) + 1 = n + 2
        BY <1>1, <1>6
    <2>2. v \in Seq(X) /\ Len(v) = m - 1
        <3>1. v \in Seq(X) /\ Len(v) = q - (n + 1)
            <4> DEFINE k == n + 1
            <4>1. k \in 0..q
                BY <2>1
            <4> HIDE DEF k
            <4>2. SubSeq(s, k + 1, q) \in Seq(X) /\ Len(SubSeq(s, k + 1, q)) = q - k
                BY <4>1, CutFacts
            <4> QED
                BY <4>2 DEF k
        <3> HIDE DEF v
        <3> QED
            BY <2>1, <3>1
    <2>3. ASSUME NEW i \in 1..(m - 1) PROVE v[i] = s[n + (i + 1)]
        <3> DEFINE j == (n + 1) + 1
        <3>1. j \in 1..(q + 1) /\ i \in 1..(q - j + 1) /\ j + i - 1 = n + (i + 1)
            BY <1>1, <1>6
        <3> HIDE DEF j
        <3>2. SubSeq(s, j, q)[i] = s[j + i - 1]
            BY <1>1, <3>1
        <3> QED
            BY <3>1, <3>2 DEF j
    <2>4. x \in X
        BY <1>1, <2>1
    <2> HIDE DEF v, x
    <2>5. /\ w \in Seq(X) /\ Len(w) = Len(v) + 1 /\ w[1] = x
          /\ \A i \in 1..Len(v) : w[i + 1] = v[i]
        BY <2>2, <2>4, HeadIs
    <2> HIDE DEF w
    <2>6. Len(w) = m
        BY <1>1, <2>2, <2>5
    <2>7. ASSUME NEW i \in 1..m PROVE u[i] = w[i]
        <3>1. CASE i = 1
            BY <1>3, <2>5, <3>1 DEF x
        <3>2. CASE i # 1
            <4>1. i - 1 \in 1..(m - 1) /\ (i - 1) + 1 = i
                BY <1>1, <3>2
            <4>2. w[i] = v[i - 1] /\ v[i - 1] = s[n + i]
                BY <2>2, <2>3, <2>5, <4>1
            <4> QED
                BY <1>3, <4>2
        <3> QED
            BY <3>1, <3>2
    <2>8. u = w
        BY <1>2, <2>5, <2>6, <2>7, SeqEqual
    <2> QED
        BY <2>1, <2>8 DEF w, x, v
<1>7. ASSUME n = q PROVE u = <<>>
    BY <1>2, <1>7, EmptySeq
<1> QED
    BY <1>2, <1>5, <1>6, <1>7 DEF u, t

\* Nothing follows the last element.
LEMMA EndOf ==
    ASSUME NEW X, NEW s \in Seq(X)
    PROVE  SubSeq(s, Len(s) + 1, Len(s)) = <<>>
<1> DEFINE q == Len(s)
<1>1. q \in Nat
    BY LenProperties
<1>2. SubSeq(s, q + 1, q) \in Seq(X) /\ Len(SubSeq(s, q + 1, q)) = 0
    <2>1. q \in 0..Len(s)
        BY <1>1
    <2>2. SubSeq(s, q + 1, Len(s)) \in Seq(X) /\ Len(SubSeq(s, q + 1, Len(s))) = Len(s) - q
        BY <2>1, CutFacts
    <2> QED
        BY <1>1, <2>2
<1> QED
    BY <1>2, EmptySeq

-----------------------------------------------------------------------------
(* The queue of lines *)

OneLines(k) == \A j \in 1..k : OneLine(calls[j])

Typed == calls \in Seq(Calls) /\ up \in Seq(Bytes) /\ parsed \in Seq(ToSet(parsed))

\* As long as every text was of one line, what is on its way is the calls that
\* are not parsed yet.
Owed ==
    Len(parsed) <= Len(calls) /\ OneLines(Len(parsed)) =>
        up = Upstream(SubSeq(calls, Len(parsed) + 1, Len(calls)))

\* There are no more commands than calls.
NoneBeyond == Len(parsed) > Len(calls) => ~OneLines(Len(calls))

Meanings ==
    \A k \in 1..Len(parsed) :
        k <= Len(calls) /\ OneLines(k) /\ NamesChannel(calls[k]) => parsed[k] = Meant(calls[k])

MeaningInv == Typed /\ Owed /\ NoneBeyond /\ Meanings

\* At first nothing was called, sent or parsed.
LEMMA MeaningInit == Init => MeaningInv
<1> SUFFICES ASSUME Init PROVE MeaningInv
    OBVIOUS
<1>1. calls = <<>> /\ up = <<>> /\ parsed = <<>>
    BY DEF Init
<1>2. Typed
    BY <1>1, EmptySeq DEF Typed
<1>3. Owed
    <2>1. SubSeq(calls, Len(parsed) + 1, Len(calls)) = <<>>
        BY <1>1
    <2>2. Upstream(<<>>) = <<>>
        BY DEF Upstream, FlattenSeq
    <2> QED
        BY <1>1, <2>1, <2>2 DEF Owed
<1>4. NoneBeyond /\ Meanings
    BY <1>1 DEF NoneBeyond, Meanings
<1> QED
    BY <1>2, <1>3, <1>4 DEF MeaningInv

\* A call adds its line at the end.
LEMMA MeaningCall ==
    ASSUME MeaningInv, NEW c \in Calls, Call(c)
    PROVE  MeaningInv'
<1> DEFINE L == Len(calls)
           n == Len(parsed)
<1> HIDE DEF Calls
<1>1. /\ calls' = Append(calls, c) /\ parsed' = parsed
      /\ up' = (up \o Format(c)) \o <<"CR", "LF">>
    BY DEF Call
<1>2. calls \in Seq(Calls) /\ up \in Seq(Bytes) /\ parsed \in Seq(ToSet(parsed))
    BY DEF MeaningInv, Typed
<1>3. L \in Nat /\ n \in Nat
    BY <1>2, LenProperties
<1>4. calls' \in Seq(Calls) /\ Len(calls') = L + 1 /\ \A i \in 1..L : calls'[i] = calls[i]
    BY <1>1, <1>2, AppendProperties
<1>5. up' = up \o Sent(c)
    <2> DEFINE f == Format(c)
               x == "CR"
               y == "LF"
               e == <<x, y>>
    <2>1. f \in Seq(Bytes)
        BY CallFormat
    <2>2. e \in Seq(Bytes)
        <3>1. x \in Bytes /\ y \in Bytes
            BY DEF Bytes, Signs
        <3> HIDE DEF x, y, Bytes
        <3> QED
            BY <3>1
    <2> HIDE DEF f, e, Bytes
    <2>3. (up \o f) \o e = up \o (f \o e)
        BY <1>2, <2>1, <2>2, ConcatAssociative
    <2> QED
        BY <1>1, <2>3 DEF f, e, x, y, Sent
<1>6. up' \in Seq(Bytes)
    <2>1. Sent(c) \in Seq(Bytes)
        BY CallFormat
    <2> QED
        BY <1>2, <1>5, <2>1, ConcatProperties
<1>7. \A k \in 0..L : (\A j \in 1..k : OneLine(calls'[j])) => OneLines(k)
    BY <1>3, <1>4 DEF OneLines
<1> HIDE DEF L, n
<1>8. Owed'
    <2> SUFFICES ASSUME n <= L + 1, \A j \in 1..n : OneLine(calls'[j])
                 PROVE  up' = Upstream(SubSeq(calls', n + 1, L + 1))
        BY <1>1, <1>4 DEF Owed, OneLines, n
    <2>1. CASE n <= L
        <3>1. n \in 0..L
            BY <1>3, <2>1
        <3>2. OneLines(n)
            BY <1>7, <3>1
        <3>3. up = Upstream(SubSeq(calls, n + 1, L))
            BY <2>1, <3>2 DEF MeaningInv, Owed, n, L
        <3> DEFINE cs == SubSeq(calls, n + 1, L)
        <3>4. cs \in Seq(Calls) /\ SubSeq(calls', n + 1, L + 1) = Append(cs, c)
            BY <1>1, <1>2, <3>1, RestSteps DEF L
        <3> HIDE DEF cs
        <3>5. Upstream(Append(cs, c)) = Upstream(cs) \o Sent(c)
            BY <3>4, UpstreamIs
        <3> QED
            BY <1>5, <3>3, <3>4, <3>5 DEF cs
    <2>2. CASE ~(n <= L)
        <3>1. n > L /\ n = L + 1 /\ L \in 0..L
            BY <1>3, <2>2
        <3>2. ~OneLines(L)
            BY <3>1 DEF MeaningInv, NoneBeyond, n, L
        <3>3. \A j \in 1..L : j \in 1..n
            BY <1>3, <3>1
        <3> QED
            BY <1>7, <3>1, <3>2, <3>3
    <2> QED
        BY <2>1, <2>2
<1>9. NoneBeyond'
    <2> SUFFICES ASSUME n > L + 1, \A j \in 1..(L + 1) : OneLine(calls'[j]) PROVE FALSE
        BY <1>1, <1>4 DEF NoneBeyond, OneLines, n
    <2>1. n > L /\ L \in 0..L /\ \A j \in 1..L : j \in 1..(L + 1)
        BY <1>3
    <2>2. ~OneLines(L)
        BY <2>1 DEF MeaningInv, NoneBeyond, n, L
    <2> QED
        BY <1>7, <2>1, <2>2
<1>10. Meanings'
    <2> SUFFICES ASSUME NEW k \in 1..n, k <= L + 1, \A j \in 1..k : OneLine(calls'[j]), NamesChannel(calls'[k])
                 PROVE  parsed[k] = Meant(calls'[k])
        BY <1>1, <1>4 DEF Meanings, OneLines, n
    <2>1. CASE k <= L
        <3>1. k \in 1..L /\ \A j \in 1..k : j \in 1..L
            BY <1>3, <2>1
        <3>2. \A j \in 1..k : OneLine(calls[j])
            BY <1>4, <3>1 DEF L
        <3>3. calls'[k] = calls[k]
            BY <1>4, <3>1 DEF L
        <3>4. parsed[k] = Meant(calls[k])
            BY <2>1, <3>2, <3>3 DEF MeaningInv, Meanings, OneLines, n, L
        <3> QED
            BY <3>3, <3>4
    <2>2. CASE ~(k <= L)
        <3>1. n > L /\ \A j \in 1..L : j \in 1..k
            BY <1>3, <2>2
        <3>2. ~OneLines(L)
            BY <3>1 DEF MeaningInv, NoneBeyond, n, L
        <3>3. \A j \in 1..L : OneLine(calls[j])
            BY <1>4, <3>1 DEF L
        <3> QED
            BY <3>2, <3>3 DEF OneLines
    <2> QED
        BY <2>1, <2>2
<1>11. Typed'
    BY <1>1, <1>2, <1>4, <1>6 DEF Typed
<1> QED
    BY <1>8, <1>9, <1>10, <1>11 DEF MeaningInv

\* What the server does to up, whatever is in it.
LEMMA LineTyped ==
    ASSUME NEW s \in Seq(Bytes), "LF" \in ToSet(s)
    PROVE  /\ Before(s, Find(s, "LF")) \in Seq(Bytes) /\ After(s, Find(s, "LF")) \in Seq(Bytes)
<1> DEFINE y == "LF"
           C == {i \in DOMAIN s : s[i] = y}
           n == Len(s)
           p == First(C)
<1>1. n \in Nat /\ DOMAIN s = 1..n
    BY LenProperties
<1>2. C \subseteq 1..n /\ C # {}
    <2>1. \E i \in 1..n : s[i] = y
        BY ToSetMember
    <2> QED
        BY <1>1, <2>1
<1> HIDE DEF C, y, Bytes
<1>3. p \in 1..n
    BY <1>1, <1>2, FirstIs
<1> HIDE DEF p
<1>4. SubSeq(s, p + 1, n) \in Seq(Bytes)
    <2>1. p \in 0..n
        BY <1>3
    <2> QED
        BY <2>1, CutFacts
<1>5. SubSeq(s, 1, p - 1) \in Seq(Bytes)
    <2> DEFINE k == p - 1
    <2>1. k \in 0..n
        BY <1>1, <1>3
    <2> HIDE DEF k
    <2>2. SubSeq(s, 1, k) \in Seq(Bytes)
        BY <2>1, CutFacts
    <2> QED
        BY <2>2 DEF k
<1> QED
    BY <1>4, <1>5 DEF Before, After, Find, p, C, y

\* The server takes the first line.
LEMMA MeaningServer ==
    ASSUME MeaningInv, ServerLine
    PROVE  MeaningInv'
<1> DEFINE L == Len(calls)
           n == Len(parsed)
           d == ParseCommand(Before(up, Find(up, "LF")))
           D == ToSet(parsed) \cup {d}
<1> HIDE DEF Calls, Bytes
<1>1. /\ parsed' = Append(parsed, d) /\ calls' = calls /\ "LF" \in ToSet(up)
      /\ up' = After(up, Find(up, "LF"))
    BY DEF ServerLine
<1>2. calls \in Seq(Calls) /\ up \in Seq(Bytes) /\ parsed \in Seq(ToSet(parsed))
    BY DEF MeaningInv, Typed
<1>3. L \in Nat /\ n \in Nat
    BY <1>2, LenProperties
<1>4. parsed \in Seq(D) /\ d \in D
    <2>1. ToSet(parsed) \subseteq D
        OBVIOUS
    <2> QED
        BY <1>2, <2>1, SeqMonotonic
<1> HIDE DEF d
<1>5. /\ parsed' \in Seq(D) /\ ToSet(parsed') = D /\ Len(parsed') = n + 1
      /\ (\A i \in 1..n : parsed'[i] = parsed[i]) /\ parsed'[n + 1] = d
    <2>1. ToSet(Append(parsed, d)) = ToSet(parsed) \cup {d}
        <3> HIDE DEF D
        <3> QED
            BY <1>4, AppendFacts
    <2> HIDE DEF D
    <2>2. /\ Append(parsed, d) \in Seq(D) /\ Len(Append(parsed, d)) = n + 1
          /\ (\A i \in 1..n : Append(parsed, d)[i] = parsed[i]) /\ Append(parsed, d)[n + 1] = d
        BY <1>4, AppendProperties
    <2> QED
        BY <1>1, <2>1, <2>2 DEF D
<1>6. Typed'
    <2>1. up' \in Seq(Bytes)
        BY <1>1, <1>2, LineTyped
    <2> QED
        BY <1>1, <1>2, <1>5, <2>1 DEF Typed
<1> DEFINE c == calls[n + 1]
           r == SubSeq(calls, n + 2, L)
\* what the server takes, if every text so far was of one line
<1>7. ASSUME n <= L, \A j \in 1..n : OneLine(calls[j])
      PROVE  /\ n < L /\ c \in Calls /\ up = Sent(c) \o Upstream(r)
             /\ OneLine(c) => up' = Upstream(r) /\ (NamesChannel(c) => d = Meant(c))
    <2>1. up = Upstream(SubSeq(calls, n + 1, L))
        BY <1>7 DEF MeaningInv, Owed, OneLines
    <2>2. n \in 0..Len(calls)
        BY <1>3, <1>7
    <2>3. n < L
        <3> SUFFICES ASSUME n = L PROVE FALSE
            BY <1>3, <1>7
        <3>1. SubSeq(calls, n + 1, L) = <<>>
            BY <1>2, <2>2, EndOf
        <3>2. up = <<>>
            BY <2>1, <3>1 DEF Upstream, FlattenSeq
        <3>3. ToSet(<<>>) = {}
            BY DEF ToSet
        <3> QED
            BY <1>1, <3>2, <3>3
    <2>4. c \in Calls
        <3>1. n + 1 \in 1..Len(calls)
            BY <1>3, <2>3
        <3> QED
            BY <1>2, <3>1, ElementOfSeq
    <2> HIDE DEF n
    <2>5. SubSeq(calls, n + 1, L) = <<c>> \o r /\ r \in Seq(Calls)
        <3>1. SubSeq(calls, n + 1, L) = <<c>> \o r
            BY <1>2, <2>2, <2>3, <2>4, RestSteps
        <3> DEFINE k == n + 1
        <3>2. k \in 0..Len(calls) /\ k + 1 = n + 2
            BY <1>3, <2>3
        <3> HIDE DEF k
        <3>3. SubSeq(calls, k + 1, L) \in Seq(Calls)
            BY <1>2, <2>4, <3>2, RestSteps
        <3> QED
            BY <3>1, <3>2, <3>3
    <2> HIDE DEF c, r
    <2>6. Upstream(<<c>> \o r) = Sent(c) \o Upstream(r) /\ Upstream(r) \in Seq(Bytes)
        BY <2>4, <2>5, UpstreamIs
    <2>7. up = Sent(c) \o Upstream(r)
        BY <2>1, <2>5, <2>6
    <2>8. ASSUME OneLine(c) PROVE up' = Upstream(r) /\ (NamesChannel(c) => d = Meant(c))
        <3> DEFINE f == Format(c)
                   u == Upstream(r)
                   x == "CR"
                   y == "LF"
        <3>1. f \in Seq(Bytes) /\ f \in Seq(Bytes \ {y}) /\ u \in Seq(Bytes)
            BY <2>4, <2>6, <2>8, CallFormat
        <3>2. x \in Bytes /\ y \in Bytes /\ x # y
            BY DEF Bytes, Signs
        <3>3. Free(f, y)
            <4> HIDE DEF f, y
            <4> QED
                BY <3>1, ElementOfSeq DEF Free
        <3>4. up = (f \o <<x, y>>) \o u
            BY <2>7 DEF Sent
        <3> HIDE DEF f, u, x, y
        <3>5. Before(up, Find(up, y)) = f \o <<x>> /\ After(up, Find(up, y)) = u
            <4>1. f \in Seq(Bytes) /\ u \in Seq(Bytes)
                BY <3>1
            <4>2. Divides(y, (f \o <<x, y>>) \o u, f \o <<x>>, u)
                BY <3>2, <3>3, <4>1, LineCut
            <4> QED
                BY <3>4, <4>2 DEF Divides
        <3>6. up' = u
            BY <1>1, <3>5 DEF y
        <3>7. d = ParseCommand(f \o <<x>>)
            BY <3>5 DEF d, y
        <3>8. NamesChannel(c) => ParseCommand(f \o <<x>>) = Meant(c)
            BY <2>4, <2>8, CallFormat DEF f, x
        <3> QED
            BY <3>6, <3>7, <3>8 DEF u
    <2> QED
        BY <2>3, <2>4, <2>7, <2>8
<1> HIDE DEF c, r, L, n
<1>8. Owed'
    <2> SUFFICES ASSUME n + 1 <= L, \A j \in 1..(n + 1) : OneLine(calls[j])
                 PROVE  up' = Upstream(SubSeq(calls, (n + 1) + 1, L))
        BY <1>1, <1>5 DEF Owed, OneLines, L
    <2>1. n <= L /\ (\A j \in 1..n : j \in 1..(n + 1)) /\ n + 1 \in 1..(n + 1) /\ (n + 1) + 1 = n + 2
        BY <1>3
    <2>2. (\A j \in 1..n : OneLine(calls[j])) /\ OneLine(c)
        BY <2>1 DEF c
    <2> QED
        BY <1>7, <2>1, <2>2 DEF r
<1>9. NoneBeyond'
    <2> SUFFICES ASSUME n + 1 > L, \A j \in 1..L : OneLine(calls[j]) PROVE FALSE
        BY <1>1, <1>5 DEF NoneBeyond, OneLines, L
    <2>1. CASE n > L
        BY <2>1 DEF MeaningInv, NoneBeyond, OneLines, L, n
    <2>2. CASE ~(n > L)
        <3>1. n <= L /\ n = L
            BY <1>3, <2>2
        <3> QED
            BY <1>3, <1>7, <3>1
    <2> QED
        BY <2>1, <2>2
<1>10. Meanings'
    <2> SUFFICES ASSUME NEW k \in 1..(n + 1), k <= L, \A j \in 1..k : OneLine(calls[j]), NamesChannel(calls[k])
                 PROVE  parsed'[k] = Meant(calls[k])
        BY <1>1, <1>5 DEF Meanings, OneLines, L
    <2>1. CASE k = n + 1
        <3>1. n <= L /\ (\A j \in 1..n : j \in 1..k) /\ k \in 1..k
            BY <1>3, <2>1
        <3>2. (\A j \in 1..n : OneLine(calls[j])) /\ OneLine(c) /\ NamesChannel(c)
            BY <2>1, <3>1 DEF c
        <3>3. d = Meant(c)
            BY <1>7, <3>1, <3>2
        <3> QED
            BY <1>5, <2>1, <3>3 DEF c
    <2>2. CASE k # n + 1
        <3>1. k \in 1..n
            BY <1>3, <2>2
        <3>2. parsed[k] = Meant(calls[k])
            BY <3>1 DEF MeaningInv, Meanings, OneLines, L, n
        <3> QED
            BY <1>5, <3>1, <3>2
    <2> QED
        BY <2>1, <2>2
<1> QED
    BY <1>6, <1>8, <1>9, <1>10 DEF MeaningInv

\* Every step keeps the queue of lines in line with the calls.
LEMMA MeaningStep == MeaningInv /\ [Next]_vars => MeaningInv'
<1> SUFFICES ASSUME MeaningInv, [Next]_vars PROVE MeaningInv'
    OBVIOUS
<1>1. ASSUME NEW c \in Calls, Call(c) PROVE MeaningInv'
    BY <1>1, MeaningCall
<1>2. CASE ServerLine
    BY <1>2, MeaningServer
<1>3. CASE UNCHANGED <<calls, up, parsed>>
    BY <1>3 DEF MeaningInv, Typed, Owed, NoneBeyond, Meanings, OneLines
<1>4. ClientLine => UNCHANGED <<calls, up, parsed>>
    BY DEF ClientLine
<1>5. UNCHANGED vars => UNCHANGED <<calls, up, parsed>>
    BY DEF vars
<1> QED
    BY <1>1, <1>2, <1>3, <1>4, <1>5 DEF Next

\* The invariant is the property, with what it takes to keep it.
LEMMA MeaningImplies == MeaningInv => ParsedAsMeant
<1> SUFFICES ASSUME MeaningInv,
                    NEW k \in 1..Min({Len(parsed), Len(calls)}),
                    \A j \in 1..k : OneLine(calls[j]), NamesChannel(calls[k])
             PROVE  parsed[k] = Meant(calls[k])
    BY DEF ParsedAsMeant
<1> DEFINE L == Len(calls)
           n == Len(parsed)
           m == Min({n, L})
<1>1. L \in Nat /\ n \in Nat
    <2>1. calls \in Seq(Calls) /\ parsed \in Seq(ToSet(parsed))
        BY DEF MeaningInv, Typed
    <2> HIDE DEF Calls
    <2> QED
        BY <2>1, LenProperties
<1> HIDE DEF L, n
<1>2. m \in {n, L} /\ m <= n /\ m <= L
    <2>1. {n, L} \subseteq Nat /\ {n, L} # {}
        BY <1>1
    <2> QED
        BY <2>1, Least
<1>3. k \in 1..m
    BY DEF m, n, L
<1> HIDE DEF m
<1>4. k \in 1..n /\ k <= L
    BY <1>1, <1>2, <1>3
<1> QED
    BY <1>4 DEF MeaningInv, Meanings, OneLines, n, L

\* Whatever texts hold, as long as they are of one line, and a history names its channel,
\* the server parses the commands that the client's calls mean, one for each
\* (parse_command in protocol.rs against the methods of AircdClient).
THEOREM CommandsMeant == Spec => []ParsedAsMeant
<1>1. Init => MeaningInv
    BY MeaningInit
<1>2. MeaningInv /\ [Next]_vars => MeaningInv'
    BY MeaningStep
<1>3. MeaningInv => ParsedAsMeant
    BY MeaningImplies
<1> QED
    BY <1>1, <1>2, <1>3, PTL DEF Spec

-----------------------------------------------------------------------------
(* Types *)

\* A command, whose channel or target is a word of the line.
Spoken(c) == IsCommand(c) /\ (c[1] \in {"Privmsg", "TaskCreate"} => c[2] \in Seq(Bytes))

\* The parser returns commands, whatever the words.
LEMMA WordsCommand ==
    ASSUME NEW w \in Seq(Seq(Bytes)), NEW trailing
    PROVE  Spoken(ParseWords(w, trailing))
<1> DEFINE v == Arg(w, 1)
           t(k) == IF trailing = <<>> THEN Rest(w, k) ELSE trailing[1]
           c == ParseWords(w, trailing)
<1>1. \A k : Arg(w, k) \in Seq(Bytes)
    <2> DEFINE T == Seq(Bytes)
    <2>1. <<>> \in T /\ w \in Seq(T)
        BY EmptySeq
    <2> HIDE DEF T
    <2>2. \A k \in DOMAIN w : w[k] \in T
        BY <2>1, ElementOfSeq, LenProperties
    <2> QED
        BY <2>1, <2>2 DEF Arg, T
<1>2. \A word : Number(word, "0") \in Numeral /\ Number(word, "100") \in Numeral
    BY DEF Number, Numeral
<1>3. ASSUME NEW title PROVE Spoken(ParseTask(w, title))
    BY <1>1 DEF ParseTask, Spoken, IsCommand
<1>4. Spoken(ParseChathistory(w))
    BY <1>2 DEF ParseChathistory, Spoken, IsCommand
<1>5. CASE v = <<"PASS">>
    <2>1. c = <<"Pass", Rest(w, 2)>>
        BY <1>5 DEF ParseWords
    <2> HIDE DEF t
    <2> QED
        BY <2>1 DEF Spoken, IsCommand
<1>6. CASE v = <<"NICK">>
    <2>1. c = <<"Nick", Arg(w, 2)>>
        BY <1>6 DEF ParseWords
    <2> QED
        BY <2>1 DEF Spoken, IsCommand
<1>7. CASE v = <<"USER">>
    <2>1. c = <<"User", Arg(w, 2)>>
        BY <1>7 DEF ParseWords
    <2> QED
        BY <2>1 DEF Spoken, IsCommand
<1>8. CASE v = <<"JOIN">>
    <2>1. c = <<"Join", Arg(w, 2)>>
        BY <1>8 DEF ParseWords
    <2> QED
        BY <2>1 DEF Spoken, IsCommand
<1>9. CASE v = <<"PART">>
    <2>1. c = <<"Part", Arg(w, 2)>>
        BY <1>9 DEF ParseWords
    <2> QED
        BY <2>1 DEF Spoken, IsCommand
<1>10. CASE v = <<"PRIVMSG">>
    <2>1. c = <<"Privmsg", Arg(w, 2), t(3)>>
        BY <1>10 DEF ParseWords
    <2> HIDE DEF t
    <2> QED
        BY <1>1, <2>1 DEF Spoken, IsCommand
<1>11. CASE v = <<"PING">>
    <2>1. c = <<"Ping", t(2)>>
        BY <1>11 DEF ParseWords
    <2> HIDE DEF t
    <2> QED
        BY <2>1 DEF Spoken, IsCommand
<1>12. CASE v = <<"PONG">>
    <2>1. c = <<"Pong">>
        BY <1>12 DEF ParseWords
    <2> QED
        BY <2>1 DEF Spoken, IsCommand
<1>13. CASE v = <<"QUIT">>
    <2>1. c = <<"Quit">>
        BY <1>13 DEF ParseWords
    <2> QED
        BY <2>1 DEF Spoken, IsCommand
<1>14. CASE v = <<"CAP">>
    <2>1. c = <<"Cap", Arg(w, 2), Words(t(3))>>
        BY <1>14 DEF ParseWords
    <2> HIDE DEF t
    <2> QED
        BY <2>1 DEF Spoken, IsCommand
<1>15. CASE v = <<"CHATHISTORY">>
    <2>1. c = ParseChathistory(w)
        BY <1>15 DEF ParseWords
    <2> QED
        BY <1>4, <2>1 DEF Spoken, IsCommand
<1>16. CASE v = <<"HISTORY">>
    <2>1. c = <<"History", Arg(w, 2), Number(Arg(w, 3), "0"), Number(Arg(w, 4), "100")>>
        BY <1>16 DEF ParseWords
    <2> QED
        BY <1>2, <2>1 DEF Spoken, IsCommand
<1>17. CASE v = <<"TASK">>
    <2>1. c = ParseTask(w, t(4))
        BY <1>17 DEF ParseWords
    <2> HIDE DEF t
    <2> QED
        BY <1>3, <2>1 DEF Spoken, IsCommand
<1>18. CASE v \notin {<<"PASS">>, <<"NICK">>, <<"USER">>, <<"JOIN">>, <<"PART">>, <<"PRIVMSG">>,
                       <<"PING">>, <<"PONG">>, <<"QUIT">>, <<"CAP">>, <<"CHATHISTORY">>,
                       <<"HISTORY">>, <<"TASK">>}
    <2>1. c = <<"Unknown", v>>
        BY <1>18 DEF ParseWords
    <2> QED
        BY <2>1 DEF Spoken, IsCommand
<1> QED
    BY <1>5, <1>6, <1>7, <1>8, <1>9, <1>10, <1>11, <1>12, <1>13, <1>14, <1>15, <1>16, <1>17, <1>18

\* The parser returns commands, whatever the bytes.
LEMMA CommandParsed ==
    ASSUME NEW s \in Seq(Bytes)
    PROVE  Spoken(ParseCommand(s))
<1> DEFINE T == Seq(Bytes)
<1> HIDE DEF Bytes
<1>1. Trim(s) \in T
    <2> DEFINE B == Black(s)
    <2>1. CASE B = {}
        BY <2>1, EmptySeq DEF Trim
    <2>2. CASE B # {}
        <3>1. Len(s) \in Nat /\ DOMAIN s = 1..Len(s)
            BY LenProperties
        <3>2. B \subseteq 1..Len(s) /\ B \subseteq Nat /\ B \subseteq 0..Len(s)
            BY <3>1 DEF Black
        <3> HIDE DEF B
        <3>3. Min(B) \in 1..Len(s) /\ Max(B) \in 1..Len(s)
            BY <2>2, <3>1, <3>2, Least, Greatest
        <3> DEFINE i == Min(B)
                   j == Max(B)
        <3>4. i \in 1..Len(s) /\ j \in 1..Len(s)
            BY <3>3
        <3> HIDE DEF i, j
        <3>5. SubSeq(s, i, j) \in T
            BY <3>1, <3>4
        <3> QED
            BY <2>2, <3>5 DEF Trim, B, i, j
    <2> QED
        BY <2>1, <2>2
<1>2. ASSUME NEW l \in T, NEW x PROVE After(l, Find(l, x)) \in T
    <2> DEFINE C == {i \in DOMAIN l : l[i] = x}
               p == First(C)
    <2>1. Len(l) \in Nat /\ C \subseteq 1..Len(l)
        BY LenProperties
    <2> HIDE DEF C
    <2>2. p \in 0..Len(l)
        BY <2>1, FirstIs
    <2> HIDE DEF p
    <2>3. SubSeq(l, p + 1, Len(l)) \in T
        BY <2>2, CutFacts
    <2> QED
        BY <2>3 DEF After, Find, p, C
<1> DEFINE l == StripTagsAndPrefix(Trim(s))
           at == TrailingAt(l)
<1>3. l \in T
    <2> DEFINE one(a, mark) == IF a # <<>> /\ a[1] = mark /\ Find(a, " ") # 0 THEN After(a, Find(a, " ")) ELSE a
    <2>1. \A a \in T : \A mark : one(a, mark) \in T
        BY <1>2
    <2>2. l = one(one(Trim(s), "@"), ":")
        BY DEF StripTagsAndPrefix
    <2> HIDE DEF one, l, T
    <2> QED
        BY <1>1, <2>1, <2>2
<1> HIDE DEF l
<1>4. at \in 0..Len(l)
    <2>0. Len(l) \in Nat
        BY <1>3, LenProperties
    <2>1. Cuts(l) \subseteq 1..Len(l)
        <3>1. 1..(Len(l) - 1) \subseteq 1..Len(l)
            BY <2>0
        <3> QED
            BY <3>1 DEF Cuts
    <2> QED
        BY <2>0, <2>1, FirstIs DEF TrailingAt
<1> HIDE DEF at
<1>5. Words(l) \in Seq(T)
    BY <1>3, WordsType
<1>6. at # 0 => Words(Before(l, at)) \in Seq(T)
    <2> DEFINE k == at - 1
    <2>1. at # 0 => k \in 0..Len(l)
        BY <1>3, <1>4, LenProperties
    <2> HIDE DEF k
    <2>2. at # 0 => SubSeq(l, 1, k) \in T
        BY <1>3, <2>1, CutFacts
    <2>3. at # 0 => Words(SubSeq(l, 1, k)) \in Seq(T)
        BY <2>2, WordsType
    <2> QED
        BY <2>3 DEF Before, k
<1>7. \/ ParseCommand(s) = ParseWords(Words(l), <<>>)
      \/ at # 0 /\ ParseCommand(s) = ParseWords(Words(Before(l, at)), <<After(l, at + 1)>>)
    BY DEF ParseCommand, l, at
<1> QED
    BY <1>5, <1>6, <1>7, WordsCommand

\* Every stored message has a channel.
LEMMA ChannelNamed ==
    ASSUME NEW c, Spoken(c)
    PROVE  \/ Stored(c) = <<>>
           \/ \E m : Stored(c) = <<m>> /\ m.channel[1] = "#"
<1>1. ASSUME c[2] \in Seq(Bytes) PROVE NormalizeChannel(c[2])[1] = "#"
    <2> DEFINE x == "#"
               w == c[2]
    <2>1. x \in Bytes
        BY DEF Bytes, Signs
    <2>2. w \in Seq(Bytes)
        BY <1>1
    <2>3. <<"#", "demo">>[1] = "#"
        OBVIOUS
    <2> HIDE DEF x, w, Bytes
    <2>4. (<<x>> \o w)[1] = x
        BY <2>1, <2>2, HeadIs
    <2> QED
        BY <2>3, <2>4 DEF NormalizeChannel, x, w
<1>2. CASE c[1] = "Privmsg"
    <2> DEFINE m == [channel |-> NormalizeChannel(c[2]), sender |-> "me", body |-> c[3], title |-> <<>>]
    <2>1. Stored(c) = <<m>>
        BY <1>2 DEF Stored
    <2>2. m.channel[1] = "#"
        BY <1>1, <1>2 DEF Spoken
    <2> QED
        BY <2>1, <2>2
<1>3. CASE c[1] = "TaskCreate" /\ Trim(c[3]) # <<>>
    <2> DEFINE m == [channel |-> NormalizeChannel(c[2]), sender |-> "aircd",
                     body |-> Created(Trim(c[3])), title |-> Trim(c[3])]
    <2>1. Stored(c) = <<m>>
        BY <1>3 DEF Stored
    <2>2. m.channel[1] = "#"
        BY <1>1, <1>3 DEF Spoken
    <2> QED
        BY <2>1, <2>2
<1>4. CASE c[1] # "Privmsg" /\ ~(c[1] = "TaskCreate" /\ Trim(c[3]) # <<>>)
    BY <1>4 DEF Stored
<1> QED
    BY <1>2, <1>3, <1>4

Stocked == stored \in Seq(ToSet(stored)) /\ \A k \in 1..Len(stored) : stored[k].channel[1] = "#"
TypeInv ==
    /\ Typed /\ Stocked
    /\ Len(calls) <= MaxCalls
    /\ \A k \in 1..Len(parsed) : IsCommand(parsed[k])

\* At first there is nothing of any type.
LEMMA TypeInit == Init => TypeInv
<1> SUFFICES ASSUME Init PROVE TypeInv
    OBVIOUS
<1>1. calls = <<>> /\ parsed = <<>> /\ stored = <<>>
    BY DEF Init
<1>2. Typed
    BY MeaningInit DEF MeaningInv
<1>3. <<>> \in Seq(ToSet(<<>>))
    BY EmptySeq
<1>4. 0 <= MaxCalls
    BY WireBounds
<1> QED
    BY <1>1, <1>2, <1>3, <1>4 DEF TypeInv, Stocked

\* A line of any bytes adds a command, and a message under a channel or none.
LEMMA TypeServer ==
    ASSUME TypeInv, ServerLine
    PROVE  TypeInv'
<1> DEFINE n == Len(parsed)
           d == ParseCommand(Before(up, Find(up, "LF")))
           D == ToSet(parsed) \cup {d}
           q == Len(stored)
<1> HIDE DEF Calls, Bytes
<1>1. /\ parsed' = Append(parsed, d) /\ calls' = calls /\ "LF" \in ToSet(up)
      /\ up' = After(up, Find(up, "LF")) /\ stored' = stored \o Stored(d)
    BY DEF ServerLine
<1>2. calls \in Seq(Calls) /\ up \in Seq(Bytes) /\ parsed \in Seq(ToSet(parsed))
    BY DEF TypeInv, Typed
<1>3. Before(up, Find(up, "LF")) \in Seq(Bytes) /\ up' \in Seq(Bytes)
    BY <1>1, <1>2, LineTyped
<1>4. Spoken(d)
    BY <1>3, CommandParsed
<1> HIDE DEF d
<1>5. parsed \in Seq(D) /\ d \in D
    <2>1. ToSet(parsed) \subseteq D
        OBVIOUS
    <2> QED
        BY <1>2, <2>1, SeqMonotonic
<1>6. /\ parsed' \in Seq(D) /\ ToSet(parsed') = D /\ Len(parsed') = n + 1 /\ n \in Nat
      /\ (\A i \in 1..n : parsed'[i] = parsed[i]) /\ parsed'[n + 1] = d
    <2>1. ToSet(Append(parsed, d)) = ToSet(parsed) \cup {d}
        <3> HIDE DEF D
        <3> QED
            BY <1>5, AppendFacts
    <2> HIDE DEF D
    <2>2. /\ Append(parsed, d) \in Seq(D) /\ Len(Append(parsed, d)) = n + 1 /\ n \in Nat
          /\ (\A i \in 1..n : Append(parsed, d)[i] = parsed[i]) /\ Append(parsed, d)[n + 1] = d
        BY <1>5, AppendProperties, LenProperties
    <2> QED
        BY <1>1, <2>1, <2>2 DEF D
<1>7. Typed'
    BY <1>1, <1>2, <1>3, <1>6 DEF Typed
<1>8. \A k \in 1..Len(parsed') : IsCommand(parsed'[k])
    <2> SUFFICES ASSUME NEW k \in 1..(n + 1) PROVE IsCommand(parsed'[k])
        BY <1>6
    <2>1. CASE k = n + 1
        BY <1>4, <1>6, <2>1 DEF Spoken
    <2>2. CASE k # n + 1
        <3>1. k \in 1..n
            BY <1>6, <2>2
        <3> QED
            BY <1>6, <3>1 DEF TypeInv
    <2> QED
        BY <2>1, <2>2
<1>9. Stocked'
    <2>1. stored \in Seq(ToSet(stored)) /\ \A k \in 1..q : stored[k].channel[1] = "#"
        BY DEF TypeInv, Stocked
    <2>2. CASE Stored(d) = <<>>
        <3>1. stored' = stored
            BY <1>1, <2>1, <2>2, ConcatEmptySeq
        <3> QED
            BY <2>1, <3>1 DEF Stocked
    <2>3. ASSUME NEW m, Stored(d) = <<m>>, m.channel[1] = "#" PROVE Stocked'
        <3> DEFINE M == ToSet(stored) \cup {m}
        <3>1. stored \in Seq(M) /\ m \in M
            <4>1. ToSet(stored) \subseteq M
                OBVIOUS
            <4> QED
                BY <2>1, <4>1, SeqMonotonic
        <3>2. ToSet(Append(stored, m)) = M
            <4>1. ToSet(Append(stored, m)) = ToSet(stored) \cup {m}
                <5> HIDE DEF M
                <5> QED
                    BY <3>1, AppendFacts
            <4> QED
                BY <4>1
        <3> HIDE DEF M
        <3>3. /\ Append(stored, m) \in Seq(M) /\ Len(Append(stored, m)) = q + 1 /\ q \in Nat
              /\ (\A i \in 1..q : Append(stored, m)[i] = stored[i]) /\ Append(stored, m)[q + 1] = m
              /\ Append(stored, m) = stored \o <<m>>
            BY <3>1, AppendProperties, AppendIsConcat, LenProperties
        <3>4. stored' = Append(stored, m)
            BY <1>1, <2>3, <3>3
        <3> HIDE DEF q
        <3>5. ASSUME NEW k \in 1..(q + 1) PROVE stored'[k].channel[1] = "#"
            <4>1. CASE k = q + 1
                BY <2>3, <3>3, <3>4, <4>1
            <4>2. CASE k # q + 1
                <5>1. k \in 1..q
                    BY <3>3, <4>2
                <5> QED
                    BY <2>1, <3>3, <3>4, <5>1
            <4> QED
                BY <4>1, <4>2
        <3> QED
            BY <3>2, <3>3, <3>4, <3>5 DEF Stocked
    <2> QED
        BY <1>4, <2>2, <2>3, ChannelNamed
<1> QED
    BY <1>1, <1>7, <1>8, <1>9 DEF TypeInv

\* A call adds its line.
LEMMA TypeCall ==
    ASSUME TypeInv, Len(calls) < MaxCalls, NEW c \in Calls, Call(c)
    PROVE  TypeInv'
<1> HIDE DEF Calls, Bytes
<1>1. /\ calls' = Append(calls, c) /\ parsed' = parsed /\ stored' = stored
      /\ up' = (up \o Format(c)) \o <<"CR", "LF">>
    BY DEF Call
<1>2. calls \in Seq(Calls) /\ up \in Seq(Bytes) /\ parsed \in Seq(ToSet(parsed)) /\ Len(calls) \in Nat
    BY LenProperties DEF TypeInv, Typed
<1>3. calls' \in Seq(Calls) /\ Len(calls') = Len(calls) + 1
    BY <1>1, <1>2, AppendProperties
<1>4. up' \in Seq(Bytes)
    <2> DEFINE x == "CR"
               y == "LF"
               e == <<x, y>>
               f == Format(c)
    <2>1. x \in Bytes /\ y \in Bytes
        BY DEF Bytes, Signs
    <2> HIDE DEF x, y
    <2>2. e \in Seq(Bytes) /\ f \in Seq(Bytes)
        BY <2>1, CallFormat
    <2> HIDE DEF e, f
    <2>3. (up \o f) \o e \in Seq(Bytes)
        BY <1>2, <2>2, ConcatProperties
    <2> QED
        BY <1>1, <2>3 DEF e, f, x, y
<1>5. Len(calls') <= MaxCalls
    BY <1>2, <1>3, WireBounds
<1> QED
    BY <1>1, <1>2, <1>3, <1>4, <1>5 DEF TypeInv, Typed, Stocked

\* Every step keeps the types.
LEMMA TypeStep == TypeInv /\ [Next]_vars => TypeInv'
<1> SUFFICES ASSUME TypeInv, [Next]_vars PROVE TypeInv'
    OBVIOUS
<1>1. ASSUME NEW c \in Calls, Len(calls) < MaxCalls, Call(c) PROVE TypeInv'
    BY <1>1, TypeCall
<1>2. CASE ServerLine
    BY <1>2, TypeServer
<1>3. CASE UNCHANGED <<calls, up, parsed, stored>>
    BY <1>3 DEF TypeInv, Typed, Stocked
<1>4. ClientLine => UNCHANGED <<calls, up, parsed, stored>>
    BY DEF ClientLine
<1>5. UNCHANGED vars => UNCHANGED <<calls, up, parsed, stored>>
    BY DEF vars
<1> QED
    BY <1>1, <1>2, <1>3, <1>4, <1>5 DEF Next

\* The invariant has the type invariant in it.
LEMMA TypeImplies == TypeInv => TypeOK
<1> SUFFICES ASSUME TypeInv PROVE TypeOK
    OBVIOUS
<1>1. calls \in Seq(Calls) /\ Len(calls) <= MaxCalls
    BY DEF TypeInv, Typed
<1>2. DOMAIN parsed = 1..Len(parsed) /\ DOMAIN stored = 1..Len(stored)
    BY LenProperties DEF TypeInv, Typed, Stocked
<1> QED
    BY <1>1, <1>2 DEF TypeInv, Stocked, TypeOK

\* Whatever bytes the server reads, parse_command returns a command with numbers
\* where a history has them, and every message is stored under a channel.
THEOREM TypeCorrect == Spec => []TypeOK
<1>1. Init => TypeInv
    BY TypeInit
<1>2. TypeInv /\ [Next]_vars => TypeInv'
    BY TypeStep
<1>3. TypeInv => TypeOK
    BY TypeImplies
<1> QED
    BY <1>1, <1>2, <1>3, PTL DEF Spec

-----------------------------------------------------------------------------
(* ParseIrcLine on the lines that TextLine writes *)

\* A sequence between two others, from the right.
Rightward(f, y, g, e) == (f \o (y \o g)) \o e = f \o (y \o (g \o e))

\* Brackets moved to the right.
LEMMA Right ==
    ASSUME NEW S, NEW f \in Seq(S), NEW y \in Seq(S), NEW g \in Seq(S), NEW e \in Seq(S)
    PROVE  Rightward(f, y, g, e)
<1> DEFINE h == y \o g
<1>1. h \in Seq(S)
    BY ConcatProperties
<1>2. h \o e = y \o (g \o e)
    BY ConcatAssociative
<1> HIDE DEF h
<1>3. (f \o h) \o e = f \o (h \o e)
    BY <1>1, ConcatAssociative
<1>4. (f \o h) \o e = f \o (y \o (g \o e))
    BY <1>2, <1>3
<1> QED
    BY <1>4 DEF Rightward, h

Nests(x, a, b, v, w, e) ==
    Join(<<a, b, v, w>>, x) \o e = a \o (<<x>> \o (b \o (<<x>> \o (Join(<<v, w>>, x) \o e))))

\* Four words and a text, put together from the right.
LEMMA Nested ==
    ASSUME NEW S, NEW x \in S, NEW a \in Seq(S), NEW b \in Seq(S), NEW v \in Seq(S), NEW w \in Seq(S),
           NEW e \in Seq(S)
    PROVE  Nests(x, a, b, v, w, e)
<1> DEFINE T == Seq(S)
           y == <<x>>
           j == Join(<<v, w>>, x)
           k == Join(<<b, v, w>>, x)
           l == Join(<<a, b, v, w>>, x)
<1>1. a \in T /\ b \in T /\ v \in T /\ w \in T
    OBVIOUS
<1>2. /\ <<v, w>> \in Seq(T) /\ <<b, v, w>> \in Seq(T)
      /\ <<b, v, w>> # <<>> /\ <<v, w>> # <<>>
    <2> HIDE DEF T
    <2> QED
        BY <1>1
<1>3. <<a>> \o <<b, v, w>> = <<a, b, v, w>> /\ <<b>> \o <<v, w>> = <<b, v, w>>
    <2> HIDE DEF T
    <2>1. Heads(a, <<b, v, w>>, <<a, b, v, w>>) /\ Heads(b, <<v, w>>, <<b, v, w>>)
        BY <1>1, ListIs, ThreeIs
    <2> QED
        BY <2>1 DEF Heads
<1>4. j \in Seq(S) /\ k \in Seq(S)
    <2>1. \A ws \in Seq(Seq(S)) : Join(ws, x) \in Seq(S)
        BY JoinCons
    <2> QED
        BY <1>2, <2>1
<1>5. k = b \o (y \o j)
    <2>1. Joins(b, <<v, w>>, x)
        BY <1>2, JoinCons
    <2> QED
        BY <1>2, <1>3, <2>1 DEF Joins
<1>6. l = a \o (y \o k)
    <2>1. Joins(a, <<b, v, w>>, x)
        BY <1>2, JoinCons
    <2> QED
        BY <1>2, <1>3, <2>1 DEF Joins
<1>7. y \in Seq(S)
    BY SingletonFacts
<1> HIDE DEF y, j, k, l, T
<1>8. Rightward(b, y, j, e)
    BY <1>4, <1>7, Right
<1>9. Rightward(a, y, k, e)
    BY <1>4, <1>7, Right
<1>10. k \o e = b \o (y \o (j \o e))
    BY <1>5, <1>8 DEF Rightward
<1>11. l \o e = a \o (y \o (b \o (y \o (j \o e))))
    BY <1>6, <1>9, <1>10 DEF Rightward
<1> QED
    BY <1>11 DEF Nests, y, j, k, l

Marked(m, u, sender) == m = "@" /\ Free(u, " ") /\ sender # " "

\* A line with a tag text u, a sender, a verb and a target, and a text.
Lined(l, u, sender, verb, target, body) ==
    ParseIrcLine(l) = [tags |-> ParseTags(u), prefix |-> <<sender>>, command |-> <<verb>>,
                       params |-> Params(<<target>>, body)]

\* ParseIrcLine takes the line apart where TextLine put it together.
LEMMA LineRead ==
    ASSUME NEW S, HasSigns(S), NEW m \in S, NEW u \in Seq(S), NEW sender \in S, Marked(m, u, sender),
           NEW verb \in S, <<verb>> \in Word(S), NEW target \in Word(S), NEW body \in Seq(S)
    PROVE  Lined(TextLine(<<<<m>> \o u, <<":", sender>>, <<verb>>, target>>, body),
                 u, sender, verb, target, body)
<1> DEFINE x == " "
           y == ":"
           a == <<m>> \o u
           b == <<y, sender>>
           v == <<verb>>
           j == Join(<<v, target>>, x)
           e == <<x, y>> \o body
           n == j \o e
           r == b \o (<<x>> \o n)
           l == a \o (<<x>> \o r)
<1>1. x \in S /\ y \in S /\ x # y /\ m # x /\ sender # x /\ Free(u, x)
    BY DEF HasSigns, Marked
<1>0. <<" ", ":">> \o body = e /\ <<":", sender>> = b
    OBVIOUS
<1> HIDE DEF x, y
<1>2. j \in Seq(S) /\ LineOf(<<v, target>>, j)
    <2> DEFINE W == Word(S)
               vs == <<v, target>>
    <2>1. v \in W /\ target \in W
        OBVIOUS
    <2> HIDE DEF W, v
    <2>2. vs \in Seq(W) /\ Len(vs) = 2
        BY <2>1
    <2>3. vs # <<>>
        BY <2>2
    <2> HIDE DEF vs
    <2>4. Join(vs, " ") \in Seq(S) /\ LineOf(vs, Join(vs, " "))
        BY <2>2, <2>3, JoinedLine DEF W
    <2> QED
        BY <2>4 DEF vs, x
<1>3. Cuts(j) = {} /\ Words(j) = <<v, target>>
    BY <1>2 DEF LineOf
<1>4. n \in Seq(S) /\ Taken(n, j, body)
    <2> HIDE DEF j
    <2>1. /\ j \o (<<" ", ":">> \o body) \in Seq(S)
          /\ Taken(j \o (<<" ", ":">> \o body), j, body)
        BY <1>2, <1>3, TextTaken
    <2>2. j \o (<<" ", ":">> \o body) = n
        BY <1>0
    <2> HIDE DEF n
    <2> QED
        BY <2>1, <2>2
<1>5. e \in Seq(S)
    <2> HIDE DEF x, y
    <2> QED
        BY <1>1, PairConcat
<1>6. b = <<y>> \o <<sender>> /\ <<sender>> \in Seq(S) /\ b \in Seq(S) /\ Len(b) = 2 /\ b[1] = y /\ b[2] = sender
    <2> HIDE DEF x, y
    <2>1. b = <<y>> \o <<sender>>
        BY <1>1, PairIs
    <2> QED
        BY <1>1, <2>1
<1>7. a \in Seq(S) /\ Len(a) = Len(u) + 1 /\ a[1] = m /\ Len(u) \in Nat /\ \A i \in 1..Len(u) : a[i + 1] = u[i]
    BY HeadIs
<1>8. Free(a, x)
    <2> SUFFICES ASSUME NEW i \in 1..Len(a) PROVE a[i] # x
        BY DEF Free
    <2>1. CASE i = 1
        BY <1>1, <1>7, <2>1
    <2>2. CASE i # 1
        <3> DEFINE h == i - 1
        <3>1. h \in 1..Len(u) /\ h + 1 = i
            BY <1>7, <2>2
        <3> HIDE DEF h
        <3> QED
            BY <1>1, <1>7, <3>1 DEF Free
    <2> QED
        BY <2>1, <2>2
<1>9. Free(b, x)
    <2> SUFFICES ASSUME NEW i \in 1..2 PROVE b[i] # x
        BY <1>6 DEF Free
    <2>1. i = 1 \/ i = 2
        OBVIOUS
    <2> QED
        BY <1>1, <1>6, <2>1
<1> HIDE DEF e, n, j
<1>10. /\ r \in Seq(S) /\ After(r, Find(r, x)) = n
       /\ r # <<>> /\ r[1] = y /\ SubSeq(r, 2, Find(r, x) - 1) = <<sender>>
    <2> HIDE DEF x, y, b
    <2>1. Parted(x, r, b, n) /\ r \in Seq(S)
        BY <1>1, <1>4, <1>6, <1>9, CutAt, MeetsConcat
    <2>2. After(r, Find(r, x)) = n
        BY <2>1 DEF Parted
    <2> DEFINE w == <<sender>>
    <2>3. w \in Seq(S) /\ b = <<y>> \o w
        BY <1>6
    <2> HIDE DEF w
    <2>4. Inner(x, (<<y>> \o w) \o (<<x>> \o n), y, w)
        BY <1>1, <1>4, <1>9, <2>3, CutInner
    <2>5. Inner(x, r, y, w)
        BY <2>3, <2>4
    <2> QED
        BY <2>1, <2>2, <2>5 DEF w, Inner
<1> HIDE DEF r
<1>11. /\ l \in Seq(S) /\ After(l, Find(l, x)) = r
       /\ l # <<>> /\ l[1] = m /\ SubSeq(l, 2, Find(l, x) - 1) = u
    <2> HIDE DEF x
    <2>1. Inner(x, (<<m>> \o u) \o (<<x>> \o r), m, u)
        BY <1>1, <1>8, <1>10, CutInner
    <2>5. Inner(x, l, m, u)
        BY <2>1
    <2> HIDE DEF a
    <2>2. Parted(x, l, a, r) /\ l \in Seq(S)
        BY <1>1, <1>7, <1>8, <1>10, CutAt, MeetsConcat
    <2>3. After(l, Find(l, x)) = r
        BY <2>2 DEF Parted
    <2> QED
        BY <2>2, <2>3, <2>5 DEF Inner
<1>12. TextLine(<<a, b, v, target>>, body) = l
    <2>1. TextLine(<<a, b, v, target>>, body) = Join(<<a, b, v, target>>, x) \o e
        BY <1>0 DEF TextLine, x
    <2>2. v \in Seq(S) /\ target \in Seq(S)
        BY DEF Word
    <2> HIDE DEF a, b, v, x
    <2>3. Join(<<a, b, v, target>>, x) \o e = a \o (<<x>> \o (b \o (<<x>> \o (Join(<<v, target>>, x) \o e))))
        <3>1. Nests(x, a, b, v, target, e)
            BY <1>1, <1>5, <1>6, <1>7, <2>2, Nested
        <3> QED
            BY <3>1 DEF Nests
    <2> QED
        BY <2>1, <2>3 DEF j, n, r
<1> DEFINE w == <<v, target>>
<1>13. ParseIrcLine(l) = [tags |-> ParseTags(u), prefix |-> <<sender>>, command |-> Arg(w, 1),
                          params |-> Params(SubSeq(w, 2, Len(w)), body)]
    <2> DEFINE p == <<sender>>
    <2>1. Words(j) = w
        BY <1>3
    <2>2. /\ Inner(" ", l, "@", u) /\ After(l, Find(l, " ")) = r
          /\ Inner(" ", r, ":", p) /\ After(r, Find(r, " ")) = n
        BY <1>10, <1>11 DEF Marked, x, y, Inner
    <2> HIDE DEF l, w, p
    <2>3. Parses(l, u, p, w, body)
        BY <1>4, <2>1, <2>2, ParseIs
    <2> QED
        BY <2>3 DEF p, Parses
<1>15. Arg(w, 1) = v /\ SubSeq(w, 2, Len(w)) = <<target>>
    <2> DEFINE X == Seq(S)
    <2>1. v \in X /\ target \in X
        BY DEF Word
    <2> HIDE DEF v, X
    <2>2. w \in Seq(X) /\ Len(w) = 2 /\ w[1] = v /\ w[2] = target /\ DOMAIN w = 1..2
        BY <2>1
    <2>3. w # <<>>
        BY <2>2
    <2> HIDE DEF w
    <2>4. SubSeq(w, Len(w), Len(w)) = <<w[Len(w)]>>
        BY <2>2, <2>3, LastIs
    <2>5. SubSeq(w, 2, Len(w)) = <<target>>
        BY <2>2, <2>4
    <2>6. 1 \in DOMAIN w
        BY <2>2
    <2> QED
        BY <2>2, <2>5, <2>6 DEF Arg
<1>16. Lined(l, u, sender, verb, target, body)
    BY <1>13, <1>15 DEF Lined
<1> HIDE DEF l
<1>17. TextLine(<<<<m>> \o u, <<":", sender>>, <<verb>>, target>>, body) = l
    BY <1>0, <1>12
<1> QED
    BY <1>16, <1>17

-----------------------------------------------------------------------------
(* A line the server sends, as the client reads it *)

Breaks == {"CR", "LF"}
Ends(t) == t = <<>> \/ t[Len(t)] \notin Space

\* The line break is taken away, and nothing else.
LEMMA ChompIs ==
    ASSUME NEW S, NEW x \in S, x \in Breaks, NEW l \in Seq(S), l # <<>>, l[Len(l)] \notin Breaks
    PROVE  Chomp(l \o <<x>>) = l
<1> DEFINE n == Len(l)
           e == <<x>>
           s == l \o e
           B == {i \in DOMAIN s : s[i] \notin {"CR", "LF"}}
<1>1. e \in Seq(S) /\ Len(e) = 1 /\ e[1] = x /\ n \in Nat
    BY LenProperties
<1> HIDE DEF e
<1>2. /\ s \in Seq(S) /\ Len(s) = n + 1 /\ DOMAIN s = 1..(n + 1)
      /\ \A i \in 1..(n + 1) : s[i] = IF i <= n THEN l[i] ELSE e[i - n]
    <2>1. /\ l \o e \in Seq(S) /\ Len(l \o e) = Len(l) + Len(e)
          /\ \A i \in 1..(Len(l) + Len(e)) : (l \o e)[i] = IF i <= Len(l) THEN l[i] ELSE e[i - Len(l)]
        BY <1>1, ConcatProperties
    <2> HIDE DEF s
    <2>2. s \in Seq(S) /\ Len(s) = n + 1
        BY <1>1, <2>1 DEF s
    <2>3. DOMAIN s = 1..(n + 1)
        BY <2>2
    <2> QED
        BY <1>1, <2>1, <2>2, <2>3 DEF s
<1> HIDE DEF s
<1>3. n # 0
    BY EmptySeq
<1>4. /\ \A i \in 1..n : s[i] = l[i]
      /\ s[n + 1] = x
    <2>1. \A i \in 1..n : i \in 1..(n + 1) /\ i <= n
        BY <1>1
    <2>2. n + 1 \in 1..(n + 1) /\ ~(n + 1 <= n) /\ (n + 1) - n = 1
        BY <1>1
    <2> QED
        BY <1>1, <1>2, <2>1, <2>2
<1>5. n \in B /\ n + 1 \notin B
    <2>1. n \in 1..n /\ n \in 1..(n + 1)
        BY <1>1, <1>3
    <2> QED
        BY <1>2, <1>4, <2>1 DEF Breaks
<1>6. Max(B \cup {0}) = n
    <2> DEFINE C == B \cup {0}
               k == n + 1
    <2>1. C \subseteq 0..k /\ k \in Nat /\ n \in C /\ k \notin C
        BY <1>1, <1>2, <1>5
    <2> HIDE DEF C, B
    <2>2. C # {}
        BY <2>1
    <2>3. Max(C) \in C /\ n <= Max(C)
        BY <2>1, <2>2, Greatest
    <2> DEFINE m == Max(C)
    <2>4. m \in 0..k /\ n <= m /\ m # k
        BY <2>1, <2>3
    <2> HIDE DEF m
    <2>5. m = n
        BY <1>1, <2>1, <2>4 DEF k
    <2> QED
        BY <2>5 DEF m, C
<1>7. SubSeq(s, 1, n) = l
    <2> DEFINE u == SubSeq(s, 1, n)
    <2>1. n \in 0..Len(s)
        BY <1>1, <1>2
    <2>2. u \in Seq(S) /\ Len(u) = n
        BY <1>2, <2>1, CutFacts
    <2>3. ASSUME NEW i \in 1..n PROVE u[i] = l[i]
        <3>1. u[i] = s[i]
            BY <1>2, <2>1
        <3> QED
            BY <1>4, <3>1
    <2> HIDE DEF u
    <2>4. u = l
        BY <2>2, <2>3, SeqEqual DEF n
    <2> QED
        BY <2>4 DEF u
<1>8. Chomp(s) = SubSeq(s, 1, n)
    BY <1>6 DEF Chomp
<1> QED
    BY <1>7, <1>8 DEF s, e

\* The words and the text of a line come back as they were sent.
LEMMA TextChomped ==
    ASSUME NEW S, HasSigns(S), NEW a \in Seq(S), NEW t \in Seq(S), Ends(t)
    PROVE  Chomp((a \o (<<" ", ":">> \o t)) \o <<"CR">>) = a \o (<<" ", ":">> \o t)
<1> DEFINE l == a \o (<<" ", ":">> \o t)
           x == "CR"
           e == <<x>>
           s == l \o e
           p == Len(a)
           q == Len(t)
           n == Len(l)
<1>1. l \in Seq(S) /\ s \in Seq(S) /\ Texted(s, a, t)
    BY TextConcat
<1>2. x \in S /\ x \in Breaks
    BY DEF HasSigns, Breaks
<1> HIDE DEF l, x
<1>3. Len(s) = n + 1 /\ n \in Nat /\ \A i \in 1..n : s[i] = l[i]
    <2>1. e \in Seq(S) /\ Len(e) = 1 /\ n \in Nat
        BY <1>1, <1>2, LenProperties
    <2> HIDE DEF e
    <2>2. /\ Len(l \o e) = Len(l) + Len(e)
          /\ \A i \in 1..(Len(l) + Len(e)) : (l \o e)[i] = IF i <= Len(l) THEN l[i] ELSE e[i - Len(l)]
        BY <1>1, <2>1, ConcatProperties
    <2>3. \A i \in 1..n : i \in 1..(Len(l) + Len(e)) /\ i <= Len(l)
        BY <2>1
    <2> QED
        BY <2>1, <2>2, <2>3
<1> HIDE DEF s, n
<1>4. p \in Nat /\ q \in Nat
    BY LenProperties
<1>5. n = p + 2 + q /\ s[p + 2] = ":" /\ \A j \in 1..q : s[p + 2 + j] = t[j]
    <2>1. Len(s) = p + 2 + q + 1 /\ s[p + 2] = ":" /\ \A j \in 1..q : s[p + 2 + j] = t[j]
        BY <1>1 DEF Texted
    <2> HIDE DEF p, q
    <2>2. n = p + 2 + q
        BY <1>3, <1>4, <2>1
    <2> QED
        BY <2>1, <2>2
<1>6. l[n] \notin Breaks /\ l # <<>>
    <2>0. n \in 1..n /\ n # 0
        BY <1>4, <1>5
    <2>1. l[n] = s[n]
        BY <1>3, <2>0
    <2>2. CASE t = <<>>
        <3>1. q = 0
            BY <2>2
        <3> HIDE DEF p, q
        <3>2. n = p + 2
            BY <1>4, <1>5, <3>1
        <3>3. s[n] = ":"
            BY <1>5, <3>2
        <3>4. ":" \notin Breaks
            BY DEF Breaks
        <3> QED
            BY <1>1, <2>0, <2>1, <3>3, <3>4 DEF n
    <2>3. CASE t # <<>>
        <3>1. q # 0
            BY <2>3, EmptySeq
        <3>2. t[q] \notin Space
            BY <2>3 DEF Ends
        <3> HIDE DEF p, q
        <3>3. q \in 1..q /\ n = p + 2 + q
            BY <1>4, <1>5, <3>1
        <3>4. s[n] = t[q]
            BY <1>5, <3>3
        <3>5. s[n] \notin Breaks
            BY <3>2, <3>4 DEF Breaks, Space
        <3> QED
            BY <1>1, <2>0, <2>1, <3>5 DEF n
    <2> QED
        BY <2>2, <2>3
<1>7. Chomp(l \o <<x>>) = l
    BY <1>1, <1>2, <1>6, ChompIs DEF n
<1> QED
    BY <1>7 DEF l, x

\* what the client makes of a line sent to it
Read(l) == ParseIrcLine(Chomp(l \o <<"CR">>))
Plainly(l) == l # <<>> /\ l[1] = ":"

\* A line that starts with its prefix has no tags.
LEMMA NoTags ==
    ASSUME NEW S, HasSigns(S), NEW l \in Seq(S), Plainly(l)
    PROVE  Read(l).tags = {}
<1> DEFINE n == Len(l)
           x == "CR"
           e == <<x>>
           s == l \o e
           B == {i \in DOMAIN s : s[i] \notin {"CR", "LF"}}
           m == Max(B \cup {0})
           u == SubSeq(s, 1, m)
<1>0. x \in S /\ l # <<>> /\ l[1] = ":"
    BY DEF HasSigns, Plainly
<1> HIDE DEF x
<1>1. e \in Seq(S) /\ Len(e) = 1 /\ n \in Nat /\ n # 0
    BY <1>0, LenProperties
<1> HIDE DEF e
<1>2. /\ s \in Seq(S) /\ Len(s) = n + 1 /\ DOMAIN s = 1..(n + 1) /\ s[1] = l[1]
    <2>1. /\ l \o e \in Seq(S) /\ Len(l \o e) = Len(l) + Len(e)
          /\ \A i \in 1..(Len(l) + Len(e)) : (l \o e)[i] = IF i <= Len(l) THEN l[i] ELSE e[i - Len(l)]
        BY <1>1, ConcatProperties
    <2>2. 1 \in 1..(Len(l) + Len(e)) /\ 1 <= Len(l)
        BY <1>1
    <2>3. s[1] = l[1]
        BY <2>1, <2>2
    <2> HIDE DEF s
    <2>4. s \in Seq(S) /\ Len(s) = n + 1
        BY <1>1, <2>1 DEF s
    <2> QED
        BY <2>3, <2>4
<1> HIDE DEF s
<1>3. 1 \in B /\ B \subseteq 1..(n + 1)
    <2>1. 1 \in 1..(n + 1)
        BY <1>1
    <2>2. ":" \notin {"CR", "LF"}
        OBVIOUS
    <2> QED
        BY <1>0, <1>2, <2>1, <2>2
<1>4. m \in 1..(n + 1)
    <2> DEFINE C == B \cup {0}
               k == n + 1
    <2>1. C \subseteq 0..k /\ k \in Nat /\ 1 \in C
        BY <1>1, <1>3
    <2> HIDE DEF C, B, k
    <2>2. C # {}
        BY <2>1
    <2>3. Max(C) \in C /\ 1 <= Max(C)
        BY <2>1, <2>2, Greatest
    <2> DEFINE h == Max(C)
    <2>4. h \in 0..k /\ 1 <= h
        BY <2>1, <2>3
    <2> HIDE DEF h
    <2>5. h \in 1..k
        BY <2>1, <2>4
    <2> QED
        BY <2>5 DEF h, C, k
<1>5. Chomp(s) = u
    BY DEF Chomp
<1> HIDE DEF m, B
<1>6. u # <<>> /\ u[1] = l[1]
    <2>1. m \in 0..Len(s) /\ m # 0 /\ 1 \in 1..m /\ m \in Nat
        BY <1>1, <1>2, <1>4
    <2>2. u \in Seq(S) /\ Len(u) = m
        BY <1>2, <2>1, CutFacts
    <2>3. u[1] = s[1]
        BY <1>2, <2>1
    <2> HIDE DEF u
    <2> QED
        BY <1>2, <2>1, <2>2, <2>3
<1>7. ~(u # <<>> /\ u[1] = "@")
    BY <1>0, <1>6
<1>8. ParseIrcLine(u).tags = {}
    <2> HIDE DEF u
    <2> QED
        BY <1>7 DEF ParseIrcLine
<1> QED
    BY <1>5, <1>8 DEF Read, s, e, x

\* The symbols of a line.
Ink == (Bytes \cup Marks
        \cup {";", "=", "@", "seq", "id", "time", "msg-id", "replay", "task-title", "demo", "created",
              "NOTICE", "ACK", "NAK", "410", "421", "invalid", "unknown", "failed"}) \ {"LF"}
TagKeys == {"seq", "msg-id", "time", "replay", "task-title"}

\* What the lemmas on lines and on tags ask of the symbols.
LEMMA InkIs ==
    /\ HasSigns(Ink) /\ Knows(Ink) /\ Keys(TagKeys) /\ TagSigns(Ink, TagKeys) \cup {";"} \subseteq Ink
    /\ " " \notin TagSigns(Ink, TagKeys) \cup {";"} /\ "LF" \notin Ink
    /\ Bytes \ {"LF"} \subseteq Ink
<1>1. HasSigns(Ink)
    BY DEF HasSigns, Ink, Bytes, Signs
<1>2. Knows(Ink)
    BY DEF Knows, Ink, Bytes, Signs
<1>3. Keys(TagKeys)
    BY DEF Keys, TagKeys
<1>4. Marks \subseteq Ink /\ TagKeys \subseteq Ink /\ "=" \in Ink /\ ";" \in Ink
    BY DEF Marks, Ink, TagKeys
<1>5. TagSigns(Ink, TagKeys) \cup {";"} \subseteq Ink
    BY <1>4 DEF TagSigns, Clean
<1>6. " " \notin TagSigns(Ink, TagKeys) \cup {";"}
    BY DEF TagSigns, Clean, Separators, TagKeys
<1>7. "LF" \notin Ink /\ Bytes \ {"LF"} \subseteq Ink
    BY DEF Ink
<1> QED
    BY <1>1, <1>2, <1>3, <1>5, <1>6, <1>7

Senders == {"me", "aircd"}
Verbs == {"PRIVMSG", "NOTICE"}
\* what a line is read as
ReadAs(l, tags, sender, verb, params) ==
    Read(l) = [tags |-> tags, prefix |-> <<sender>>, command |-> <<verb>>, params |-> params]

\* What Tagged writes, the client reads: the tags, the sender, the verb, the target, the text.
LEMMA TaggedRead ==
    ASSUME NEW ts \in Seq(TagKeys \X Seq(Ink)), ts # <<>>, NEW sender \in Senders,
           NEW verb \in Verbs, NEW target \in Word(Ink), NEW body \in Seq(Ink), Ends(body)
    PROVE  /\ Tagged(ts, sender, verb, target, body) \in Seq(Ink)
           /\ ReadAs(Tagged(ts, sender, verb, target, body), ReadTags(ts), sender, verb, Params(<<target>>, body))
<1> DEFINE u == TagText(ts)
           m == "@"
           S == Ink
           a == <<m>> \o u
           b == <<":", sender>>
           v == <<verb>>
           ws == <<a, b, v, target>>
           j == Join(ws, " ")
           l == Tagged(ts, sender, verb, target, body)
           U == TagSigns(S, TagKeys) \cup {";"}
<1>1. /\ FormatMessageTags(ts) = a /\ u \in Seq(U) /\ ParseTags(u) = ReadTags(ts)
    BY InkIs, TagsRead
<1>2. HasSigns(S) /\ U \subseteq S /\ m \in S
    BY InkIs DEF Ink
<1>3. u \in Seq(S)
    <2> HIDE DEF U, S, u
    <2> QED
        BY <1>1, <1>2, SeqMonotonic
<1>4. sender \in S /\ verb \in S
    BY DEF Ink, Bytes, Signs, Senders, Verbs
<1>5. Marked(m, u, sender)
    <2>1. " " \notin U
        BY InkIs
    <2> HIDE DEF U, u
    <2>2. \A i \in 1..Len(u) : u[i] \in U
        BY <1>1, ElementOfSeq
    <2>3. sender # " "
        BY DEF Senders
    <2> QED
        BY <2>1, <2>2, <2>3 DEF Marked, Free
<1>6. v \in Word(S)
    <2>1. verb \notin Space /\ verb # ":"
        BY DEF Space, Verbs
    <2> HIDE DEF S
    <2>2. v \in Seq(S) /\ Len(v) = 1 /\ v[1] = verb
        BY <1>4
    <2>3. v # <<>>
        BY <2>2
    <2> HIDE DEF v
    <2>4. \A i \in 1..Len(v) : v[i] = verb
        BY <2>2
    <2>5. Solid(v)
        BY <2>1, <2>3, <2>4 DEF Solid
    <2> QED
        BY <2>1, <2>2, <2>5 DEF Word
<1>7. l = TextLine(ws, body)
    BY <1>1 DEF Tagged
<1>8. Lined(TextLine(ws, body), u, sender, verb, target, body)
    <2> HIDE DEF m, u
    <2> QED
        BY <1>2, <1>3, <1>4, <1>5, <1>6, LineRead
<1>9. j \in Seq(S)
    <2> DEFINE x == " "
               y == ":"
    <2>1. a \in Seq(S)
        <3> HIDE DEF m, u, S
        <3> QED
            BY <1>2, <1>3, HeadIs
    <2>2. x \in S /\ y \in S
        BY <1>2 DEF HasSigns
    <2> HIDE DEF x
    <2> HIDE DEF y
    <2>3. <<y, sender>> \in Seq(S)
        BY <1>4, <2>2
    <2>4. v \in Seq(S) /\ target \in Seq(S)
        BY <1>6 DEF Word, S
    <2> DEFINE X == Seq(S)
    <2>5. a \in X /\ b \in X /\ v \in X /\ target \in X
        BY <2>1, <2>3, <2>4 DEF y
    <2> HIDE DEF a, b, v, X
    <2>6. ws \in Seq(X)
        BY <2>5
    <2> HIDE DEF ws
    <2>7. \A vs \in Seq(Seq(S)) : Join(vs, x) \in Seq(S)
        BY <2>2, JoinCons
    <2> QED
        BY <2>6, <2>7 DEF X, x
<1> HIDE DEF ws
<1>10. TextLine(ws, body) = j \o (<<" ", ":">> \o body)
    BY DEF TextLine
<1> HIDE DEF j, S, l, u
<1>11. j \o (<<" ", ":">> \o body) \in Seq(S)
    BY <1>2, <1>9, TextConcat DEF S
<1>12. Chomp((j \o (<<" ", ":">> \o body)) \o <<"CR">>) = j \o (<<" ", ":">> \o body)
    BY <1>2, <1>9, TextChomped DEF S
<1>13. Read(l) = ParseIrcLine(l)
    BY <1>7, <1>10, <1>12 DEF Read
<1> QED
    BY <1>1, <1>7, <1>8, <1>10, <1>11, <1>13 DEF Lined, ReadAs, l, S

-----------------------------------------------------------------------------
(* Messages, as the client reads them *)

Good == [channel : Word(Ink), sender : Senders, body : {b \in Seq(Ink) : Ends(b)}, title : Seq(Ink)]
Pairs == TagKeys \X Seq(Ink)

\* One more tag is read after the others.
LEMMA TagAppended ==
    ASSUME NEW ts \in Seq(Pairs), NEW d \in Pairs
    PROVE  /\ Append(ts, d) \in Seq(Pairs) /\ Append(ts, d) # <<>>
           /\ ReadTags(Append(ts, d)) = ReadTags(ts) \cup {<<<<d[1]>>, d[2]>>}
<1> DEFINE us == Append(ts, d)
           n == Len(ts)
<1> HIDE DEF Pairs
<1>1. /\ us \in Seq(Pairs) /\ Len(us) = n + 1 /\ n \in Nat
      /\ (\A i \in 1..n : us[i] = ts[i]) /\ us[n + 1] = d
    BY AppendProperties, LenProperties
<1>2. DOMAIN us = 1..(n + 1) /\ DOMAIN ts = 1..n
    BY <1>1, LenProperties
<1> HIDE DEF us, n
<1>3. us # <<>>
    <2>1. Len(us) # 0
        BY <1>1
    <2> QED
        BY <2>1
<1>4. 1..(n + 1) = (1..n) \cup {n + 1}
    BY <1>1
<1> DEFINE R(t) == <<<<t[1]>>, t[2]>>
<1>5. ReadTags(us) = {R(us[k]) : k \in (1..n) \cup {n + 1}} /\ ReadTags(ts) = {R(ts[k]) : k \in 1..n}
    BY <1>2, <1>4 DEF ReadTags
<1> HIDE DEF R
<1>6. {R(us[k]) : k \in (1..n) \cup {n + 1}} = {R(us[k]) : k \in 1..n} \cup {R(us[n + 1])}
    OBVIOUS
<1>7. {R(us[k]) : k \in 1..n} = {R(ts[k]) : k \in 1..n}
    BY <1>1
<1>8. ReadTags(us) = ReadTags(ts) \cup {R(d)}
    BY <1>1, <1>5, <1>6, <1>7
<1> QED
    BY <1>1, <1>3, <1>8 DEF us, R

\* The tags of a message, of a replayed one, and of a task.
LEMMA TagsSent ==
    /\ MetadataTags(FALSE) \in Seq(Pairs) /\ MetadataTags(FALSE) # <<>>
    /\ ReadTags(MetadataTags(FALSE)) = IdTags
    /\ MetadataTags(TRUE) \in Seq(Pairs) /\ MetadataTags(TRUE) # <<>>
    /\ ReadTags(MetadataTags(TRUE)) = IdTags \cup {<<<<"replay">>, <<"1">>>>}
<1> DEFINE a == <<"seq", <<"seq">>>>
           b == <<"msg-id", <<"id">>>>
           c == <<"time", <<"time">>>>
           d == <<"replay", <<"1">>>>
           ts == <<a, b, c>>
<1>1. a \in Pairs /\ b \in Pairs /\ c \in Pairs /\ d \in Pairs
    <2>1. ASSUME NEW k \in TagKeys, NEW x \in Ink PROVE <<k, <<x>>>> \in Pairs
        <3>1. <<x>> \in Seq(Ink)
            OBVIOUS
        <3> QED
            BY <3>1 DEF Pairs
    <2>2. "seq" \in Ink /\ "id" \in Ink /\ "time" \in Ink /\ "1" \in Ink
        BY DEF Ink, Bytes, Signs
    <2>3. "seq" \in TagKeys /\ "msg-id" \in TagKeys /\ "time" \in TagKeys /\ "replay" \in TagKeys
        BY DEF TagKeys
    <2> QED
        BY <2>1, <2>2, <2>3
<1>2. a[1] = "seq" /\ a[2] = <<"seq">> /\ b[1] = "msg-id" /\ b[2] = <<"id">>
      /\ c[1] = "time" /\ c[2] = <<"time">> /\ d[1] = "replay" /\ d[2] = <<"1">>
    OBVIOUS
<1>3. MetadataTags(FALSE) = ts \o <<>> /\ MetadataTags(TRUE) = ts \o <<d>>
    BY DEF MetadataTags
<1> HIDE DEF a, b, c, d
<1>4. ts \in Seq(Pairs) /\ Len(ts) = 3 /\ ts[1] = a /\ ts[2] = b /\ ts[3] = c /\ DOMAIN ts = 1..3
    BY <1>1
<1>5. 1..3 = {1, 2, 3}
    OBVIOUS
<1> HIDE DEF ts
<1>6. ReadTags(ts) = {<<<<ts[k][1]>>, ts[k][2]>> : k \in {1, 2, 3}}
    BY <1>4, <1>5 DEF ReadTags
<1>7. ReadTags(ts) = {<<<<a[1]>>, a[2]>>, <<<<b[1]>>, b[2]>>, <<<<c[1]>>, c[2]>>}
    BY <1>4, <1>6
<1>8. ReadTags(ts) = IdTags
    BY <1>2, <1>7 DEF IdTags
<1>9. ts # <<>>
    BY <1>4
<1>10. ts \o <<>> = ts
    BY <1>4, ConcatEmptySeq
<1>11. ts \o <<d>> = Append(ts, d)
    BY <1>1, <1>4, AppendIsConcat
<1>12. /\ Append(ts, d) \in Seq(Pairs) /\ Append(ts, d) # <<>>
       /\ ReadTags(Append(ts, d)) = ReadTags(ts) \cup {<<<<d[1]>>, d[2]>>}
    BY <1>1, <1>4, TagAppended
<1> QED
    BY <1>2, <1>3, <1>4, <1>8, <1>9, <1>10, <1>11, <1>12

\* What the client makes of a message sent, of one replayed, and of any other line.
Carries(r, m) ==
    \/ m.body = <<>> /\ ~IsMessage(r)
    \/ m.body # <<>> /\ IsLive(r) /\ Matches(r, m) /\ r.tags = TagsOf(m)
Repeats(r, m) == ~IsLive(r) /\ (IsMessage(r) => Matches(r, m))

\* The text is a parameter of its own if it is not empty.
LEMMA ParamsIs ==
    ASSUME NEW S, NEW target \in Seq(S), NEW body \in Seq(S)
    PROVE  /\ body = <<>> => ~(Len(Params(<<target>>, body)) >= 2)
           /\ body # <<>> => Params(<<target>>, body) = <<target, body>> /\ Len(Params(<<target>>, body)) >= 2
<1> DEFINE T == Seq(S)
<1>1. target \in T /\ body \in T
    OBVIOUS
<1> HIDE DEF T
<1>2. Append(<<target>>, body) = <<target, body>>
    BY <1>1, Appended
<1>3. Len(<<target>>) = 1 /\ Len(<<target, body>>) = 2
    BY <1>1
<1> QED
    BY <1>2, <1>3 DEF Params

\* The line of a message carries it.
LEMMA LiveRead ==
    ASSUME NEW m \in Good
    PROVE  LiveLine(m) \in Seq(Ink) /\ Carries(Read(LiveLine(m)), m)
<1> DEFINE ts == IF m.title = <<>> THEN MetadataTags(FALSE)
                 ELSE Append(MetadataTags(FALSE), <<"task-title", m.title>>)
           verb == IF m.title = <<>> THEN "PRIVMSG" ELSE "NOTICE"
           l == LiveLine(m)
           r == Read(l)
<1>1. /\ m.channel \in Word(Ink) /\ m.sender \in Senders /\ m.body \in Seq(Ink) /\ Ends(m.body)
      /\ m.title \in Seq(Ink)
    BY DEF Good
<1>2. l = Tagged(ts, m.sender, verb, m.channel, m.body)
    BY DEF LiveLine
<1>3. verb \in Verbs
    BY DEF Verbs
<1>4. ts \in Seq(Pairs) /\ ts # <<>> /\ ReadTags(ts) = TagsOf(m)
    <2>1. CASE m.title = <<>>
        <3>1. ts = MetadataTags(FALSE) /\ TagsOf(m) = IdTags
            BY <2>1 DEF TagsOf
        <3> HIDE DEF ts
        <3> QED
            BY <3>1, TagsSent
    <2>2. CASE m.title # <<>>
        <3> DEFINE d == <<"task-title", m.title>>
        <3>1. ts = Append(MetadataTags(FALSE), d)
            BY <2>2
        <3>2. d \in Pairs /\ d[1] = "task-title" /\ d[2] = m.title
            BY <1>1 DEF Pairs, TagKeys
        <3>3. TagsOf(m) = IdTags \cup {<<<<"task-title">>, m.title>>}
            BY <2>2 DEF TagsOf
        <3> HIDE DEF d, ts
        <3>4. /\ Append(MetadataTags(FALSE), d) \in Seq(Pairs) /\ Append(MetadataTags(FALSE), d) # <<>>
              /\ ReadTags(Append(MetadataTags(FALSE), d))
                   = ReadTags(MetadataTags(FALSE)) \cup {<<<<d[1]>>, d[2]>>}
            BY <3>2, TagsSent, TagAppended
        <3> QED
            BY <3>1, <3>2, <3>3, <3>4, TagsSent
    <2> QED
        BY <2>1, <2>2
<1> HIDE DEF ts, verb, l
<1>5. /\ Tagged(ts, m.sender, verb, m.channel, m.body) \in Seq(Ink)
      /\ ReadAs(Tagged(ts, m.sender, verb, m.channel, m.body), ReadTags(ts), m.sender, verb,
                Params(<<m.channel>>, m.body))
    BY <1>1, <1>3, <1>4, TaggedRead DEF Pairs
<1>6. r.tags = TagsOf(m) /\ r.prefix = <<m.sender>> /\ r.params = Params(<<m.channel>>, m.body)
    BY <1>2, <1>4, <1>5 DEF ReadAs
<1> HIDE DEF r
<1>7. Has(r, "msg-id")
    <2>1. <<<<"msg-id">>, <<"id">>>> \in r.tags
        BY <1>6 DEF TagsOf, IdTags
    <2>2. <<<<"msg-id">>, <<"id">>>>[1] = <<"msg-id">>
        OBVIOUS
    <2> QED
        BY <2>1, <2>2 DEF Has
<1>8. ~Has(r, "replay")
    <2> SUFFICES ASSUME NEW tag \in TagsOf(m), tag[1] = <<"replay">> PROVE FALSE
        BY <1>6 DEF Has
    <2>1. tag[1] \in {<<"seq">>, <<"msg-id">>, <<"time">>, <<"task-title">>}
        BY DEF TagsOf, IdTags
    <2> QED
        BY <2>1
<1>9. m.channel \in Seq(Ink)
    BY <1>1 DEF Word
<1>10. /\ m.body = <<>> => ~(Len(Params(<<m.channel>>, m.body)) >= 2)
       /\ m.body # <<>> => /\ Params(<<m.channel>>, m.body) = <<m.channel, m.body>>
                           /\ Len(Params(<<m.channel>>, m.body)) >= 2
    BY <1>1, <1>9, ParamsIs
<1>11. Carries(r, m)
    <2>1. CASE m.body = <<>>
        <3>1. ~(Len(r.params) >= 2)
            BY <1>6, <1>10, <2>1
        <3> QED
            BY <2>1, <3>1 DEF Carries, IsMessage
    <2>2. CASE m.body # <<>>
        <3>1. r.params = <<m.channel, m.body>> /\ Len(r.params) >= 2
            BY <1>6, <1>10, <2>2
        <3>2. IsLive(r)
            BY <1>7, <1>8, <3>1 DEF IsMessage, IsLive
        <3>3. Matches(r, m)
            BY <1>6, <3>1 DEF Matches
        <3> QED
            BY <1>6, <2>2, <3>2, <3>3 DEF Carries
    <2> QED
        BY <2>1, <2>2
<1> QED
    BY <1>2, <1>5, <1>11 DEF r, l

ReplayLine(m) == Tagged(MetadataTags(TRUE), m.sender, "PRIVMSG", m.channel, m.body)

\* A replayed line has the message in it, and is known from one sent for the first time.
LEMMA ReplayRead ==
    ASSUME NEW m \in Good
    PROVE  ReplayLine(m) \in Seq(Ink) /\ Repeats(Read(ReplayLine(m)), m)
<1> DEFINE ts == MetadataTags(TRUE)
           verb == "PRIVMSG"
           l == ReplayLine(m)
           r == Read(l)
<1>1. /\ m.channel \in Word(Ink) /\ m.sender \in Senders /\ m.body \in Seq(Ink) /\ Ends(m.body)
    BY DEF Good
<1>2. l = Tagged(ts, m.sender, verb, m.channel, m.body)
    BY DEF ReplayLine
<1>3. verb \in Verbs
    BY DEF Verbs
<1>4. ts \in Seq(Pairs) /\ ts # <<>> /\ ReadTags(ts) = IdTags \cup {<<<<"replay">>, <<"1">>>>}
    BY TagsSent
<1> HIDE DEF ts, verb, l
<1>5. /\ Tagged(ts, m.sender, verb, m.channel, m.body) \in Seq(Ink)
      /\ ReadAs(Tagged(ts, m.sender, verb, m.channel, m.body), ReadTags(ts), m.sender, verb,
                Params(<<m.channel>>, m.body))
    BY <1>1, <1>3, <1>4, TaggedRead DEF Pairs
<1>6. r.tags = ReadTags(ts) /\ r.prefix = <<m.sender>> /\ r.params = Params(<<m.channel>>, m.body)
    BY <1>2, <1>5 DEF ReadAs
<1> HIDE DEF r
<1>7. Has(r, "replay")
    <2>1. <<<<"replay">>, <<"1">>>> \in r.tags
        BY <1>4, <1>6
    <2>2. <<<<"replay">>, <<"1">>>>[1] = <<"replay">>
        OBVIOUS
    <2> QED
        BY <2>1, <2>2 DEF Has
<1>8. m.channel \in Seq(Ink)
    BY <1>1 DEF Word
<1>9. /\ m.body = <<>> => ~(Len(Params(<<m.channel>>, m.body)) >= 2)
      /\ m.body # <<>> => /\ Params(<<m.channel>>, m.body) = <<m.channel, m.body>>
                          /\ Len(Params(<<m.channel>>, m.body)) >= 2
    BY <1>1, <1>8, ParamsIs
<1>10. Repeats(r, m)
    <2>1. ~IsLive(r)
        BY <1>7 DEF IsLive
    <2>2. CASE m.body = <<>>
        <3>1. ~(Len(r.params) >= 2)
            BY <1>6, <1>9, <2>2
        <3> QED
            BY <2>1, <3>1 DEF Repeats, IsMessage
    <2>3. CASE m.body # <<>>
        <3>1. r.params = <<m.channel, m.body>>
            BY <1>6, <1>9, <2>3
        <3>2. Matches(r, m)
            BY <1>6, <3>1 DEF Matches
        <3> QED
            BY <2>1, <3>2 DEF Repeats
    <2> QED
        BY <2>2, <2>3
<1> QED
    BY <1>2, <1>5, <1>10 DEF r, l

-----------------------------------------------------------------------------
(* What a command the server has parsed is made of *)

Solids(S) == {a \in Seq(S) : Solid(a)}

\* A word has no white space in it.
LEMMA WordsSolid ==
    ASSUME NEW S, NEW s \in Seq(S)
    PROVE  Words(s) \in Seq(Solids(S))
<1>1. Len(s) \in Nat /\ DOMAIN s = 1..Len(s) /\ \A i \in 1..Len(s) : s[i] \in S
    BY LenProperties, ElementOfSeq
<1>2. Starts(s) \subseteq 1..Len(s) /\ Starts(s) \subseteq Black(s) /\ Cardinality(Starts(s)) \in Nat
    BY WordsType DEF Starts
<1>3. ASSUME NEW k \in 1..Cardinality(Starts(s))
      PROVE  SubSeq(s, Nth(Starts(s), k), WordEnd(s, Nth(Starts(s), k))) \in Solids(S)
    <2> DEFINE i == Nth(Starts(s), k)
               e == WordEnd(s, i)
               n == e - i + 1
               u == SubSeq(s, i, e)
    <2>1. i \in 1..Len(s) /\ i \in Black(s)
        <3>1. i \in Starts(s)
            BY <1>1, <1>2, NthIs
        <3> HIDE DEF i
        <3> QED
            BY <1>2, <3>1
    <2> HIDE DEF i
    <2>2. e \in i..Len(s) /\ \A j \in i..(e - 1) : j + 1 \in Black(s)
        BY <2>1, WordEndIs
    <2> HIDE DEF e
    <2>3. i \in Int /\ e \in Int /\ i <= e /\ n \in Nat /\ n # 0 /\ \A j \in i..e : s[j] \in S
        BY <1>1, <2>1, <2>2
    <2>4. u \in Seq(S) /\ Len(u) = n /\ \A j \in 1..n : u[j] = s[i + j - 1]
        <3>1. /\ SubSeq(s, i, e) \in Seq(S)
              /\ Len(SubSeq(s, i, e)) = IF i <= e THEN e - i + 1 ELSE 0
              /\ \A j \in 1..(e - i + 1) : SubSeq(s, i, e)[j] = s[i + j - 1]
            BY <2>3, SubSeqProperties
        <3> QED
            BY <2>3, <3>1
    <2> HIDE DEF u
    <2>5. \A j \in i..e : j \in Black(s)
        <3>1. ASSUME NEW j \in i..e PROVE j \in Black(s)
            <4>1. CASE j = i
                BY <2>1, <4>1
            <4>2. CASE j # i
                <5> DEFINE h == j - 1
                <5>1. h \in i..(e - 1) /\ h + 1 = j
                    BY <2>3, <4>2
                <5> HIDE DEF h
                <5> QED
                    BY <2>2, <5>1
            <4> QED
                BY <4>1, <4>2
        <3> QED
            BY <3>1
    <2>6. \A j \in 1..n : u[j] \notin Space
        <3>1. ASSUME NEW j \in 1..n PROVE u[j] \notin Space
            <4>1. i + j - 1 \in i..e
                BY <2>3
            <4>2. i + j - 1 \in Black(s)
                BY <2>5, <4>1
            <4> QED
                BY <2>4, <4>2 DEF Black
        <3> QED
            BY <3>1
    <2>7. u # <<>>
        BY <2>3, <2>4
    <2> QED
        BY <2>4, <2>6, <2>7 DEF Solids, Solid, u, e, i
<1>4. Words(s) \in [1..Cardinality(Starts(s)) -> Solids(S)]
    BY <1>3 DEF Words
<1> QED
    BY <1>2, <1>4

\* a text that ends in a symbol that is no white space
Closed(j) == j # <<>> /\ j[Len(j)] \notin Space

Whole(ws) == ws = <<>> \/ Closed(Join(ws, " "))

\* One more word in front.
LEMMA ClosedCons ==
    ASSUME NEW S, HasSigns(S), NEW a \in Solids(S), NEW ws \in Seq(Solids(S)), Whole(ws)
    PROVE  Whole(<<a>> \o ws)
<1> DEFINE x == " "
           b == Join(ws, x)
           s == a \o (<<x>> \o b)
<1>1. a \in Seq(S) /\ Solid(a)
    BY DEF Solids
<1>2. Closed(a)
    <2>1. a # <<>> /\ \A i \in 1..Len(a) : a[i] \notin Space
        BY <1>1 DEF Solid
    <2>2. Len(a) # 0 /\ Len(a) \in Nat
        BY <1>1, <2>1, EmptySeq, LenProperties
    <2> DEFINE n == Len(a)
    <2>3. n # 0 /\ n \in Nat
        BY <2>2
    <2> HIDE DEF n
    <2>4. n \in 1..n
        BY <2>3
    <2> QED
        BY <2>1, <2>4 DEF Closed, n
<1>3. x \in S /\ ws \in Seq(Seq(S))
    <2>1. x \in S
        BY DEF HasSigns
    <2>2. Solids(S) \subseteq Seq(S)
        BY DEF Solids
    <2>3. ws \in Seq(Seq(S))
        BY <2>2, SeqMonotonic
    <2> QED
        BY <2>1, <2>3
<1>4. ws = <<>> \/ Closed(b)
    BY DEF Whole
<1> HIDE DEF x
<1>5. Joins(a, ws, x) /\ b \in Seq(S)
    BY <1>1, <1>3, JoinCons
<1>6. Join(<<a>> \o ws, x) = IF ws = <<>> THEN a ELSE s
    BY <1>5 DEF Joins
<1> HIDE DEF b
<1>7. s \in Seq(S) /\ Meets(s, a, x, b)
    BY <1>1, <1>3, <1>5, MeetsConcat
<1> HIDE DEF s
<1>8. ASSUME Closed(b) PROVE Closed(s)
    <2> DEFINE p == Len(a)
               q == Len(b)
    <2>0. b # <<>> /\ b[q] \notin Space
        BY <1>8 DEF Closed
    <2>1. p \in Nat /\ q \in Nat
        BY <1>1, <1>5, LenProperties
    <2>2. q # 0
        BY <1>5, <2>0, EmptySeq
    <2>3. Len(s) = p + 1 + q /\ \A j \in 1..q : s[p + 1 + j] = b[j]
        BY <1>7 DEF Meets
    <2> HIDE DEF p, q
    <2>4. q \in 1..q
        BY <2>1, <2>2
    <2>5. s[p + 1 + q] = b[q]
        BY <2>3, <2>4
    <2>6. s # <<>>
        <3>1. p + 1 + q # 0
            BY <2>1
        <3>2. Len(s) # 0
            BY <2>3, <3>1
        <3> QED
            BY <1>7, <3>2, EmptySeq
    <2>7. s[Len(s)] \notin Space
        BY <2>0, <2>3, <2>5 DEF q
    <2> QED
        BY <2>6, <2>7 DEF Closed
<1> QED
    BY <1>2, <1>4, <1>6, <1>8 DEF x, Whole

\* Joined words end where the last of them does.
LEMMA JoinedClosed ==
    ASSUME NEW S, HasSigns(S), NEW vs \in Seq(Solids(S))
    PROVE  Join(vs, " ") \in Seq(S) /\ Ends(Join(vs, " "))
<1> DEFINE X == Solids(S)
           x == " "
           T == {n \in Nat : \A ws \in Seq(X) : Len(ws) = n => Whole(ws)}
<1> HIDE DEF X
<1>1. 0 \in T
    <2>1. \A ws \in Seq(X) : Len(ws) = 0 => ws = <<>>
        BY EmptySeq
    <2> QED
        BY <2>1 DEF Whole
<1>2. ASSUME NEW n \in Nat, n \in T PROVE n + 1 \in T
    <2> DEFINE k == n + 1
    <2>1. \A ws \in Seq(X) : Len(ws) = n => Whole(ws)
        BY <1>2
    <2>2. ASSUME NEW ws \in Seq(X), Len(ws) = k PROVE Whole(ws)
        <3> DEFINE w == Head(ws)
                   us == Tail(ws)
        <3>1. ws # <<>>
            BY <2>2
        <3>2. w \in X /\ us \in Seq(X) /\ ws = <<w>> \o us
            BY <3>1, TailFacts
        <3>3. Len(us) = n
            BY <2>2, <3>1
        <3> HIDE DEF w, us
        <3>4. Whole(us)
            BY <2>1, <3>2, <3>3
        <3>5. Whole(<<w>> \o us)
            BY <3>2, <3>4, ClosedCons DEF X
        <3> QED
            BY <3>2, <3>5
    <2>3. k \in Nat
        OBVIOUS
    <2> HIDE DEF k
    <2>4. k \in T
        BY <2>2, <2>3
    <2> QED
        BY <2>4 DEF k
<1>3. Len(vs) \in T
    <2>1. Len(vs) \in Nat
        BY LenProperties
    <2> HIDE DEF T
    <2> QED
        BY <1>1, <1>2, <2>1, NatUpward
<1>4. Whole(vs)
    BY <1>3 DEF X
<1>5. Join(<<>>, x) = <<>>
    BY DEF Join
<1>6. Ends(Join(vs, x))
    BY <1>4, <1>5 DEF Ends, Closed, Whole
<1>7. Join(vs, x) \in Seq(S)
    <2>1. x \in S
        BY DEF HasSigns
    <2>2. Solids(S) \subseteq Seq(S)
        BY DEF Solids
    <2>3. vs \in Seq(Seq(S))
        BY <2>2, SeqMonotonic
    <2>4. <<>> \in Seq(S)
        BY EmptySeq
    <2> HIDE DEF x
    <2>5. \A ws \in Seq(Seq(S)) : Join(ws, x) \in Seq(S)
        BY <2>1, <2>4, JoinCons
    <2> QED
        BY <2>3, <2>5
<1> QED
    BY <1>6, <1>7

Ended(S) == {b \in Seq(S) : Ends(b)}

\* What is left of a text ends as the text does.
LEMMA SuffixEnds ==
    ASSUME NEW S, NEW l \in Ended(S), NEW p \in 0..Len(l)
    PROVE  SubSeq(l, p + 1, Len(l)) \in Ended(S)
<1> DEFINE n == Len(l)
           u == SubSeq(l, p + 1, n)
<1>1. l \in Seq(S) /\ Ends(l) /\ n \in Nat /\ p \in 0..n
    BY LenProperties DEF Ended
<1>2. u \in Seq(S) /\ Len(u) = n - p
    BY <1>1, CutFacts
<1>3. CASE p = n
    <2> HIDE DEF n
    <2>1. u = <<>>
        <3> HIDE DEF u
        <3>1. Len(u) = 0
            BY <1>1, <1>2, <1>3
        <3> QED
            BY <1>2, <3>1, EmptySeq
    <2> QED
        BY <1>2, <2>1 DEF Ended, Ends, n
<1>4. CASE p # n
    <2>1. l # <<>>
        BY <1>1, <1>4, EmptySeq
    <2>2. l[n] \notin Space
        BY <1>1, <2>1 DEF Ends
    <2>3. /\ n - p \in 1..(n - (p + 1) + 1) /\ (p + 1) + (n - p) - 1 = n
          /\ p + 1 \in Int /\ n \in Int /\ p + 1 <= n /\ p + 1 >= 1
        <3> HIDE DEF n
        <3> QED
            BY <1>1, <1>4
    <2>4. SubSeq(l, p + 1, n)[n - p] = l[(p + 1) + (n - p) - 1]
        <3> DEFINE a == p + 1
        <3>1. a \in 1..n /\ n \in a..n
            BY <1>1, <1>4
        <3>2. n - p \in 1..(n - a + 1)
            BY <2>3
        <3> HIDE DEF a
        <3>3. /\ \A i \in 1..n : l[i] \in S
              /\ a \in Int /\ n \in Int /\ \A i \in a..n : l[i] \in S
            BY <1>1, <3>1, ElementOfSeq
        <3>4. \A i \in 1..(n - a + 1) : SubSeq(l, a, n)[i] = l[a + i - 1]
            BY <3>1, <3>3, SubSeqProperties
        <3> QED
            BY <3>2, <3>4 DEF a
    <2>5. u[Len(u)] \notin Space
        BY <1>2, <2>2, <2>3, <2>4
    <2> QED
        BY <1>2, <2>5 DEF Ended, Ends
<1> QED
    BY <1>3, <1>4

\* A trimmed text has no white space at its end.
LEMMA TrimEnds ==
    ASSUME NEW S, NEW s \in Seq(S)
    PROVE  Trim(s) \in Ended(S)
<1> DEFINE B == Black(s)
           n == Len(s)
<1>1. CASE B = {}
    BY <1>1, EmptySeq DEF Trim, Ended, Ends
<1>2. CASE B # {}
    <2>1. n \in Nat /\ DOMAIN s = 1..n
        BY LenProperties
    <2>2. B \subseteq 1..n /\ B \subseteq Nat /\ B \subseteq 0..n
        BY <2>1 DEF Black
    <2> HIDE DEF B
    <2> DEFINE i == Min(B)
               j == Max(B)
               u == SubSeq(s, i, j)
    <2>3. i \in B /\ j \in B /\ i <= j
        BY <1>2, <2>1, <2>2, Least, Greatest
    <2>4. s[j] \notin Space
        BY <2>3 DEF B, Black
    <2>5. i \in 1..n /\ j \in 1..n
        BY <2>2, <2>3
    <2>6. Trim(s) = u
        BY <1>2 DEF Trim, B
    <2> HIDE DEF i, j, n
    <2>7. i \in Int /\ j \in Int /\ i <= j /\ \A k \in i..j : s[k] \in S
        <3>1. \A k \in 1..n : s[k] \in S
            BY ElementOfSeq DEF n
        <3> QED
            BY <2>1, <2>3, <2>5, <3>1
    <2>8. /\ SubSeq(s, i, j) \in Seq(S)
          /\ Len(SubSeq(s, i, j)) = IF i <= j THEN j - i + 1 ELSE 0
          /\ \A k \in 1..(j - i + 1) : SubSeq(s, i, j)[k] = s[i + k - 1]
        BY <2>7, SubSeqProperties
    <2>9. j - i + 1 \in 1..(j - i + 1) /\ i + (j - i + 1) - 1 = j
        BY <2>7
    <2>10. u \in Seq(S) /\ Len(u) = j - i + 1 /\ u[j - i + 1] = s[j]
        BY <2>7, <2>8, <2>9
    <2> HIDE DEF u
    <2>11. u[Len(u)] \notin Space
        BY <2>4, <2>10
    <2> QED
        BY <2>6, <2>10, <2>11 DEF Ended, Ends
<1> QED
    BY <1>1, <1>2

\* The words from one on, with a space between each two of them.
LEMMA RestEnds ==
    ASSUME NEW S, HasSigns(S), NEW w \in Seq(Solids(S)), NEW k \in {2, 3, 4}
    PROVE  Rest(w, k) \in Ended(S)
<1> DEFINE T == Solids(S)
<1>1. SubSeq(w, k, Len(w)) \in Seq(T)
    <2> HIDE DEF T
    <2>1. w \in Seq(T) /\ Len(w) \in Nat /\ \A i \in 1..Len(w) : w[i] \in T
        BY ElementOfSeq, LenProperties DEF T
    <2>2. \A i \in k..Len(w) : w[i] \in T
        <3>1. \A i \in k..Len(w) : i \in 1..Len(w)
            BY <2>1
        <3> QED
            BY <2>1, <3>1
    <2>3. k \in Int /\ Len(w) \in Int
        BY <2>1
    <2> QED
        BY <2>2, <2>3, SubSeqProperties
<1> HIDE DEF T
<1>2. Join(SubSeq(w, k, Len(w)), " ") \in Seq(S) /\ Ends(Join(SubSeq(w, k, Len(w)), " "))
    BY <1>1, JoinedClosed DEF T
<1> QED
    BY <1>2 DEF Rest, Ended

Named(S) == {<<>>} \cup Solids(S)
\* what a command is made of that has been parsed from a line of S
Said(S, c) ==
    /\ c[1] \in {"Privmsg", "TaskCreate"} => c[2] \in Named(S)
    /\ c[1] = "Privmsg" => c[3] \in Ended(S)
    /\ c[1] = "TaskCreate" => c[3] \in Seq(S)
    /\ c[1] \in {"Ping", "Unknown"} => c[2] \in Seq(S)
    /\ c[1] = "Cap" => c[2] \in Seq(S) /\ c[3] \in Seq(Seq(S))

\* The words are of the line, and so are the text and what is joined from words.
LEMMA WordsSaid ==
    ASSUME NEW w \in Seq(Solids(Ink)), NEW trailing, trailing = <<>> \/ trailing[1] \in Ended(Ink)
    PROVE  Said(Ink, ParseWords(w, trailing))
<1> DEFINE v == Arg(w, 1)
           t(k) == IF trailing = <<>> THEN Rest(w, k) ELSE trailing[1]
           c == ParseWords(w, trailing)
<1>1. \A k : Arg(w, k) \in Named(Ink)
    <2> DEFINE T == Solids(Ink)
    <2>1. w \in Seq(T)
        OBVIOUS
    <2> HIDE DEF T
    <2>2. \A k \in DOMAIN w : w[k] \in T
        BY <2>1, ElementOfSeq, LenProperties
    <2> QED
        BY <2>2 DEF Arg, Named, T
<1>2. Named(Ink) \subseteq Seq(Ink) /\ Ended(Ink) \subseteq Seq(Ink)
    <2> HIDE DEF Ink
    <2> QED
        BY EmptySeq DEF Named, Solids, Ended
<1>3. \A k \in {2, 3, 4} : t(k) \in Ended(Ink)
    <2>1. \A k \in {2, 3, 4} : Rest(w, k) \in Ended(Ink)
        BY InkIs, RestEnds
    <2> QED
        BY <2>1
<1>4. <<"TASK">> \o Arg(w, 2) \in Seq(Ink)
    <2> DEFINE x == "TASK"
               a == Arg(w, 2)
    <2>1. x \in Ink
        BY DEF Ink, Bytes, Signs
    <2>2. a \in Seq(Ink)
        BY <1>1, <1>2
    <2> HIDE DEF x, a, Ink
    <2>3. <<x>> \o a \in Seq(Ink)
        BY <2>1, <2>2, HeadIs
    <2> QED
        BY <2>3 DEF x, a
<1>5. \A d \in Ended(Ink) : Words(d) \in Seq(Seq(Ink))
    BY <1>2, WordsType
<1>6. t(2) \in Ended(Ink) /\ t(3) \in Ended(Ink) /\ t(4) \in Ended(Ink)
    BY <1>3
<1> HIDE DEF Ink, t
<1>7. Said(Ink, ParseTask(w, t(4)))
    <2> DEFINE a == Arg(w, 3)
               b == Arg(w, 2)
               e == ParseTask(w, t(4))
    <2>1. CASE b = <<"CREATE">>
        <3>1. e = <<"TaskCreate", a, t(4)>>
            BY <2>1 DEF ParseTask
        <3> QED
            BY <1>1, <1>2, <1>6, <3>1 DEF Said
    <2>2. CASE b = <<"CLAIM">>
        <3>1. e = <<"TaskClaim", a>>
            BY <2>2 DEF ParseTask
        <3> QED
            BY <3>1 DEF Said
    <2>3. CASE b = <<"DONE">>
        <3>1. e = <<"TaskDone", a>>
            BY <2>3 DEF ParseTask
        <3> QED
            BY <3>1 DEF Said
    <2>4. CASE b = <<"RELEASE">>
        <3>1. e = <<"TaskRelease", a>>
            BY <2>4 DEF ParseTask
        <3> QED
            BY <3>1 DEF Said
    <2>5. CASE b = <<"LIST">>
        <3>1. e = <<"TaskList", a>>
            BY <2>5 DEF ParseTask
        <3> QED
            BY <3>1 DEF Said
    <2>6. CASE b \notin {<<"CREATE">>, <<"CLAIM">>, <<"DONE">>, <<"RELEASE">>, <<"LIST">>}
        <3> DEFINE d == <<"TASK">> \o b
        <3>1. e = <<"Unknown", d>>
            BY <2>6 DEF ParseTask
        <3>2. d \in Seq(Ink)
            BY <1>4
        <3> HIDE DEF d
        <3> QED
            BY <3>1, <3>2 DEF Said
    <2> QED
        BY <2>1, <2>2, <2>3, <2>4, <2>5, <2>6
<1>8. Said(Ink, ParseChathistory(w))
    <2> DEFINE e == ParseChathistory(w)
    <2>1. e[1] = "History"
        BY DEF ParseChathistory
    <2> HIDE DEF e
    <2> QED
        BY <2>1 DEF Said, e
<1>9. CASE v = <<"PASS">>
    <2>1. c = <<"Pass", Rest(w, 2)>>
        BY <1>9 DEF ParseWords, t
    <2> QED
        BY <2>1 DEF Said
<1>10. CASE v = <<"NICK">>
    <2>1. c = <<"Nick", Arg(w, 2)>>
        BY <1>10 DEF ParseWords, t
    <2> QED
        BY <2>1 DEF Said
<1>11. CASE v = <<"USER">>
    <2>1. c = <<"User", Arg(w, 2)>>
        BY <1>11 DEF ParseWords, t
    <2> QED
        BY <2>1 DEF Said
<1>12. CASE v = <<"JOIN">>
    <2>1. c = <<"Join", Arg(w, 2)>>
        BY <1>12 DEF ParseWords, t
    <2> QED
        BY <2>1 DEF Said
<1>13. CASE v = <<"PART">>
    <2>1. c = <<"Part", Arg(w, 2)>>
        BY <1>13 DEF ParseWords, t
    <2> QED
        BY <2>1 DEF Said
<1>14. CASE v = <<"PRIVMSG">>
    <2>1. c = <<"Privmsg", Arg(w, 2), t(3)>>
        BY <1>14 DEF ParseWords, t
    <2> QED
        BY <1>1, <1>6, <2>1 DEF Said
<1>15. CASE v = <<"PING">>
    <2>1. c = <<"Ping", t(2)>>
        BY <1>15 DEF ParseWords, t
    <2> QED
        BY <1>2, <1>6, <2>1 DEF Said
<1>16. CASE v = <<"PONG">>
    <2>1. c = <<"Pong">>
        BY <1>16 DEF ParseWords, t
    <2> QED
        BY <2>1 DEF Said
<1>17. CASE v = <<"QUIT">>
    <2>1. c = <<"Quit">>
        BY <1>17 DEF ParseWords, t
    <2> QED
        BY <2>1 DEF Said
<1>18. CASE v = <<"CAP">>
    <2>1. c = <<"Cap", Arg(w, 2), Words(t(3))>>
        BY <1>18 DEF ParseWords, t
    <2> QED
        BY <1>1, <1>2, <1>5, <1>6, <2>1 DEF Said
<1>19. CASE v = <<"CHATHISTORY">>
    <2>1. c = ParseChathistory(w)
        BY <1>19 DEF ParseWords, t
    <2> QED
        BY <1>8, <2>1 DEF Said
<1>20. CASE v = <<"HISTORY">>
    <2>1. c = <<"History", Arg(w, 2), Number(Arg(w, 3), "0"), Number(Arg(w, 4), "100")>>
        BY <1>20 DEF ParseWords, t
    <2> QED
        BY <2>1 DEF Said
<1>21. CASE v = <<"TASK">>
    <2>1. c = ParseTask(w, t(4))
        BY <1>21 DEF ParseWords, t
    <2> QED
        BY <1>7, <2>1 DEF Said
<1>22. CASE v \notin {<<"PASS">>, <<"NICK">>, <<"USER">>, <<"JOIN">>, <<"PART">>, <<"PRIVMSG">>,
                       <<"PING">>, <<"PONG">>, <<"QUIT">>, <<"CAP">>, <<"CHATHISTORY">>,
                       <<"HISTORY">>, <<"TASK">>}
    <2>1. c = <<"Unknown", v>>
        BY <1>22 DEF ParseWords
    <2> QED
        BY <1>1, <1>2, <2>1 DEF Said
<1> QED
    BY <1>9, <1>10, <1>11, <1>12, <1>13, <1>14, <1>15, <1>16, <1>17, <1>18, <1>19, <1>20, <1>21, <1>22

\* Whatever the line, the command is made of what is in it.
LEMMA CommandSaid ==
    ASSUME NEW s \in Seq(Ink)
    PROVE  Said(Ink, ParseCommand(s))
<1> DEFINE T == Ended(Ink)
<1> HIDE DEF Ink
<1>1. Trim(s) \in T
    BY TrimEnds
<1>2. ASSUME NEW l \in T, NEW x PROVE After(l, Find(l, x)) \in T
    <2> DEFINE C == {i \in DOMAIN l : l[i] = x}
               p == First(C)
    <2>0. l \in Seq(Ink)
        BY DEF Ended
    <2>1. Len(l) \in Nat /\ C \subseteq 1..Len(l)
        BY <2>0, LenProperties
    <2> HIDE DEF C
    <2>2. p \in 0..Len(l)
        BY <2>1, FirstIs
    <2> HIDE DEF p
    <2>3. SubSeq(l, p + 1, Len(l)) \in T
        BY <2>2, SuffixEnds
    <2> QED
        BY <2>3 DEF After, Find, p, C
<1> DEFINE l == StripTagsAndPrefix(Trim(s))
           at == TrailingAt(l)
           e == at + 1
<1>3. l \in T
    <2> DEFINE one(a, mark) == IF a # <<>> /\ a[1] = mark /\ Find(a, " ") # 0 THEN After(a, Find(a, " ")) ELSE a
    <2>1. \A a \in T : \A mark : one(a, mark) \in T
        BY <1>2
    <2>2. l = one(one(Trim(s), "@"), ":")
        BY DEF StripTagsAndPrefix
    <2> HIDE DEF one, l, T
    <2> QED
        BY <1>1, <2>1, <2>2
<1> HIDE DEF l
<1>4. l \in Seq(Ink) /\ Len(l) \in Nat
    BY <1>3, LenProperties DEF Ended
<1>5. at \in Nat /\ (at # 0 => e \in 0..Len(l) /\ at - 1 \in 0..Len(l))
    <2> DEFINE C == Cuts(l)
               n == Len(l) - 1
    <2>1. C \subseteq 1..Len(l) /\ C \subseteq 1..n
        <3>1. 1..(Len(l) - 1) \subseteq 1..Len(l)
            BY <1>4
        <3> QED
            BY <3>1 DEF Cuts
    <2> HIDE DEF C
    <2>2. First(C) \in 0..Len(l) /\ (C = {} => First(C) = 0) /\ (C # {} => First(C) \in C)
        BY <1>4, <2>1, FirstIs
    <2>3. at = First(C)
        BY DEF TrailingAt, C
    <2> HIDE DEF at
    <2>4. at # 0 => at \in 1..n
        BY <2>1, <2>2, <2>3
    <2> QED
        BY <1>4, <2>2, <2>3, <2>4 DEF e
<1> HIDE DEF at
<1>6. Words(l) \in Seq(Solids(Ink))
    BY <1>4, WordsSolid
<1>7. at # 0 => Words(Before(l, at)) \in Seq(Solids(Ink))
    <2> DEFINE k == at - 1
    <2>1. at # 0 => k \in 0..Len(l)
        BY <1>5
    <2> HIDE DEF k
    <2>2. at # 0 => SubSeq(l, 1, k) \in Seq(Ink)
        BY <1>4, <2>1, CutFacts
    <2>3. at # 0 => Words(SubSeq(l, 1, k)) \in Seq(Solids(Ink))
        BY <2>2, WordsSolid
    <2> QED
        BY <2>3 DEF Before, k
<1>8. at # 0 => After(l, e) \in T
    <2>1. at # 0 => e \in 0..Len(l)
        BY <1>5
    <2> HIDE DEF e
    <2>2. at # 0 => SubSeq(l, e + 1, Len(l)) \in T
        BY <1>3, <2>1, SuffixEnds
    <2> QED
        BY <2>2 DEF After
<1>9. \/ ParseCommand(s) = ParseWords(Words(l), <<>>)
      \/ at # 0 /\ ParseCommand(s) = ParseWords(Words(Before(l, at)), <<After(l, e)>>)
    BY DEF ParseCommand, l, at
<1>10. Said(Ink, ParseWords(Words(l), <<>>))
    BY <1>6, WordsSaid
<1>11. ASSUME at # 0 PROVE Said(Ink, ParseWords(Words(Before(l, at)), <<After(l, e)>>))
    <2> DEFINE w == Words(Before(l, at))
               d == After(l, e)
               r == <<d>>
    <2>1. w \in Seq(Solids(Ink)) /\ r[1] \in Ended(Ink)
        BY <1>7, <1>8, <1>11
    <2> HIDE DEF w, r
    <2>2. Said(Ink, ParseWords(w, r))
        BY <2>1, WordsSaid
    <2> QED
        BY <2>2 DEF w, r
<1> QED
    BY <1>9, <1>10, <1>11

-----------------------------------------------------------------------------
(* What the server stores and answers *)

\* A channel is one word, and begins with its sign.
LEMMA ChannelWord ==
    ASSUME NEW w \in Named(Ink)
    PROVE  NormalizeChannel(w) \in Word(Ink)
<1> DEFINE x == "#"
           y == "demo"
           m == ":"
<1>1. x \in Ink /\ y \in Ink /\ x \notin Space /\ y \notin Space /\ x # m
    BY DEF Ink, Bytes, Signs, Space
<1>2. NormalizeChannel(w) = IF w # <<>> /\ w[1] = x THEN w ELSE IF w = <<>> THEN <<x, y>> ELSE <<x>> \o w
    BY DEF NormalizeChannel
<1>3. Word(Ink) = {a \in Seq(Ink) : Solid(a) /\ a[1] # m}
    BY DEF Word
<1> HIDE DEF x, y, m, Ink
<1>4. <<x, y>> \in Word(Ink)
    <2> DEFINE u == <<x, y>>
    <2>1. u \in Seq(Ink) /\ Len(u) = 2 /\ u[1] = x /\ u[2] = y
        BY <1>1
    <2> HIDE DEF u
    <2>2. u # <<>>
        BY <2>1
    <2>3. 1..2 = {1, 2}
        OBVIOUS
    <2>4. \A i \in 1..Len(u) : u[i] \notin Space
        BY <1>1, <2>1, <2>3
    <2>5. u \in Word(Ink)
        BY <1>1, <1>3, <2>1, <2>2, <2>4 DEF Solid
    <2> QED
        BY <2>5 DEF u
<1>5. ASSUME w # <<>>, w[1] = x PROVE w \in Word(Ink)
    BY <1>1, <1>3, <1>5 DEF Named, Solids
<1>6. ASSUME w # <<>> PROVE <<x>> \o w \in Word(Ink)
    <2> DEFINE u == <<x>> \o w
               n == Len(w)
    <2>1. w \in Seq(Ink) /\ Solid(w)
        BY <1>6 DEF Named, Solids
    <2>2. /\ u \in Seq(Ink) /\ Len(u) = n + 1 /\ u[1] = x /\ n \in Nat
          /\ \A i \in 1..n : u[i + 1] = w[i]
        BY <1>1, <2>1, HeadIs
    <2> HIDE DEF u
    <2>3. \A i \in 1..n : w[i] \notin Space
        BY <2>1 DEF Solid
    <2> HIDE DEF n
    <2>4. ASSUME NEW i \in 1..(n + 1) PROVE u[i] \notin Space
        <3>1. CASE i = 1
            BY <1>1, <2>2, <3>1
        <3>2. CASE i # 1
            <4> DEFINE h == i - 1
            <4>1. h \in 1..n /\ h + 1 = i
                BY <2>2, <3>2
            <4> HIDE DEF h
            <4>2. u[i] = w[h]
                BY <2>2, <4>1
            <4> QED
                BY <2>3, <4>1, <4>2
        <3> QED
            BY <3>1, <3>2
    <2>5. u # <<>>
        <3>1. Len(u) # 0
            BY <2>2
        <3> QED
            BY <3>1
    <2>6. Solid(u)
        BY <2>2, <2>4, <2>5 DEF Solid, n
    <2>7. u \in Word(Ink)
        BY <1>1, <1>3, <2>2, <2>6
    <2> QED
        BY <2>7 DEF u
<1> QED
    BY <1>2, <1>4, <1>5, <1>6

\* A text ends as its last part does.
LEMMA ConcatEnds ==
    ASSUME NEW S, NEW h \in Seq(S), NEW t \in Ended(S), t # <<>>
    PROVE  h \o t \in Ended(S)
<1> DEFINE p == Len(h)
           q == Len(t)
           u == h \o t
<1>1. t \in Seq(S) /\ Ends(t)
    BY DEF Ended
<1>2. p \in Nat /\ q \in Nat /\ q # 0
    BY <1>1, EmptySeq, LenProperties
<1>3. t[q] \notin Space
    BY <1>1 DEF Ends
<1>4. /\ h \o t \in Seq(S) /\ Len(h \o t) = Len(h) + Len(t)
      /\ \A i \in 1..(Len(h) + Len(t)) : (h \o t)[i] = IF i <= Len(h) THEN h[i] ELSE t[i - Len(h)]
    BY <1>1, ConcatProperties
<1>5. u \in Seq(S) /\ Len(u) = p + q /\ \A i \in 1..(p + q) : u[i] = IF i <= p THEN h[i] ELSE t[i - p]
    BY <1>4
<1> HIDE DEF u, p, q
<1>6. p + q \in 1..(p + q) /\ ~(p + q <= p) /\ (p + q) - p = q
    BY <1>2
<1>7. u[p + q] = t[q]
    BY <1>5, <1>6
<1>8. u[Len(u)] \notin Space
    BY <1>3, <1>5, <1>7
<1> QED
    BY <1>5, <1>8 DEF Ended, Ends, u

\* What a command stores is fit to be sent.
LEMMA StoredGood ==
    ASSUME NEW c, Said(Ink, c)
    PROVE  Stored(c) = <<>> \/ \E m \in Good : Stored(c) = <<m>>
<1>1. {b \in Seq(Ink) : Ends(b)} = Ended(Ink) /\ Ended(Ink) \subseteq Seq(Ink) /\ <<>> \in Seq(Ink)
    <2> HIDE DEF Ink
    <2> QED
        BY EmptySeq DEF Ended
<1>2. Good = [channel : Word(Ink), sender : Senders, body : Ended(Ink), title : Seq(Ink)]
    BY <1>1 DEF Good
<1>3. "me" \in Senders /\ "aircd" \in Senders
    BY DEF Senders
<1>4. CASE c[1] = "Privmsg"
    <2> DEFINE m == [channel |-> NormalizeChannel(c[2]), sender |-> "me", body |-> c[3], title |-> <<>>]
    <2>1. Stored(c) = <<m>>
        BY <1>4 DEF Stored
    <2>2. NormalizeChannel(c[2]) \in Word(Ink) /\ c[3] \in Ended(Ink)
        BY <1>4, ChannelWord DEF Said
    <2> HIDE DEF Ink
    <2>3. m \in Good
        BY <1>1, <1>2, <1>3, <2>2
    <2> QED
        BY <2>1, <2>3
<1>5. CASE c[1] = "TaskCreate" /\ Trim(c[3]) # <<>>
    <2> DEFINE h == <<"TASK", " ", "id", " ", "created", ":", " ">>
               t == Trim(c[3])
               m == [channel |-> NormalizeChannel(c[2]), sender |-> "aircd", body |-> Created(t), title |-> t]
    <2>1. Stored(c) = <<m>>
        BY <1>5 DEF Stored
    <2>2. NormalizeChannel(c[2]) \in Word(Ink) /\ c[3] \in Seq(Ink)
        BY <1>5, ChannelWord DEF Said
    <2>3. "TASK" \in Ink /\ " " \in Ink /\ "id" \in Ink /\ "created" \in Ink /\ ":" \in Ink
        BY DEF Ink, Bytes, Signs
    <2>4. h \in Seq(Ink)
        <3> DEFINE v == "TASK"
                   x == " "
                   i == "id"
                   d == "created"
                   y == ":"
        <3>1. v \in Ink /\ x \in Ink /\ i \in Ink /\ d \in Ink /\ y \in Ink
            BY <2>3
        <3> HIDE DEF v, x, i, d, y, Ink
        <3>2. <<v, x, i, x, d, y, x>> \in Seq(Ink)
            BY <3>1
        <3> QED
            BY <3>2 DEF v, x, i, d, y
    <2>5. Created(t) = h \o t
        BY DEF Created
    <2> HIDE DEF Ink, h
    <2>6. t \in Ended(Ink) /\ t # <<>>
        BY <1>5, <2>2, TrimEnds
    <2> HIDE DEF t
    <2>7. Created(t) \in Ended(Ink)
        BY <2>4, <2>5, <2>6, ConcatEnds
    <2>8. m \in Good
        BY <1>1, <1>2, <1>3, <2>2, <2>6, <2>7
    <2> QED
        BY <2>1, <2>8
<1>6. CASE c[1] # "Privmsg" /\ ~(c[1] = "TaskCreate" /\ Trim(c[3]) # <<>>)
    BY <1>6 DEF Stored
<1> QED
    BY <1>4, <1>5, <1>6

\* An answer begins with its prefix: it has no tags.
LEMMA ReplyIs ==
    ASSUME NEW words \in Seq(Seq(Ink)), NEW body \in Seq(Ink)
    PROVE  Reply(words, body) \in Seq(Ink) /\ Plainly(Reply(words, body))
<1> DEFINE y == ":"
           z == "aircd"
           x == " "
           a == <<y, z>>
           b == Join(words, x)
           j == Join(<<a>> \o words, x)
           l == Reply(words, body)
<1>1. HasSigns(Ink)
    BY InkIs
<1>2. x \in Ink /\ y \in Ink /\ z \in Ink
    BY DEF Ink, Bytes, Signs
<1>3. l = j \o (<<" ", ":">> \o body)
    BY DEF Reply, TextLine
<1>4. Plainly(l) <=> l # <<>> /\ l[1] = y
    BY DEF Plainly
<1> HIDE DEF x, y, z, l, Ink
<1>5. a \in Seq(Ink) /\ Len(a) = 2 /\ a[1] = y
    BY <1>2
<1> HIDE DEF a
<1>6. Len(a) >= 1
    BY <1>5
<1>7. Joins(a, words, x) /\ b \in Seq(Ink)
    BY <1>2, <1>5, JoinCons
<1>8. j = IF words = <<>> THEN a ELSE a \o (<<x>> \o b)
    BY <1>7 DEF Joins
<1> HIDE DEF j, b
<1>9. j \in Seq(Ink) /\ Len(j) >= 1 /\ j[1] = y
    <2> DEFINE s == a \o (<<x>> \o b)
    <2>1. s \in Seq(Ink) /\ Meets(s, a, x, b)
        BY <1>2, <1>5, <1>7, MeetsConcat
    <2> HIDE DEF s
    <2>2. Len(s) >= 1 /\ s[1] = a[1]
        <3>1. Len(s) = Len(a) + 1 + Len(b) /\ \A i \in 1..Len(a) : s[i] = a[i]
            BY <2>1 DEF Meets
        <3>2. Len(b) \in Nat
            BY <1>7, LenProperties
        <3>3. 1 \in 1..Len(a)
            BY <1>5
        <3> QED
            BY <1>5, <3>1, <3>2, <3>3
    <2>3. j = a \/ j = s
        BY <1>8 DEF s
    <2>4. CASE j = a
        BY <1>5, <1>6, <2>4
    <2>5. CASE j = s
        BY <1>5, <2>1, <2>2, <2>5
    <2> QED
        BY <2>3, <2>4, <2>5
<1>10. j \o (<<" ", ":">> \o body) \in Seq(Ink)
    BY <1>1, <1>9, TextConcat
<1>11. l \in Seq(Ink)
    BY <1>3, <1>10
<1>12. l # <<>> /\ l[1] = y
    <2> DEFINE t == <<" ", ":">> \o body
               n == Len(j)
    <2>1. t \in Seq(Ink)
        <3> DEFINE w == ":"
                   v == " "
        <3>1. v \in Ink /\ w \in Ink
            BY <1>1 DEF HasSigns
        <3> HIDE DEF v, w
        <3>2. <<v, w>> \o body \in Seq(Ink)
            BY <3>1, PairConcat
        <3> QED
            BY <3>2 DEF v, w
    <2> HIDE DEF t
    <2>2. /\ Len(j \o t) = Len(j) + Len(t) /\ Len(t) \in Nat /\ Len(j) \in Nat
          /\ \A i \in 1..(Len(j) + Len(t)) : (j \o t)[i] = IF i <= Len(j) THEN j[i] ELSE t[i - Len(j)]
        BY <1>9, <2>1, ConcatProperties, LenProperties
    <2>3. 1 \in 1..(Len(j) + Len(t)) /\ 1 <= Len(j)
        BY <1>9, <2>2
    <2>4. (j \o t)[1] = j[1] /\ Len(j \o t) >= 1
        BY <1>9, <2>2, <2>3
    <2>5. l = j \o t
        BY <1>3 DEF t
    <2>6. Len(l) # 0 /\ l[1] = y
        BY <1>9, <2>2, <2>4, <2>5
    <2> QED
        BY <2>6, EmptySeq
<1> QED
    BY <1>4, <1>11, <1>12 DEF l

\* the lines that are no news: answers, and messages of M again
Asides(M) == {l \in Seq(Ink) : Plainly(l) \/ \E m \in M : l = ReplayLine(m)}

\* An answer of two or three words is one of them.
LEMMA ReplyAside ==
    ASSUME NEW M, NEW x \in Ink, NEW y \in Ink, NEW a \in Seq(Ink), NEW body \in Seq(Ink)
    PROVE  /\ <<Reply(<<<<x>>, <<y>>>>, body)>> \in Seq(Asides(M))
           /\ <<Reply(<<<<x>>, <<y>>, a>>, body)>> \in Seq(Asides(M))
<1> HIDE DEF Ink
<1>1. <<<<x>>, <<y>>>> \in Seq(Seq(Ink)) /\ <<<<x>>, <<y>>, a>> \in Seq(Seq(Ink))
    <2> DEFINE X == Seq(Ink)
               u == <<x>>
               v == <<y>>
    <2>1. u \in X /\ v \in X /\ a \in X
        OBVIOUS
    <2> HIDE DEF u, v, X
    <2>2. <<u, v>> \in Seq(X) /\ <<u, v, a>> \in Seq(X)
        BY <2>1
    <2> QED
        BY <2>2 DEF u, v, X
<1>2. ASSUME NEW ws \in Seq(Seq(Ink)) PROVE <<Reply(ws, body)>> \in Seq(Asides(M))
    <2>1. Reply(ws, body) \in Seq(Ink) /\ Plainly(Reply(ws, body))
        BY ReplyIs
    <2> DEFINE l == Reply(ws, body)
    <2>2. l \in Asides(M)
        BY <2>1 DEF Asides
    <2> HIDE DEF l
    <2>3. <<l>> \in Seq(Asides(M))
        BY <2>2
    <2> QED
        BY <2>3 DEF l
<1> QED
    BY <1>1, <1>2

\* CAP is answered with what it asked for.
LEMMA CapAside ==
    ASSUME NEW M, NEW sub \in Seq(Ink), NEW caps \in Seq(Seq(Ink))
    PROVE  CapReply(sub, caps) \in Seq(Asides(M))
<1> DEFINE v == "CAP"
           w == "me"
           A == "ACK"
           N == "NAK"
           I == "410"
           t == "message-tags"
           b == "invalid"
           x == " "
           k == IF Supported(caps) THEN A ELSE N
           j == Join(caps, x)
           T == Seq(Asides(M))
<1>1. /\ v \in Ink /\ w \in Ink /\ A \in Ink /\ N \in Ink /\ I \in Ink /\ t \in Ink /\ b \in Ink
      /\ x \in Ink
    BY DEF Ink, Bytes, Signs
<1>2. \/ CapReply(sub, caps) = <<Reply(<<<<v>>, <<w>>, sub>>, <<t>>)>>
      \/ CapReply(sub, caps) = <<Reply(<<<<v>>, <<w>>, <<k>>>>, j)>>
      \/ CapReply(sub, caps) = <<>>
      \/ CapReply(sub, caps) = <<Reply(<<<<I>>, <<w>>, sub>>, <<b>>)>>
    <2>1. CASE sub \in {<<"LS">>, <<"LIST">>}
        <3>1. sub # <<"REQ">> /\ sub # <<"END">>
            BY <2>1
        <3>2. CapReply(sub, caps) = <<Reply(<<<<v>>, <<w>>, sub>>, <<t>>)>>
            BY <2>1, <3>1 DEF CapReply
        <3> QED
            BY <3>2
    <2>2. CASE sub = <<"REQ">>
        <3>1. sub \notin {<<"LS">>, <<"LIST">>}
            BY <2>2
        <3>2. CapReply(sub, caps) = <<Reply(<<<<v>>, <<w>>, <<k>>>>, j)>>
            BY <2>2, <3>1 DEF CapReply
        <3> QED
            BY <3>2
    <2>3. CASE sub = <<"END">>
        BY <2>3 DEF CapReply
    <2>4. CASE sub \notin {<<"LS">>, <<"LIST">>, <<"REQ">>, <<"END">>}
        BY <2>4 DEF CapReply
    <2> QED
        BY <2>1, <2>2, <2>3, <2>4
<1> HIDE DEF v, w, A, N, I, t, b, x, Ink
<1>3. k \in Ink
    BY <1>1
<1> HIDE DEF k
<1>4. j \in Seq(Ink)
    BY <1>1, JoinCons
<1> HIDE DEF j
<1>5. <<k>> \in Seq(Ink) /\ <<t>> \in Seq(Ink) /\ <<b>> \in Seq(Ink)
    BY <1>1, <1>3
<1>6. /\ <<Reply(<<<<v>>, <<w>>, sub>>, <<t>>)>> \in T
      /\ <<Reply(<<<<v>>, <<w>>, <<k>>>>, j)>> \in T
      /\ <<Reply(<<<<I>>, <<w>>, sub>>, <<b>>)>> \in T
    <2> HIDE DEF T
    <2>1. \A d \in Seq(Ink) : <<Reply(<<<<v>>, <<w>>, sub>>, d)>> \in T
        BY <1>1, ReplyAside DEF T
    <2>2. \A a, d \in Seq(Ink) : <<Reply(<<<<v>>, <<w>>, a>>, d)>> \in T
        BY <1>1, ReplyAside DEF T
    <2>3. \A d \in Seq(Ink) : <<Reply(<<<<I>>, <<w>>, sub>>, d)>> \in T
        BY <1>1, ReplyAside DEF T
    <2> QED
        BY <1>4, <1>5, <2>1, <2>2, <2>3
<1>7. <<>> \in T
    BY EmptySeq
<1> HIDE DEF T
<1> QED
    BY <1>2, <1>6, <1>7 DEF T

\* A history is lines of messages that are stored.
LEMMA ReplayAside ==
    ASSUME stored \in Seq(Good), NEW c, c[3] \in Numeral, c[4] \in Numeral
    PROVE  ReplayLines(c) \in Seq(Asides(ToSet(stored)))
<1> DEFINE q == Len(stored)
           P == {k \in DOMAIN stored :
                   /\ k > Value(c[3])
                   /\ c[2] = <<"all">> \/ stored[k].channel = NormalizeChannel(c[2])}
           n == Cardinality(P)
           h == Value(c[4])
           N == Min({n, h})
           M == ToSet(stored)
<1>1. ReplayLines(c) = [i \in 1..N |-> ReplayLine(stored[Nth(P, i)])]
    BY DEF ReplayLines, ReplayLine
<1>2. q \in Nat /\ P \subseteq 1..q /\ \A k \in 1..q : stored[k] \in Good /\ stored[k] \in M
    <2> HIDE DEF Good
    <2>1. q \in Nat /\ DOMAIN stored = 1..q /\ \A k \in 1..q : stored[k] \in Good
        BY LenProperties, ElementOfSeq
    <2>2. \A k \in 1..q : stored[k] \in M
        BY ToSetMember
    <2> QED
        BY <2>1, <2>2
<1>3. h \in Nat
    BY DEF Value, Numeral
<1> HIDE DEF P, q, h
<1>4. n \in Nat
    BY <1>2, BelowGrows
<1>5. N \in Nat /\ N <= n
    <2> DEFINE C == {n, h}
    <2>1. C \subseteq Nat /\ C # {} /\ n \in C
        BY <1>3, <1>4
    <2> HIDE DEF C, n
    <2>2. Min(C) \in C /\ Min(C) <= n
        BY <2>1, Least
    <2> QED
        BY <2>1, <2>2 DEF C
<1> HIDE DEF N, M
<1>6. ASSUME NEW i \in 1..N PROVE ReplayLine(stored[Nth(P, i)]) \in Asides(M)
    <2> DEFINE k == Nth(P, i)
               m == stored[k]
    <2>1. i \in 1..n
        <3> HIDE DEF n
        <3> QED
            BY <1>4, <1>5
    <2>2. k \in P
        BY <1>2, <2>1, NthIs
    <2> HIDE DEF k
    <2>3. m \in Good /\ m \in M
        BY <1>2, <2>2
    <2> HIDE DEF m
    <2>4. ReplayLine(m) \in Seq(Ink)
        BY <2>3, ReplayRead
    <2>5. ReplayLine(m) \in Asides(M)
        <3> HIDE DEF Ink
        <3> QED
            BY <2>3, <2>4 DEF Asides
    <2> QED
        BY <2>5 DEF m, k
<1>7. ReplayLines(c) \in [1..N -> Asides(M)]
    BY <1>1, <1>6
<1> QED
    BY <1>5, <1>7 DEF M

\* A message stored is sent.
LEMMA LinesNews ==
    ASSUME NEW c, NEW m, Stored(c) = <<m>>
    PROVE  Lines(c) = <<LiveLine(m)>>
<1>1. Stored(c)[1] = m /\ Stored(c) # <<>>
    OBVIOUS
<1>2. CASE c[1] = "Privmsg"
    <2>1. Lines(c) = <<LiveLine(Stored(c)[1])>>
        BY <1>2 DEF Lines
    <2> QED
        BY <1>1, <2>1
<1>3. CASE c[1] = "TaskCreate"
    <2>1. Lines(c) = <<LiveLine(Stored(c)[1])>>
        BY <1>1, <1>3 DEF Lines
    <2> QED
        BY <1>1, <2>1
<1>4. CASE c[1] \notin {"Privmsg", "TaskCreate"}
    <2>1. Stored(c) = <<>>
        BY <1>4 DEF Stored
    <2> QED
        BY <1>1, <2>1
<1> QED
    BY <1>2, <1>3, <1>4

\* When nothing is stored nothing new is sent.
LEMMA LinesAside ==
    ASSUME stored \in Seq(Good), NEW c, Said(Ink, c), IsCommand(c), Stored(c) = <<>>
    PROVE  Lines(c) \in Seq(Asides(ToSet(stored)))
<1> DEFINE M == ToSet(stored)
           T == Seq(Asides(M))
           Word1(x, y, b) == <<Reply(<<<<x>>, <<y>>>>, b)>>
           Word2(x, y, a, b) == <<Reply(<<<<x>>, <<y>>, a>>, b)>>
<1>1. /\ \A x, y \in Ink : \A b \in Seq(Ink) : Word1(x, y, b) \in T
      /\ \A x, y \in Ink : \A a, b \in Seq(Ink) : Word2(x, y, a, b) \in T
    <2>1. ASSUME NEW x \in Ink, NEW y \in Ink, NEW b \in Seq(Ink) PROVE Word1(x, y, b) \in T
        <3>1. <<x>> \in Seq(Ink)
            <4> HIDE DEF Ink
            <4> QED
                OBVIOUS
        <3> QED
            BY <3>1, ReplyAside
    <2>2. ASSUME NEW x \in Ink, NEW y \in Ink, NEW a \in Seq(Ink), NEW b \in Seq(Ink)
          PROVE  Word2(x, y, a, b) \in T
        BY ReplyAside
    <2> QED
        BY <2>1, <2>2
<1>2. \A b \in Ink : <<b>> \in Seq(Ink)
    <2> HIDE DEF Ink
    <2> QED
        OBVIOUS
<1>3. CASE c[1] = "Privmsg"
    <2>1. Stored(c) # <<>>
        BY <1>3 DEF Stored
    <2> QED
        BY <2>1
<1>4. CASE c[1] = "TaskCreate"
    <2> DEFINE x == "NOTICE"
               y == "me"
               b == "failed"
    <2>1. x \in Ink /\ y \in Ink /\ b \in Ink
        BY DEF Ink, Bytes, Signs
    <2>2. Lines(c) = Word1(x, y, <<b>>)
        BY <1>4 DEF Lines
    <2> HIDE DEF x, y, b, Word1, T, Ink
    <2> QED
        BY <1>1, <1>2, <2>1, <2>2 DEF T
<1>5. CASE c[1] = "History"
    <2>1. Lines(c) = ReplayLines(c)
        BY <1>5 DEF Lines
    <2>2. c[3] \in Numeral /\ c[4] \in Numeral
        BY <1>5 DEF IsCommand
    <2> QED
        BY <2>1, <2>2, ReplayAside
<1>6. CASE c[1] = "Cap"
    <2>1. Lines(c) = CapReply(c[2], c[3])
        BY <1>6 DEF Lines
    <2>2. c[2] \in Seq(Ink) /\ c[3] \in Seq(Seq(Ink))
        BY <1>6 DEF Said
    <2> QED
        BY <2>1, <2>2, CapAside
<1>7. CASE c[1] = "Ping"
    <2> DEFINE x == "PONG"
               y == "aircd"
    <2>1. x \in Ink /\ y \in Ink
        BY DEF Ink, Bytes, Signs
    <2>2. Lines(c) = Word1(x, y, c[2])
        BY <1>7 DEF Lines
    <2>3. c[2] \in Seq(Ink)
        BY <1>7 DEF Said
    <2> HIDE DEF x, y, Word1, T, Ink
    <2> QED
        BY <1>1, <2>1, <2>2, <2>3 DEF T
<1>8. CASE c[1] = "Unknown"
    <2> DEFINE x == "421"
               y == "*"
               b == "unknown"
    <2>1. x \in Ink /\ y \in Ink /\ b \in Ink
        BY DEF Ink, Bytes, Signs
    <2>2. Lines(c) = Word2(x, y, c[2], <<b>>)
        BY <1>8 DEF Lines
    <2>3. c[2] \in Seq(Ink)
        BY <1>8 DEF Said
    <2> HIDE DEF x, y, b, Word2, T, Ink
    <2> QED
        BY <1>1, <1>2, <2>1, <2>2, <2>3 DEF T
<1>9. CASE c[1] \notin {"Privmsg", "TaskCreate", "History", "Cap", "Ping", "Unknown"}
    <2>1. Lines(c) = <<>>
        BY <1>9 DEF Lines
    <2> QED
        BY <2>1, EmptySeq
<1> QED
    BY <1>3, <1>4, <1>5, <1>6, <1>7, <1>8, <1>9

-----------------------------------------------------------------------------
(* The lines on their way to the client *)

\* What is under way; what the client can read; lines sent, and read.
Paper == Ink \cup {"LF"}
Heard == {Read(l) : l \in Seq(Ink)}
Sending(v) == FlattenSeq([k \in DOMAIN v |-> v[k] \o <<"CR", "LF">>])
Reads(v) == [k \in DOMAIN v |-> Read(v[k])]
SendsOn(v, w) == Sending(v \o w) = Sending(v) \o Sending(w)
SendsFirst(l, v) == Sending(<<l>> \o v) = (l \o <<"CR", "LF">>) \o Sending(v)
ReadsOn(v, w) == Reads(v \o w) = Reads(v) \o Reads(w)

\* A function on one element.
LEMMA MappedOne ==
    ASSUME NEW X, NEW Y, NEW f \in [X -> Y], NEW x \in X
    PROVE  Mapped(f, <<x>>) = <<f[x]>>
<1> DEFINE v == <<x>>
           u == Mapped(f, v)
           y == f[x]
           w == <<y>>
<1>1. v \in Seq(X) /\ Len(v) = 1 /\ v[1] = x
    OBVIOUS
<1> HIDE DEF v
<1>2. MapsTo(f, v, u, Y)
    BY <1>1, MappedIs
<1> HIDE DEF u
<1>3. u \in Seq(Y) /\ Len(u) = 1 /\ u[1] = y
    <2>1. 1 \in 1..Len(v)
        BY <1>1
    <2> QED
        BY <1>1, <1>2, <2>1 DEF MapsTo
<1>4. y \in Y
    OBVIOUS
<1> HIDE DEF y
<1>5. w \in Seq(Y) /\ Len(w) = 1 /\ w[1] = y
    BY <1>4
<1> HIDE DEF w
<1>6. 1..1 = {1}
    OBVIOUS
<1>7. \A i \in 1..Len(u) : u[i] = w[i]
    BY <1>3, <1>5, <1>6
<1>8. u = w
    BY <1>3, <1>5, <1>7, SeqEqual
<1> QED
    BY <1>8 DEF u, v, w, y

\* The lines are sent one after the other.
LEMMA SendingIs ==
    ASSUME NEW v \in Seq(Seq(Ink)), NEW w \in Seq(Seq(Ink))
    PROVE  /\ Sending(v) \in Seq(Paper) /\ SendsOn(v, w)
           /\ \A l \in Seq(Ink) : SendsFirst(l, v)
<1> DEFINE X == Seq(Ink)
           Y == Seq(Paper)
           x == "CR"
           y == "LF"
           e == <<x, y>>
           f == [d \in X |-> d \o e]
<1>1. x \in Paper /\ y \in Paper /\ Ink \subseteq Paper
    <2>1. HasSigns(Ink)
        BY InkIs
    <2>2. Ink \subseteq Paper /\ "LF" \in Paper
        BY DEF Paper
    <2> QED
        BY <2>1, <2>2 DEF HasSigns
<1>2. \A u : Sending(u) = FlattenSeq([k \in DOMAIN u |-> u[k] \o e])
    BY DEF Sending
<1>3. \A l, u : SendsFirst(l, u) <=> Sending(<<l>> \o u) = (l \o e) \o Sending(u)
    BY DEF SendsFirst
<1> HIDE DEF x, y, Ink, Paper
<1>4. e \in Y
    BY <1>1
<1> HIDE DEF e
<1>5. X \subseteq Y
    BY <1>1, SeqMonotonic
<1>6. f \in [X -> Y] /\ \A d \in X : f[d] = d \o e
    <2>1. \A d \in X : d \o e \in Y
        BY <1>4, <1>5, ConcatProperties
    <2> QED
        BY <2>1
<1> HIDE DEF f
<1>7. ASSUME NEW u \in Seq(X) PROVE Sending(u) = FlattenSeq(Mapped(f, u))
    <2>1. \A k \in DOMAIN u : u[k] \in X
        BY ElementOfSeq, LenProperties
    <2>2. [k \in DOMAIN u |-> u[k] \o e] = Mapped(f, u)
        BY <1>6, <2>1 DEF Mapped
    <2> QED
        BY <1>2, <2>2
<1>8. ASSUME NEW u \in Seq(X) PROVE Mapped(f, u) \in Seq(Y)
    <2>1. MapsTo(f, u, Mapped(f, u), Y)
        BY <1>6, MappedIs
    <2> QED
        BY <2>1 DEF MapsTo
<1>9. Sending(v) \in Seq(Paper)
    <2> DEFINE M == Mapped(f, v)
    <2>1. M \in Seq(Seq(Paper)) /\ <<>> \in Seq(Paper)
        BY <1>8, EmptySeq
    <2>2. Sending(v) = FlattenSeq(M)
        BY <1>7
    <2> HIDE DEF M
    <2>3. FlattenSeq(M) \in Seq(Paper)
        BY <2>1, FlattenCons
    <2> QED
        BY <2>2, <2>3
<1>10. ASSUME NEW a \in Seq(X), NEW b \in Seq(X) PROVE SendsOn(a, b)
    <2> DEFINE A == Mapped(f, a)
               B == Mapped(f, b)
    <2>1. A \in Seq(Seq(Paper)) /\ B \in Seq(Seq(Paper))
        BY <1>8
    <2>2. a \o b \in Seq(X) /\ MapsOver(f, a, b)
        BY <1>6, MappedConcat
    <2>3. Sending(a \o b) = FlattenSeq(A \o B)
        BY <1>7, <2>2 DEF MapsOver
    <2>4. Sending(a) = FlattenSeq(A) /\ Sending(b) = FlattenSeq(B)
        BY <1>7
    <2> HIDE DEF A, B
    <2>5. FlattenSeq(A \o B) = FlattenSeq(A) \o FlattenSeq(B)
        BY <2>1, FlattenConcat
    <2> QED
        BY <2>3, <2>4, <2>5 DEF SendsOn
<1>11. ASSUME NEW l \in X PROVE SendsFirst(l, v)
    <2> DEFINE a == <<l>>
               b == l \o e
    <2>1. a \in Seq(X)
        OBVIOUS
    <2>2. b \in Y
        BY <1>4, <1>5, ConcatProperties
    <2>3. Mapped(f, a) = <<b>>
        BY <1>6, MappedOne
    <2>4. Sending(a) = FlattenSeq(<<b>>)
        BY <1>7, <2>1, <2>3
    <2> HIDE DEF a, b
    <2>5. FlattenSeq(<<b>>) = b
        <3>1. <<>> \in Seq(Y) /\ FlattenSeq(<<>>) = <<>>
            BY EmptySeq DEF FlattenSeq
        <3>2. <<b>> \o <<>> = <<b>>
            <4>1. <<b>> \in Seq(Y)
                BY <2>2
            <4> QED
                BY <4>1, ConcatEmptySeq
        <3>3. FlattenSeq(<<b>> \o <<>>) = b \o FlattenSeq(<<>>)
            BY <2>2, <3>1, FlattenCons
        <3>4. b \o <<>> = b
            BY <2>2, ConcatEmptySeq
        <3> QED
            BY <3>1, <3>2, <3>3, <3>4
    <2>6. SendsOn(a, v)
        BY <1>10, <2>1
    <2>7. Sending(a \o v) = b \o Sending(v)
        BY <2>4, <2>5, <2>6 DEF SendsOn
    <2> QED
        BY <1>3, <2>7 DEF a, b
<1> QED
    BY <1>9, <1>10, <1>11

\* The lines are read one after the other.
LEMMA ReadsIs ==
    ASSUME NEW v \in Seq(Seq(Ink)), NEW w \in Seq(Seq(Ink))
    PROVE  /\ MapsTo([l \in Seq(Ink) |-> Read(l)], v, Reads(v), Heard)
           /\ ReadsOn(v, w)
           /\ \A l \in Seq(Ink) : Reads(<<l>>) = <<Read(l)>>
<1> DEFINE X == Seq(Ink)
           f == [d \in X |-> Read(d)]
<1>1. f \in [X -> Heard] /\ \A d \in X : f[d] = Read(d)
    <2>1. \A d \in X : Read(d) \in Heard
        BY DEF Heard
    <2> QED
        BY <2>1
<1> HIDE DEF f
<1>2. ASSUME NEW u \in Seq(X) PROVE Reads(u) = Mapped(f, u)
    <2>1. \A k \in DOMAIN u : u[k] \in X
        BY ElementOfSeq, LenProperties
    <2> QED
        BY <1>1, <2>1 DEF Mapped, Reads
<1>3. MapsTo(f, v, Reads(v), Heard)
    <2>1. MapsTo(f, v, Mapped(f, v), Heard)
        BY <1>1, MappedIs
    <2> QED
        BY <1>2, <2>1
<1>4. ReadsOn(v, w)
    <2>1. v \o w \in Seq(X) /\ MapsOver(f, v, w)
        BY <1>1, MappedConcat
    <2> QED
        BY <1>2, <2>1 DEF ReadsOn, MapsOver
<1>5. ASSUME NEW l \in X PROVE Reads(<<l>>) = <<Read(l)>>
    <2>1. Mapped(f, <<l>>) = <<f[l]>>
        BY <1>1, MappedOne
    <2>2. <<l>> \in Seq(X)
        OBVIOUS
    <2> QED
        BY <1>1, <1>2, <2>1, <2>2
<1> QED
    BY <1>3, <1>4, <1>5 DEF f

-----------------------------------------------------------------------------
(* The messages among what is read *)

\* The places of the live messages, and of the messages with a text.
LiveIn(rs) == {i \in 1..Len(rs) : IsLive(rs[i])}
FullIn(ms) == {k \in 1..Len(ms) : ms[k].body # <<>>}
Same(r, m) == Matches(r, m) /\ r.tags = TagsOf(m)
\* the n live lines are of the n messages that have a text
Paired(rs, ms, n, a, b) ==
    /\ Enumerates(a, n, LiveIn(rs)) /\ Enumerates(b, n, FullIn(ms))
    /\ \A k \in 1..n : Same(rs[a[k]], ms[b[k]])
\* a message read again is one of those stored
Echo(r, ms) == IsMessage(r) /\ Has(r, "replay") => \E m \in ToSet(ms) : Matches(r, m)
\* rs, read in order, tells of the messages ms
Told(rs, ms) ==
    /\ \A i \in 1..Len(rs) : Echo(rs[i], ms)
    /\ \E n \in Nat : \E a, b : Paired(rs, ms, n, a, b)

\* What is no news changes nothing.
LEMMA ToldAside ==
    ASSUME NEW X, NEW rs \in Seq(X), NEW ms, Told(rs, ms), NEW ss \in Seq(X),
           \A i \in 1..Len(ss) : ~IsLive(ss[i]) /\ Echo(ss[i], ms)
    PROVE  Told(rs \o ss, ms)
<1> DEFINE p == Len(rs)
           q == Len(ss)
           us == rs \o ss
<1>1. p \in Nat /\ q \in Nat
    BY LenProperties
<1>2. Len(us) = p + q /\ \A i \in 1..(p + q) : us[i] = IF i <= p THEN rs[i] ELSE ss[i - p]
    BY ConcatProperties
<1> HIDE DEF us
<1>3. \A i \in 1..p : i \in 1..(p + q) /\ us[i] = rs[i]
    <2> HIDE DEF p, q
    <2> QED
        BY <1>1, <1>2
<1>4. \A i \in 1..(p + q) : i \notin 1..p => i - p \in 1..q /\ us[i] = ss[i - p]
    <2> HIDE DEF p, q
    <2> QED
        BY <1>1, <1>2
<1>5. ASSUME NEW i \in 1..(p + q) PROVE Echo(us[i], ms) /\ (IsLive(us[i]) => i \in 1..p /\ IsLive(rs[i]))
    <2>1. CASE i \in 1..p
        <3>1. us[i] = rs[i] /\ Echo(rs[i], ms)
            BY <1>3, <2>1 DEF Told
        <3> QED
            BY <2>1, <3>1
    <2>2. CASE i \notin 1..p
        <3>1. us[i] = ss[i - p] /\ i - p \in 1..q
            BY <1>4, <2>2
        <3> DEFINE j == i - p
        <3>2. us[i] = ss[j] /\ j \in 1..q
            BY <3>1
        <3> HIDE DEF j
        <3>3. ~IsLive(ss[j]) /\ Echo(ss[j], ms)
            BY <3>2
        <3> QED
            BY <3>2, <3>3
    <2> QED
        BY <2>1, <2>2
<1>6. LiveIn(us) = LiveIn(rs)
    <2>1. ASSUME NEW i \in LiveIn(us) PROVE i \in LiveIn(rs)
        BY <1>2, <1>5 DEF LiveIn
    <2>2. ASSUME NEW i \in LiveIn(rs) PROVE i \in LiveIn(us)
        BY <1>2, <1>3 DEF LiveIn
    <2> QED
        BY <2>1, <2>2
<1>7. PICK n \in Nat : \E a, b : Paired(rs, ms, n, a, b)
    BY DEF Told
<1>8. PICK a, b : Paired(rs, ms, n, a, b)
    BY <1>7
<1>9. ASSUME NEW k \in 1..n PROVE us[a[k]] = rs[a[k]]
    <2>1. a \in [1..n -> LiveIn(rs)]
        BY <1>8 DEF Paired, Enumerates
    <2>2. a[k] \in 1..p
        BY <2>1 DEF LiveIn
    <2> QED
        BY <1>3, <2>2
<1>10. Paired(us, ms, n, a, b)
    BY <1>6, <1>8, <1>9 DEF Paired
<1> QED
    BY <1>2, <1>5, <1>10 DEF Told, us

\* A message sent is told, unless it has no text.
LEMMA ToldNews ==
    ASSUME NEW X, NEW rs \in Seq(X), NEW Y, NEW ms \in Seq(Y), Told(rs, ms),
           NEW r \in X, NEW d \in Y, Carries(r, d)
    PROVE  Told(Append(rs, r), Append(ms, d))
<1> DEFINE p == Len(rs)
           q == Len(ms)
           us == Append(rs, r)
           vs == Append(ms, d)
           L == LiveIn(rs)
           F == FullIn(ms)
<1>1. p \in Nat /\ q \in Nat
    BY LenProperties
<1>2. Len(us) = p + 1 /\ us[p + 1] = r /\ \A i \in 1..p : us[i] = rs[i]
    BY AppendProperties
<1>3. Len(vs) = q + 1 /\ vs[q + 1] = d /\ \A i \in 1..q : vs[i] = ms[i]
    BY AppendProperties
<1>4. ToSet(vs) = ToSet(ms) \cup {d}
    <2>1. ms \in Seq(Y \cup {d}) /\ d \in Y \cup {d}
        OBVIOUS
    <2> QED
        BY <2>1, AppendFacts
<1> HIDE DEF us, vs
<1>5. 1..(p + 1) = (1..p) \cup {p + 1} /\ 1..(q + 1) = (1..q) \cup {q + 1}
    <2> HIDE DEF p, q
    <2> QED
        BY <1>1
<1>6. ASSUME NEW i \in 1..Len(us) PROVE Echo(us[i], vs)
    <2>1. CASE i \in 1..p
        <3>1. us[i] = rs[i] /\ Echo(rs[i], ms)
            BY <1>2, <2>1 DEF Told
        <3> QED
            BY <1>4, <3>1 DEF Echo
    <2>2. CASE i = p + 1
        BY <1>2, <2>2 DEF Echo, Carries, IsLive
    <2> QED
        BY <1>2, <1>5, <2>1, <2>2
<1>7. LiveIn(us) = L \cup (IF IsLive(r) THEN {p + 1} ELSE {})
    <2>1. LiveIn(us) = {i \in (1..p) \cup {p + 1} : IsLive(us[i])}
        BY <1>2, <1>5 DEF LiveIn
    <2> QED
        BY <1>2, <2>1 DEF LiveIn
<1>8. FullIn(vs) = F \cup (IF d.body # <<>> THEN {q + 1} ELSE {})
    <2>1. FullIn(vs) = {i \in (1..q) \cup {q + 1} : vs[i].body # <<>>}
        BY <1>3, <1>5 DEF FullIn
    <2> QED
        BY <1>3, <2>1 DEF FullIn
<1>9. PICK n \in Nat : \E a, b : Paired(rs, ms, n, a, b)
    BY DEF Told
<1>10. PICK a, b : Paired(rs, ms, n, a, b)
    BY <1>9
<1>11. Enumerates(a, n, L) /\ Enumerates(b, n, F) /\ \A k \in 1..n : Same(rs[a[k]], ms[b[k]])
    BY <1>10 DEF Paired
<1>12. L \subseteq 1..p /\ F \subseteq 1..q
    BY DEF LiveIn, FullIn
<1> HIDE DEF p, q, L, F
<1>13. ASSUME NEW k \in 1..n PROVE us[a[k]] = rs[a[k]] /\ vs[b[k]] = ms[b[k]]
    <2>1. a \in [1..n -> L] /\ b \in [1..n -> F]
        BY <1>11 DEF Enumerates
    <2>2. a[k] \in 1..p /\ b[k] \in 1..q
        BY <1>12, <2>1
    <2> QED
        BY <1>2, <1>3, <2>2
<1>14. CASE d.body = <<>>
    <2>1. ~IsLive(r)
        BY <1>14 DEF Carries, IsLive
    <2>2. LiveIn(us) = L /\ FullIn(vs) = F
        BY <1>7, <1>8, <1>14, <2>1
    <2>3. Paired(us, vs, n, a, b)
        BY <1>11, <1>13, <2>2 DEF Paired
    <2> QED
        BY <1>6, <2>3 DEF Told, us, vs
<1>15. CASE d.body # <<>>
    <2> DEFINE w == n + 1
    <2>1. IsLive(r) /\ Same(r, d)
        BY <1>15 DEF Carries, Same
    <2>2. LiveIn(us) = L \cup {p + 1} /\ FullIn(vs) = F \cup {q + 1}
        BY <1>7, <1>8, <1>15, <2>1
    <2>3. Grown(a, n, L, p + 1) /\ Grown(b, n, F, q + 1)
        BY <1>1, <1>11, <1>12, GrownIs
    <2>4. w \in Nat /\ 1..w = (1..n) \cup {w}
        OBVIOUS
    <2>5. PICK g : Enumerates(g, w, L \cup {p + 1}) /\ g[w] = p + 1 /\ \A i \in 1..n : g[i] = a[i]
        BY <2>3 DEF Grown
    <2>6. PICK h : Enumerates(h, w, F \cup {q + 1}) /\ h[w] = q + 1 /\ \A i \in 1..n : h[i] = b[i]
        BY <2>3 DEF Grown
    <2> HIDE DEF w
    <2>7. ASSUME NEW k \in 1..w PROVE Same(us[g[k]], vs[h[k]])
        <3>1. CASE k \in 1..n
            BY <1>11, <1>13, <2>5, <2>6, <3>1
        <3>2. CASE k = w
            BY <1>2, <1>3, <2>1, <2>5, <2>6, <3>2
        <3> QED
            BY <2>4, <3>1, <3>2
    <2>8. Paired(us, vs, w, g, h)
        BY <2>2, <2>5, <2>6, <2>7 DEF Paired
    <2> QED
        BY <1>6, <2>4, <2>8 DEF Told, us, vs
<1> QED
    BY <1>14, <1>15

-----------------------------------------------------------------------------
(* The messages on their way *)

\* What has been received and what is under way tell of the messages stored.
Underway == \E rest \in Seq(Seq(Ink)) : down = Sending(rest) /\ Told(received \o Reads(rest), stored)
WireInv == TypeInv /\ received \in Seq(Heard) /\ stored \in Seq(Good) /\ Underway

\* At first nothing is under way.
LEMMA WireInit == Init => WireInv
<1> SUFFICES ASSUME Init PROVE WireInv
    OBVIOUS
<1>1. TypeInv
    BY TypeInit
<1>2. received = <<>> /\ stored = <<>> /\ down = <<>>
    BY DEF Init
<1>3. received \in Seq(Heard) /\ stored \in Seq(Good) /\ <<>> \in Seq(Seq(Ink))
    <2> HIDE DEF Heard, Good, Ink
    <2> QED
        BY <1>2, EmptySeq
<1>4. Sending(<<>>) = <<>> /\ Reads(<<>>) = <<>>
    BY DEF Sending, Reads, FlattenSeq
<1>5. <<>> \o <<>> = <<>>
    OBVIOUS
<1>6. Told(<<>>, <<>>)
    <2> DEFINE f == [i \in 1..0 |-> 0]
    <2>1. LiveIn(<<>>) = {} /\ FullIn(<<>>) = {} /\ 1..0 = {} /\ 1..Len(<<>>) = {}
        BY DEF LiveIn, FullIn
    <2>2. f \in [1..0 -> {}]
        BY <2>1
    <2> HIDE DEF f
    <2>3. Enumerates(f, 0, {})
        BY <2>1, <2>2 DEF Enumerates
    <2>4. Paired(<<>>, <<>>, 0, f, f)
        BY <2>1, <2>3 DEF Paired
    <2> QED
        BY <2>1, <2>4 DEF Told
<1>7. Underway
    BY <1>2, <1>3, <1>4, <1>5, <1>6 DEF Underway
<1> QED
    BY <1>1, <1>3, <1>7 DEF WireInv

\* What is under way begins with a line.
LEMMA FirstLine ==
    ASSUME NEW l \in Seq(Ink), NEW us \in Seq(Seq(Ink))
    PROVE  /\ Divides("LF", Sending(<<l>> \o us), l \o <<"CR">>, Sending(us))
           /\ Sending(<<l>> \o us) # <<>>
<1> DEFINE x == "CR"
           y == "LF"
           S == Paper
           r == Sending(us)
           s == Sending(<<l>> \o us)
<1>1. x \in S /\ y \in S /\ x # y /\ Ink \subseteq S /\ y \notin Ink
    <2>1. HasSigns(Ink) /\ "LF" \notin Ink
        BY InkIs
    <2>2. Ink \subseteq Paper /\ "LF" \in Paper
        BY DEF Paper
    <2> QED
        BY <2>1, <2>2 DEF HasSigns
<1>2. s = (l \o <<x, y>>) \o r
    <2>1. SendsFirst(l, us)
        BY SendingIs
    <2> QED
        BY <2>1 DEF SendsFirst
<1>3. r \in Seq(S)
    BY SendingIs
<1> HIDE DEF x, y, S, r, s, Ink
<1>4. l \in Seq(S)
    BY <1>1, SeqMonotonic
<1>5. Free(l, y)
    BY <1>1, ElementOfSeq DEF Free
<1>6. Divides(y, (l \o <<x, y>>) \o r, l \o <<x>>, r)
    BY <1>1, <1>3, <1>4, <1>5, LineCut
<1>7. s # <<>>
    <2> DEFINE e == <<x, y>>
               g == l \o e
    <2>1. e \in Seq(S) /\ Len(e) = 2
        BY <1>1
    <2> HIDE DEF e
    <2>2. g \in Seq(S) /\ Len(g) = Len(l) + 2 /\ Len(l) \in Nat
        <3>1. l \o e \in Seq(S) /\ Len(l \o e) = Len(l) + Len(e) /\ Len(l) \in Nat
            BY <1>4, <2>1, ConcatProperties, LenProperties
        <3> QED
            BY <2>1, <3>1
    <2> HIDE DEF g
    <2>3. Len(g \o r) = Len(g) + Len(r) /\ Len(r) \in Nat
        BY <1>3, <2>2, ConcatProperties, LenProperties
    <2> DEFINE t == g \o r
    <2>4. Len(t) = Len(l) + 2 + Len(r)
        BY <2>2, <2>3
    <2> HIDE DEF t
    <2>5. Len(t) # 0
        BY <2>2, <2>3, <2>4
    <2>6. t # <<>>
        BY <2>5
    <2>7. s = t
        BY <1>2 DEF t, g, e
    <2> QED
        BY <2>6, <2>7
<1> QED
    BY <1>2, <1>6, <1>7 DEF x, y, s, r

\* The line the client reads is the first under way.
LEMMA WireClient ==
    ASSUME WireInv, ClientLine
    PROVE  WireInv'
<1>1. /\ "LF" \in ToSet(down) /\ stored' = stored
      /\ received' = Append(received, ParseIrcLine(Chomp(Before(down, Find(down, "LF")))))
      /\ down' = After(down, Find(down, "LF"))
    BY DEF ClientLine
<1>2. TypeInv'
    <2>1. TypeInv /\ [Next]_vars
        BY DEF WireInv, Next
    <2> QED
        BY <2>1, TypeStep
<1>3. received \in Seq(Heard) /\ stored \in Seq(Good)
    BY DEF WireInv
<1>4. PICK rest \in Seq(Seq(Ink)) : down = Sending(rest) /\ Told(received \o Reads(rest), stored)
    BY DEF WireInv, Underway
<1>5. rest # <<>>
    <2> SUFFICES ASSUME rest = <<>> PROVE FALSE
        OBVIOUS
    <2>1. Sending(<<>>) = <<>> /\ ToSet(<<>>) = {}
        BY DEF Sending, FlattenSeq, ToSet
    <2> QED
        BY <1>1, <1>4, <2>1
<1> DEFINE l == Head(rest)
           us == Tail(rest)
           r == Read(l)
<1>6. l \in Seq(Ink) /\ us \in Seq(Seq(Ink)) /\ rest = <<l>> \o us
    <2> DEFINE X == Seq(Ink)
    <2>1. rest \in Seq(X)
        OBVIOUS
    <2> HIDE DEF X
    <2>2. Head(rest) \in X /\ Tail(rest) \in Seq(X)
        BY <1>5, <2>1, TailFacts
    <2>3. rest = <<Head(rest)>> \o Tail(rest)
        BY <1>5, <2>1
    <2> QED
        BY <2>2, <2>3 DEF X
<1> HIDE DEF l, us, Ink
<1>7. Divides("LF", Sending(<<l>> \o us), l \o <<"CR">>, Sending(us))
    BY <1>6, FirstLine
<1>8. Before(down, Find(down, "LF")) = l \o <<"CR">> /\ down' = Sending(us)
    BY <1>1, <1>4, <1>6, <1>7 DEF Divides
<1>9. received' = Append(received, r)
    BY <1>1, <1>8 DEF Read
<1>10. r \in Heard
    BY <1>6 DEF Heard
<1> HIDE DEF r
<1>11. /\ Reads(us) \in Seq(Heard)
       /\ Reads(rest) = <<r>> \o Reads(us)
    <2>1. <<l>> \in Seq(Seq(Ink))
        BY <1>6
    <2>2. ReadsOn(<<l>>, us) /\ Reads(<<l>>) = <<r>>
        BY <1>6, <2>1, ReadsIs DEF r
    <2>3. MapsTo([d \in Seq(Ink) |-> Read(d)], us, Reads(us), Heard)
        BY <1>6, ReadsIs
    <2> QED
        BY <1>6, <2>2, <2>3 DEF ReadsOn, MapsTo
<1>12. received' \in Seq(Heard) /\ received' \o Reads(us) = received \o Reads(rest)
    <2> DEFINE g == Reads(us)
               e == <<r>>
               H == Heard
    <2>1. e \in Seq(H) /\ g \in Seq(H) /\ received \in Seq(H)
        BY <1>3, <1>10, <1>11
    <2>2. Append(received, r) = received \o e /\ Append(received, r) \in Seq(H)
        BY <1>3, <1>10, AppendIsConcat, AppendProperties
    <2> HIDE DEF e, g, H
    <2>3. Associates(received, e, g)
        BY <2>1, AssociatesIs
    <2> QED
        BY <1>9, <1>11, <2>2, <2>3 DEF Associates, e, g, H
<1>13. Told(received' \o Reads(us), stored')
    BY <1>1, <1>4, <1>12
<1>14. Underway'
    BY <1>6, <1>8, <1>13 DEF Underway
<1> QED
    BY <1>1, <1>2, <1>3, <1>12, <1>14 DEF WireInv

\* A line the server takes has no line break in it.
LEMMA LineInk ==
    ASSUME NEW s \in Seq(Bytes), "LF" \in ToSet(s)
    PROVE  Before(s, Find(s, "LF")) \in Seq(Ink)
<1> DEFINE y == "LF"
           n == Len(s)
           C == {i \in DOMAIN s : s[i] = y}
           p == First(C)
           k == p - 1
<1>1. Bytes \ {y} \subseteq Ink /\ y \in ToSet(s)
    BY InkIs
<1>2. Find(s, "LF") = p
    BY DEF Find
<1> HIDE DEF y, Bytes, Ink
<1>3. n \in Nat /\ DOMAIN s = 1..n /\ \A i \in 1..n : s[i] \in Bytes
    BY ElementOfSeq, LenProperties
<1>4. C \subseteq 1..n /\ C # {}
    <2>1. \E i \in 1..n : s[i] = y
        BY <1>1, ToSetMember
    <2> QED
        BY <1>3, <2>1
<1>5. p \in C /\ p \in 1..n /\ \A i \in C : p <= i
    <2> HIDE DEF C
    <2> QED
        BY <1>3, <1>4, FirstIs
<1>6. \A i \in 1..k : i \in 1..n /\ i \notin C
    <2>1. \A i \in 1..k : i \in 1..n /\ ~(p <= i)
        <3> HIDE DEF p
        <3> QED
            BY <1>3, <1>5
    <2> HIDE DEF C, p
    <2> QED
        BY <1>5, <2>1
<1>7. \A i \in 1..k : s[i] \in Ink
    <2>1. \A i \in 1..k : s[i] \in Bytes /\ s[i] # y
        BY <1>3, <1>6
    <2> HIDE DEF k
    <2> QED
        BY <1>1, <2>1
<1>8. k \in Int
    <2> HIDE DEF p
    <2> QED
        BY <1>5
<1> HIDE DEF k
<1>9. SubSeq(s, 1, k) \in Seq(Ink)
    BY <1>7, <1>8, SubSeqProperties
<1> QED
    BY <1>2, <1>9 DEF Before, k

\* What is no news is not taken for a message sent for the first time.
LEMMA AsideRead ==
    ASSUME NEW M, M \subseteq Good, NEW ms, ToSet(ms) = M, NEW l \in Asides(M)
    PROVE  l \in Seq(Ink) /\ ~IsLive(Read(l)) /\ Echo(Read(l), ms)
<1>1. l \in Seq(Ink) /\ (Plainly(l) \/ \E m \in M : l = ReplayLine(m))
    BY DEF Asides
<1> DEFINE r == Read(l)
<1>2. CASE Plainly(l)
    <2>1. r.tags = {}
        BY <1>1, <1>2, InkIs, NoTags
    <2> HIDE DEF r
    <2>2. ~IsMessage(r)
        BY <2>1 DEF IsMessage, Has
    <2> QED
        BY <1>1, <2>2 DEF IsLive, Echo, r
<1>3. ASSUME NEW m \in M, l = ReplayLine(m) PROVE ~IsLive(r) /\ Echo(r, ms)
    <2>1. Repeats(r, m)
        BY <1>3, ReplayRead
    <2> HIDE DEF r
    <2> QED
        BY <2>1 DEF Repeats, Echo
<1> QED
    BY <1>1, <1>2, <1>3

\* The lines of a command join those under way.
LEMMA WireServer ==
    ASSUME WireInv, ServerLine
    PROVE  WireInv'
<1> DEFINE s == Before(up, Find(up, "LF"))
           c == ParseCommand(s)
           ls == Lines(c)
           X == Seq(Ink)
<1>1. /\ "LF" \in ToSet(up) /\ received' = received
      /\ stored' = stored \o Stored(c)
      /\ down' = down \o FlattenSeq([k \in DOMAIN Lines(c) |-> Lines(c)[k] \o <<"CR", "LF">>])
    BY DEF ServerLine
<1>2. TypeInv'
    <2>1. TypeInv /\ [Next]_vars
        BY DEF WireInv, Next
    <2> QED
        BY <2>1, TypeStep
<1>3. received \in Seq(Heard) /\ stored \in Seq(Good) /\ up \in Seq(Bytes)
    BY DEF WireInv, TypeInv, Typed
<1>4. PICK rest \in Seq(X) : down = Sending(rest) /\ Told(received \o Reads(rest), stored)
    BY DEF WireInv, Underway
<1>5. s \in Seq(Ink) /\ s \in Seq(Bytes)
    BY <1>1, <1>3, LineInk, LineTyped
<1>6. down' = down \o Sending(ls)
    BY <1>1 DEF Sending
<1> HIDE DEF s, Ink, Good
<1>7. Said(Ink, c) /\ IsCommand(c)
    BY <1>5, CommandSaid, CommandParsed DEF Spoken
<1> HIDE DEF c
<1>8. ASSUME ls \in Seq(X), Told((received \o Reads(rest)) \o Reads(ls), stored') PROVE Underway'
    <2> DEFINE w == rest \o ls
               a == Reads(rest)
               b == Reads(ls)
    <2>1. w \in Seq(X)
        BY <1>8, ConcatProperties
    <2>2. SendsOn(rest, ls) /\ ReadsOn(rest, ls)
        BY <1>8, SendingIs, ReadsIs
    <2>3. down' = Sending(w)
        BY <1>4, <1>6, <2>2 DEF SendsOn
    <2>4. a \in Seq(Heard) /\ b \in Seq(Heard)
        <3>1. MapsTo([d \in Seq(Ink) |-> Read(d)], rest, a, Heard)
            BY ReadsIs
        <3>2. MapsTo([d \in Seq(Ink) |-> Read(d)], ls, b, Heard)
            BY <1>8, ReadsIs
        <3> QED
            BY <3>1, <3>2 DEF MapsTo
    <2>5. Reads(w) = a \o b
        BY <2>2 DEF ReadsOn
    <2> HIDE DEF w
    <2>6. Associates(received, a, b)
        <3> HIDE DEF a, b
        <3> QED
            BY <1>3, <2>4, AssociatesIs
    <2>7. Told(received' \o Reads(w), stored')
        BY <1>1, <1>8, <2>5, <2>6 DEF Associates
    <2> QED
        BY <2>1, <2>3, <2>7 DEF Underway
<1> DEFINE rs == received \o Reads(rest)
<1>9. rs \in Seq(Heard)
    <2> DEFINE a == Reads(rest)
    <2>1. MapsTo([d \in Seq(Ink) |-> Read(d)], rest, a, Heard)
        BY ReadsIs
    <2>2. a \in Seq(Heard)
        BY <2>1 DEF MapsTo
    <2> HIDE DEF a
    <2>3. received \o a \in Seq(Heard)
        BY <1>3, <2>2, ConcatProperties
    <2> QED
        BY <2>3 DEF a
<1> HIDE DEF rs
<1>10. CASE Stored(c) = <<>>
    <2> DEFINE M == ToSet(stored)
               f == [d \in Seq(Ink) |-> Read(d)]
    <2>1. ls \in Seq(Asides(M))
        BY <1>3, <1>7, <1>10, LinesAside
    <2>2. stored' = stored
        BY <1>1, <1>3, <1>10, ConcatEmptySeq
    <2>3. M \subseteq Good
        BY <1>3, ToSetMember
    <2>4. \A l \in Asides(M) : l \in Seq(Ink) /\ ~IsLive(Read(l)) /\ Echo(Read(l), stored)
        BY <2>3, AsideRead
    <2> HIDE DEF M, ls
    <2>5. ls \in Seq(X)
        <3>1. Asides(M) \subseteq X
            BY <2>4
        <3> QED
            BY <2>1, <3>1, SeqMonotonic
    <2>6. MapsTo(f, ls, Reads(ls), Heard)
        BY <2>5, ReadsIs
    <2> DEFINE ss == Reads(ls)
    <2>7. ss \in Seq(Heard) /\ Len(ss) = Len(ls) /\ \A i \in 1..Len(ss) : ss[i] = Read(ls[i])
        <3>1. \A i \in 1..Len(ls) : ls[i] \in Seq(Ink)
            BY <2>5, ElementOfSeq
        <3>2. \A i \in 1..Len(ls) : f[ls[i]] = Read(ls[i])
            BY <3>1
        <3> HIDE DEF ss, f
        <3> QED
            BY <2>6, <3>2 DEF MapsTo, ss
    <2>8. \A i \in 1..Len(ls) : ls[i] \in Asides(M)
        BY <2>1, ElementOfSeq
    <2> HIDE DEF ss
    <2>9. \A i \in 1..Len(ss) : ~IsLive(ss[i]) /\ Echo(ss[i], stored)
        BY <2>4, <2>7, <2>8
    <2>10. Told(rs \o ss, stored)
        BY <1>4, <1>9, <2>7, <2>9, ToldAside DEF rs
    <2>11. Underway'
        BY <1>8, <2>2, <2>5, <2>10 DEF rs, ss, ls
    <2> QED
        BY <1>1, <1>2, <1>3, <2>2, <2>11 DEF WireInv
<1>11. ASSUME NEW m \in Good, Stored(c) = <<m>> PROVE WireInv'
    <2> DEFINE l == LiveLine(m)
               r == Read(l)
    <2>1. ls = <<l>>
        BY <1>11, LinesNews
    <2>2. l \in Seq(Ink) /\ Carries(r, m)
        BY LiveRead
    <2> HIDE DEF l, ls
    <2>3. ls \in Seq(X)
        BY <2>1, <2>2
    <2>4. Reads(ls) = <<r>> /\ r \in Heard
        <3>1. \A d \in Seq(Ink) : Reads(<<d>>) = <<Read(d)>>
            BY <2>3, ReadsIs
        <3> QED
            BY <2>1, <2>2, <3>1 DEF Heard
    <2> HIDE DEF r
    <2>5. stored' = Append(stored, m) /\ stored' \in Seq(Good)
        <3>1. Append(stored, m) = stored \o <<m>> /\ Append(stored, m) \in Seq(Good)
            BY <1>3, AppendIsConcat, AppendProperties
        <3> QED
            BY <1>1, <1>11, <3>1
    <2>6. rs \o <<r>> = Append(rs, r)
        BY <1>9, <2>4, AppendIsConcat
    <2>7. Told(Append(rs, r), Append(stored, m))
        BY <1>3, <1>4, <1>9, <2>2, <2>4, ToldNews DEF rs
    <2>8. Underway'
        BY <1>8, <2>3, <2>4, <2>5, <2>6, <2>7 DEF rs, ls
    <2> QED
        BY <1>1, <1>2, <1>3, <2>5, <2>8 DEF WireInv
<1> QED
    BY <1>7, <1>10, <1>11, StoredGood

\* Every step keeps what has been told.
LEMMA WireStep == WireInv /\ [Next]_vars => WireInv'
<1> SUFFICES ASSUME WireInv, [Next]_vars PROVE WireInv'
    OBVIOUS
<1>1. CASE ServerLine
    BY <1>1, WireServer
<1>2. CASE ClientLine
    BY <1>2, WireClient
<1>3. CASE UNCHANGED <<down, stored, received>>
    <2>1. TypeInv'
        BY TypeStep DEF WireInv
    <2> QED
        BY <1>3, <2>1 DEF WireInv, Underway
<1>4. ASSUME NEW c \in Calls, Call(c) PROVE UNCHANGED <<down, stored, received>>
    BY <1>4 DEF Call
<1>5. UNCHANGED vars => UNCHANGED <<down, stored, received>>
    BY DEF vars
<1> QED
    BY <1>1, <1>2, <1>3, <1>4, <1>5 DEF Next

\* The lines received are the first of those told.
LEMMA WireImplies == WireInv => ReceivedAsStored
<1> SUFFICES ASSUME WireInv PROVE ReceivedAsStored
    OBVIOUS
<1>1. received \in Seq(Heard) /\ stored \in Seq(Good)
    BY DEF WireInv
<1>2. PICK rest \in Seq(Seq(Ink)) : down = Sending(rest) /\ Told(received \o Reads(rest), stored)
    BY DEF WireInv, Underway
<1> HIDE DEF Ink, Good, Heard
<1> DEFINE ss == Reads(rest)
           rs == received \o ss
           h == Len(received)
           q == Len(ss)
           n == Len(rs)
           e == Len(stored)
           live == {i \in DOMAIN received : IsLive(received[i])}
           full == {k \in DOMAIN stored : stored[k].body # <<>>}
<1>3. h \in Nat /\ DOMAIN received = 1..h /\ e \in Nat /\ DOMAIN stored = 1..e
    BY <1>1, LenProperties
<1>4. ss \in Seq(Heard) /\ q = Len(rest) /\ q \in Nat
    <2>1. MapsTo([d \in Seq(Ink) |-> Read(d)], rest, ss, Heard)
        BY ReadsIs
    <2> HIDE DEF ss
    <2> QED
        BY <2>1, LenProperties DEF MapsTo
<1> HIDE DEF ss
<1>5. n = h + q /\ \A i \in 1..h : rs[i] = received[i]
    <2>1. /\ Len(received \o ss) = Len(received) + Len(ss)
          /\ \A i \in 1..(Len(received) + Len(ss)) :
               (received \o ss)[i] = IF i <= Len(received) THEN received[i] ELSE ss[i - Len(received)]
        BY <1>1, <1>4, ConcatProperties
    <2>2. \A i \in 1..h : i \in 1..(h + q) /\ i <= h
        <3> HIDE DEF h, q
        <3> QED
            BY <1>3, <1>4
    <2> QED
        BY <2>1, <2>2
<1>6. Told(rs, stored)
    BY <1>2 DEF ss
<1> HIDE DEF rs
<1>7. PICK m \in Nat : \E a, b : Paired(rs, stored, m, a, b)
    BY <1>6 DEF Told
<1>8. PICK a, b : Paired(rs, stored, m, a, b)
    BY <1>7
<1>9. /\ Enumerates(a, m, LiveIn(rs)) /\ Enumerates(b, m, FullIn(stored))
      /\ \A k \in 1..m : Same(rs[a[k]], stored[b[k]])
    BY <1>8 DEF Paired
<1>10. n \in Nat /\ h \in 0..n /\ LiveIn(rs) \subseteq 1..n /\ FullIn(stored) \subseteq 1..e
    <2>1. n \in Nat /\ h \in 0..n
        <3> HIDE DEF n, h, q
        <3> QED
            BY <1>3, <1>4, <1>5
    <2>2. LiveIn(rs) \subseteq 1..n /\ FullIn(stored) \subseteq 1..e
        BY DEF LiveIn, FullIn
    <2> QED
        BY <2>1, <2>2
<1>11. full = FullIn(stored)
    BY <1>3 DEF FullIn
<1>12. live = {x \in LiveIn(rs) : x <= h}
    <2>1. LiveIn(rs) = {i \in 1..n : IsLive(rs[i])}
        BY DEF LiveIn
    <2> HIDE DEF h, n
    <2>2. \A i \in 1..n : i <= h <=> i \in 1..h
        BY <1>3, <1>10
    <2>3. \A i \in 1..h : i \in 1..n
        BY <1>3, <1>10
    <2> QED
        BY <1>3, <1>5, <2>1, <2>2, <2>3
<1>13. PICK j \in 0..m : /\ Enumerates([i \in 1..j |-> a[i]], j, {x \in LiveIn(rs) : x <= h})
                         /\ h = n => j = m
    <2>1. Shortened(a, m, LiveIn(rs), h, n)
        <3> HIDE DEF h, n
        <3> QED
            BY <1>9, <1>10, ShortenedIs
    <2> QED
        BY <2>1 DEF Shortened
<1> DEFINE g == [i \in 1..j |-> a[i]]
<1>14. Enumerates(g, j, live) /\ live \subseteq 1..h /\ j \in Nat
    <2>1. live \subseteq 1..h
        BY <1>3
    <2> HIDE DEF live
    <2> QED
        BY <1>12, <1>13, <2>1
<1>15. \A k \in 1..j : g[k] = a[k] /\ k \in 1..m
    OBVIOUS
<1> HIDE DEF g, live, full, h, n, e, q
<1>16. Cardinality(live) = j /\ \A k \in 1..j : Nth(live, k) = g[k]
    BY <1>3, <1>14, Enumerated
<1>17. Cardinality(full) = m /\ \A k \in 1..m : Nth(full, k) = b[k]
    BY <1>3, <1>9, <1>10, <1>11, Enumerated
<1>18. Cardinality(live) <= Cardinality(full)
    BY <1>16, <1>17
<1>19. ASSUME down = <<>> PROVE Cardinality(live) = Cardinality(full)
    <2>1. rest = <<>>
        <3> SUFFICES ASSUME rest # <<>> PROVE FALSE
            OBVIOUS
        <3> DEFINE X == Seq(Ink)
                   l == Head(rest)
                   us == Tail(rest)
        <3>1. rest \in Seq(X)
            OBVIOUS
        <3> HIDE DEF X
        <3>2. l \in X /\ us \in Seq(X) /\ rest = <<l>> \o us
            BY <3>1, TailFacts
        <3> HIDE DEF l, us
        <3>3. Sending(<<l>> \o us) # <<>>
            BY <3>2, FirstLine DEF X
        <3> QED
            BY <1>2, <1>19, <3>2, <3>3
    <2>2. h = n
        <3>1. q = 0
            BY <1>4, <2>1
        <3> QED
            BY <1>3, <1>5, <3>1
    <2> QED
        BY <1>13, <1>16, <1>17, <2>2
<1>20. ASSUME NEW k \in 1..Cardinality(live)
       PROVE  Matches(received[Nth(live, k)], stored[Nth(full, k)])
              /\ received[Nth(live, k)].tags = TagsOf(stored[Nth(full, k)])
    <2>1. k \in 1..j /\ k \in 1..m
        BY <1>15, <1>16
    <2>2. Nth(live, k) = a[k] /\ Nth(full, k) = b[k]
        BY <1>15, <1>16, <1>17, <2>1
    <2>3. g[k] \in live
        BY <1>14, <2>1 DEF Enumerates
    <2>4. a[k] \in 1..h
        BY <1>14, <1>15, <2>1, <2>3
    <2>5. received[a[k]] = rs[a[k]]
        BY <1>5, <2>4
    <2>6. Same(rs[a[k]], stored[b[k]])
        BY <1>9, <2>1
    <2> QED
        BY <2>2, <2>5, <2>6 DEF Same
<1>21. ASSUME NEW i \in DOMAIN received, IsMessage(received[i]), Has(received[i], "replay")
       PROVE  \E d \in ToSet(stored) : Matches(received[i], d)
    <2>1. i \in 1..h /\ i \in 1..n
        BY <1>3, <1>10
    <2>2. Echo(rs[i], stored)
        BY <1>6, <2>1 DEF Told, n
    <2>3. rs[i] = received[i]
        BY <1>5, <2>1
    <2> QED
        BY <1>21, <2>2, <2>3 DEF Echo
<1>22. /\ Cardinality(live) <= Cardinality(full)
       /\ down = <<>> => Cardinality(live) = Cardinality(full)
       /\ \A k \in 1..Cardinality(live) : /\ Matches(received[Nth(live, k)], stored[Nth(full, k)])
                                          /\ received[Nth(live, k)].tags = TagsOf(stored[Nth(full, k)])
       /\ \A i \in DOMAIN received : IsMessage(received[i]) /\ Has(received[i], "replay") =>
            \E d \in ToSet(stored) : Matches(received[i], d)
    BY <1>18, <1>19, <1>20, <1>21
<1> QED
    BY <1>22 DEF ReceivedAsStored, live, full

\* However many the calls and whatever their texts, AircdClient is given the messages
\* that the server stored, in order, with their texts, senders and titles; a message
\* it is given again is one of them.
THEOREM MessagesArrive == Spec => []ReceivedAsStored
<1>1. Init => WireInv
    BY WireInit
<1>2. WireInv /\ [Next]_vars => WireInv'
    BY WireStep
<1>3. WireInv => ReceivedAsStored
    BY WireImplies
<1> QED
    BY <1>1, <1>2, <1>3, PTL DEF Spec

=============================================================================
