-------------------------- MODULE DaemonLinkProofs --------------------------
(***************************************************************************)
(* The daemon's connection, for every set of messages, any set of requests *)
(* in flight and any number of lost connections: what is delivered, what   *)
(* the bridge is told and what becomes of the messages Claude sends.       *)
(***************************************************************************)
EXTENDS DaemonLink, SequenceFacts, TLAPS

Kinds(lines) == {l[1] : l \in ToSet(lines)}
Once(s) == \A i, j \in DOMAIN s : s[i] = "nick" /\ s[j] = "nick" => i = j

\* The client's phase and the server's session: 001 is on the wire only for a
\* registered session, 464 only for one that is not going to be, and a NICK is
\* under way at most once.
PhasesAgree ==
    /\ phase = "lost" <=> session = "none"
    /\ phase = "lost" => wire = <<>>
    /\ phase = "ready" => session = "registered"
    /\ phase = "refused" => session = "connected"
    /\ "001" \in Kinds(wire) => session = "registered"
    /\ phase = "registering" /\ session = "registered" => "001" \in Kinds(wire)
    /\ "464" \in Kinds(wire) => session = "connected"

NickOnce ==
    /\ Once(cmds)
    /\ "nick" \in ToSet(cmds) => /\ phase = "registering" /\ session = "connected"
                                 /\ "464" \notin Kinds(wire)

\* last_seen_seq is at the end of the channel for a registered session, and not
\* behind the replay's start for one that is being registered.
MarksCurrent ==
    /\ session = "registered" => marked = Len(log)
    /\ session = "inserted" => snapshot <= marked

BaseInv == TypeOK /\ PhasesAgree /\ NickOnce /\ MarksCurrent
LinkInv == BaseInv /\ MarkedReachesRouter

-----------------------------------------------------------------------------
(* Lines *)

\* What a line is about is told by its kind.
LEMMA LineFacts ==
    ASSUME NEW l \in Line
    PROVE  /\ l = <<l[1], l[2]>>
           /\ l[1] \in {"live", "catchup", "history"} => l[2] \in Message
           /\ l[1] \in {"mine", "other", "failed", "past", "pastother"} => l[2] \in Actions
BY DEF Line, Entry

\* The lines that the server says.
LEMMA LineKinds ==
    /\ \A m \in Message, k \in {"live", "catchup", "history"} : <<k, m>> \in Line
    /\ \A a \in Actions, k \in {"mine", "other", "failed", "past", "pastother"} : <<k, a>> \in Line
    /\ \A k \in {"001", "464", "listing", "empty"} : <<k, None>> \in Line
    /\ Entry \subseteq Line
    /\ \A m \in Message : <<"live", m>> \in Entry
    /\ \A a \in Actions, k \in {"mine", "other"} : <<k, a>> \in Entry
BY DEF Line, Entry

\* An entry of the history is replayed as a line about the same.
LEMMA ReplayedFacts ==
    ASSUME NEW e \in Entry, NEW kind \in {"catchup", "history"}
    PROVE  /\ Replayed(kind, e) \in Line
           /\ e[1] = "live" => Replayed(kind, e) = <<kind, e[2]>>
           /\ Replayed(kind, e)[1] \in {kind, "past", "pastother"}
           /\ Replayed(kind, e)[1] = "past" => e[1] = "mine" /\ e[2] = Replayed(kind, e)[2]
<1>1. /\ e[1] \in {"live", "mine", "other"}
      /\ e[1] = "live" => e[2] \in Message
      /\ e[1] \in {"mine", "other"} => e[2] \in Actions
    BY DEF Entry
<1>2. CASE e[1] = "live"
    <2>1. Replayed(kind, e) = <<kind, e[2]>> /\ kind \in {"live", "catchup", "history"}
        BY <1>2 DEF Replayed
    <2>2. <<kind, e[2]>> \in Line
        BY <1>1, <1>2, <2>1, LineKinds
    <2>3. Replayed(kind, e)[1] = kind /\ kind # "past"
        BY <2>1
    <2> QED
        BY <2>1, <2>2, <2>3
<1>3. CASE e[1] = "mine"
    <2>1. Replayed(kind, e) = <<"past", e[2]>>
        BY <1>3 DEF Replayed
    <2>2. <<"past", e[2]>> \in Line
        BY <1>1, <1>3, LineKinds
    <2>3. Replayed(kind, e)[1] = "past" /\ Replayed(kind, e)[2] = e[2]
        BY <2>1
    <2> QED
        BY <1>3, <2>1, <2>2, <2>3
<1>4. CASE e[1] = "other"
    <2>1. Replayed(kind, e) = <<"pastother", e[2]>>
        BY <1>4 DEF Replayed
    <2>2. <<"pastother", e[2]>> \in Line
        BY <1>1, <1>4, LineKinds
    <2>3. Replayed(kind, e)[1] = "pastother"
        BY <2>1
    <2> QED
        BY <1>4, <2>1, <2>2, <2>3
<1> QED
    BY <1>1, <1>2, <1>3, <1>4

\* A replay has a line for every entry after its start, and no others.
LEMMA ReplayFacts ==
    ASSUME log \in Seq(Entry), NEW kind \in {"catchup", "history"}, NEW after \in 0..Len(log)
    PROVE  /\ Replay(kind, after) \in Seq(Line)
           /\ \A i \in (after + 1)..Len(log) : log[i][1] = "live" =>
                <<kind, log[i][2]>> \in ToSet(Replay(kind, after))
           /\ \A l \in ToSet(Replay(kind, after)) :
                /\ l[1] \in {kind, "past", "pastother"}
                /\ l[1] = "past" => \E i \in DOMAIN log : log[i][1] = "mine" /\ log[i][2] = l[2]
<1>1. Len(log) \in Nat /\ DOMAIN log = 1..Len(log) /\ \A i \in 1..Len(log) : log[i] \in Entry
    OBVIOUS
<1> DEFINE n == Len(log) - after
           r == [i \in 1..n |-> Replayed(kind, log[after + i])]
<1>2. n \in Nat /\ \A i \in 1..n : after + i \in 1..Len(log)
    BY <1>1
<1> HIDE DEF n
<1>3. \A i \in 1..n : r[i] = Replayed(kind, log[after + i]) /\ r[i] \in Line
    BY <1>1, <1>2, ReplayedFacts
<1>4. DOMAIN r = 1..n /\ r \in [1..n -> Line]
    BY <1>3
<1>5. r = Replay(kind, after)
    BY DEF n, Replay
<1> HIDE DEF r
<1>6. r \in Seq(Line)
    BY <1>2, <1>4, SeqDef
<1>7. ASSUME NEW i \in (after + 1)..Len(log), log[i][1] = "live" PROVE <<kind, log[i][2]>> \in ToSet(r)
    <2>1. i - after \in 1..n /\ after + (i - after) = i
        BY <1>1 DEF n
    <2>2. r[i - after] = Replayed(kind, log[i]) /\ log[i] \in Entry
        BY <1>1, <1>3, <2>1
    <2> QED
        BY <1>4, <1>7, <2>1, <2>2, ReplayedFacts DEF ToSet
<1>8. ASSUME NEW l \in ToSet(r)
      PROVE  /\ l[1] \in {kind, "past", "pastother"}
             /\ l[1] = "past" => \E i \in DOMAIN log : log[i][1] = "mine" /\ log[i][2] = l[2]
    <2>1. PICK j \in 1..n : l = r[j]
        BY <1>4, <1>8 DEF ToSet
    <2>2. l = Replayed(kind, log[after + j]) /\ after + j \in DOMAIN log /\ log[after + j] \in Entry
        BY <1>1, <1>2, <1>3, <2>1
    <2> QED
        BY <2>2, ReplayedFacts
<1> QED
    BY <1>5, <1>6, <1>7, <1>8

\* Texts are those of messages.
LEMMA TextsAreMessages ==
    ASSUME NEW s \in Seq(Line)
    PROVE  Texts(s) \subseteq Message /\ Fresh(ToSet(s)) \subseteq Texts(s)
<1>1. \A l \in ToSet(s) : l \in Line
    BY ToSetMember
<1> QED
    BY <1>1, LineFacts DEF Texts, Fresh, About

\* What is on the wire, in the queue or under way, when lines are added.
LEMMA AddedLines ==
    ASSUME NEW s \in Seq(Line), NEW t \in Seq(Line)
    PROVE  /\ s \o t \in Seq(Line)
           /\ ToSet(s \o t) = ToSet(s) \cup ToSet(t)
           /\ Kinds(s \o t) = Kinds(s) \cup Kinds(t)
           /\ AfterWelcome(s) \subseteq AfterWelcome(s \o t)
           /\ "001" \in Kinds(s) => ToSet(t) \subseteq AfterWelcome(s \o t)
<1> DEFINE u == s \o t
<1>1. /\ u \in Seq(Line) /\ Len(u) = Len(s) + Len(t)
      /\ Len(s) \in Nat /\ Len(t) \in Nat
      /\ DOMAIN s = 1..Len(s) /\ DOMAIN t = 1..Len(t) /\ DOMAIN u = 1..Len(u)
      /\ \A i \in 1..Len(s) + Len(t) : u[i] = IF i <= Len(s) THEN s[i] ELSE t[i - Len(s)]
    BY ConcatProperties, LenProperties
<1>2. ToSet(u) = ToSet(s) \cup ToSet(t)
    BY ToSetConcat
<1> HIDE DEF u
<1>3. \A i \in 1..Len(s) : i \in 1..Len(u) /\ u[i] = s[i]
    BY <1>1
<1>4. \A j \in 1..Len(t) : Len(s) + j \in 1..Len(u) /\ u[Len(s) + j] = t[j]
    BY <1>1
<1>5. AfterWelcome(s) \subseteq AfterWelcome(u)
    <2> SUFFICES ASSUME NEW j \in 1..Len(s), NEW i \in 1..(j - 1), s[i][1] = "001"
                 PROVE  s[j] \in AfterWelcome(u)
        BY <1>1 DEF AfterWelcome
    <2>1. u[i][1] = "001" /\ u[j] = s[j] /\ j \in 1..Len(u)
        BY <1>1, <1>3
    <2> QED
        BY <1>1, <2>1 DEF AfterWelcome
<1>6. ASSUME "001" \in Kinds(s) PROVE ToSet(t) \subseteq AfterWelcome(u)
    <2>1. PICK i \in 1..Len(s) : s[i][1] = "001"
        BY <1>1, <1>6 DEF Kinds, ToSet
    <2> SUFFICES ASSUME NEW j \in 1..Len(t) PROVE t[j] \in AfterWelcome(u)
        BY <1>1 DEF ToSet
    <2>2. i \in 1..(Len(s) + j - 1) /\ u[i][1] = "001" /\ u[Len(s) + j] = t[j]
        BY <1>1, <1>3, <1>4, <2>1
    <2> QED
        BY <1>1, <1>4, <2>2 DEF AfterWelcome
<1> QED
    BY <1>1, <1>2, <1>5, <1>6 DEF u, Kinds

\* And when the first is taken.
LEMMA TakenLine ==
    ASSUME NEW s \in Seq(Line), s # <<>>
    PROVE  /\ Head(s) \in Line /\ Tail(s) \in Seq(Line)
           /\ ToSet(s) = {Head(s)} \cup ToSet(Tail(s))
           /\ Kinds(s) = {Head(s)[1]} \cup Kinds(Tail(s))
           /\ AfterWelcome(s) \subseteq ToSet(Tail(s))
           /\ Head(s)[1] # "001" => AfterWelcome(s) \subseteq AfterWelcome(Tail(s))
<1> DEFINE h == Head(s)
           t == Tail(s)
<1>1. /\ h \in Line /\ t \in Seq(Line) /\ ToSet(s) = {h} \cup ToSet(t)
      /\ Len(s) \in Nat \ {0} /\ Len(t) = Len(s) - 1 /\ h = s[1]
      /\ DOMAIN s = 1..Len(s) /\ DOMAIN t = 1..Len(t)
    BY TailFacts
<1>2. \A i \in 1..Len(t) : t[i] = s[i + 1]
    OBVIOUS
<1> HIDE DEF h, t
<1>3. ASSUME NEW j \in 2..Len(s) PROVE j - 1 \in 1..Len(t) /\ t[j - 1] = s[j]
    <2>1. j - 1 \in 1..Len(t) /\ (j - 1) + 1 = j
        BY <1>1
    <2> QED
        BY <1>2, <2>1
<1>4. ASSUME NEW j \in 1..Len(s), NEW i \in 1..(j - 1), s[i][1] = "001"
      PROVE  /\ s[j] \in ToSet(t)
             /\ h[1] # "001" => s[j] \in AfterWelcome(t)
    <2>1. j \in 2..Len(s) /\ t[j - 1] = s[j] /\ j - 1 \in 1..Len(t)
        BY <1>1, <1>3
    <2>2. s[j] \in ToSet(t)
        BY <1>1, <2>1 DEF ToSet
    <2>3. ASSUME h[1] # "001" PROVE s[j] \in AfterWelcome(t)
        <3>1. i \in 2..Len(s) /\ i - 1 \in 1..((j - 1) - 1)
            BY <1>1, <1>4, <2>1, <2>3
        <3>2. t[i - 1][1] = "001"
            BY <1>3, <1>4, <3>1
        <3> QED
            BY <1>1, <2>1, <3>1, <3>2 DEF AfterWelcome
    <2> QED
        BY <2>2, <2>3
<1>5. /\ AfterWelcome(s) \subseteq ToSet(t)
      /\ h[1] # "001" => AfterWelcome(s) \subseteq AfterWelcome(t)
    <2>1. \A x \in AfterWelcome(s) :
            \E j \in 1..Len(s) : \E i \in 1..(j - 1) : x = s[j] /\ s[i][1] = "001"
        BY <1>1 DEF AfterWelcome
    <2> QED
        BY <1>4, <2>1
<1> QED
    BY <1>1, <1>5 DEF h, t, Kinds

\* Nothing follows a welcome that is not there.
LEMMA NoWelcome ==
    ASSUME NEW s \in Seq(Line)
    PROVE  /\ AfterWelcome(s) \subseteq ToSet(s)
           /\ "001" \notin Kinds(s) => AfterWelcome(s) = {}
<1>1. DOMAIN s = 1..Len(s) /\ Len(s) \in Nat
    OBVIOUS
<1> QED
    BY <1>1 DEF AfterWelcome, Kinds, ToSet

\* Messages among more lines, and among those of two sources.
LEMMA AboutMore ==
    ASSUME NEW A, NEW B
    PROVE  /\ Fresh(A \cup B) = Fresh(A) \cup Fresh(B)
           /\ A \subseteq B => Fresh(A) \subseteq Fresh(B)
           /\ \A x \in A : x[1] \in {"live", "catchup"} => x[2] \in Fresh(A)
BY DEF Fresh, About

\* A command is written or read: there is still at most one NICK.
LEMMA OnceFacts ==
    ASSUME NEW s \in Seq(Command), Once(s)
    PROVE  /\ \A c \in Command : c # "nick" \/ "nick" \notin ToSet(s) => Once(Append(s, c))
           /\ s # <<>> => Once(Tail(s)) /\ (Head(s) = "nick" => "nick" \notin ToSet(Tail(s)))
<1>1. Len(s) \in Nat /\ DOMAIN s = 1..Len(s)
    OBVIOUS
<1>2. ASSUME NEW c \in Command, c # "nick" \/ "nick" \notin ToSet(s) PROVE Once(Append(s, c))
    <2> DEFINE t == Append(s, c)
    <2>1. /\ DOMAIN t = 1..(Len(s) + 1) /\ t[Len(s) + 1] = c
          /\ \A i \in 1..Len(s) : t[i] = s[i]
        BY <1>1
    <2> HIDE DEF t
    <2> SUFFICES ASSUME NEW i \in 1..(Len(s) + 1), NEW j \in 1..(Len(s) + 1),
                        t[i] = "nick", t[j] = "nick"
                 PROVE  i = j
        BY <2>1 DEF t, Once
    <2>2. CASE i \in 1..Len(s) /\ j \in 1..Len(s)
        BY <1>1, <2>1, <2>2 DEF Once
    <2>3. CASE i = Len(s) + 1 /\ j \in 1..Len(s)
        BY <1>1, <1>2, <2>1, <2>3 DEF ToSet
    <2>4. CASE j = Len(s) + 1 /\ i \in 1..Len(s)
        BY <1>1, <1>2, <2>1, <2>4 DEF ToSet
    <2> QED
        BY <1>1, <2>2, <2>3, <2>4
<1>3. ASSUME s # <<>> PROVE Once(Tail(s)) /\ (Head(s) = "nick" => "nick" \notin ToSet(Tail(s)))
    <2> DEFINE t == Tail(s)
    <2>1. /\ Head(s) = s[1] /\ 1 \in 1..Len(s) /\ DOMAIN t = 1..(Len(s) - 1)
          /\ \A i \in 1..(Len(s) - 1) : t[i] = s[i + 1] /\ i + 1 \in 1..Len(s) /\ i + 1 # 1
        BY <1>1, <1>3
    <2> HIDE DEF t
    <2>2. \A i, j \in 1..(Len(s) - 1) : i + 1 = j + 1 => i = j
        BY <1>1
    <2>3. Once(t)
        BY <1>1, <2>1, <2>2 DEF Once
    <2>4. s[1] = "nick" => "nick" \notin ToSet(t)
        BY <1>1, <2>1 DEF Once, ToSet
    <2> QED
        BY <2>1, <2>3, <2>4 DEF t
<1> QED
    BY <1>2, <1>3

-----------------------------------------------------------------------------
(* The server's lines and the types *)

\* What is appended to the history goes to this agent if it is subscribed.
LEMMA BroadcastFacts ==
    ASSUME TypeOK, NEW e \in Entry, Broadcast(e)
    PROVE  /\ log' \in Seq(Entry) /\ Len(log') = Len(log) + 1
           /\ \A i \in 1..Len(log) : log'[i] = log[i]
           /\ log'[Len(log) + 1] = e
           /\ Subscribed => wire' = wire \o <<e>> /\ marked' = Len(log')
           /\ ~Subscribed => wire' = wire /\ marked' = marked
           /\ wire' \in Seq(Line) /\ {marked', snapshot} \subseteq 0..Len(log')
<1>1. log \in Seq(Entry) /\ wire \in Seq(Line) /\ {marked, snapshot} \subseteq 0..Len(log)
    BY DEF TypeOK
<1>2. log' = Append(log, e) /\ Len(log) \in Nat
    BY <1>1 DEF Broadcast
<1>3. /\ log' \in Seq(Entry) /\ Len(log') = Len(log) + 1
      /\ \A i \in 1..Len(log) : log'[i] = log[i]
      /\ log'[Len(log) + 1] = e
    BY <1>1, <1>2
<1>4. /\ Subscribed => wire' = wire \o <<e>> /\ marked' = Len(log')
      /\ ~Subscribed => wire' = wire /\ marked' = marked
    BY DEF Broadcast, Say
<1>5. <<e>> \in Seq(Line)
    BY LineKinds
<1>6. wire' \in Seq(Line)
    BY <1>1, <1>4, <1>5, AddedLines
<1>7. {marked', snapshot} \subseteq 0..Len(log')
    BY <1>1, <1>2, <1>3, <1>4
<1> QED
    BY <1>3, <1>4, <1>6, <1>7

\* The lines that are no news of the channel.
LEMMA ShortLines ==
    /\ <<<<"001", None>>>> \in Seq(Line) /\ <<<<"464", None>>>> \in Seq(Line)
    /\ \A k \in {"listing", "empty"} : <<<<k, None>>>> \in Seq(Line)
    /\ \A c \in Actions : <<<<"failed", c>>>> \in Seq(Line)
<1>1. \A l \in Line : <<l>> \in Seq(Line)
    OBVIOUS
<1> QED
    BY <1>1, LineKinds

\* The actions of other agents are entries too.
LEMMA OthersAct ==
    ASSUME OtherClaims \/ OtherDone
    PROVE  \E e \in Entry : Broadcast(e) /\ e[1] = "other"
<1>1. \A c \in Actions : <<"other", c>> \in Entry
    BY LineKinds
<1> QED
    BY <1>1 DEF OtherClaims, OtherDone, Actions

LEMMA InitTypeOK == Init => TypeOK
<1> SUFFICES ASSUME Init PROVE TypeOK
    OBVIOUS
<1>1. wire \in Seq(Line) /\ queue \in Seq(Line) /\ cmds \in Seq(Command)
    BY DEF Init
<1>2. log \in Seq(Entry) /\ {marked, snapshot} \subseteq 0..Len(log) /\ outq \in Seq(Outbound)
    BY DEF Init
<1>3. /\ reg \in [Keys -> {"none", "waiting", "set", "leaked"}]
      /\ got \in [Keys -> Results] /\ answer \in [Keys -> Results]
    BY DEF Init, Results
<1>4. losses \in 0..MaxLosses
    BY LinkBounds DEF Init
<1>5. {granted, told} \subseteq [Actions -> Nat]
    BY DEF Init
<1> QED
    BY <1>1, <1>2, <1>3, <1>4, <1>5 DEF Init, TypeOK

LEMMA NextTypeOK == TypeOK /\ [Next]_vars => TypeOK'
<1> SUFFICES ASSUME TypeOK, [Next]_vars PROVE TypeOK'
    OBVIOUS
<1> USE DEF net, server, requests, outgoing, vars
<1>0. /\ wire \in Seq(Line) /\ queue \in Seq(Line) /\ cmds \in Seq(Command)
      /\ log \in Seq(Entry) /\ outq \in Seq(Outbound)
    BY DEF TypeOK
<1>a. /\ Len(log) \in Nat /\ Outbound \subseteq Command
      /\ \A k \in Keys : k \in Command
    BY <1>0, KnownKeys DEF Command
<1>1. CASE UNCHANGED vars
    BY <1>1 DEF TypeOK
<1>2. ASSUME NEW m \in Message, Publish(m) PROVE TypeOK'
    <2>1. <<"live", m>> \in Entry
        BY LineKinds
    <2>2. /\ log' \in Seq(Entry) /\ wire' \in Seq(Line)
          /\ {marked', snapshot} \subseteq 0..Len(log')
        BY <1>2, <2>1, BroadcastFacts DEF Publish
    <2> QED
        BY <1>2, <2>2 DEF TypeOK, Publish
<1>3. CASE OtherClaims \/ OtherDone
    <2>1. PICK e \in Entry : Broadcast(e)
        BY <1>3, OthersAct
    <2>2. /\ log' \in Seq(Entry) /\ wire' \in Seq(Line)
          /\ {marked', snapshot} \subseteq 0..Len(log')
        BY <2>1, BroadcastFacts
    <2> QED
        BY <1>3, <2>2 DEF TypeOK, OtherClaims, OtherDone
<1>4. CASE OtherReturns
    BY <1>4 DEF TypeOK, OtherReturns
<1>5. CASE HandleUnregistered
    <2>1. cmds' \in Seq(Command) /\ Head(cmds) \in Command
        BY <1>0, <1>5, TailFacts DEF HandleUnregistered
    <2>2. wire' \in Seq(Line)
        <3>1. wire' = wire \/ wire' = wire \o <<<<"464", None>>>>
            BY <1>5 DEF HandleUnregistered, Say
        <3> QED
            <4>1. wire' = wire \/ \E t \in Seq(Line) : wire' = wire \o t
                BY <3>1, ShortLines
            <4> QED
                BY <1>0, <4>1, AddedLines
    <2>3. {marked', snapshot'} \subseteq 0..Len(log') /\ refused' \subseteq Outbound
        BY <1>5 DEF HandleUnregistered, TypeOK
    <2>4. session' \in {"none", "connected", "inserted", "registered"}
        BY <1>5 DEF HandleUnregistered, TypeOK
    <2> QED
        BY <1>5, <2>1, <2>2, <2>3, <2>4 DEF TypeOK, HandleUnregistered
<1>6. CASE Welcome
    <2>1. Replay("catchup", ReplayFrom) \in Seq(Line)
        BY <1>0, ReplayFacts DEF TypeOK, ReplayFrom
    <2>2. wire' \in Seq(Line)
        BY <1>0, <1>6, <2>1, ShortLines, AddedLines DEF Welcome, Say
    <2> QED
        BY <1>6, <1>a, <2>2 DEF TypeOK, Welcome, Top
<1>7. CASE HandleCommand
    <2> DEFINE c == Head(cmds)
    <2>1. cmds' \in Seq(Command) /\ c \in Command
        BY <1>0, <1>7, TailFacts DEF HandleCommand
    <2>2. CASE c \in Actions /\ Answer(c)
        <3>1. <<"mine", c>> \in Entry
            BY <2>2, LineKinds
        <3>2. /\ Broadcast(<<"mine", c>>) /\ UNCHANGED <<posted, snapshot>>
              /\ holder' \in {"me", "done"} /\ granted' = [granted EXCEPT ![c] = @ + 1]
            BY <1>7, <2>2, TextsDiffer DEF HandleCommand, Actions, AllKeys
        <3>3. /\ log' \in Seq(Entry) /\ wire' \in Seq(Line)
              /\ {marked', snapshot} \subseteq 0..Len(log')
            BY <3>1, <3>2, BroadcastFacts
        <3>4. granted' \in [Actions -> Nat]
            BY <2>2, <3>2 DEF TypeOK
        <3> QED
            BY <1>7, <2>1, <2>2, <3>2, <3>3, <3>4 DEF TypeOK, HandleCommand
    <2>3. CASE ~(c \in Actions /\ Answer(c))
        <3>1. /\ UNCHANGED <<log, holder, granted>>
              /\ wire' \in Seq(Line)
            <4>1. \A after \in 0..Len(log) : Replay("history", after) \in Seq(Line)
                BY <1>0, ReplayFacts
            <4>2. /\ UNCHANGED <<log, holder, granted>>
                  /\ \/ wire' = wire
                     \/ wire' = wire \o <<<<"failed", c>>>> /\ c \in Actions
                     \/ \E kind \in {"listing", "empty"} : wire' = wire \o <<<<kind, None>>>>
                     \/ \E after \in 0..Len(log) : wire' = wire \o Replay("history", after)
                BY <1>7, <2>3 DEF HandleCommand, Say
            <4>3. wire' = wire \/ \E t \in Seq(Line) : wire' = wire \o t
                BY <4>1, <4>2, ShortLines
            <4> QED
                BY <1>0, <4>2, <4>3, AddedLines
        <3>2. marked' \in 0..Len(log)
            BY <1>7, <1>a, <2>3 DEF HandleCommand, TypeOK, Top
        <3>3. posted' \subseteq Outbound
            BY <1>7 DEF HandleCommand, TypeOK
        <3> QED
            BY <1>7, <2>1, <3>1, <3>2, <3>3 DEF TypeOK, HandleCommand
    <2> QED
        BY <2>2, <2>3
<1>8. CASE Connect
    BY <1>8 DEF TypeOK, Connect
<1>9. CASE SendNick
    <2>1. cmds' \in Seq(Command)
        BY <1>0, <1>9 DEF SendNick, Command
    <2> QED
        BY <1>9, <2>1 DEF TypeOK, SendNick
<1>10. CASE ReadLine
    <2>1. wire' \in Seq(Line) /\ queue' \in Seq(Line)
        BY <1>0, <1>10, TakenLine, AppendFacts DEF ReadLine
    <2>2. phase' \in {"lost", "registering", "refused", "ready"}
        BY <1>10 DEF TypeOK, ReadLine
    <2> QED
        BY <1>10, <2>1, <2>2 DEF TypeOK, ReadLine
<1>11. CASE Route
    <2> DEFINE l == Head(queue)
    <2>1. queue' \in Seq(Line) /\ l \in Line
        BY <1>0, <1>11, TakenLine DEF Route
    <2>2. \/ UNCHANGED <<reg, got>>
          \/ \E k \in Keys, r \in Results, w \in BOOLEAN : Respond(k, r, w)
        BY <1>11 DEF Route, Registered, ResultOf, Results
    <2>3. /\ reg' \in [Keys -> {"none", "waiting", "set", "leaked"}]
          /\ got' \in [Keys -> Results]
        <3>1. CASE UNCHANGED <<reg, got>>
            BY <3>1 DEF TypeOK
        <3>2. ASSUME NEW k \in Keys, NEW r \in Results, NEW w \in BOOLEAN, Respond(k, r, w)
              PROVE  /\ reg' \in [Keys -> {"none", "waiting", "set", "leaked"}]
                     /\ got' \in [Keys -> Results]
            BY <3>2 DEF TypeOK, Respond
        <3> QED
            BY <2>2, <3>1, <3>2
    <2>4. accepted' \cup consumed' \subseteq Message
        <3>1. <<l>> \in Seq(Line) /\ Texts(<<l>>) \subseteq Message
            BY <2>1, SingletonFacts, TextsAreMessages
        <3>2. l[1] = "catchup" => l[2] \in Message
            BY <2>1, LineFacts
        <3> QED
            BY <1>11, <3>1, <3>2 DEF Route, TypeOK
    <2> QED
        BY <1>11, <2>1, <2>3, <2>4 DEF TypeOK, Route
<1>12. CASE GiveUp
    BY <1>12 DEF TypeOK, GiveUp
<1>13. CASE Outgoing
    <2>1. Head(outq) \in Outbound /\ Tail(outq) \in Seq(Outbound)
        BY <1>0, <1>13 DEF Outgoing
    <2>2. outq' \in Seq(Outbound) /\ cmds' \in Seq(Command)
        <3>1. \/ outq' = Append(Tail(outq), Head(outq)) /\ cmds' = cmds
              \/ outq' = Tail(outq) /\ cmds' = Append(cmds, Head(outq))
            BY <1>13 DEF Outgoing, Retry
        <3>2. Head(outq) \in Command
            BY <1>a, <2>1
        <3> QED
            <4>1. Append(Tail(outq), Head(outq)) \in Seq(Outbound)
                BY <2>1, AppendFacts
            <4>2. Append(cmds, Head(outq)) \in Seq(Command)
                BY <1>0, <3>2, AppendFacts
            <4> QED
                BY <1>0, <2>1, <3>1, <4>1, <4>2
    <2> QED
        BY <1>13, <2>2 DEF TypeOK, Outgoing
<1>14. ASSUME NEW k \in Keys, Call(k) PROVE TypeOK'
    <2>1. /\ reg' \in [Keys -> {"none", "waiting", "set", "leaked"}]
          /\ answer' \in [Keys -> Results]
          /\ http' \in Keys \cup {None}
        BY <1>14 DEF Call, TypeOK, Results
    <2>2. cmds' \in Seq(Command)
        <3>1. cmds' = cmds \/ cmds' = Append(cmds, k)
            BY <1>14 DEF Call
        <3> QED
            <4>1. k \in Command
                BY <1>a
            <4>2. Append(cmds, k) \in Seq(Command)
                BY <1>0, <4>1, AppendFacts
            <4> QED
                BY <1>0, <3>1, <4>2
    <2> QED
        BY <1>14, <2>1, <2>2 DEF TypeOK, Call
<1>15. ASSUME NEW k \in Keys, FinalizeSyncRequest(k) PROVE TypeOK'
    BY <1>15 DEF TypeOK, FinalizeSyncRequest
<1>16. ASSUME NEW k \in Keys, Return(k) PROVE TypeOK'
    <2>1. /\ reg' \in [Keys -> {"none", "waiting", "set", "leaked"}]
          /\ got' \in [Keys -> Results]
          /\ answer' \in [Keys -> Results]
          /\ http' \in Keys \cup {None}
        BY <1>16 DEF Return, TypeOK, Results
    <2>2. told' \in [Actions -> Nat]
        <3>1. told \in [Actions -> Nat] /\ (told' = told \/ told' = [told EXCEPT ![k] = @ + 1])
            BY <1>16 DEF Return, TypeOK
        <3> QED
            BY <3>1
    <2> QED
        BY <1>16, <2>1, <2>2 DEF TypeOK, Return
<1>17. ASSUME NEW m \in Outbound, SendMessage(m) PROVE TypeOK'
    <2>1. outq' \in Seq(Outbound)
        BY <1>0, <1>17 DEF SendMessage
    <2> QED
        BY <1>17, <2>1 DEF TypeOK, SendMessage
<1>18. CASE Lose
    <2>1. PICK k \in 0..Len(wire) :
             /\ queue' = IF phase = "ready" THEN queue \o SubSeq(wire, 1, k) ELSE queue
             /\ cut' = cut \cup Texts(SubSeq(wire, k + 1, Len(wire)))
                           \cup Texts(IF phase = "ready" THEN <<>> ELSE wire)
                           \cup (ToSet(cmds) \cap Outbound)
                           \cup (IF session = "inserted"
                                   THEN Texts(SubSeq(log, snapshot + 1, Len(log))) ELSE {})
        BY <1>18 DEF Lose
    <2>2. SubSeq(wire, 1, k) \in Seq(Line) /\ SubSeq(wire, k + 1, Len(wire)) \in Seq(Line)
        BY <1>0, CutFacts
    <2>3. queue' \in Seq(Line)
        BY <1>0, <2>1, <2>2, AddedLines
    <2>4. SubSeq(log, snapshot + 1, Len(log)) \in Seq(Line)
        <3>1. log \in Seq(Line) /\ snapshot \in 0..Len(log)
            <4>1. \A S, T : S \subseteq T => Seq(S) \subseteq Seq(T)
                OBVIOUS
            <4> QED
                BY <1>0, <4>1, LineKinds DEF TypeOK
        <3> QED
            BY <3>1, CutFacts
    <2>5. <<>> \in Seq(Line)
        OBVIOUS
    <2>6. cut' \subseteq Message \cup Outbound
        BY <1>0, <2>1, <2>2, <2>4, <2>5, TextsAreMessages DEF TypeOK
    <2>7. wire' \in Seq(Line) /\ cmds' \in Seq(Command)
        BY <1>18 DEF Lose
    <2>8. /\ {marked', snapshot} \subseteq 0..Len(log)
          /\ losses' \in 0..MaxLosses
        BY <1>18, <1>a, LinkBounds DEF Lose, TypeOK
    <2> QED
        BY <1>18, <2>3, <2>6, <2>7, <2>8 DEF TypeOK, Lose
<1> QED
    BY <1>1, <1>2, <1>3, <1>4, <1>5, <1>6, <1>7, <1>8, <1>9, <1>10, <1>11, <1>12, <1>13,
       <1>14, <1>15, <1>16, <1>17, <1>18 DEF Next, ServerStep, ClientStep

\* The variables have their types; in particular the server's marks are never
\* beyond the end of the channel, and only messages of others are delivered.
THEOREM TypeCorrect == Spec => []TypeOK
<1> QED
    BY InitTypeOK, NextTypeOK, PTL DEF Spec

-----------------------------------------------------------------------------
(* The phases of the client and of the session *)

\* Lines that neither welcome nor refuse, and commands other than NICK, leave
\* what the phases say as it is.
LEMMA KeepsPhases ==
    ASSUME PhasesAgree, NickOnce, UNCHANGED <<phase, session>>,
           \A k \in {"001", "464"} : k \in Kinds(wire') <=> k \in Kinds(wire),
           phase = "lost" => wire' = wire,
           Once(cmds'), "nick" \in ToSet(cmds') => "nick" \in ToSet(cmds)
    PROVE  PhasesAgree' /\ NickOnce'
BY DEF PhasesAgree, NickOnce

\* The same for a line or more added to the wire of a session that is there.
LEMMA SaidKeeps ==
    ASSUME wire \in Seq(Line), NEW t \in Seq(Line), wire' = wire \o t,
           \A l \in ToSet(t) : l[1] \notin {"001", "464"}
    PROVE  /\ \A k \in {"001", "464"} : k \in Kinds(wire') <=> k \in Kinds(wire)
           /\ AfterWelcome(wire) \subseteq AfterWelcome(wire')
           /\ ToSet(wire') = ToSet(wire) \cup ToSet(t)
           /\ "001" \in Kinds(wire) => ToSet(t) \subseteq AfterWelcome(wire')
<1>1. "001" \notin Kinds(t) /\ "464" \notin Kinds(t)
    BY DEF Kinds
<1> QED
    BY <1>1, AddedLines

\* A line of one entry, on the wire or not.
LEMMA BroadcastKeeps ==
    ASSUME TypeOK, NEW e \in Entry, Broadcast(e)
    PROVE  /\ \A k \in {"001", "464"} : k \in Kinds(wire') <=> k \in Kinds(wire)
           /\ AfterWelcome(wire) \subseteq AfterWelcome(wire')
           /\ ToSet(wire) \subseteq ToSet(wire')
           /\ ToSet(wire') \subseteq ToSet(wire) \cup {e}
           /\ Subscribed => e \in ToSet(wire')
           /\ Subscribed /\ "001" \in Kinds(wire) => e \in AfterWelcome(wire')
<1>1. e \in Line /\ e[1] \in {"live", "mine", "other"}
    BY LineKinds DEF Entry
<1> DEFINE t == <<e>>
<1>2. t \in Seq(Line) /\ ToSet(t) = {e}
    BY <1>1, SingletonFacts
<1>3. wire \in Seq(Line) /\ (Subscribed => wire' = wire \o t) /\ (~Subscribed => wire' = wire)
    BY BroadcastFacts DEF TypeOK
<1> HIDE DEF t
<1>4. \A l \in ToSet(t) : l[1] \notin {"001", "464"}
    BY <1>1, <1>2
<1> QED
    BY <1>2, <1>3, <1>4, SaidKeeps

\* A command that is not a granted action changes no history, and is answered by
\* no line, or by lines that tell of nothing granted since.
LEMMA OtherAnswers ==
    ASSUME TypeOK, HandleCommand, ~(Head(cmds) \in Actions /\ Answer(Head(cmds)))
    PROVE  /\ UNCHANGED <<log, holder, granted>>
           /\ wire' = wire \/ \E t \in Seq(Line) :
                /\ wire' = wire \o t
                /\ \A l \in ToSet(t) :
                     /\ l[1] \notin {"001", "464", "mine"}
                     /\ l[1] = "past" =>
                          \E i \in DOMAIN log : log[i][1] = "mine" /\ log[i][2] = l[2]
<1> DEFINE c == Head(cmds)
           Plain(t) == \A l \in ToSet(t) :
                         /\ l[1] \notin {"001", "464", "mine"}
                         /\ l[1] = "past" =>
                              \E i \in DOMAIN log : log[i][1] = "mine" /\ log[i][2] = l[2]
<1>1. /\ UNCHANGED <<log, holder, granted>>
      /\ \/ wire' = wire
         \/ wire' = wire \o <<<<"failed", c>>>> /\ c \in Actions
         \/ \E kind \in {"listing", "empty"} : wire' = wire \o <<<<kind, None>>>>
         \/ \E after \in 0..Len(log) : wire' = wire \o Replay("history", after)
    BY DEF HandleCommand, Say
<1>2. ASSUME NEW k \in {"failed", "listing", "empty"}, NEW x, <<k, x>> \in Line
      PROVE  <<<<k, x>>>> \in Seq(Line) /\ Plain(<<<<k, x>>>>)
    <2>1. <<<<k, x>>>> \in Seq(Line) /\ ToSet(<<<<k, x>>>>) = {<<k, x>>}
        BY <1>2, SingletonFacts
    <2> QED
        BY <2>1
<1>3. ASSUME NEW after \in 0..Len(log)
      PROVE  Replay("history", after) \in Seq(Line) /\ Plain(Replay("history", after))
    BY ReplayFacts DEF TypeOK
<1> HIDE DEF Plain
<1>4. CASE wire' = wire \o <<<<"failed", c>>>> /\ c \in Actions
    <2>1. <<"failed", c>> \in Line
        BY <1>4, LineKinds
    <2> QED
        BY <1>1, <1>2, <1>4, <2>1 DEF Plain
<1>5. ASSUME NEW kind \in {"listing", "empty"}, wire' = wire \o <<<<kind, None>>>>
      PROVE  \E t \in Seq(Line) : wire' = wire \o t /\ Plain(t)
    BY <1>2, <1>5, LineKinds
<1>6. ASSUME NEW after \in 0..Len(log), wire' = wire \o Replay("history", after)
      PROVE  \E t \in Seq(Line) : wire' = wire \o t /\ Plain(t)
    BY <1>3, <1>6
<1> QED
    BY <1>1, <1>4, <1>5, <1>6 DEF Plain

LEMMA NextBaseInv == BaseInv /\ [Next]_vars => BaseInv'
<1> SUFFICES ASSUME BaseInv, [Next]_vars PROVE BaseInv'
    OBVIOUS
<1> USE DEF net, server, requests, outgoing, vars
<1>0. /\ wire \in Seq(Line) /\ cmds \in Seq(Command) /\ TypeOK
      /\ PhasesAgree /\ NickOnce /\ MarksCurrent /\ Once(cmds)
    BY DEF BaseInv, TypeOK, NickOnce
<1>a. TypeOK'
    BY NextTypeOK DEF BaseInv
<1> SUFFICES PhasesAgree' /\ NickOnce' /\ MarksCurrent'
    BY <1>a DEF BaseInv
<1>1. CASE UNCHANGED <<phase, session, wire, cmds, log, marked, snapshot>>
    BY <1>0, <1>1 DEF PhasesAgree, NickOnce, MarksCurrent
<1>2. ASSUME NEW e \in Entry, Broadcast(e),
             phase' = phase, session' = session, snapshot' = snapshot,
             \/ cmds' = cmds
             \/ cmds # <<>> /\ cmds' = Tail(cmds)
      PROVE  PhasesAgree' /\ NickOnce' /\ MarksCurrent'
    <2>1. \A k \in {"001", "464"} : k \in Kinds(wire') <=> k \in Kinds(wire)
        BY <1>0, <1>2, BroadcastKeeps
    <2>2. phase = "lost" => wire' = wire
        BY <1>0, <1>2, BroadcastFacts DEF PhasesAgree, Subscribed
    <2>3. Once(cmds') /\ ("nick" \in ToSet(cmds') => "nick" \in ToSet(cmds))
        BY <1>0, <1>2, OnceFacts, TailFacts
    <2>4. MarksCurrent'
        <3>1. Len(log') = Len(log) + 1 /\ (Subscribed => marked' = Len(log'))
            BY <1>0, <1>2, BroadcastFacts
        <3>2. Len(log) \in Nat /\ snapshot \in 0..Len(log)
            BY <1>0 DEF TypeOK
        <3> QED
            BY <1>2, <3>1, <3>2 DEF MarksCurrent, Subscribed
    <2> QED
        BY <1>0, <1>2, <2>1, <2>2, <2>3, <2>4, KeepsPhases
<1>3. ASSUME NEW m \in Message, Publish(m) PROVE PhasesAgree' /\ NickOnce' /\ MarksCurrent'
    <2>1. <<"live", m>> \in Entry
        BY LineKinds
    <2>2. \E e \in Entry : Broadcast(e)
        BY <1>3, <2>1 DEF Publish
    <2>3. phase' = phase /\ session' = session /\ snapshot' = snapshot /\ cmds' = cmds
        BY <1>3 DEF Publish
    <2> QED
        BY <1>2, <2>2, <2>3
<1>4. CASE OtherClaims \/ OtherDone
    <2>2. \E e \in Entry : Broadcast(e)
        BY <1>4, OthersAct
    <2>3. phase' = phase /\ session' = session /\ snapshot' = snapshot /\ cmds' = cmds
        BY <1>4 DEF OtherClaims, OtherDone
    <2> QED
        BY <1>2, <2>2, <2>3
<1>5. CASE HandleUnregistered
    <2> DEFINE c == Head(cmds)
    <2>1. /\ cmds # <<>> /\ cmds' = Tail(cmds) /\ session = "connected" /\ phase' = phase
          /\ UNCHANGED <<log, marked>>
        BY <1>5 DEF HandleUnregistered
    <2>2. /\ Once(cmds') /\ (c = "nick" => "nick" \notin ToSet(cmds'))
          /\ ToSet(cmds') \subseteq ToSet(cmds) /\ c \in ToSet(cmds)
        BY <1>0, <2>1, OnceFacts, TailFacts
    <2>3. CASE c = "nick" /\ session' = "inserted" /\ snapshot' = marked /\ wire' = wire
        <3>1. phase = "registering" /\ "464" \notin Kinds(wire) /\ "001" \notin Kinds(wire)
            BY <1>0, <2>1, <2>2, <2>3 DEF NickOnce, PhasesAgree
        <3>2. marked' = marked /\ marked \in Nat
            BY <1>0, <2>1 DEF TypeOK
        <3> QED
            BY <1>0, <2>1, <2>2, <2>3, <3>1, <3>2 DEF PhasesAgree, NickOnce, MarksCurrent
    <2>4. CASE c = "nick" /\ wire' = wire \o <<<<"464", None>>>> /\ session' = session
        <3> DEFINE t == <<<<"464", None>>>>
        <3>1. t \in Seq(Line) /\ Kinds(t) = {"464"}
            <4>1. <<"464", None>> \in Line
                BY LineKinds
            <4>2. ToSet(t) = {<<"464", None>>} /\ t \in Seq(Line)
                BY <4>1, SingletonFacts
            <4> QED
                BY <4>2 DEF Kinds
        <3> HIDE DEF t
        <3>2. wire' = wire \o t
            BY <2>4 DEF t
        <3>3. Kinds(wire') = Kinds(wire) \cup {"464"}
            BY <1>0, <3>1, <3>2, AddedLines
        <3>4. phase = "registering" /\ "001" \notin Kinds(wire)
            BY <1>0, <2>1, <2>2, <2>4 DEF NickOnce, PhasesAgree
        <3> QED
            BY <1>0, <2>1, <2>2, <2>4, <3>3, <3>4 DEF PhasesAgree, NickOnce, MarksCurrent
    <2>5. CASE UNCHANGED <<wire, session, snapshot>>
        <3>1. PhasesAgree' /\ NickOnce'
            BY <1>0, <2>1, <2>2, <2>5, KeepsPhases
        <3> QED
            BY <1>0, <2>1, <2>5, <3>1 DEF MarksCurrent
    <2> QED
        BY <1>5, <2>3, <2>4, <2>5 DEF HandleUnregistered, Say
<1>6. CASE Welcome
    <2> DEFINE w == <<<<"001", None>>>>
               r == Replay("catchup", ReplayFrom)
    <2>1. /\ session = "inserted" /\ session' = "registered" /\ wire' = wire \o (w \o r)
          /\ marked' = Len(log) /\ log' = log /\ phase' = phase /\ cmds' = cmds
        BY <1>6 DEF Welcome, Say, Top
    <2>2. w \in Seq(Line) /\ Kinds(w) = {"001"}
        <3>1. <<"001", None>> \in Line
            BY LineKinds
        <3>2. ToSet(w) = {<<"001", None>>} /\ w \in Seq(Line)
            BY <3>1, SingletonFacts
        <3> QED
            BY <3>2 DEF Kinds
    <2>3. r \in Seq(Line) /\ Kinds(r) \subseteq {"catchup", "past", "pastother"}
        BY <1>0, ReplayFacts DEF TypeOK, ReplayFrom, Kinds
    <2> HIDE DEF w, r
    <2>4. w \o r \in Seq(Line) /\ Kinds(w \o r) = {"001"} \cup Kinds(r)
        BY <2>2, <2>3, AddedLines
    <2>5. Kinds(wire') = Kinds(wire) \cup Kinds(w \o r)
        BY <1>0, <2>1, <2>4, AddedLines
    <2>6. phase = "registering" /\ "nick" \notin ToSet(cmds) /\ "464" \notin Kinds(wire)
        BY <1>0, <2>1 DEF PhasesAgree, NickOnce, TypeOK
    <2>7. "001" \in Kinds(wire') /\ "464" \notin Kinds(wire')
        BY <2>3, <2>4, <2>5, <2>6
    <2> QED
        BY <1>0, <2>1, <2>6, <2>7 DEF PhasesAgree, NickOnce, MarksCurrent
<1>7. CASE HandleCommand
    <2> DEFINE c == Head(cmds)
    <2>1. /\ session = "registered" /\ cmds # <<>> /\ cmds' = Tail(cmds)
          /\ UNCHANGED <<phase, session, snapshot>> /\ c \in Command
        BY <1>0, <1>7, TailFacts DEF HandleCommand
    <2>2. CASE c \in Actions /\ Answer(c)
        <3>1. <<"mine", c>> \in Entry
            BY <2>2, LineKinds
        <3>2. Broadcast(<<"mine", c>>)
            BY <1>7, <2>2, TextsDiffer DEF HandleCommand, Actions, AllKeys
        <3> QED
            BY <1>2, <2>1, <3>1, <3>2
    <2>3. CASE ~(c \in Actions /\ Answer(c))
        <3>1. /\ log' = log
              /\ wire' = wire \/ \E t \in Seq(Line) :
                   wire' = wire \o t /\ \A l \in ToSet(t) : l[1] \notin {"001", "464"}
            BY <1>0, <1>7, <2>3, OtherAnswers
        <3>2. \A k \in {"001", "464"} : k \in Kinds(wire') <=> k \in Kinds(wire)
            BY <1>0, <3>1, SaidKeeps
        <3>3. Once(cmds') /\ ("nick" \in ToSet(cmds') => "nick" \in ToSet(cmds))
            BY <1>0, <2>1, OnceFacts, TailFacts
        <3>4. marked' = marked
            BY <1>0, <1>7, <2>1, <2>3 DEF HandleCommand, MarksCurrent, Top
        <3>5. phase # "lost"
            BY <1>0, <2>1 DEF PhasesAgree
        <3>6. PhasesAgree' /\ NickOnce'
            BY <1>0, <2>1, <3>2, <3>3, <3>5, KeepsPhases
        <3> QED
            BY <1>0, <2>1, <3>1, <3>4, <3>6 DEF MarksCurrent
    <2> QED
        BY <2>2, <2>3
<1>8. CASE Connect
    <2>1. /\ phase = "lost" /\ phase' = "registering" /\ session' = "connected"
          /\ UNCHANGED <<wire, cmds, log, marked, snapshot>>
        BY <1>8 DEF Connect
    <2>2. wire = <<>> /\ "nick" \notin ToSet(cmds)
        BY <1>0, <2>1 DEF PhasesAgree, NickOnce
    <2>3. Kinds(wire) = {}
        BY <2>2 DEF Kinds, ToSet
    <2> QED
        BY <1>0, <2>1, <2>2, <2>3 DEF PhasesAgree, NickOnce, MarksCurrent
<1>9. CASE SendNick
    <2>1. /\ phase = "registering" /\ "nick" \notin ToSet(cmds) /\ session = "connected"
          /\ wire = <<>> /\ cmds' = Append(cmds, "nick")
          /\ UNCHANGED <<phase, wire, session, log, marked, snapshot>>
        BY <1>9 DEF SendNick
    <2>2. Kinds(wire) = {}
        BY <2>1 DEF Kinds, ToSet
    <2>3. Once(cmds')
        BY <1>0, <2>1, OnceFacts DEF Command
    <2> QED
        BY <1>0, <2>1, <2>2, <2>3 DEF PhasesAgree, NickOnce, MarksCurrent
<1>10. CASE ReadLine
    <2>1. /\ phase # "lost" /\ wire # <<>> /\ wire' = Tail(wire)
          /\ UNCHANGED <<cmds, session, log, marked, snapshot>>
          /\ phase' = CASE phase = "registering" /\ Head(wire)[1] = "001" -> "ready"
                        [] phase = "registering" /\ Head(wire)[1] = "464" -> "refused"
                        [] OTHER -> phase
        BY <1>10 DEF ReadLine
    <2>2. Kinds(wire) = {Head(wire)[1]} \cup Kinds(wire')
        BY <1>0, <2>1, TakenLine
    <2>3. CASE phase = "registering" /\ Head(wire)[1] = "001"
        <3>1. phase' = "ready" /\ session = "registered" /\ "464" \notin Kinds(wire)
            BY <1>0, <2>1, <2>2, <2>3 DEF PhasesAgree
        <3> QED
            BY <1>0, <2>1, <2>2, <2>3, <3>1 DEF PhasesAgree, NickOnce, MarksCurrent
    <2>4. CASE phase = "registering" /\ Head(wire)[1] = "464"
        <3>1. phase' = "refused" /\ session = "connected" /\ "nick" \notin ToSet(cmds)
            BY <1>0, <2>1, <2>2, <2>4 DEF PhasesAgree, NickOnce
        <3> QED
            BY <1>0, <2>1, <2>2, <2>4, <3>1 DEF PhasesAgree, NickOnce, MarksCurrent
    <2>5. CASE phase # "registering" \/ Head(wire)[1] \notin {"001", "464"}
        <3>1. phase' = phase
            BY <2>1, <2>5
        <3> QED
            BY <1>0, <2>1, <2>2, <2>5, <3>1 DEF PhasesAgree, NickOnce, MarksCurrent
    <2> QED
        BY <2>3, <2>4, <2>5
<1>11. CASE Outgoing \/ \E k \in Keys : Call(k)
    <2>1. /\ UNCHANGED <<phase, session, wire, log, marked, snapshot>>
          /\ cmds' = cmds \/ \E c \in Command \ {"nick"} : cmds' = Append(cmds, c)
        <3>1. ASSUME Outgoing
              PROVE  cmds' = cmds \/ \E c \in Command \ {"nick"} : cmds' = Append(cmds, c)
            <4>1. outq # <<>> /\ outq \in Seq(Outbound)
                BY <1>0, <3>1 DEF Outgoing, TypeOK
            <4>2. Head(outq) \in Command \ {"nick"}
                BY <4>1, TailFacts, TextsDiffer DEF Command
            <4> QED
                BY <3>1, <4>2 DEF Outgoing
        <3>2. ASSUME NEW k \in Keys, Call(k)
              PROVE  cmds' = cmds \/ \E c \in Command \ {"nick"} : cmds' = Append(cmds, c)
            BY <3>2, KnownKeys DEF Call, Command, AllKeys
        <3> QED
            BY <1>11, <3>1, <3>2 DEF Outgoing, Call
    <2>2. Once(cmds') /\ ("nick" \in ToSet(cmds') => "nick" \in ToSet(cmds))
        <3>1. ASSUME NEW c \in Command \ {"nick"}, cmds' = Append(cmds, c)
              PROVE  Once(cmds') /\ ("nick" \in ToSet(cmds') => "nick" \in ToSet(cmds))
            BY <1>0, <3>1, OnceFacts, AppendFacts
        <3> QED
            BY <1>0, <2>1, <3>1
    <2>3. PhasesAgree' /\ NickOnce'
        BY <1>0, <2>1, <2>2, KeepsPhases
    <2> QED
        BY <1>0, <2>1, <2>3 DEF MarksCurrent
<1>12. CASE Lose
    <2>1. phase' = "lost" /\ session' = "none" /\ wire' = <<>> /\ cmds' = <<>>
        BY <1>12 DEF Lose
    <2>2. Kinds(wire') = {} /\ ToSet(cmds') = {} /\ DOMAIN cmds' = {}
        BY <2>1 DEF Kinds, ToSet
    <2> QED
        BY <2>1, <2>2 DEF PhasesAgree, NickOnce, MarksCurrent, Once
<1>13. CASE \/ UNCHANGED vars \/ OtherReturns \/ Route \/ GiveUp
            \/ \E k \in Keys : FinalizeSyncRequest(k) \/ Return(k)
            \/ \E m \in Outbound : SendMessage(m)
    <2>1. UNCHANGED <<phase, session, wire, cmds, log, marked, snapshot>>
        BY <1>13 DEF OtherReturns, Route, GiveUp, FinalizeSyncRequest, Return, SendMessage
    <2> QED
        BY <1>1, <2>1
<1> QED
    BY <1>3, <1>4, <1>5, <1>6, <1>7, <1>8, <1>9, <1>10, <1>11, <1>12, <1>13
    DEF Next, ServerStep, ClientStep

-----------------------------------------------------------------------------
(* Nothing that is counted as seen is missed *)

\* The messages that come out of the router, as things are, or are given up.
Coming ==
    accepted \cup consumed \cup cut \cup Fresh(ToSet(queue))
        \cup (IF phase = "ready" THEN Fresh(ToSet(wire)) ELSE {})
        \cup (IF phase = "registering" THEN Fresh(AfterWelcome(wire)) ELSE {})

\* Marks stand for messages that come, or that the replay will bring.
LEMMA MarkedIsComing ==
    /\ MarkedReachesRouter <=>
         \A i \in 1..marked : log[i][1] = "live" =>
            log[i][2] \in Coming \/ (session = "inserted" /\ i > snapshot)
    /\ MarkedReachesRouter' <=>
         \A i \in 1..marked' : log'[i][1] = "live" =>
            log'[i][2] \in Coming' \/ (session' = "inserted" /\ i > snapshot')
<1>1. ASSUME NEW x
      PROVE  x \in Coming <=>
                \/ x \in accepted \cup consumed \cup cut \cup Fresh(ToSet(queue))
                \/ phase = "ready" /\ x \in Fresh(ToSet(wire))
                \/ phase = "registering" /\ x \in Fresh(AfterWelcome(wire))
    BY DEF Coming
<1>2. ASSUME NEW x
      PROVE  x \in Coming' <=>
                \/ x \in accepted' \cup consumed' \cup cut' \cup Fresh(ToSet(queue'))
                \/ phase' = "ready" /\ x \in Fresh(ToSet(wire'))
                \/ phase' = "registering" /\ x \in Fresh(AfterWelcome(wire'))
    BY DEF Coming
<1> QED
    BY <1>1, <1>2 DEF MarkedReachesRouter

\* A step that makes no marks and takes no message from those that come.
LEMMA ComingKept ==
    ASSUME MarkedReachesRouter, UNCHANGED <<log, marked>>, Coming \subseteq Coming',
           session = "inserted" => session' = session /\ snapshot' = snapshot
    PROVE  MarkedReachesRouter'
<1>1. log' = log /\ marked' = marked
    OBVIOUS
<1> SUFFICES ASSUME NEW i \in 1..marked', log'[i][1] = "live"
             PROVE  log'[i][2] \in Coming' \/ (session' = "inserted" /\ i > snapshot')
    BY MarkedIsComing
<1>2. i \in 1..marked /\ log[i][1] = "live"
    BY <1>1
<1>3. log[i][2] \in Coming \/ (session = "inserted" /\ i > snapshot)
    BY <1>2, MarkedIsComing
<1> QED
    BY <1>1, <1>3

\* What comes does so from these places.
LEMMA ComingGrows ==
    ASSUME accepted \cup consumed \cup cut \cup Fresh(ToSet(queue)) \subseteq
             accepted' \cup consumed' \cup cut' \cup Fresh(ToSet(queue')),
           phase' = phase, ToSet(wire) \subseteq ToSet(wire'),
           AfterWelcome(wire) \subseteq AfterWelcome(wire')
    PROVE  Coming \subseteq Coming'
<1>1. /\ Fresh(ToSet(wire)) \subseteq Fresh(ToSet(wire'))
      /\ Fresh(AfterWelcome(wire)) \subseteq Fresh(AfterWelcome(wire'))
    BY AboutMore
<1> QED
    BY <1>1 DEF Coming

LEMMA NextMarked == LinkInv /\ [Next]_vars => MarkedReachesRouter'
<1> SUFFICES ASSUME LinkInv, [Next]_vars PROVE MarkedReachesRouter'
    OBVIOUS
<1> USE DEF net, server, requests, outgoing, vars
<1>0. /\ wire \in Seq(Line) /\ queue \in Seq(Line) /\ cmds \in Seq(Command) /\ log \in Seq(Entry)
      /\ marked \in 0..Len(log) /\ snapshot \in 0..Len(log) /\ Len(log) \in Nat
      /\ TypeOK /\ PhasesAgree /\ NickOnce /\ MarksCurrent /\ MarkedReachesRouter
    BY DEF LinkInv, BaseInv, TypeOK
<1>1. CASE UNCHANGED <<phase, session, wire, queue, log, marked, snapshot, accepted, consumed, cut>>
    <2>1. Coming' = Coming
        BY <1>1 DEF Coming
    <2> QED
        BY <1>0, <1>1, <2>1, ComingKept
<1>2. ASSUME NEW e \in Entry, Broadcast(e), e[1] = "live" => e[2] \in Message,
             phase' = phase, session' = session, snapshot' = snapshot, queue' = queue,
             accepted' = accepted, consumed' = consumed, cut' = cut
      PROVE  MarkedReachesRouter'
    <2>1. /\ Len(log') = Len(log) + 1
          /\ \A i \in 1..Len(log) : log'[i] = log[i]
          /\ log'[Len(log) + 1] = e
          /\ Subscribed => marked' = Len(log) + 1
          /\ ~Subscribed => marked' = marked
        BY <1>0, <1>2, BroadcastFacts
    <2>2. Coming \subseteq Coming'
        BY <1>0, <1>2, BroadcastKeeps, ComingGrows
    <2>3. ASSUME session = "registered", e[1] = "live" PROVE e[2] \in Coming'
        <3>1. CASE phase = "ready"
            <4>1. e[2] \in Fresh(ToSet(wire'))
                BY <1>0, <1>2, <2>3, BroadcastKeeps, AboutMore DEF Subscribed
            <4> QED
                BY <1>2, <3>1, <4>1 DEF Coming
        <3>2. CASE phase = "registering"
            <4>1. "001" \in Kinds(wire)
                BY <1>0, <2>3, <3>2 DEF PhasesAgree
            <4>2. e[2] \in Fresh(AfterWelcome(wire'))
                BY <1>0, <1>2, <2>3, <4>1, BroadcastKeeps, AboutMore DEF Subscribed
            <4> QED
                BY <1>2, <3>2, <4>2 DEF Coming
        <3> QED
            BY <1>0, <2>3, <3>1, <3>2 DEF PhasesAgree, TypeOK
    <2> SUFFICES ASSUME NEW i \in 1..marked', log'[i][1] = "live"
                 PROVE  log'[i][2] \in Coming' \/ (session' = "inserted" /\ i > snapshot')
        BY MarkedIsComing
    <2>4. CASE i \in 1..marked
        <3>1. log'[i] = log[i]
            BY <1>0, <2>1, <2>4
        <3> QED
            BY <1>0, <1>2, <2>2, <2>4, <3>1, MarkedIsComing
    <2>5. CASE session = "inserted" /\ i \notin 1..marked
        <3>1. i > snapshot
            BY <1>0, <2>1, <2>5 DEF MarksCurrent
        <3> QED
            BY <1>2, <2>5, <3>1
    <2>6. CASE session = "registered" /\ i \notin 1..marked
        <3>1. i = Len(log) + 1
            BY <1>0, <2>1, <2>6 DEF MarksCurrent, Subscribed
        <3> QED
            BY <1>2, <2>1, <2>3, <2>6, <3>1
    <2> QED
        BY <2>1, <2>4, <2>5, <2>6 DEF Subscribed
<1>3. ASSUME NEW m \in Message, Publish(m) PROVE MarkedReachesRouter'
    <2>1. <<"live", m>> \in Entry /\ <<"live", m>>[2] = m
        BY LineKinds
    <2>2. \E e \in Entry : Broadcast(e) /\ (e[1] = "live" => e[2] \in Message)
        BY <1>3, <2>1 DEF Publish
    <2>3. /\ phase' = phase /\ session' = session /\ snapshot' = snapshot /\ queue' = queue
          /\ accepted' = accepted /\ consumed' = consumed /\ cut' = cut
        BY <1>3 DEF Publish
    <2> QED
        BY <1>2, <2>2, <2>3
<1>4. CASE OtherClaims \/ OtherDone
    <2>2. \E e \in Entry : Broadcast(e) /\ (e[1] = "live" => e[2] \in Message)
        BY <1>4, OthersAct
    <2>3. /\ phase' = phase /\ session' = session /\ snapshot' = snapshot /\ queue' = queue
          /\ accepted' = accepted /\ consumed' = consumed /\ cut' = cut
        BY <1>4 DEF OtherClaims, OtherDone
    <2> QED
        BY <1>2, <2>2, <2>3
<1>5. CASE HandleUnregistered
    <2>1. /\ UNCHANGED <<phase, queue, log, marked, accepted, consumed, cut>>
          /\ session = "connected"
          /\ wire' = wire \/ wire' = wire \o <<<<"464", None>>>>
        BY <1>5 DEF HandleUnregistered, Say
    <2>2. wire' = wire \/ \E t \in Seq(Line) : wire' = wire \o t
        BY <2>1, ShortLines
    <2>3. /\ ToSet(wire) \subseteq ToSet(wire')
          /\ AfterWelcome(wire) \subseteq AfterWelcome(wire')
        <3>1. CASE wire' = wire
            BY <3>1
        <3>2. ASSUME NEW t \in Seq(Line), wire' = wire \o t
              PROVE  /\ ToSet(wire) \subseteq ToSet(wire')
                     /\ AfterWelcome(wire) \subseteq AfterWelcome(wire')
            BY <1>0, <3>2, AddedLines
        <3> QED
            BY <2>2, <3>1, <3>2
    <2>4. Coming \subseteq Coming'
        BY <2>1, <2>3, ComingGrows
    <2> QED
        BY <1>0, <2>1, <2>4, ComingKept
<1>6. CASE Welcome
    <2> DEFINE w == <<<<"001", None>>>>
               r == Replay("catchup", ReplayFrom)
    <2>1. /\ session = "inserted" /\ wire' = wire \o (w \o r)
          /\ marked' = Len(log)
          /\ UNCHANGED <<phase, queue, log, accepted, consumed, cut, snapshot>>
        BY <1>6 DEF Welcome, Say, Top
    <2>2. w \in Seq(Line) /\ "001" \in Kinds(w)
        <3>1. <<"001", None>> \in Line
            BY LineKinds
        <3>2. ToSet(w) = {<<"001", None>>} /\ w \in Seq(Line)
            BY <3>1, SingletonFacts
        <3> QED
            BY <3>2 DEF Kinds
    <2>3. /\ r \in Seq(Line)
          /\ \A i \in (snapshot + 1)..Len(log) : log[i][1] = "live" => <<"catchup", log[i][2]>> \in ToSet(r)
        BY <1>0, ReplayFacts DEF ReplayFrom
    <2> HIDE DEF w, r
    <2>4. w \o r \in Seq(Line) /\ ToSet(r) \subseteq AfterWelcome(w \o r)
        BY <2>2, <2>3, AddedLines
    <2>5. /\ wire' = (wire \o w) \o r /\ wire \o w \in Seq(Line) /\ "001" \in Kinds(wire \o w)
        <3>1. wire' = (wire \o w) \o r
            <4>1. \A s, t, u \in Seq(Line) : (s \o t) \o u = s \o (t \o u)
                BY ConcatAssociative
            <4> QED
                BY <1>0, <2>1, <2>2, <2>3, <4>1
        <3> QED
            BY <1>0, <2>2, <3>1, AddedLines
    <2>6. ToSet(r) \subseteq AfterWelcome(wire')
        BY <2>3, <2>5, AddedLines
    <2>7. ToSet(wire) \subseteq ToSet(wire') /\ AfterWelcome(wire) \subseteq AfterWelcome(wire')
        BY <1>0, <2>1, <2>4, AddedLines
    <2>8. Coming \subseteq Coming'
        BY <2>1, <2>7, ComingGrows
    <2>9. phase' = "registering"
        BY <1>0, <2>1 DEF PhasesAgree, TypeOK
    <2> SUFFICES ASSUME NEW i \in 1..marked', log'[i][1] = "live" PROVE log'[i][2] \in Coming'
        BY MarkedIsComing
    <2>a. i \in 1..Len(log) /\ log' = log /\ log[i][1] = "live"
        BY <2>1
    <2>10. CASE i > snapshot
        <3>1. <<"catchup", log[i][2]>> \in AfterWelcome(wire')
            BY <1>0, <2>3, <2>6, <2>10, <2>a
        <3>2. log[i][2] \in Fresh(AfterWelcome(wire'))
            BY <3>1, AboutMore
        <3> QED
            BY <2>9, <2>a, <3>2 DEF Coming
    <2>11. CASE ~(i > snapshot)
        <3>1. i \in 1..marked
            BY <1>0, <2>1, <2>11, <2>a DEF MarksCurrent
        <3> QED
            BY <1>0, <2>8, <2>11, <2>a, <3>1, MarkedIsComing
    <2> QED
        BY <2>10, <2>11
<1>7. CASE HandleCommand
    <2> DEFINE c == Head(cmds)
    <2>1. /\ session = "registered" /\ session' = "registered" /\ snapshot' = snapshot
          /\ phase' = phase /\ queue' = queue
          /\ accepted' = accepted /\ consumed' = consumed /\ cut' = cut
        BY <1>7 DEF HandleCommand
    <2>2. CASE c \in Actions /\ Answer(c)
        <3>1. <<"mine", c>> \in Entry /\ <<"mine", c>>[1] # "live"
            BY <2>2, LineKinds
        <3>2. \E e \in Entry : Broadcast(e) /\ (e[1] = "live" => e[2] \in Message)
            BY <1>7, <2>2, <3>1, TextsDiffer DEF HandleCommand, Actions, AllKeys
        <3> QED
            BY <1>2, <2>1, <3>2
    <2>3. CASE ~(c \in Actions /\ Answer(c))
        <3>1. log' = log /\ (wire' = wire \/ \E t \in Seq(Line) : wire' = wire \o t)
            BY <1>0, <1>7, <2>3, OtherAnswers
        <3>2. /\ ToSet(wire) \subseteq ToSet(wire')
              /\ AfterWelcome(wire) \subseteq AfterWelcome(wire')
            <4>1. CASE wire' = wire
                BY <4>1
            <4>2. ASSUME NEW t \in Seq(Line), wire' = wire \o t
                  PROVE  /\ ToSet(wire) \subseteq ToSet(wire')
                         /\ AfterWelcome(wire) \subseteq AfterWelcome(wire')
                BY <1>0, <4>2, AddedLines
            <4> QED
                BY <3>1, <4>1, <4>2
        <3>3. marked' = marked
            BY <1>0, <1>7, <2>1, <2>3 DEF HandleCommand, MarksCurrent, Top
        <3>4. Coming \subseteq Coming'
            BY <2>1, <3>2, ComingGrows
        <3> QED
            BY <1>0, <2>1, <3>1, <3>3, <3>4, ComingKept
    <2> QED
        BY <2>2, <2>3
<1>8. CASE Connect
    <2>1. /\ phase = "lost" /\ UNCHANGED <<wire, queue, log, marked, snapshot, accepted, consumed, cut>>
        BY <1>8 DEF Connect
    <2>2. Coming \subseteq Coming' /\ session = "none"
        BY <1>0, <2>1 DEF Coming, PhasesAgree
    <2> QED
        BY <1>0, <2>1, <2>2, ComingKept
<1>9. CASE ReadLine
    <2>1. /\ phase # "lost" /\ wire # <<>> /\ wire' = Tail(wire)
          /\ UNCHANGED <<session, log, marked, snapshot, accepted, consumed, cut>>
          /\ phase' = CASE phase = "registering" /\ Head(wire)[1] = "001" -> "ready"
                        [] phase = "registering" /\ Head(wire)[1] = "464" -> "refused"
                        [] OTHER -> phase
          /\ queue' = IF phase = "ready" THEN Append(queue, Head(wire)) ELSE queue
        BY <1>9 DEF ReadLine
    <2> DEFINE h == Head(wire)
    <2>2. /\ h \in Line /\ wire' \in Seq(Line) /\ ToSet(wire) = {h} \cup ToSet(wire')
          /\ Kinds(wire) = {h[1]} \cup Kinds(wire')
          /\ AfterWelcome(wire) \subseteq ToSet(wire')
          /\ h[1] # "001" => AfterWelcome(wire) \subseteq AfterWelcome(wire')
        BY <1>0, <2>1, TakenLine
    <2> HIDE DEF h
    <2>3. CASE phase = "ready"
        <3>1. phase' = "ready" /\ queue' = Append(queue, h)
            BY <2>1, <2>3 DEF h
        <3>2. ToSet(queue') = ToSet(queue) \cup {h}
            BY <1>0, <2>2, <3>1, AppendFacts
        <3>3. ToSet(queue) \cup ToSet(wire) = ToSet(queue') \cup ToSet(wire')
            BY <2>2, <3>2
        <3>4. Fresh(ToSet(queue)) \cup Fresh(ToSet(wire)) = Fresh(ToSet(queue')) \cup Fresh(ToSet(wire'))
            <4> DEFINE before == ToSet(queue) \cup ToSet(wire)
                       after == ToSet(queue') \cup ToSet(wire')
            <4>1. /\ Fresh(before) = Fresh(ToSet(queue)) \cup Fresh(ToSet(wire))
                  /\ Fresh(after) = Fresh(ToSet(queue')) \cup Fresh(ToSet(wire'))
                BY AboutMore
            <4>2. before = after
                BY <3>3
            <4> HIDE DEF before, after
            <4> QED
                BY <4>1, <4>2
        <3> QED
            <4>1. Coming \subseteq Coming'
                BY <2>1, <2>3, <3>1, <3>4 DEF Coming
            <4> QED
                BY <1>0, <2>1, <4>1, ComingKept
    <2>4. CASE phase = "registering" /\ h[1] = "001"
        <3>1. phase' = "ready" /\ queue' = queue
            BY <2>1, <2>4 DEF h
        <3>2. Fresh(AfterWelcome(wire)) \subseteq Fresh(ToSet(wire'))
            BY <2>2, AboutMore
        <3>3. Coming \subseteq Coming'
            BY <2>1, <2>4, <3>1, <3>2 DEF Coming
        <3> QED
            BY <1>0, <2>1, <3>3, ComingKept
    <2>5. CASE phase = "registering" /\ h[1] = "464"
        <3>1. phase' = "refused" /\ queue' = queue
            BY <2>1, <2>5 DEF h
        <3>2. "464" \in Kinds(wire)
            BY <2>2, <2>5
        <3>3. "001" \notin Kinds(wire)
            BY <1>0, <3>2 DEF PhasesAgree
        <3>4. AfterWelcome(wire) = {}
            BY <1>0, <3>3, NoWelcome
        <3>5. Fresh(AfterWelcome(wire)) = {}
            BY <3>4 DEF Fresh, About
        <3>6. Coming \subseteq Coming'
            BY <2>1, <2>5, <3>1, <3>5 DEF Coming
        <3> QED
            BY <1>0, <2>1, <3>6, ComingKept
    <2>6. CASE phase = "registering" /\ h[1] \notin {"001", "464"}
        <3>1. phase' = phase /\ queue' = queue
            BY <2>1, <2>6 DEF h
        <3>2. Fresh(AfterWelcome(wire)) \subseteq Fresh(AfterWelcome(wire'))
            BY <2>2, <2>6, AboutMore
        <3>3. Coming \subseteq Coming'
            BY <2>1, <2>6, <3>1, <3>2 DEF Coming
        <3> QED
            BY <1>0, <2>1, <3>3, ComingKept
    <2>7. CASE phase = "refused"
        <3>1. phase' = phase /\ queue' = queue
            BY <2>1, <2>7
        <3>2. Coming \subseteq Coming'
            BY <2>1, <2>7, <3>1 DEF Coming
        <3> QED
            BY <1>0, <2>1, <3>2, ComingKept
    <2> QED
        BY <1>0, <2>1, <2>3, <2>4, <2>5, <2>6, <2>7 DEF TypeOK
<1>10. CASE Route
    <2> DEFINE l == Head(queue)
    <2>1. /\ queue # <<>> /\ queue' = Tail(queue)
          /\ UNCHANGED <<phase, wire, session, log, marked, snapshot, cut>>
        BY <1>10 DEF Route
    <2>2. l \in Line /\ ToSet(queue) = {l} \cup ToSet(queue')
        BY <1>0, <2>1, TakenLine
    <2>3. Fresh({l}) \subseteq accepted' \cup consumed' /\ accepted \cup consumed \subseteq accepted' \cup consumed'
        <3>1. Fresh({l}) = IF l[1] \in {"live", "catchup"} THEN {l[2]} ELSE {}
            BY DEF Fresh, About
        <3>2. l[1] \in {"live", "catchup"} => l[2] \in Texts(<<l>>)
            <4>1. ToSet(<<l>>) = {l}
                BY <2>2, SingletonFacts
            <4> QED
                BY <4>1 DEF Texts, About
        <3> HIDE DEF l
        <3>3. \/ IsReplay(l) /\ consumed' = (IF l[1] = "catchup" THEN consumed \cup {l[2]} ELSE consumed)
                 /\ accepted' = accepted
              \/ (IsTaskLine(l) \/ IsResult(l)) /\ UNCHANGED <<accepted, consumed>>
              \/ accepted' = accepted \cup Texts(<<l>>) /\ consumed' = consumed
            BY <1>10 DEF Route, l
        <3> QED
            BY <3>1, <3>2, <3>3 DEF IsReplay, IsTaskLine, IsResult
    <2> HIDE DEF l
    <2>4. Fresh(ToSet(queue)) = Fresh({l}) \cup Fresh(ToSet(queue'))
        BY <2>2, AboutMore
    <2>5. Coming \subseteq Coming'
        BY <2>1, <2>3, <2>4, ComingGrows
    <2> QED
        BY <1>0, <2>1, <2>5, ComingKept
<1>11. CASE Lose
    <2>1. PICK k \in 0..Len(wire) :
             /\ queue' = IF phase = "ready" THEN queue \o SubSeq(wire, 1, k) ELSE queue
             /\ cut' = cut \cup Texts(SubSeq(wire, k + 1, Len(wire)))
                           \cup Texts(IF phase = "ready" THEN <<>> ELSE wire)
                           \cup (ToSet(cmds) \cap Outbound)
                           \cup (IF session = "inserted"
                                   THEN Texts(SubSeq(log, snapshot + 1, Len(log))) ELSE {})
        BY <1>11 DEF Lose
    <2>2. /\ log' = log /\ accepted' = accepted /\ consumed' = consumed /\ session' # "inserted"
          /\ marked' = IF session = "inserted" THEN Len(log) ELSE marked
        BY <1>11 DEF Lose
    <2> DEFINE a == SubSeq(wire, 1, k)
               b == SubSeq(wire, k + 1, Len(wire))
               d == SubSeq(log, snapshot + 1, Len(log))
    <2>3. a \in Seq(Line) /\ b \in Seq(Line) /\ ToSet(wire) = ToSet(a) \cup ToSet(b)
        BY <1>0, CutFacts
    <2>4. Fresh(ToSet(wire)) = Fresh(ToSet(a)) \cup Fresh(ToSet(b)) /\ Fresh(ToSet(b)) \subseteq Texts(b)
        <3>1. \A A, B : Fresh(A \cup B) = Fresh(A) \cup Fresh(B)
            BY AboutMore
        <3>2. Fresh(ToSet(b)) \subseteq Texts(b)
            BY <2>3, TextsAreMessages
        <3> QED
            BY <2>3, <3>1, <3>2
    <2>5. Fresh(AfterWelcome(wire)) \subseteq Texts(wire)
        <3>1. Fresh(AfterWelcome(wire)) \subseteq Fresh(ToSet(wire))
            BY <1>0, NoWelcome, AboutMore
        <3> QED
            BY <1>0, <3>1, TextsAreMessages
    <2>6. \A i \in (snapshot + 1)..Len(log) : log[i][1] = "live" => log[i][2] \in Texts(d)
        <3>1. d \in Seq(Entry) /\ Len(d) = Len(log) - snapshot
            BY <1>0, CutFacts
        <3> SUFFICES ASSUME NEW i \in (snapshot + 1)..Len(log) PROVE log[i] \in ToSet(d)
            BY DEF Texts, About
        <3>2. i - snapshot \in 1..Len(d) /\ d[i - snapshot] = log[snapshot + 1 + (i - snapshot) - 1]
            BY <1>0, <3>1
        <3>3. snapshot + 1 + (i - snapshot) - 1 = i
            BY <1>0
        <3> HIDE DEF d
        <3> QED
            BY <3>1, <3>2, <3>3 DEF ToSet
    <2> HIDE DEF a, b, d
    <2>7. Coming \subseteq accepted' \cup cut' \cup consumed' \cup Fresh(ToSet(queue'))
        <3>1. cut \subseteq cut' /\ Texts(b) \subseteq cut'
            BY <2>1 DEF b
        <3>2. CASE phase = "ready"
            <4>1. queue' = queue \o a
                BY <2>1, <3>2 DEF a
            <4>2. ToSet(queue') = ToSet(queue) \cup ToSet(a)
                BY <1>0, <2>3, <4>1, AddedLines
            <4>3. Fresh(ToSet(queue')) = Fresh(ToSet(queue)) \cup Fresh(ToSet(a))
                BY <4>2, AboutMore
            <4> QED
                BY <2>2, <2>4, <3>1, <3>2, <4>3 DEF Coming
        <3>3. CASE phase # "ready"
            <4>1. queue' = queue /\ Texts(wire) \subseteq cut'
                BY <2>1, <3>3
            <4> QED
                BY <2>2, <2>5, <3>1, <3>3, <4>1 DEF Coming
        <3> QED
            BY <3>2, <3>3
    <2>8. Coming \subseteq Coming'
        BY <2>7 DEF Coming
    <2> SUFFICES ASSUME NEW i \in 1..marked', log'[i][1] = "live" PROVE log'[i][2] \in Coming'
        BY MarkedIsComing
    <2>a. log' = log /\ log[i][1] = "live"
        BY <2>2
    <2>9. CASE session = "inserted" /\ i > snapshot
        <3>1. i \in (snapshot + 1)..Len(log)
            BY <1>0, <2>2, <2>9
        <3>2. log[i][2] \in cut'
            BY <2>1, <2>6, <2>9, <2>a, <3>1 DEF d
        <3> QED
            BY <2>a, <3>2 DEF Coming
    <2>10. CASE ~(session = "inserted" /\ i > snapshot)
        <3>1. i \in 1..marked
            BY <1>0, <2>2, <2>10 DEF MarksCurrent
        <3> QED
            BY <1>0, <2>8, <2>10, <2>a, <3>1, MarkedIsComing
    <2> QED
        BY <2>9, <2>10
<1>12. CASE \/ UNCHANGED vars \/ OtherReturns \/ GiveUp \/ SendNick \/ Outgoing
            \/ \E k \in Keys : Call(k) \/ FinalizeSyncRequest(k) \/ Return(k)
            \/ \E m \in Outbound : SendMessage(m)
    <2>1. UNCHANGED <<phase, session, wire, queue, log, marked, snapshot, accepted, consumed, cut>>
        <3>1. ASSUME OtherReturns \/ SendNick \/ \E k \in Keys : Call(k)
              PROVE  UNCHANGED <<phase, session, wire, queue, log, marked, snapshot, accepted, consumed, cut>>
            BY <3>1 DEF OtherReturns, SendNick, Call
        <3> QED
            BY <1>12, <3>1 DEF GiveUp, FinalizeSyncRequest, Return, SendMessage, Outgoing
    <2> QED
        BY <1>1, <2>1
<1> QED
    BY <1>3, <1>4, <1>5, <1>6, <1>7, <1>8, <1>9, <1>10, <1>11, <1>12
    DEF Next, ServerStep, ClientStep

\* What the server counts as seen is delivered or on its way to the router, of
\* every connection, in every order of the lines and the losses, whatever the
\* client throws away while it registers.
THEOREM MarkedArrives == Spec => []MarkedReachesRouter
<1>1. Init => LinkInv
    <2> SUFFICES ASSUME Init PROVE LinkInv
        OBVIOUS
    <2>1. TypeOK
        BY InitTypeOK
    <2>2. Kinds(wire) = {} /\ ToSet(cmds) = {} /\ DOMAIN cmds = {} /\ Len(log) = 0
        BY DEF Init, Kinds, ToSet
    <2>3. PhasesAgree /\ NickOnce /\ MarksCurrent /\ MarkedReachesRouter
        BY <2>2 DEF Init, PhasesAgree, NickOnce, MarksCurrent, MarkedReachesRouter, Once
    <2> QED
        BY <2>1, <2>3 DEF LinkInv, BaseInv
<1>2. LinkInv /\ [Next]_vars => LinkInv'
    BY NextBaseInv, NextMarked DEF LinkInv
<1>3. LinkInv => MarkedReachesRouter
    BY DEF LinkInv
<1> QED
    BY <1>1, <1>2, <1>3, PTL DEF Spec

-----------------------------------------------------------------------------
(* What becomes of the messages of Claude *)

LEMMA NextOutbound == TypeOK /\ OutboundAccounted /\ [Next]_vars => OutboundAccounted'
<1> SUFFICES ASSUME TypeOK, OutboundAccounted, [Next]_vars PROVE OutboundAccounted'
    OBVIOUS
<1> USE DEF net, server, requests, outgoing, vars
<1>0. /\ wire \in Seq(Line) /\ cmds \in Seq(Command) /\ log \in Seq(Entry) /\ outq \in Seq(Outbound)
      /\ snapshot \in 0..Len(log)
    BY DEF TypeOK
<1>a. "nick" \notin Outbound /\ Keys \cap Outbound = {} /\ Message \cap Outbound = {}
    BY KnownKeys, TextsDiffer
<1>1. CASE UNCHANGED <<asked, outq, cmds, posted, refused, cut>>
    BY <1>1 DEF OutboundAccounted
<1>2. CASE HandleUnregistered
    <2>1. /\ cmds # <<>> /\ cmds' = Tail(cmds) /\ UNCHANGED <<asked, outq, posted, cut>>
          /\ refused' = refused \cup ({Head(cmds)} \cap Outbound)
        BY <1>2, <1>a DEF HandleUnregistered
    <2>2. ToSet(cmds) = {Head(cmds)} \cup ToSet(cmds')
        BY <1>0, <2>1, TailFacts
    <2> QED
        BY <2>1, <2>2 DEF OutboundAccounted
<1>3. CASE HandleCommand
    <2>1. /\ cmds # <<>> /\ cmds' = Tail(cmds) /\ UNCHANGED <<asked, outq, refused, cut>>
          /\ posted' = posted \cup ({Head(cmds)} \cap Outbound)
        BY <1>3, TextsDiffer DEF HandleCommand, Actions, AllKeys
    <2>2. ToSet(cmds) = {Head(cmds)} \cup ToSet(cmds')
        BY <1>0, <2>1, TailFacts
    <2> QED
        BY <2>1, <2>2 DEF OutboundAccounted
<1>4. CASE SendNick
    <2>1. cmds' = Append(cmds, "nick") /\ UNCHANGED <<asked, outq, posted, refused, cut>>
        BY <1>4 DEF SendNick
    <2>2. ToSet(cmds') = ToSet(cmds) \cup {"nick"}
        BY <1>0, <2>1, AppendFacts DEF Command
    <2> QED
        BY <1>a, <2>1, <2>2 DEF OutboundAccounted
<1>5. ASSUME NEW k \in Keys, Call(k) PROVE OutboundAccounted'
    <2>1. /\ cmds' = cmds \/ cmds' = Append(cmds, k)
          /\ UNCHANGED <<asked, outq, posted, refused, cut>>
        BY <1>5 DEF Call
    <2>2. k \in Command
        BY KnownKeys DEF Command
    <2>3. ToSet(Append(cmds, k)) = ToSet(cmds) \cup {k}
        BY <1>0, <2>2, AppendFacts
    <2>4. ToSet(cmds') \cap Outbound = ToSet(cmds) \cap Outbound
        BY <1>a, <2>1, <2>3
    <2> QED
        BY <2>1, <2>4 DEF OutboundAccounted
<1>6. ASSUME NEW m \in Outbound, SendMessage(m) PROVE OutboundAccounted'
    <2>1. /\ asked' = asked \cup {m} /\ outq' = Append(outq, m)
          /\ UNCHANGED <<cmds, posted, refused, cut>>
        BY <1>6 DEF SendMessage
    <2>2. ToSet(outq') = ToSet(outq) \cup {m}
        BY <1>0, <2>1, AppendFacts
    <2> QED
        BY <2>1, <2>2 DEF OutboundAccounted
<1>7. CASE Outgoing
    <2> DEFINE m == Head(outq)
    <2>1. m \in Outbound /\ Tail(outq) \in Seq(Outbound) /\ ToSet(outq) = {m} \cup ToSet(Tail(outq))
        BY <1>0, <1>7, TailFacts DEF Outgoing
    <2>2. UNCHANGED <<asked, posted, refused, cut>>
        BY <1>7 DEF Outgoing
    <2>3. CASE outq' = Append(Tail(outq), m) /\ cmds' = cmds
        <3>1. ToSet(outq') = ToSet(Tail(outq)) \cup {m}
            BY <2>1, <2>3, AppendFacts
        <3> QED
            BY <2>1, <2>2, <2>3, <3>1 DEF OutboundAccounted
    <2>4. CASE outq' = Tail(outq) /\ cmds' = Append(cmds, m)
        <3>1. m \in Command
            BY <2>1 DEF Command
        <3>2. ToSet(cmds') = ToSet(cmds) \cup {m}
            BY <1>0, <2>4, <3>1, AppendFacts
        <3> QED
            BY <2>1, <2>2, <2>4, <3>2 DEF OutboundAccounted
    <2> QED
        BY <1>7, <2>3, <2>4 DEF Outgoing, Retry
<1>8. CASE Lose
    <2>1. PICK k \in 0..Len(wire) :
             cut' = cut \cup Texts(SubSeq(wire, k + 1, Len(wire)))
                        \cup Texts(IF phase = "ready" THEN <<>> ELSE wire)
                        \cup (ToSet(cmds) \cap Outbound)
                        \cup (IF session = "inserted"
                                THEN Texts(SubSeq(log, snapshot + 1, Len(log))) ELSE {})
        BY <1>8 DEF Lose
    <2>2. cmds' = <<>> /\ UNCHANGED <<asked, outq, posted, refused>>
        BY <1>8 DEF Lose
    <2>3. /\ SubSeq(wire, k + 1, Len(wire)) \in Seq(Line)
          /\ (IF phase = "ready" THEN <<>> ELSE wire) \in Seq(Line)
        BY <1>0, CutFacts
    <2>4. SubSeq(log, snapshot + 1, Len(log)) \in Seq(Line)
        <3>1. \A S, T : S \subseteq T => Seq(S) \subseteq Seq(T)
            OBVIOUS
        <3>2. log \in Seq(Line)
            BY <1>0, <3>1, LineKinds
        <3> QED
            BY <1>0, <3>2, CutFacts
    <2>5. /\ Texts(SubSeq(wire, k + 1, Len(wire))) \subseteq Message
          /\ Texts(IF phase = "ready" THEN <<>> ELSE wire) \subseteq Message
          /\ Texts(SubSeq(log, snapshot + 1, Len(log))) \subseteq Message
        BY <2>3, <2>4, TextsAreMessages
    <2>6. cut' \cap Outbound = (cut \cap Outbound) \cup (ToSet(cmds) \cap Outbound)
        BY <1>a, <2>1, <2>5
    <2>7. ToSet(cmds') = {}
        BY <2>2 DEF ToSet
    <2> QED
        BY <2>2, <2>6, <2>7 DEF OutboundAccounted
<1>9. CASE \/ UNCHANGED vars \/ (\E m \in Message : Publish(m)) \/ OtherClaims \/ OtherDone \/ OtherReturns
           \/ Welcome \/ Connect \/ ReadLine \/ Route \/ GiveUp
           \/ \E k \in Keys : FinalizeSyncRequest(k) \/ Return(k)
    <2>1. UNCHANGED <<asked, outq, cmds, posted, refused, cut>>
        <3>1. CASE \/ UNCHANGED vars \/ (\E m \in Message : Publish(m)) \/ OtherClaims
                   \/ OtherDone \/ OtherReturns \/ Welcome
            BY <3>1 DEF Publish, OtherClaims, OtherDone, OtherReturns, Welcome
        <3>2. CASE Connect \/ ReadLine \/ Route
            BY <3>2 DEF Connect, ReadLine, Route
        <3>3. CASE GiveUp \/ \E k \in Keys : FinalizeSyncRequest(k) \/ Return(k)
            BY <3>3 DEF GiveUp, FinalizeSyncRequest, Return
        <3> QED
            BY <1>9, <3>1, <3>2, <3>3
    <2> QED
        BY <1>1, <2>1
<1> QED
    BY <1>2, <1>3, <1>4, <1>5, <1>6, <1>7, <1>8, <1>9 DEF Next, ServerStep, ClientStep

\* However often its send fails and whatever the connection does, a message Claude
\* asked the daemon to send is queued, on its way, persisted or refused, unless a
\* lost connection took it along.
THEOREM NothingDropped == Spec => []OutboundAccounted
<1>1. Init => OutboundAccounted
    BY DEF Init, OutboundAccounted, ToSet
<1> QED
    BY <1>1, InitTypeOK, NextTypeOK, NextOutbound, PTL DEF Spec

-----------------------------------------------------------------------------
(* What the bridge is told *)

\* An event of this agent, and one that a request has taken.
Event(a) == <<"mine", a>>
InHand(a) == IF a \in Keys /\ got[a] = "mine" THEN 1 ELSE 0

\* Every grant is one event at most, which is under way, taken by a request, told to
\* the bridge or gone.
GrantsCounted ==
    \A a \in Actions :
        Occurs(wire, Event(a)) + Occurs(queue, Event(a)) + InHand(a) + told[a] <= granted[a]

\* What is read from a replay is in the history.
PastKnown ==
    /\ \A l \in ToSet(wire) \cup ToSet(queue) : l[1] = "past" => Event(l[2]) \in ToSet(log)
    /\ \A k \in Keys : "past" \in {got[k], answer[k]} => Event(k) \in ToSet(log)

GrantInv == TypeOK /\ GrantsCounted /\ PastKnown

\* The numbers that are added up are numbers.
LEMMA CountTypes ==
    ASSUME TypeOK, NEW a \in Actions
    PROVE  /\ Occurs(wire, Event(a)) \in Nat /\ Occurs(queue, Event(a)) \in Nat
           /\ InHand(a) \in {0, 1} /\ told[a] \in Nat /\ granted[a] \in Nat
BY OccursFacts DEF TypeOK, InHand

\* Lines without an event of this agent leave the count as it is.
LEMMA NothingMine ==
    ASSUME NEW s \in Seq(Line), NEW t \in Seq(Line), \A l \in ToSet(t) : l[1] # "mine", NEW a
    PROVE  Occurs(s \o t, Event(a)) = Occurs(s, Event(a))
<1>1. Event(a) \notin ToSet(t)
    BY DEF Event
<1>2. Occurs(t, Event(a)) = 0 /\ Occurs(s, Event(a)) \in Nat
    BY <1>1, OccursFacts
<1> QED
    BY <1>2, OccursConcat

\* Steps at which nothing is granted or taken: it is enough to look at the lines
\* that are added.
LEMMA GrantsKept ==
    ASSUME TypeOK, GrantsCounted, PastKnown, TypeOK',
           UNCHANGED <<granted, told, got>>, ToSet(log) \subseteq ToSet(log'),
           \A a \in Actions : Occurs(wire', Event(a)) + Occurs(queue', Event(a))
                                <= Occurs(wire, Event(a)) + Occurs(queue, Event(a)),
           \A l \in ToSet(wire') \cup ToSet(queue') :
             l \in ToSet(wire) \cup ToSet(queue) \/ (l[1] = "past" => Event(l[2]) \in ToSet(log)),
           \A k \in Keys : answer'[k] \in {answer[k], None}
    PROVE  GrantsCounted' /\ PastKnown'
<1>1. ASSUME NEW a \in Actions
      PROVE  Occurs(wire', Event(a)) + Occurs(queue', Event(a)) + InHand(a)' + told'[a] <= granted'[a]
    <2>1. Occurs(wire, Event(a)) + Occurs(queue, Event(a)) + InHand(a) + told[a] <= granted[a]
        BY DEF GrantsCounted
    <2>2. InHand(a)' = InHand(a)
        BY DEF InHand
    <2>3. Occurs(wire', Event(a)) \in Nat /\ Occurs(queue', Event(a)) \in Nat
        BY OccursFacts DEF TypeOK
    <2> QED
        BY <2>1, <2>2, <2>3, CountTypes
<1>2. \A l \in ToSet(wire') \cup ToSet(queue') : l[1] = "past" => Event(l[2]) \in ToSet(log')
    BY DEF PastKnown
<1>3. \A k \in Keys : "past" \in {got'[k], answer'[k]} => Event(k) \in ToSet(log')
    BY NoneIsNothing DEF PastKnown
<1> QED
    BY <1>1, <1>2, <1>3 DEF GrantsCounted, PastKnown, Event

\* A line of one entry is added to the wire, or not.
LEMMA BroadcastCounts ==
    ASSUME TypeOK, NEW e \in Entry, Broadcast(e)
    PROVE  /\ ToSet(log') = ToSet(log) \cup {e}
           /\ ToSet(wire') \subseteq ToSet(wire) \cup {e}
           /\ \A a : Occurs(wire', Event(a)) <= Occurs(wire, Event(a)) + (IF e = Event(a) THEN 1 ELSE 0)
<1>1. ToSet(log') = ToSet(log) \cup {e}
    <2>1. log \in Seq(Entry) /\ log' = Append(log, e)
        BY DEF TypeOK, Broadcast
    <2> QED
        BY <2>1, AppendFacts
<1>2. ToSet(wire') \subseteq ToSet(wire) \cup {e}
    BY BroadcastKeeps
<1>3. ASSUME NEW a
      PROVE  Occurs(wire', Event(a)) <= Occurs(wire, Event(a)) + (IF e = Event(a) THEN 1 ELSE 0)
    <2> DEFINE w == <<e>>
    <2>1. e \in Line /\ w \in Seq(Line) /\ Occurs(w, Event(a)) = IF e = Event(a) THEN 1 ELSE 0
        <3>1. e \in Line
            BY LineKinds
        <3> QED
            BY <3>1, SingletonFacts, OccursOne
    <2>2. wire \in Seq(Line) /\ (wire' = wire \/ wire' = wire \o w)
        BY BroadcastFacts DEF TypeOK
    <2> HIDE DEF w
    <2>3. Occurs(wire \o w, Event(a)) = Occurs(wire, Event(a)) + Occurs(w, Event(a))
        BY <2>1, <2>2, OccursConcat
    <2>4. Occurs(wire, Event(a)) \in Nat
        BY <2>2, OccursFacts
    <2>5. CASE wire' = wire
        BY <2>4, <2>5
    <2>6. CASE wire' = wire \o w
        BY <2>1, <2>3, <2>4, <2>6
    <2> QED
        BY <2>2, <2>5, <2>6
<1> QED
    BY <1>1, <1>2, <1>3

LEMMA NextGrants == GrantInv /\ [Next]_vars => GrantInv'
<1> SUFFICES ASSUME GrantInv, [Next]_vars PROVE GrantInv'
    OBVIOUS
<1> USE DEF net, server, requests, outgoing, vars
<1>a. TypeOK /\ GrantsCounted /\ PastKnown /\ TypeOK'
    BY NextTypeOK DEF GrantInv
<1>b. /\ wire \in Seq(Line) /\ queue \in Seq(Line) /\ log \in Seq(Entry)
      /\ snapshot \in 0..Len(log) /\ Len(log) \in Nat /\ DOMAIN log = 1..Len(log)
    BY <1>a DEF TypeOK
<1>0. /\ TypeOK /\ GrantsCounted /\ PastKnown /\ TypeOK'
      /\ wire \in Seq(Line) /\ queue \in Seq(Line) /\ log \in Seq(Entry)
      /\ snapshot \in 0..Len(log) /\ Len(log) \in Nat /\ DOMAIN log = 1..Len(log)
    BY <1>a, <1>b
<1> SUFFICES GrantsCounted' /\ PastKnown'
    BY <1>0 DEF GrantInv
<1>1. ASSUME UNCHANGED <<wire, queue, log, granted, told, got>>,
             \A k \in Keys : answer'[k] \in {answer[k], None}
      PROVE  GrantsCounted' /\ PastKnown'
    <2>1. \A a \in Actions : Occurs(wire', Event(a)) + Occurs(queue', Event(a))
                               <= Occurs(wire, Event(a)) + Occurs(queue, Event(a))
        BY <1>0, <1>1, CountTypes
    <2>2. \A l \in ToSet(wire') \cup ToSet(queue') :
            l \in ToSet(wire) \cup ToSet(queue) \/ (l[1] = "past" => Event(l[2]) \in ToSet(log))
        BY <1>1
    <2>3. ToSet(log) \subseteq ToSet(log')
        BY <1>1
    <2> QED
        BY <1>0, <1>1, <2>1, <2>2, <2>3, GrantsKept
<1>2. ASSUME NEW e \in Entry, Broadcast(e), e[1] # "mine",
             UNCHANGED <<queue, granted, told, got, answer>>
      PROVE  GrantsCounted' /\ PastKnown'
    <2>1. /\ ToSet(log') = ToSet(log) \cup {e} /\ ToSet(wire') \subseteq ToSet(wire) \cup {e}
          /\ \A a : e # Event(a) => Occurs(wire', Event(a)) <= Occurs(wire, Event(a)) + 0
        BY <1>0, <1>2, BroadcastCounts
    <2>2. (\A a : e # Event(a)) /\ e[1] # "past"
        BY <1>2 DEF Event, Entry
    <2>3. \A a \in Actions : Occurs(wire', Event(a)) + Occurs(queue', Event(a))
                               <= Occurs(wire, Event(a)) + Occurs(queue, Event(a))
        <3> SUFFICES ASSUME NEW a \in Actions
                     PROVE  Occurs(wire', Event(a)) + Occurs(queue', Event(a))
                              <= Occurs(wire, Event(a)) + Occurs(queue, Event(a))
            OBVIOUS
        <3>1. /\ Occurs(wire, Event(a)) \in Nat /\ Occurs(queue, Event(a)) \in Nat
              /\ Occurs(wire', Event(a)) \in Nat
            BY <1>0, CountTypes, OccursFacts DEF TypeOK
        <3> QED
            BY <1>2, <2>1, <2>2, <3>1
    <2>4. \A l \in ToSet(wire') \cup ToSet(queue') :
            l \in ToSet(wire) \cup ToSet(queue) \/ (l[1] = "past" => Event(l[2]) \in ToSet(log))
        BY <1>2, <2>1, <2>2
    <2> QED
        BY <1>0, <1>2, <2>1, <2>3, <2>4, GrantsKept
<1>3. ASSUME NEW t \in Seq(Line), wire' = wire \o t,
             \A l \in ToSet(t) :
               /\ l[1] # "mine"
               /\ l[1] = "past" => \E i \in DOMAIN log : log[i][1] = "mine" /\ log[i][2] = l[2],
             UNCHANGED <<queue, log, granted, told, got, answer>>
      PROVE  GrantsCounted' /\ PastKnown'
    <2>1. \A a \in Actions : Occurs(wire', Event(a)) = Occurs(wire, Event(a))
        BY <1>0, <1>3, NothingMine
    <2>2. \A a \in Actions : Occurs(wire', Event(a)) + Occurs(queue', Event(a))
                               <= Occurs(wire, Event(a)) + Occurs(queue, Event(a))
        BY <1>0, <1>3, <2>1, CountTypes
    <2>3. \A l \in ToSet(t) : l[1] = "past" => Event(l[2]) \in ToSet(log)
        <3> SUFFICES ASSUME NEW l \in ToSet(t), l[1] = "past" PROVE Event(l[2]) \in ToSet(log)
            OBVIOUS
        <3>1. PICK i \in DOMAIN log : log[i][1] = "mine" /\ log[i][2] = l[2]
            BY <1>3
        <3>2. log[i] \in Line
            BY <1>0, LineKinds
        <3>3. log[i] = Event(l[2])
            BY <3>1, <3>2, LineFacts DEF Event
        <3> QED
            BY <3>3 DEF ToSet
    <2>4. ToSet(wire') = ToSet(wire) \cup ToSet(t)
        BY <1>0, <1>3, AddedLines
    <2>5. \A l \in ToSet(wire') \cup ToSet(queue') :
            l \in ToSet(wire) \cup ToSet(queue) \/ (l[1] = "past" => Event(l[2]) \in ToSet(log))
        BY <1>3, <2>3, <2>4
    <2> QED
        BY <1>0, <1>3, <2>2, <2>5, GrantsKept
<1>4. CASE OtherClaims \/ OtherDone \/ \E m \in Message : Publish(m)
    <2>1. \E e \in Entry : Broadcast(e) /\ e[1] # "mine"
        <3>1. ASSUME NEW m \in Message, Publish(m) PROVE \E e \in Entry : Broadcast(e) /\ e[1] # "mine"
            <4>1. <<"live", m>> \in Entry /\ <<"live", m>>[1] # "mine"
                BY LineKinds
            <4> QED
                BY <3>1, <4>1 DEF Publish
        <3> QED
            BY <1>4, <3>1, OthersAct
    <2>2. UNCHANGED <<queue, granted, told, got, answer>>
        BY <1>4 DEF OtherClaims, OtherDone, Publish
    <2> QED
        BY <1>2, <2>1, <2>2
<1>5. CASE HandleUnregistered
    <2>1. UNCHANGED <<queue, log, granted, told, got, answer>>
        BY <1>5 DEF HandleUnregistered
    <2>2. CASE wire' = wire
        BY <1>1, <2>1, <2>2
    <2>3. CASE wire' = wire \o <<<<"464", None>>>>
        <3> DEFINE t == <<<<"464", None>>>>
        <3>1. t \in Seq(Line) /\ ToSet(t) = {<<"464", None>>}
            <4>1. <<"464", None>> \in Line
                BY LineKinds
            <4> QED
                BY <4>1, SingletonFacts
        <3>2. \A l \in ToSet(t) : l[1] = "464"
            BY <3>1
        <3> HIDE DEF t
        <3>3. wire' = wire \o t
            BY <2>3 DEF t
        <3> QED
            BY <1>3, <2>1, <3>1, <3>2, <3>3
    <2> QED
        BY <1>5, <2>2, <2>3 DEF HandleUnregistered, Say
<1>6. CASE Welcome
    <2> DEFINE w == <<<<"001", None>>>>
               r == Replay("catchup", ReplayFrom)
    <2>1. wire' = wire \o (w \o r) /\ UNCHANGED <<queue, log, granted, told, got, answer>>
        BY <1>6 DEF Welcome, Say
    <2>2. w \in Seq(Line) /\ ToSet(w) = {<<"001", None>>}
        <3>1. <<"001", None>> \in Line
            BY LineKinds
        <3> QED
            BY <3>1, SingletonFacts
    <2>3. /\ r \in Seq(Line)
          /\ \A l \in ToSet(r) :
               /\ l[1] \in {"catchup", "past", "pastother"}
               /\ l[1] = "past" => \E i \in DOMAIN log : log[i][1] = "mine" /\ log[i][2] = l[2]
        BY <1>0, ReplayFacts DEF ReplayFrom
    <2> HIDE DEF w, r
    <2>4. w \o r \in Seq(Line) /\ ToSet(w \o r) = ToSet(w) \cup ToSet(r)
        BY <2>2, <2>3, AddedLines
    <2>5. \A l \in ToSet(w \o r) :
            /\ l[1] # "mine"
            /\ l[1] = "past" => \E i \in DOMAIN log : log[i][1] = "mine" /\ log[i][2] = l[2]
        BY <2>2, <2>3, <2>4
    <2> QED
        BY <1>3, <2>1, <2>4, <2>5
<1>7. CASE HandleCommand
    <2> DEFINE c == Head(cmds)
    <2>1. UNCHANGED <<queue, told, got, answer>>
        BY <1>7 DEF HandleCommand
    <2>2. CASE c \in Actions /\ Answer(c)
        <3>1. Event(c) \in Entry
            BY <2>2, LineKinds DEF Event
        <3>2. granted' = [granted EXCEPT ![c] = @ + 1] /\ Broadcast(Event(c))
            BY <1>7, <2>2, TextsDiffer DEF HandleCommand, Actions, AllKeys, Event
        <3>3. /\ ToSet(log') = ToSet(log) \cup {Event(c)}
              /\ ToSet(wire') \subseteq ToSet(wire) \cup {Event(c)}
              /\ \A a : Occurs(wire', Event(a))
                          <= Occurs(wire, Event(a)) + (IF Event(c) = Event(a) THEN 1 ELSE 0)
            BY <1>0, <3>1, <3>2, BroadcastCounts
        <3>4. ASSUME NEW a \in Actions
              PROVE  Occurs(wire', Event(a)) + Occurs(queue', Event(a)) + InHand(a)' + told'[a]
                       <= granted'[a]
            <4>1. /\ Occurs(wire, Event(a)) + Occurs(queue, Event(a)) + InHand(a) + told[a] <= granted[a]
                  /\ InHand(a)' = InHand(a)
                BY <1>0, <2>1 DEF GrantsCounted, InHand
            <4>2. Event(c) = Event(a) => c = a
                BY DEF Event
            <4>3. granted'[a] = granted[a] + (IF c = a THEN 1 ELSE 0)
                <5>1. granted \in [Actions -> Nat]
                    BY <1>0 DEF TypeOK
                <5> QED
                    BY <2>2, <3>2, <5>1
            <4>4. Occurs(wire', Event(a)) \in Nat
                BY <1>0, OccursFacts DEF TypeOK
            <4>5. Occurs(wire', Event(a)) <= Occurs(wire, Event(a)) + (IF c = a THEN 1 ELSE 0)
                BY <1>0, <3>3, <4>2, <4>4, CountTypes
            <4>6. /\ Occurs(wire, Event(a)) \in Nat /\ Occurs(queue, Event(a)) \in Nat
                  /\ InHand(a) \in Nat /\ told[a] \in Nat /\ granted[a] \in Nat
                BY <1>0, CountTypes
            <4>7. Occurs(queue', Event(a)) = Occurs(queue, Event(a)) /\ told'[a] = told[a]
                BY <2>1
            <4> QED
                BY <4>1, <4>3, <4>4, <4>5, <4>6, <4>7
        <3>5. PastKnown'
            <4>1. \A l \in ToSet(wire') \cup ToSet(queue') : l[1] = "past" => Event(l[2]) \in ToSet(log')
                BY <1>0, <2>1, <3>3 DEF PastKnown, Event
            <4>2. \A k \in Keys : "past" \in {got'[k], answer'[k]} => Event(k) \in ToSet(log')
                BY <1>0, <2>1, <3>3 DEF PastKnown
            <4> QED
                BY <4>1, <4>2 DEF PastKnown, Event
        <3> QED
            BY <3>4, <3>5 DEF GrantsCounted, Event
    <2>3. CASE ~(c \in Actions /\ Answer(c))
        <3>1. /\ UNCHANGED <<log, granted>>
              /\ \/ wire' = wire
                 \/ \E t \in Seq(Line) :
                      /\ wire' = wire \o t
                      /\ \A l \in ToSet(t) :
                           /\ l[1] \notin {"001", "464", "mine"}
                           /\ l[1] = "past" =>
                                \E i \in DOMAIN log : log[i][1] = "mine" /\ log[i][2] = l[2]
            BY <1>0, <1>7, <2>3, OtherAnswers
        <3>2. CASE wire' = wire
            BY <1>1, <2>1, <3>1, <3>2
        <3>3. CASE wire' # wire
            BY <1>3, <2>1, <3>1, <3>3
        <3> QED
            BY <3>2, <3>3
    <2> QED
        BY <2>2, <2>3
<1>8. CASE ReadLine
    <2> DEFINE h == Head(wire)
    <2>1. /\ UNCHANGED <<log, granted, told, got, answer>> /\ wire # <<>> /\ wire' = Tail(wire)
          /\ queue' = queue \/ queue' = Append(queue, h)
        BY <1>8 DEF ReadLine
    <2>2. h \in Line /\ ToSet(wire) = {h} \cup ToSet(wire')
        BY <1>0, <2>1, TakenLine
    <2>3. ToSet(Append(queue, h)) = ToSet(queue) \cup {h}
        BY <1>0, <2>2, AppendFacts
    <2>4. ASSUME NEW a \in Actions
          PROVE  Occurs(wire', Event(a)) + Occurs(queue', Event(a))
                   <= Occurs(wire, Event(a)) + Occurs(queue, Event(a))
        <3> DEFINE n == Occurs(<<h>>, Event(a))
        <3>1. Occurs(wire, Event(a)) = n + Occurs(Tail(wire), Event(a))
            BY <1>b, <2>1, OccursHead
        <3>2. Occurs(Append(queue, h), Event(a)) = Occurs(queue, Event(a)) + n
            BY <1>b, <2>2, OccursAppend
        <3>3. n \in {0, 1}
            BY OccursOne
        <3>4. Occurs(queue, Event(a)) \in Nat /\ Occurs(wire', Event(a)) \in Nat
            BY <1>0, CountTypes, OccursFacts DEF TypeOK
        <3> HIDE DEF n, h
        <3>5. CASE queue' = queue
            BY <2>1, <3>1, <3>3, <3>4, <3>5
        <3>6. CASE queue' = Append(queue, h)
            BY <2>1, <3>1, <3>2, <3>3, <3>4, <3>6
        <3> QED
            BY <2>1, <3>5, <3>6
    <2>5. \A l \in ToSet(wire') \cup ToSet(queue') :
            l \in ToSet(wire) \cup ToSet(queue) \/ (l[1] = "past" => Event(l[2]) \in ToSet(log))
        BY <2>1, <2>2, <2>3
    <2> QED
        BY <1>0, <2>1, <2>4, <2>5, GrantsKept
<1>9. CASE Route
    <2> DEFINE l == Head(queue)
    <2>1. /\ queue # <<>> /\ queue' = Tail(queue) /\ UNCHANGED <<wire, log, granted, told, answer>>
        BY <1>9 DEF Route
    <2>2. l \in Line /\ ToSet(queue) = {l} \cup ToSet(queue')
        BY <1>0, <2>1, TakenLine
    <2>3. \A a \in Actions : /\ Occurs(queue, Event(a))
                                  = (IF l = Event(a) THEN 1 ELSE 0) + Occurs(queue', Event(a))
                             /\ Occurs(queue', Event(a)) \in Nat
        <3>1. ASSUME NEW a \in Actions
              PROVE  Occurs(queue, Event(a)) = (IF l = Event(a) THEN 1 ELSE 0) + Occurs(queue', Event(a))
            <4>1. Occurs(<<l>>, Event(a)) = IF l = Event(a) THEN 1 ELSE 0
                BY OccursOne
            <4>2. Occurs(queue, Event(a)) = Occurs(<<l>>, Event(a)) + Occurs(Tail(queue), Event(a))
                BY <1>b, <2>1, OccursHead
            <4> QED
                BY <2>1, <4>1, <4>2
        <3> QED
            BY <1>0, <3>1, OccursFacts DEF TypeOK
    <2>4. l[1] = "past" => Event(l[2]) \in ToSet(log)
        BY <1>0, <2>2 DEF PastKnown
    <2>5. \/ got' = got
          \/ Respond("history", "some", FALSE) \/ Respond("list", "some", FALSE)
          \/ IsResult(l) /\ Respond(l[2], ResultOf(l), TRUE)
        BY <1>9 DEF Route
    <2> HIDE DEF l
    <2>6. ASSUME NEW k \in Keys
          PROVE  /\ got'[k] = "mine" => got[k] = "mine" \/ l = Event(k)
                 /\ got'[k] = "past" => got[k] = "past" \/ (l[1] = "past" /\ l[2] = k)
        <3>1. CASE Respond("history", "some", FALSE) \/ Respond("list", "some", FALSE) \/ got' = got
            BY <1>0, <3>1 DEF Respond, TypeOK
        <3>2. CASE IsResult(l) /\ Respond(l[2], ResultOf(l), TRUE)
            <4>1. got'[k] = got[k] \/ (k = l[2] /\ got'[k] = ResultOf(l))
                BY <1>0, <3>2 DEF Respond, TypeOK
            <4>2. /\ l[1] \in {"failed", "mine", "past"}
                  /\ ResultOf(l) = "mine" => l[1] = "mine"
                  /\ ResultOf(l) = "past" => l[1] = "past"
                BY <3>2 DEF IsResult, ResultOf
            <4>3. l = <<l[1], l[2]>>
                BY <2>2, LineFacts
            <4> QED
                BY <4>1, <4>2, <4>3 DEF Event
        <3> QED
            BY <2>5, <3>1, <3>2
    <2>7. ASSUME NEW a \in Actions
          PROVE  Occurs(wire', Event(a)) + Occurs(queue', Event(a)) + InHand(a)' + told'[a] <= granted'[a]
        <3>1. Occurs(wire, Event(a)) + Occurs(queue, Event(a)) + InHand(a) + told[a] <= granted[a]
            BY <1>0 DEF GrantsCounted
        <3>2. /\ InHand(a) \in {0, 1} /\ InHand(a)' \in {0, 1}
              /\ InHand(a)' = 1 /\ InHand(a) = 0 => l = Event(a)
            BY <2>6 DEF InHand
        <3>3. /\ Occurs(wire, Event(a)) \in Nat /\ told[a] \in Nat /\ granted[a] \in Nat
              /\ Occurs(queue', Event(a)) \in Nat
              /\ Occurs(queue, Event(a)) = (IF l = Event(a) THEN 1 ELSE 0) + Occurs(queue', Event(a))
            BY <1>0, <2>3, CountTypes
        <3>4. /\ Occurs(wire', Event(a)) = Occurs(wire, Event(a))
              /\ told'[a] = told[a] /\ granted'[a] = granted[a]
            BY <2>1
        <3>5. CASE l = Event(a)
            BY <3>1, <3>2, <3>3, <3>4, <3>5
        <3>6. CASE l # Event(a)
            BY <3>1, <3>2, <3>3, <3>4, <3>6
        <3> QED
            BY <3>5, <3>6
    <2>8. PastKnown'
        <3>1. \A x \in ToSet(wire') \cup ToSet(queue') : x[1] = "past" => Event(x[2]) \in ToSet(log')
            BY <1>0, <2>1, <2>2 DEF PastKnown
        <3>2. \A k \in Keys : "past" \in {got'[k], answer'[k]} => Event(k) \in ToSet(log')
            BY <1>0, <2>1, <2>4, <2>6 DEF PastKnown
        <3> QED
            BY <3>1, <3>2 DEF PastKnown, Event
    <2> QED
        BY <2>7, <2>8 DEF GrantsCounted, Event
<1>10. CASE Lose
    <2>1. PICK k \in 0..Len(wire) :
             queue' = IF phase = "ready" THEN queue \o SubSeq(wire, 1, k) ELSE queue
        BY <1>10 DEF Lose
    <2>2. wire' = <<>> /\ UNCHANGED <<log, granted, told, got, answer>>
        BY <1>10 DEF Lose
    <2> DEFINE p == SubSeq(wire, 1, k)
               b == SubSeq(wire, k + 1, Len(wire))
    <2>3. p \in Seq(Line) /\ ToSet(p) \subseteq ToSet(wire)
        <3>1. p \in Seq(Line) /\ ToSet(wire) = ToSet(p) \cup ToSet(b)
            BY <1>0, CutFacts
        <3> HIDE DEF p, b
        <3> QED
            BY <3>1
    <2>4. \A a : Occurs(p, Event(a)) <= Occurs(wire, Event(a))
        BY <1>0, <2>1, OccursPrefix
    <2> HIDE DEF p, b
    <2>5. queue' = queue \/ queue' = queue \o p
        BY <2>1 DEF p
    <2>6. ToSet(queue') \subseteq ToSet(queue) \cup ToSet(wire) /\ ToSet(wire') = {}
        <3>1. ToSet(queue \o p) = ToSet(queue) \cup ToSet(p)
            BY <1>0, <2>3, AddedLines
        <3>2. ToSet(wire') = {}
            BY <2>2 DEF ToSet
        <3> QED
            BY <2>3, <2>5, <3>1, <3>2
    <2>7. ASSUME NEW a \in Actions
          PROVE  Occurs(wire', Event(a)) + Occurs(queue', Event(a))
                   <= Occurs(wire, Event(a)) + Occurs(queue, Event(a))
        <3>1. Occurs(wire', Event(a)) = 0
            BY <1>0, <2>6, OccursFacts DEF TypeOK
        <3>2. queue' = queue \/ Occurs(queue', Event(a)) = Occurs(queue, Event(a)) + Occurs(p, Event(a))
            BY <1>0, <2>3, <2>5, OccursConcat
        <3>3. Occurs(p, Event(a)) \in Nat /\ Occurs(p, Event(a)) <= Occurs(wire, Event(a))
            BY <2>3, <2>4, OccursFacts
        <3> QED
            BY <1>0, <3>1, <3>2, <3>3, CountTypes
    <2>8. \A l \in ToSet(wire') \cup ToSet(queue') :
            l \in ToSet(wire) \cup ToSet(queue) \/ (l[1] = "past" => Event(l[2]) \in ToSet(log))
        BY <2>6
    <2> QED
        BY <1>0, <2>2, <2>7, <2>8, GrantsKept
<1>11. ASSUME NEW k \in Keys, Return(k) PROVE GrantsCounted' /\ PastKnown'
    <2>1. /\ got' = [got EXCEPT ![k] = None] /\ UNCHANGED <<wire, queue, log, granted>>
          /\ \/ UNCHANGED <<answer, told>>
             \/ /\ answer' = [answer EXCEPT ![k] = got[k]]
                /\ told' = IF got[k] = "mine" THEN [told EXCEPT ![k] = @ + 1] ELSE told
        BY <1>11 DEF Return
    <2>2. got \in [Keys -> Results] /\ answer \in [Keys -> Results] /\ told \in [Actions -> Nat]
        BY <1>0 DEF TypeOK
    <2>3. ASSUME NEW a \in Actions
          PROVE  Occurs(wire', Event(a)) + Occurs(queue', Event(a)) + InHand(a)' + told'[a] <= granted'[a]
        <3>1. Occurs(wire, Event(a)) + Occurs(queue, Event(a)) + InHand(a) + told[a] <= granted[a]
            BY <1>0 DEF GrantsCounted
        <3>2. CASE a # k
            <4>1. InHand(a)' = InHand(a)
                BY <2>1, <2>2, <3>2 DEF InHand
            <4>2. told'[a] = told[a]
                BY <2>1, <2>2, <3>2
            <4> QED
                BY <2>1, <3>1, <4>1, <4>2
        <3>3. CASE a = k
            <4>1. InHand(a)' = 0
                BY <2>1, <2>2, <3>3, NoneIsNothing DEF InHand
            <4>2. told'[a] \in {told[a], told[a] + InHand(a)}
                BY <1>0, <2>1, <2>2, <3>3, CountTypes DEF InHand
            <4>3. /\ Occurs(wire, Event(a)) \in Nat /\ Occurs(queue, Event(a)) \in Nat
                  /\ InHand(a) \in Nat /\ told[a] \in Nat /\ granted[a] \in Nat
                BY <1>0, CountTypes
            <4>4. /\ Occurs(wire', Event(a)) = Occurs(wire, Event(a))
                  /\ Occurs(queue', Event(a)) = Occurs(queue, Event(a)) /\ granted'[a] = granted[a]
                BY <2>1
            <4> QED
                BY <3>1, <4>1, <4>2, <4>3, <4>4
        <3> QED
            BY <3>2, <3>3
    <2>4. PastKnown'
        <3>1. \A l \in ToSet(wire') \cup ToSet(queue') : l[1] = "past" => Event(l[2]) \in ToSet(log')
            BY <1>0, <2>1 DEF PastKnown
        <3>2. \A j \in Keys : "past" \in {got'[j], answer'[j]} => "past" \in {got[j], answer[j]}
            BY <2>1, <2>2, NoneIsNothing
        <3>3. \A j \in Keys : "past" \in {got'[j], answer'[j]} => Event(j) \in ToSet(log')
            BY <1>0, <2>1, <3>2 DEF PastKnown
        <3> QED
            BY <3>1, <3>3 DEF PastKnown, Event
    <2> QED
        BY <2>3, <2>4 DEF GrantsCounted, Event
<1>12. CASE \/ UNCHANGED vars \/ OtherReturns \/ Connect \/ SendNick \/ GiveUp \/ Outgoing
            \/ \E k \in Keys : Call(k) \/ FinalizeSyncRequest(k)
            \/ \E m \in Outbound : SendMessage(m)
    <2>1. /\ UNCHANGED <<wire, queue, log, granted, told, got>>
          /\ answer' = answer \/ answer' = [j \in Keys |-> None]
        <3>1. CASE UNCHANGED vars \/ OtherReturns \/ Connect \/ SendNick \/ GiveUp
            BY <3>1 DEF OtherReturns, Connect, SendNick, GiveUp
        <3>2. CASE Outgoing \/ \E m \in Outbound : SendMessage(m)
            BY <3>2 DEF Outgoing, SendMessage
        <3>3. CASE \E k \in Keys : Call(k) \/ FinalizeSyncRequest(k)
            BY <3>3 DEF Call, FinalizeSyncRequest
        <3> QED
            BY <1>12, <3>1, <3>2, <3>3
    <2>2. \A k \in Keys : answer'[k] \in {answer[k], None}
        BY <2>1
    <2> QED
        BY <1>1, <2>1, <2>2
<1> QED
    BY <1>4, <1>5, <1>6, <1>7, <1>8, <1>9, <1>10, <1>11, <1>12 DEF Next, ServerStep, ClientStep

\* No success of a claim or a completion is told to the bridge that the server did not
\* grant to this agent, and none of them twice: not for the result of another agent,
\* nor for a line left from an earlier request, whatever requests time out and
\* connections are lost. A result read from a replay is the exception: it is an event
\* of this agent in the history, of which the bridge may have been told before.
THEOREM SuccessIsReal == Spec => []SuccessWasGranted
<1>1. Init => GrantInv
    <2> SUFFICES ASSUME Init PROVE GrantInv
        OBVIOUS
    <2>1. TypeOK
        BY InitTypeOK
    <2>2. ToSet(wire) = {} /\ ToSet(queue) = {}
        BY DEF Init, ToSet
    <2>3. \A k \in Keys : got[k] \notin {"mine", "past"} /\ answer[k] \notin {"mine", "past"}
        BY NoneIsNothing DEF Init
    <2>4. PastKnown
        BY <2>2, <2>3 DEF PastKnown
    <2>5. ASSUME NEW a \in Actions
          PROVE  Occurs(wire, Event(a)) + Occurs(queue, Event(a)) + InHand(a) + told[a] <= granted[a]
        <3>1. Occurs(wire, Event(a)) = 0 /\ Occurs(queue, Event(a)) = 0
            BY <2>1, <2>2, OccursFacts DEF TypeOK
        <3>2. InHand(a) = 0 /\ told[a] = 0 /\ granted[a] = 0
            BY <2>3 DEF InHand, Init
        <3> QED
            BY <3>1, <3>2
    <2> QED
        BY <2>1, <2>4, <2>5 DEF GrantInv, GrantsCounted
<1>2. GrantInv => SuccessWasGranted
    <2> SUFFICES ASSUME GrantInv, NEW k \in Keys \cap Actions
                 PROVE  told[k] <= granted[k] /\ (answer[k] = "past" => <<"mine", k>> \in ToSet(log))
        BY DEF SuccessWasGranted
    <2>1. told[k] <= granted[k]
        <3>1. Occurs(wire, Event(k)) + Occurs(queue, Event(k)) + InHand(k) + told[k] <= granted[k]
            BY DEF GrantInv, GrantsCounted
        <3> QED
            BY <3>1, CountTypes DEF GrantInv
    <2> QED
        BY <2>1 DEF GrantInv, PastKnown, Event
<1> QED
    BY <1>1, <1>2, NextGrants, PTL DEF Spec

=============================================================================
