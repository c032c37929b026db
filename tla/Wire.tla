-------------------------------- MODULE Wire --------------------------------
(***************************************************************************)
(* The line protocol, from a call of AircdClient to the message another    *)
(* client is given: the commands client.py writes, parse_command           *)
(* (src/protocol.rs), the lines server.rs writes with their escaped tags,  *)
(* and _parse_irc_line (client.py).                                        *)
(*                                                                         *)
(* A text is a sequence of symbols. The characters the protocol gives a    *)
(* meaning are symbols of their own; a run of others, such as a verb, is   *)
(* one symbol. Folding the case of verbs is left out. Both streams are in  *)
(* order and lose nothing; the session is registered and on the channels   *)
(* it names (the other cases are in Delivery and DaemonLink). Numbers, ids *)
(* and times of a message are the symbols "seq", "id" and "time"; of the   *)
(* tags of a task event only the title, its one free text, is kept.        *)
(***************************************************************************)
EXTENDS Integers, Sequences, SequencesExt, FiniteSetsExt

CONSTANTS Alphabet,   \* symbols of message texts and titles
          MaxText,    \* bound: symbols of a text
          MaxCalls,   \* bound: calls of a behaviour
          MaxSize     \* bound: calls and symbols of their texts

ASSUME WireBounds == {MaxText, MaxCalls, MaxSize} \subseteq Nat

Numeral == {"0", "1", "100"}
Value(n) == CASE n = "0" -> 0 [] n = "1" -> 1 [] n = "100" -> 100

VARIABLES
    calls,       \* history: the calls made
    up, down,    \* bytes on their way to the server, and to the client
    parsed,      \* history: the commands the server has parsed
    stored,      \* messages and task events appended
    received     \* the lines the client has parsed

vars == <<calls, up, down, parsed, stored, received>>

\* everything the parser returns has the shape of a Command
IsCommand(c) ==
    /\ c[1] \in {"Pass", "Nick", "User", "Join", "Part", "Privmsg", "Ping", "Pong", "Quit", "Cap",
                 "History", "TaskCreate", "TaskClaim", "TaskDone", "TaskRelease", "TaskList", "Unknown"}
    /\ c[1] = "History" => c[3] \in Numeral /\ c[4] \in Numeral

-----------------------------------------------------------------------------
(* Texts. *)

Space == {" ", "CR", "LF"}
Before(s, i) == SubSeq(s, 1, i - 1)
After(s, i) == SubSeq(s, i + 1, Len(s))
First(positions) == IF positions = {} THEN 0 ELSE Min(positions)
Find(s, x) == First({i \in DOMAIN s : s[i] = x})  \* 0 if it is not there

Black(s) == {i \in DOMAIN s : s[i] \notin Space}
TrimEnd(s) == SubSeq(s, 1, Max(Black(s) \cup {0}))
Chomp(s) == SubSeq(s, 1, Max({i \in DOMAIN s : s[i] \notin {"CR", "LF"}} \cup {0}))
Trim(s) == IF Black(s) = {} THEN <<>> ELSE SubSeq(s, Min(Black(s)), Max(Black(s)))

\* the pieces between the positions of x
Split(s, x) ==
    LET cuts == {i \in DOMAIN s : s[i] = x} \cup {0, Len(s) + 1}
        ends == {e \in cuts \X cuts : e[1] < e[2] /\ \A i \in cuts : i <= e[1] \/ e[2] <= i}
    IN {SubSeq(s, e[1] + 1, e[2] - 1) : e \in ends}

\* the words between white space, the k-th from the k-th position where one starts
Starts(s) == {i \in Black(s) : i - 1 \notin Black(s)}
WordEnd(s, i) == Min({j \in i..Len(s) : j + 1 \notin Black(s)})
Nth(positions, k) == CHOOSE i \in positions : Cardinality({j \in positions : j < i}) = k - 1
Words(s) == [k \in 1..Cardinality(Starts(s)) |->
                LET i == Nth(Starts(s), k) IN SubSeq(s, i, WordEnd(s, i))]
Join(words, x) ==
    IF words = <<>> THEN <<>> ELSE Tail(FlattenSeq([k \in DOMAIN words |-> <<x>> \o words[k]]))

\* parts.next().unwrap_or_default()
Arg(words, k) == IF k \in DOMAIN words THEN words[k] ELSE <<>>
Rest(words, k) == Join(SubSeq(words, k, Len(words)), " ")

-----------------------------------------------------------------------------
(* The commands of client.py. A call is its name and its arguments. *)

Channels == {<<"#", "c">>, <<"c">>}
Text == BoundedSeq(Alphabet, MaxText)

Calls ==
    ({"privmsg", "task_create"} \X Channels \X Text)
    \cup ({"history"} \X Channels \X {"0", "1"} \X {"1", "100"})
    \cup ({"join", "part", "task_list"} \X Channels)
    \cup ({"task_claim", "task_done", "task_release"} \X {<<"t">>})
    \cup ({"pass"} \X {<<"token">>}) \cup ({"nick", "user"} \X {<<"me">>})
    \cup ({"cap"} \X {"LS", "REQ", "END"}) \cup {<<"pong">>, <<"quit">>}

\* calls of one argument: the words before it, and the command that is meant
Simple == [task_claim |-> <<<<<<"TASK">>, <<"CLAIM">>>>, "TaskClaim">>,
           task_done |-> <<<<<<"TASK">>, <<"DONE">>>>, "TaskDone">>,
           task_release |-> <<<<<<"TASK">>, <<"RELEASE">>>>, "TaskRelease">>,
           task_list |-> <<<<<<"TASK">>, <<"LIST">>>>, "TaskList">>,
           join |-> <<<<<<"JOIN">>>>, "Join">>, part |-> <<<<<<"PART">>>>, "Part">>,
           pass |-> <<<<<<"PASS">>>>, "Pass">>, nick |-> <<<<<<"NICK">>>>, "Nick">>]

\* the words of a call's line, and the text after " :" if it has one
FormatWords(c) ==
    CASE c[1] = "privmsg" -> <<<<"PRIVMSG">>, c[2]>>
      [] c[1] = "task_create" -> <<<<"TASK">>, <<"CREATE">>, c[2]>>
      [] c[1] = "history" -> <<<<"CHATHISTORY">>, <<"AFTER">>, c[2], <<c[3]>>, <<c[4]>>>>
      [] c[1] = "user" -> <<<<"USER">>, c[2], <<"0">>, <<"*">>>>
      [] c[1] = "cap" /\ c[2] = "LS" -> <<<<"CAP">>, <<"LS">>, <<"302">>>>
      [] c[1] = "cap" /\ c[2] # "LS" -> <<<<"CAP">>, <<c[2]>>>>
      [] c[1] = "pong" -> <<<<"PONG">>>>
      [] c[1] = "quit" -> <<<<"QUIT">>>>
      [] OTHER -> Append(Simple[c[1]][1], c[2])
FormatText(c) ==
    CASE c[1] \in {"privmsg", "task_create"} -> <<c[3]>>
      [] c[1] = "user" -> <<<<"aircd", " ", "agent">>>>
      [] c[1] = "cap" /\ c[2] = "REQ" -> <<<<"message-tags">>>>
      [] c[1] = "pong" -> <<<<"aircd">>>>
      [] c[1] = "quit" -> <<<<"bye">>>>
      [] OTHER -> <<>>
Format(c) ==
    Join(FormatWords(c), " ")
      \o (IF FormatText(c) = <<>> THEN <<>> ELSE <<" ", ":">> \o FormatText(c)[1])

\* AircdClient._send
Call(c) ==
    /\ calls' = Append(calls, c)
    /\ up' = up \o Format(c) \o <<"CR", "LF">>
    /\ UNCHANGED <<down, parsed, stored, received>>

-----------------------------------------------------------------------------
(* parse_command *)

StripTagsAndPrefix(line) ==
    LET Strip(l, mark) == IF l # <<>> /\ l[1] = mark /\ Find(l, " ") # 0
                            THEN After(l, Find(l, " ")) ELSE l
    IN Strip(Strip(line, "@"), ":")

\* where split_trailing, like the client's parser, cuts: the first " :", or 0
Cuts(line) == {i \in 1..(Len(line) - 1) : line[i] = " " /\ line[i + 1] = ":"}
TrailingAt_Last(line) == IF Cuts(line) = {} THEN 0 ELSE Max(Cuts(line))  \* faulty variant: the last
TrailingAt(line) == First(Cuts(line))

\* str::parse::<i64>().unwrap_or(default)
Number_Raw(word, default) == IF word = <<>> THEN default ELSE word[1]  \* faulty variant: no default
Number(word, default) == IF Len(word) = 1 /\ word[1] \in Numeral THEN word[1] ELSE default

IsChannel(word) == word # <<>> /\ word[1] = "#"

\* the verb is the first of the words, the arguments follow it
ParseChathistory(w) ==
    LET History(channel, k) ==
          <<"History", channel, Number(Arg(w, k), "0"), Number(Arg(w, k + 1), "100")>>
    IN CASE Arg(w, 2) = <<"AFTER">> /\ IsChannel(Arg(w, 3)) -> History(w[3], 4)
         [] Arg(w, 2) = <<"AFTER">> /\ ~IsChannel(Arg(w, 3)) -> History(<<"all">>, 3)
         [] OTHER -> History(IF Arg(w, 2) = <<>> THEN <<"all">> ELSE Arg(w, 2), 3)

ParseTask(w, title) ==
    CASE Arg(w, 2) = <<"CREATE">> -> <<"TaskCreate", Arg(w, 3), title>>
      [] Arg(w, 2) = <<"CLAIM">> -> <<"TaskClaim", Arg(w, 3)>>
      [] Arg(w, 2) = <<"DONE">> -> <<"TaskDone", Arg(w, 3)>>
      [] Arg(w, 2) = <<"RELEASE">> -> <<"TaskRelease", Arg(w, 3)>>
      [] Arg(w, 2) = <<"LIST">> -> <<"TaskList", Arg(w, 3)>>
      [] OTHER -> <<"Unknown", <<"TASK">> \o Arg(w, 2)>>

\* trailing: a sequence of no or one text, in place of the words from the k-th on
ParseWords(w, trailing) ==
    LET verb == Arg(w, 1)
        Trailing(k) == IF trailing = <<>> THEN Rest(w, k) ELSE trailing[1]
    IN CASE verb = <<"PASS">> -> <<"Pass", Rest(w, 2)>>
         [] verb = <<"NICK">> -> <<"Nick", Arg(w, 2)>>
         [] verb = <<"USER">> -> <<"User", Arg(w, 2)>>
         [] verb = <<"JOIN">> -> <<"Join", Arg(w, 2)>>
         [] verb = <<"PART">> -> <<"Part", Arg(w, 2)>>
         [] verb = <<"PRIVMSG">> -> <<"Privmsg", Arg(w, 2), Trailing(3)>>
         [] verb = <<"PING">> -> <<"Ping", Trailing(2)>>
         [] verb = <<"PONG">> -> <<"Pong">>
         [] verb = <<"QUIT">> -> <<"Quit">>
         [] verb = <<"CAP">> -> <<"Cap", Arg(w, 2), Words(Trailing(3))>>
         [] verb = <<"CHATHISTORY">> -> ParseChathistory(w)
         [] verb = <<"HISTORY">> ->
              <<"History", Arg(w, 2), Number(Arg(w, 3), "0"), Number(Arg(w, 4), "100")>>
         [] verb = <<"TASK">> -> ParseTask(w, Trailing(4))
         [] OTHER -> <<"Unknown", verb>>

ParseCommand(bytes) ==
    LET line == StripTagsAndPrefix(Trim(bytes))
        at == TrailingAt(line)
    IN IF at = 0 THEN ParseWords(Words(line), <<>>)
       ELSE ParseWords(Words(Before(line, at)), <<After(line, at + 1)>>)

-----------------------------------------------------------------------------
(* What server.rs writes. *)

NormalizeChannel(word) ==
    CASE word # <<>> /\ word[1] = "#" -> word
      [] word = <<>> -> <<"#", "demo">>
      [] OTHER -> <<"#">> \o word

EscapeSymbol_KeepsBackslash(x) ==  \* faulty variant: a backslash is not escaped
    CASE x = ";" -> <<"\\", ":">> [] x = " " -> <<"\\", "s">>
      [] x = "CR" -> <<"\\", "r">> [] x = "LF" -> <<"\\", "n">> [] OTHER -> <<x>>
EscapeSymbol(x) ==
    CASE x = ";" -> <<"\\", ":">> [] x = " " -> <<"\\", "s">> [] x = "\\" -> <<"\\", "\\">>
      [] x = "CR" -> <<"\\", "r">> [] x = "LF" -> <<"\\", "n">> [] OTHER -> <<x>>
EscapeTagValue(value) == FlattenSeq([i \in DOMAIN value |-> EscapeSymbol(value[i])])

\* tags: a sequence of keys and values
FormatMessageTags(tags) ==
    <<"@">> \o Join([k \in DOMAIN tags |-> <<tags[k][1], "=">> \o EscapeTagValue(tags[k][2])], ";")
MetadataTags(replay) ==
    <<<<"seq", <<"seq">>>>, <<"msg-id", <<"id">>>>, <<"time", <<"time">>>>>>
      \o (IF replay THEN <<<<"replay", <<"1">>>>>> ELSE <<>>)

TextLine(words, text) == Join(words, " ") \o (<<" ", ":">> \o text)
Tagged(tags, sender, verb, target, body) ==
    TextLine(<<FormatMessageTags(tags), <<":", sender>>, <<verb>>, target>>, body)
Reply(words, body) == TextLine(<<<<":", "aircd">>>> \o words, body)

Supported(caps) == ToSet(caps) \subseteq {<<"message-tags">>}
CapReply(sub, caps) ==
    CASE sub \in {<<"LS">>, <<"LIST">>} -> <<Reply(<<<<"CAP">>, <<"me">>, sub>>, <<"message-tags">>)>>
      [] sub = <<"REQ">> ->
           <<Reply(<<<<"CAP">>, <<"me">>, <<IF Supported(caps) THEN "ACK" ELSE "NAK">>>>, Join(caps, " "))>>
      [] sub = <<"END">> -> <<>>
      [] OTHER -> <<Reply(<<<<"410">>, <<"me">>, sub>>, <<"invalid">>)>>

\* a stored message; a task event has the title of its task
Created(title) == <<"TASK", " ", "id", " ", "created", ":", " ">> \o title
Stored(c) ==
    CASE c[1] = "Privmsg" ->
           <<[channel |-> NormalizeChannel(c[2]), sender |-> "me", body |-> c[3], title |-> <<>>]>>
      [] c[1] = "TaskCreate" /\ Trim(c[3]) # <<>> ->
           <<[channel |-> NormalizeChannel(c[2]), sender |-> "aircd",
              body |-> Created(Trim(c[3])), title |-> Trim(c[3])]>>
      [] OTHER -> <<>>

LiveLine(m) ==
    IF m.title = <<>>
      THEN Tagged(MetadataTags(FALSE), m.sender, "PRIVMSG", m.channel, m.body)
      ELSE Tagged(Append(MetadataTags(FALSE), <<"task-title", m.title>>),
                  m.sender, "NOTICE", m.channel, m.body)

\* replay_history of one channel, or of all: after a seq, oldest first, at most limit
ReplayLines(c) ==
    LET ms == {k \in DOMAIN stored :
                 /\ k > Value(c[3])
                 /\ c[2] = <<"all">> \/ stored[k].channel = NormalizeChannel(c[2])}
        Line(m) == Tagged(MetadataTags(TRUE), m.sender, "PRIVMSG", m.channel, m.body)
    IN [n \in 1..Min({Cardinality(ms), Value(c[4])}) |-> Line(stored[Nth(ms, n)])]

\* the lines a command is answered with; the effects of the others are elsewhere
Lines(c) ==
    CASE c[1] = "Privmsg" -> <<LiveLine(Stored(c)[1])>>
      [] c[1] = "TaskCreate" /\ Stored(c) # <<>> -> <<LiveLine(Stored(c)[1])>>
      [] c[1] = "TaskCreate" /\ Stored(c) = <<>> -> <<Reply(<<<<"NOTICE">>, <<"me">>>>, <<"failed">>)>>
      [] c[1] = "History" -> ReplayLines(c)
      [] c[1] = "Cap" -> CapReply(c[2], c[3])
      [] c[1] = "Ping" -> <<Reply(<<<<"PONG">>, <<"aircd">>>>, c[2])>>
      [] c[1] = "Unknown" -> <<Reply(<<<<"421">>, <<"*">>, c[2]>>, <<"unknown">>)>>
      [] OTHER -> <<>>

\* handle_stream: next_line takes the line end away; QUIT ends the loop
ServerLine ==
    /\ "LF" \in ToSet(up)
    /\ <<"Quit">> \notin ToSet(parsed)
    /\ LET c == ParseCommand(Before(up, Find(up, "LF"))) IN
         /\ parsed' = Append(parsed, c)
         /\ stored' = stored \o Stored(c)
         /\ down' = down \o FlattenSeq([k \in DOMAIN Lines(c) |-> Lines(c)[k] \o <<"CR", "LF">>])
    /\ up' = After(up, Find(up, "LF"))
    /\ UNCHANGED <<calls, received>>

-----------------------------------------------------------------------------
(* _parse_irc_line *)

Unescaped(x) == CASE x = ":" -> ";" [] x = "s" -> " " [] x = "r" -> "CR" [] x = "n" -> "LF" [] OTHER -> x
\* one symbol of a value, after the symbols before it
Scanned(st, x) ==
    IF st.escaped THEN [out |-> Append(st.out, Unescaped(x)), escaped |-> FALSE]
    ELSE IF x = "\\" THEN [st EXCEPT !.escaped = TRUE]
    ELSE [st EXCEPT !.out = Append(@, x)]
UnescapeTagValue(value) ==
    LET scan[i \in 0..Len(value)] ==
          IF i = 0 THEN [out |-> <<>>, escaped |-> FALSE] ELSE Scanned(scan[i - 1], value[i])
        end == scan[Len(value)]
    IN IF end.escaped THEN Append(end.out, "\\") ELSE end.out

ParseTags(text) ==
    {LET at == Find(part, "=") IN
       IF at = 0 THEN <<part, <<>>>> ELSE <<Before(part, at), UnescapeTagValue(After(part, at))>>
     : part \in Split(text, ";")}

\* the trailing parameter counts if it is not empty
Params(words, trailing) == IF trailing = <<>> THEN words ELSE Append(words, trailing)

ParseIrcLine(bytes) ==
    LET tagged == bytes # <<>> /\ bytes[1] = "@"
        rest == IF tagged THEN After(bytes, Find(bytes, " ")) ELSE bytes
        prefixed == rest # <<>> /\ rest[1] = ":"
        line == IF prefixed THEN After(rest, Find(rest, " ")) ELSE rest
        at == TrailingAt(line)
        w == Words(IF at = 0 THEN line ELSE Before(line, at))
    IN [tags |-> IF tagged THEN ParseTags(SubSeq(bytes, 2, Find(bytes, " ") - 1)) ELSE {},
        prefix |-> IF prefixed THEN SubSeq(rest, 2, Find(rest, " ") - 1) ELSE <<>>,
        command |-> Arg(w, 1),
        params |-> Params(SubSeq(w, 2, Len(w)), IF at = 0 THEN <<>> ELSE After(line, at + 1))]

\* _readline and _reader_loop
ClientLine ==
    /\ "LF" \in ToSet(down)
    /\ received' = Append(received, ParseIrcLine(Chomp(Before(down, Find(down, "LF")))))
    /\ down' = After(down, Find(down, "LF"))
    /\ UNCHANGED <<calls, up, parsed, stored>>

Init ==
    /\ calls = <<>> /\ up = <<>> /\ down = <<>>
    /\ parsed = <<>> /\ stored = <<>> /\ received = <<>>

Size(c) == 1 + (IF c[1] \in {"privmsg", "task_create"} THEN Len(c[3]) ELSE 0)
Used == SumFunction([k \in DOMAIN calls |-> Size(calls[k])])

Next ==
    \/ /\ Len(calls) < MaxCalls
       /\ \E c \in {d \in Calls : Size(d) <= MaxSize - Used} : Call(c)
    \/ ServerLine
    \/ ClientLine

Spec == Init /\ [][Next]_vars

-----------------------------------------------------------------------------
(* Properties. *)

\* The parser returns commands, with numbers where a history has them.
TypeOK ==
    /\ calls \in Seq(Calls) /\ Len(calls) <= MaxCalls
    /\ \A k \in DOMAIN parsed : IsCommand(parsed[k])
    /\ \A k \in DOMAIN stored : stored[k].channel[1] = "#"

\* What a call means to the server: texts lose the white space at their end.
Meant(c) ==
    CASE c[1] = "privmsg" -> <<"Privmsg", c[2], TrimEnd(c[3])>>
      [] c[1] = "task_create" -> <<"TaskCreate", c[2], TrimEnd(c[3])>>
      [] c[1] = "history" -> <<"History", c[2], c[3], c[4]>>
      [] c[1] = "cap" -> <<"Cap", <<c[2]>>, CASE c[2] = "LS" -> <<<<"302">>>>
                                              [] c[2] = "REQ" -> <<<<"message-tags">>>>
                                              [] c[2] = "END" -> <<>>>>
      [] c[1] = "user" -> <<"User", c[2]>>
      [] c[1] = "pong" -> <<"Pong">>
      [] c[1] = "quit" -> <<"Quit">>
      [] OTHER -> <<Simple[c[1]][2], c[2]>>

OneLine(c) == c[1] \in {"privmsg", "task_create"} => "LF" \notin ToSet(c[3])
NamesChannel(c) == c[1] = "history" => c[2][1] = "#"

\* The server parses the commands that AircdClient means, one for each call, with
\* the same arguments whatever is in a text: colons, spaces, "@", CR. (Not so for
\* a text of several lines, nor for a history of a channel named without "#".)
ParsedAsMeant ==
    \A k \in 1..Min({Len(parsed), Len(calls)}) :
        (\A j \in 1..k : OneLine(calls[j])) /\ NamesChannel(calls[k]) =>
            parsed[k] = Meant(calls[k])

IdTags == {<<<<"seq">>, <<"seq">>>>, <<<<"msg-id">>, <<"id">>>>, <<<<"time">>, <<"time">>>>}
Has(r, key) == \E tag \in r.tags : tag[1] = <<key>>
IsMessage(r) == Has(r, "msg-id") /\ Len(r.params) >= 2
IsLive(r) == IsMessage(r) /\ ~Has(r, "replay")

Matches(r, m) == r.params = <<m.channel, m.body>> /\ r.prefix = <<m.sender>>
TagsOf(m) == IdTags \cup (IF m.title = <<>> THEN {} ELSE {<<<<"task-title">>, m.title>>})

\* The client is given every stored message, in order, with its channel, sender
\* and text, and with its title unescaped from the tag; only one with an empty
\* text, whose line has no second parameter, it drops. A replayed line carries
\* a stored message unchanged.
ReceivedAsStored ==
    LET live == {i \in DOMAIN received : IsLive(received[i])}
        full == {k \in DOMAIN stored : stored[k].body # <<>>}
    IN /\ Cardinality(live) <= Cardinality(full)
       /\ down = <<>> => Cardinality(live) = Cardinality(full)
       /\ \A n \in 1..Cardinality(live) :
            LET r == received[Nth(live, n)]
                m == stored[Nth(full, n)]
            IN Matches(r, m) /\ r.tags = TagsOf(m)
       /\ \A i \in DOMAIN received : IsMessage(received[i]) /\ Has(received[i], "replay") =>
            \E m \in ToSet(stored) : Matches(received[i], m)

-----------------------------------------------------------------------------
(* What the documentation says and the code does not do. *)

\* bridge.py:117 and README.md:348: send_message sends the content to a channel.
\* Each line of it after the first is a command of its own to the server.
SentIsStored ==
    up = <<>> /\ <<"quit">> \notin ToSet(calls) =>
        \A k \in DOMAIN calls : calls[k][1] = "privmsg" =>
            TrimEnd(calls[k][3]) \in {m.body : m \in ToSet(stored)}

=============================================================================
