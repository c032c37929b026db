----------------------------- MODULE DaemonLink -----------------------------
(***************************************************************************)
(* The IRC side of aircd-daemon: AircdClient (clients/python/aircd/        *)
(* client.py) registering and reading, the router and the synchronous      *)
(* requests of the bridge and the sender loop (daemon.py), over a          *)
(* connection that can be lost, to a server that appends, replays and      *)
(* grants (src/server.rs, in full in Delivery and TaskLease).              *)
(*                                                                         *)
(* One channel, one task. A line is a pair of its kind and what it is      *)
(* about; "catchup" (sent on registering) and "history" (the answer to     *)
(* CHATHISTORY) differ in the model only: on the wire both are replay=1.   *)
(* Replayed task events ("past", "pastother") are plain messages without   *)
(* task tags, which the router recognises by their text.                   *)
(* The HTTP server handles one request at a time and gives up after 5 s;   *)
(* the coroutine it waits for has a timer of its own. Timers may fire at   *)
(* any time. The inbox behind the router is the subject of AgentInbox.     *)
(***************************************************************************)
EXTENDS Integers, Sequences, SequencesExt

CONSTANTS Message,      \* messages of others
          Outbound,     \* messages of Claude
          None,
          Keys,         \* requests the bridge makes
          MaxLosses,    \* bound: connections lost
          MaxLines,     \* bound: commands and lines under way when one is added
          MaxLog        \* bound: the history, when another agent adds to it or a request is made

AllKeys == {"history", "list", "claim", "done"}
Actions == {"claim", "done"}

ASSUME KnownKeys == Keys \subseteq AllKeys
ASSUME NoneIsNothing == None \notin Message \cup Outbound \cup AllKeys \cup {"some", "failed", "mine", "past"}
ASSUME TextsDiffer == Outbound \cap (Message \cup AllKeys \cup {"nick"}) = {}
ASSUME LinkBounds == {MaxLosses, MaxLines, MaxLog} \subseteq Nat

VARIABLES
    phase,                  \* AircdClient: "lost", "registering", "refused", "ready"
    wire, queue,            \* lines from the server; _message_queue
    cmds,                   \* commands on their way to the server
    session,                \* the server's session: "none", "connected", "inserted", "registered"
    log, marked, snapshot,  \* the channel; last_seen_seq; its value when registering
    holder,                 \* of the task
    http,                   \* the request the HTTP thread waits for
    reg, got,               \* a coroutine registered under the key; its first response
    outq, asked,            \* _outgoing_queue; history: messages Claude asked to send
    accepted, consumed,     \* history: messages delivered; catch-up given to a request
    cut, refused, posted,   \* history: lost with a connection; answered 451; persisted
    granted, told,          \* history: actions granted, and successes the bridge was told of
    answer,                 \* history: what the bridge was told at its last request
    losses

net == <<phase, wire, queue, cmds, session>>
server == <<log, marked, snapshot, holder, granted, posted, refused>>
requests == <<http, reg, got, answer, told>>
outgoing == <<outq, asked>>
vars == <<net, server, requests, outgoing, accepted, consumed, cut, losses>>

Entry == ({"live"} \X Message) \cup ({"mine", "other"} \X Actions)
Line == Entry
        \cup ({"catchup", "history"} \X Message)
        \cup ({"failed", "past", "pastother"} \X Actions)
        \cup ({"001", "464", "listing", "empty"} \X {None})
Command == AllKeys \cup {"nick"} \cup Outbound
Results == {None, "some", "failed", "mine", "past"}

TypeOK ==
    /\ phase \in {"lost", "registering", "refused", "ready"}
    /\ wire \in Seq(Line) /\ queue \in Seq(Line) /\ cmds \in Seq(Command)
    /\ session \in {"none", "connected", "inserted", "registered"}
    /\ log \in Seq(Entry) /\ {marked, snapshot} \subseteq 0..Len(log)
    /\ holder \in {"free", "me", "other", "done"}
    /\ http \in Keys \cup {None}
    /\ reg \in [Keys -> {"none", "waiting", "set", "leaked"}]
    /\ got \in [Keys -> Results]
    /\ answer \in [Keys -> Results]
    /\ outq \in Seq(Outbound) /\ asked \subseteq Outbound
    /\ accepted \cup consumed \subseteq Message
    /\ cut \subseteq Message \cup Outbound
    /\ refused \cup posted \subseteq Outbound
    /\ {granted, told} \subseteq [Actions -> Nat]
    /\ losses \in 0..MaxLosses

Init ==
    /\ phase = "ready" /\ session = "registered"
    /\ wire = <<>> /\ queue = <<>> /\ cmds = <<>>
    /\ outq = <<>> /\ asked = {}
    /\ log = <<>> /\ marked = 0 /\ snapshot = 0 /\ holder = "free"
    /\ http = None
    /\ reg = [k \in Keys |-> "none"]
    /\ got = [k \in Keys |-> None] /\ answer = got
    /\ accepted = {} /\ consumed = {} /\ cut = {} /\ refused = {} /\ posted = {}
    /\ granted = [a \in Actions |-> 0] /\ told = granted /\ losses = 0

-----------------------------------------------------------------------------
(* The connection and AircdClient. *)

Subscribed == session \in {"inserted", "registered"}
About(lines, kinds) == {l[2] : l \in {x \in lines : x[1] \in kinds}}
Texts(lines) == About(ToSet(lines), {"live", "catchup", "history"})

\* whatever is under way is lost, but for the lines that have arrived; a server
\* that is registering the session does so, and marks what it replays, all the same
Lose ==
    /\ phase # "lost" /\ losses < MaxLosses
    /\ losses' = losses + 1
    /\ phase' = "lost" /\ session' = "none"
    /\ \E k \in 0..Len(wire) :
         /\ queue' = IF phase = "ready" THEN queue \o SubSeq(wire, 1, k) ELSE queue
         /\ cut' = cut \cup Texts(SubSeq(wire, k + 1, Len(wire)))
                       \cup Texts(IF phase = "ready" THEN <<>> ELSE wire)
                       \cup (ToSet(cmds) \cap Outbound)
                       \cup (IF session = "inserted"
                               THEN Texts(SubSeq(log, snapshot + 1, Len(log))) ELSE {})
    /\ marked' = IF session = "inserted" THEN Len(log) ELSE marked
    /\ wire' = <<>> /\ cmds' = <<>>
    /\ UNCHANGED <<log, snapshot, holder, granted, posted, refused, requests,
                   outgoing, accepted, consumed>>

\* _do_connect: a new writer; CAP and PASS are written, other tasks may write too
Connect ==
    /\ phase = "lost"
    /\ phase' = "registering" /\ session' = "connected"
    /\ UNCHANGED <<wire, queue, cmds, server, requests, outgoing, accepted, consumed, cut, losses>>

SendNick ==
    /\ phase = "registering" /\ "nick" \notin ToSet(cmds)
    /\ session = "connected" /\ wire = <<>>
    /\ cmds' = Append(cmds, "nick")
    /\ UNCHANGED <<phase, wire, queue, session, server, requests, outgoing, accepted, consumed,
                   cut, losses>>

\* _do_connect reads and forgets lines up to 001; after it _reader_loop queues
\* them. At a refusal it raises, and the reader loop that called it reads on from
\* the connection, which the server keeps open
ReadLine ==
    /\ phase # "lost" /\ wire # <<>>
    /\ wire' = Tail(wire)
    /\ phase' = CASE phase = "registering" /\ Head(wire)[1] = "001" -> "ready"
                  [] phase = "registering" /\ Head(wire)[1] = "464" -> "refused"
                  [] OTHER -> phase
    /\ queue' = IF phase = "ready" THEN Append(queue, Head(wire)) ELSE queue
    /\ UNCHANGED <<cmds, session, server, requests, outgoing, accepted, consumed, cut, losses>>

-----------------------------------------------------------------------------
(* The server. *)

Say(lines) == wire' = wire \o lines

\* HistoryStore::append and broadcast_message: last_seen_seq follows what is sent
Broadcast(e) ==
    /\ log' = Append(log, e)
    /\ IF Subscribed THEN Say(<<e>>) /\ marked' = Len(log')
                     ELSE UNCHANGED <<wire, marked>>
Room == Len(cmds) + Len(wire) + Len(queue) < MaxLines

Publish(m) ==
    /\ Room /\ Len(log) < MaxLog /\ m \notin Texts(log)
    /\ Broadcast(<<"live", m>>)
    /\ UNCHANGED <<phase, queue, cmds, session, snapshot, holder, granted, posted,
                   refused, requests, outgoing, accepted, consumed, cut, losses>>

\* another agent claims the task, perhaps after our lease has lapsed (it outlives
\* the line that told us of it), completes it, or returns it
OtherClaims ==
    /\ Room /\ Len(log) < MaxLog
    /\ \/ holder = "free"
       \/ holder = "me" /\ <<"mine", "claim">> \notin ToSet(wire \o queue)
    /\ holder' = "other"
    /\ Broadcast(<<"other", "claim">>)
    /\ UNCHANGED <<phase, queue, cmds, session, snapshot, granted, posted, refused,
                   requests, outgoing, accepted, consumed, cut, losses>>

OtherDone ==
    /\ Room /\ Len(log) < MaxLog
    /\ holder = "other" /\ holder' = "done"
    /\ Broadcast(<<"other", "done">>)
    /\ UNCHANGED <<phase, queue, cmds, session, snapshot, granted, posted, refused,
                   requests, outgoing, accepted, consumed, cut, losses>>

OtherReturns ==
    /\ holder = "other" /\ holder' = "free"
    /\ UNCHANGED <<net, log, marked, snapshot, granted, posted, refused,
                   requests, outgoing, accepted, consumed, cut, losses>>

\* the largest seq of the channel, where a replay to its end leaves last_seen_seq
Top_Next == Len(log) + 1  \* faulty variant: the seq after it
Top == Len(log)

Replayed(kind, e) ==
    CASE e[1] = "live" -> <<kind, e[2]>>
      [] e[1] = "mine" -> <<"past", e[2]>>
      [] e[1] = "other" -> <<"pastother", e[2]>>
Replay(kind, after) == [i \in 1..(Len(log) - after) |-> Replayed(kind, log[after + i])]

\* a command before registration: NICK registers, or is refused because the token
\* is not valid any more; any other is answered 451
HandleUnregistered ==
    /\ session = "connected" /\ cmds # <<>>
    /\ cmds' = Tail(cmds)
    /\ \/ /\ Head(cmds) = "nick"
          /\ session' = "inserted" /\ snapshot' = marked /\ UNCHANGED <<wire, refused>>
       \/ /\ Head(cmds) = "nick"
          /\ Say(<<<<"464", None>>>>) /\ UNCHANGED <<session, snapshot, refused>>
       \/ /\ Head(cmds) # "nick"
          /\ refused' = refused \cup ({Head(cmds)} \cap Outbound)
          /\ UNCHANGED <<wire, session, snapshot>>
    /\ UNCHANGED <<phase, queue, log, marked, holder, granted, posted,
                   requests, outgoing, accepted, consumed, cut, losses>>

\* try_register after the session is in the table: 001, and the replay from the
\* memberships read before it was
ReplayFrom_Marked == marked  \* faulty variant: the marks are read after the insert
ReplayFrom == snapshot

Welcome ==
    /\ session = "inserted"
    /\ session' = "registered"
    /\ Say(<<<<"001", None>>>> \o Replay("catchup", ReplayFrom))
    /\ marked' = Top
    /\ UNCHANGED <<phase, queue, cmds, log, snapshot, holder, granted, posted, refused,
                   requests, outgoing, accepted, consumed, cut, losses>>

Answer(c) ==
    CASE c = "claim" -> holder = "free"
      [] c = "done" -> holder = "me"
      [] OTHER -> FALSE

HandleCommand ==
    /\ session = "registered" /\ cmds # <<>>
    /\ cmds' = Tail(cmds)
    /\ LET c == Head(cmds) IN
         \/ /\ c \in Actions /\ Answer(c)
            /\ Broadcast(<<"mine", c>>)
            /\ holder' = IF c = "claim" THEN "me" ELSE "done"
            /\ granted' = [granted EXCEPT ![c] = @ + 1]
            /\ UNCHANGED posted
         \/ /\ c \in Actions /\ ~Answer(c)
            /\ Say(<<<<"failed", c>>>>)
            /\ UNCHANGED <<log, marked, holder, granted, posted>>
         \/ /\ c = "list"
            /\ \E kind \in {"listing", "empty"} : Say(<<<<kind, None>>>>)
            /\ UNCHANGED <<log, marked, holder, granted, posted>>
         \/ /\ c = "history"
            /\ \E after \in 0..Len(log) :
                 /\ Say(Replay("history", after))
                 /\ marked' = IF after < Top THEN Top ELSE marked
            /\ UNCHANGED <<log, holder, granted, posted>>
         \/ /\ c \in Outbound
            /\ posted' = posted \cup {c}
            /\ UNCHANGED <<wire, log, marked, holder, granted>>
    /\ UNCHANGED <<phase, queue, session, snapshot, refused,
                   requests, outgoing, accepted, consumed, cut, losses>>

-----------------------------------------------------------------------------
(* The router: _irc_reader_loop takes a line from _message_queue. *)

Registered(k) == k \in Keys /\ reg[k] # "none"

\* a response: the first one counts; for task actions it wakes the coroutine
Respond(k, result, wakes) ==
    /\ got' = [got EXCEPT ![k] = IF @ = None THEN result ELSE @]
    /\ reg' = IF wakes /\ reg[k] = "waiting" THEN [reg EXCEPT ![k] = "set"] ELSE reg

IsReplay(l) == l[1] \in {"catchup", "history", "past", "pastother"}
IsTaskLine(l) == l[1] \in {"listing", "failed", "mine", "other", "past", "pastother"}

\* by its tags, or, without any, by its text; of this agent in both cases
IsResult_Anyones(l) == l[1] \in {"failed", "mine", "other", "past"}  \* faulty variant: ignores task-actor
IsResult(l) == l[1] \in {"failed", "mine", "past"}
ResultOf(l) == IF l[1] \in {"failed", "past"} THEN l[1] ELSE "mine"

Route ==
    /\ queue # <<>>
    /\ queue' = Tail(queue)
    /\ LET l == Head(queue) IN
         IF IsReplay(l) /\ Registered("history")
           THEN /\ Respond("history", "some", FALSE)
                /\ consumed' = IF l[1] = "catchup" THEN consumed \cup {l[2]} ELSE consumed
                /\ UNCHANGED accepted
         ELSE IF IsTaskLine(l) /\ Registered("list")
           THEN /\ IF l[1] = "listing" THEN Respond("list", "some", FALSE)
                                       ELSE UNCHANGED <<reg, got>>
                /\ UNCHANGED <<accepted, consumed>>
         ELSE IF IsResult(l) /\ Registered(l[2])
           THEN Respond(l[2], ResultOf(l), TRUE) /\ UNCHANGED <<accepted, consumed>>
         ELSE /\ accepted' = accepted \cup Texts(<<l>>)
              /\ UNCHANGED <<reg, got, consumed>>
    /\ UNCHANGED <<phase, wire, cmds, session, server, http, answer, told, outgoing, cut, losses>>

-----------------------------------------------------------------------------
(* Requests of the bridge and the sender loop. *)

\* the HTTP handler starts a coroutine, which registers its key and then sends;
\* if the send raises, the error is the answer and the key stays
Call(k) ==
    /\ http = None /\ reg[k] = "none" /\ Room /\ Len(log) <= MaxLog
    /\ IF phase = "lost"
         THEN /\ reg' = [reg EXCEPT ![k] = "leaked"]
              /\ UNCHANGED <<http, cmds>>
         ELSE /\ reg' = [reg EXCEPT ![k] = "waiting"]
              /\ http' = k
              /\ cmds' = Append(cmds, k)
    /\ answer' = [j \in Keys |-> None]
    /\ UNCHANGED <<phase, wire, queue, session, log, marked, snapshot, holder, granted, posted,
                   refused, got, told, outgoing, accepted, consumed, cut, losses>>

\* _finalize_sync_request: half a second after the first response
FinalizeSyncRequest(k) ==
    /\ k \notin Actions /\ reg[k] = "waiting" /\ got[k] # None
    /\ reg' = [reg EXCEPT ![k] = "set"]
    /\ UNCHANGED <<net, server, http, got, answer, told, outgoing, accepted, consumed, cut, losses>>

\* the coroutine ends: woken, or timed out; a late result is for nobody
Return(k) ==
    /\ reg[k] \in {"set", "waiting"}
    /\ reg' = [reg EXCEPT ![k] = "none"]
    /\ got' = [got EXCEPT ![k] = None]
    /\ IF http = k
         THEN /\ http' = None /\ answer' = [answer EXCEPT ![k] = got[k]]
              /\ told' = IF got[k] = "mine" THEN [told EXCEPT ![k] = @ + 1] ELSE told
         ELSE UNCHANGED <<http, answer, told>>
    /\ UNCHANGED <<net, server, outgoing, accepted, consumed, cut, losses>>

\* future.result times out; the coroutine is not cancelled
GiveUp ==
    /\ http # None
    /\ http' = None
    /\ UNCHANGED <<net, server, reg, got, answer, told, outgoing, accepted, consumed, cut, losses>>

\* _handle_send_message
SendMessage(m) ==
    /\ http = None /\ m \notin asked
    /\ asked' = asked \cup {m}
    /\ outq' = Append(outq, m)
    /\ UNCHANGED <<net, server, requests, accepted, consumed, cut, losses>>

\* _outgoing_sender_loop: a send that raises goes to the end of the queue
Retry_Drops == Tail(outq)  \* faulty variant: the failed send is not queued again
Retry == Append(Tail(outq), Head(outq))

Outgoing ==
    /\ outq # <<>>
    /\ IF phase = "lost"
         THEN outq' = Retry /\ UNCHANGED cmds
         ELSE outq' = Tail(outq) /\ cmds' = Append(cmds, Head(outq))
    /\ UNCHANGED <<phase, wire, queue, session, server, requests, asked, accepted, consumed,
                   cut, losses>>

ServerStep ==
    \/ \E m \in Message : Publish(m)
    \/ OtherClaims \/ OtherDone \/ OtherReturns
    \/ HandleUnregistered \/ Welcome \/ HandleCommand

ClientStep ==
    \/ Connect \/ SendNick \/ ReadLine \/ Route \/ GiveUp \/ Outgoing
    \/ \E k \in Keys : Call(k) \/ FinalizeSyncRequest(k) \/ Return(k)
    \/ \E m \in Outbound : SendMessage(m)

Next == ServerStep \/ ClientStep \/ Lose

Spec == Init /\ [][Next]_vars

\* The reader of the client, the router and the server's session never stop, and a
\* lost connection is retried for ever; nor does the sender loop
Fairness ==
    /\ WF_vars(Connect \/ SendNick \/ ReadLine)
    /\ WF_vars(HandleUnregistered \/ Welcome \/ HandleCommand)
    /\ WF_vars(Route) /\ WF_vars(Outgoing)

FairSpec == Spec /\ Fairness

-----------------------------------------------------------------------------
(* Properties. *)

\* The lines that follow 001, and the messages that come without being asked for.
AfterWelcome(lines) ==
    {lines[j] : j \in {k \in DOMAIN lines : \E i \in 1..(k - 1) : lines[i][1] = "001"}}
Fresh(lines) == About(lines, {"live", "catchup"})

\* What the server counts as seen is delivered or on its way, unless a
\* connection took it along or a request consumed it: in particular a live line
\* that comes before 001, which the client throws away, is replayed after it.
\* The answer to a history request does not make up for a line that is missing.
MarkedReachesRouter ==
    \A i \in 1..marked : log[i][1] = "live" =>
        \/ log[i][2] \in accepted \cup consumed \cup cut \cup Fresh(ToSet(queue))
        \/ phase = "ready" /\ log[i][2] \in Fresh(ToSet(wire))
        \/ phase = "registering" /\ log[i][2] \in Fresh(AfterWelcome(wire))
        \/ session = "inserted" /\ i > snapshot

\* The bridge is told that a claim or a completion succeeded no more often than
\* the server granted one to this agent, whoever's results are on the wire, however
\* many requests time out and whatever their late results answer. The exception is
\* a result read from the replayed history, which is an event of this agent, but
\* perhaps one it was told of before: the text it is recognised by has no time.
SuccessWasGranted ==
    \A k \in Keys \cap Actions :
        /\ told[k] <= granted[k]
        /\ answer[k] = "past" => <<"mine", k>> \in ToSet(log)

\* A message Claude asked the daemon to send is queued, on its way or in the
\* history; a failed send, however often it fails, does not lose it. Only a lost
\* connection that took it along, or a refusal, does.
OutboundAccounted ==
    asked = ToSet(outq) \cup (ToSet(cmds) \cap Outbound) \cup posted \cup refused
                \cup (cut \cap Outbound)

\* A message persisted by the server comes out of the router in the end: live, by
\* the catch-up of a later connection, or in the answer of a history request.
\* Otherwise a connection took it along after it was counted as seen, or the
\* token of the daemon is refused.
Arrives ==
    \A m \in Message :
        m \in Texts(log) ~> m \in accepted \cup consumed \cup cut \/ phase = "refused"

\* A message of Claude leaves the sender loop in the end, however often its send
\* fails: it is persisted, refused, or gone with a connection.
Departs == \A m \in Outbound : m \in asked ~> m \in posted \cup refused \cup cut

-----------------------------------------------------------------------------
(* What the documentation says and the code does not do. *)

\* daemon.py:896: replayed catch-up is delivered, only history asked for is
\* consumed. A request whose send raised, because the connection was lost, was
\* answered with the error and asked for nothing; its key stays for ever, and
\* consumes the catch-up of the next connection (as a request in flight does, too).
CatchUpDelivered == "history" \in Keys /\ reg["history"] = "leaked" => consumed = {}

=============================================================================
