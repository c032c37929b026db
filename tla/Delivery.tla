------------------------------ MODULE Delivery ------------------------------
(***************************************************************************)
(* The delivery core of the aircd server (src/server.rs, src/history.rs):  *)
(* sessions that register as a principal, channel membership, live fan-out *)
(* of persisted messages, the bouncer replay at reconnect, CHATHISTORY and *)
(* the per-membership watermark last_seen_seq.                             *)
(*                                                                         *)
(* A command handler is synchronous, but sessions run in parallel on a     *)
(* multi-threaded runtime and a handler takes the `inner` mutex (clients,  *)
(* channels) and the `db` mutex (SQLite) one critical section at a time.   *)
(* One action is therefore one critical section, and pc[s] says which      *)
(* section session s enters next.                                          *)
(*                                                                         *)
(* Left out: message text, nicks, CAP and PING, lines that are not         *)
(* persisted (JOIN and PART echoes), SQLite errors, and the column         *)
(* principals.last_seen_seq, which the server writes and never reads.      *)
(***************************************************************************)
EXTENDS Integers, Sequences, FiniteSets

CONSTANTS
    Principal,     \* authenticated identities
    Session,       \* connection slots; a slot is used again once nobody refers to it
    Channel,
    None,
    Seeded,        \* memberships (principal, channel) left in the database by earlier runs
    Enabled,       \* the commands and faults a model allows
    ReplayLimit,   \* messages replayed per channel at registration (200 in the code)
    HistoryCap,    \* largest page of CHATHISTORY (500 in the code)
    Requested,     \* limits that clients ask for
    MaxSeq         \* bound: messages ever appended

Features == {"PRIVMSG", "TASK", "JOIN", "PART", "CHATHISTORY", "QUIT",
             "READ_ERROR", "WRITE_ERROR", "CRASH"}

ASSUME NoneIsNobody == None \notin Principal \cup Session \cup Channel
ASSUME SeededMemberships == Seeded \subseteq Principal \X Channel
ASSUME EnabledFeatures == Enabled \subseteq Features
ASSUME Limits == /\ ReplayLimit \in Nat \ {0}
                 /\ HistoryCap \in Nat \ {0}
                 /\ Requested \subseteq Int
                 /\ MaxSeq \in Nat

VARIABLES
    (* SQLite, which survives a crash *)
    messages,      \* messages[m] is the channel of the message with seq m
    member,        \* rows of channel_memberships
    lastSeen,      \* their last_seen_seq; 0 where there is no row
    presence,      \* connected_at / disconnected_at of a principal
    (* ServerInner, in memory *)
    clients,       \* the session that is active for a principal
    channels,      \* subscriptions: pairs that live messages are sent to
    (* one session *)
    pc, owner,     \* next critical section; the principal it registered as
    chan, seq,     \* operands of the handler that is running
    pending,       \* sessions a broadcast still has to reach
    target,        \* the session whose watermark a broadcast moves next
    todo,          \* channels a replay still has to send
    after, limit,  \* where that replay starts and how much it may send
    kicked,        \* a reason waits in shutdown_rx
    writerUp,      \* the writer task still reads its queue
    (* history variables: read by the properties, never by a guard *)
    got,           \* messages enqueued to a session
    received,      \* messages ever enqueued to some session of a principal, or
                   \* older than its membership: JOIN starts after them
    regAt, subAt,  \* how many messages there were at registration, subscription
    resume,        \* the memberships a session registered with
    crossed        \* principals of which sessions ran into each other, until a
                   \* registration puts their subscriptions right

durable == <<messages, member, lastSeen, presence>>
operands == <<chan, seq, pending, target, todo, after, limit>>
history == <<got, received, regAt, subAt, resume, crossed>>
vars == <<durable, clients, channels, pc, owner, operands, kicked, writerUp, history>>

Pair == Principal \X Channel
NoRow == -1

Ready == {"idle", "is_member", "append", "recipients", "fanout", "mark_seen",
          "add_membership", "join_inner", "remove_membership", "part_inner",
          "memberships", "replay", "replay_mark"}
Label == Ready \cup {"closed", "open", "insert", "disconnect", "mark_gone"}

TypeOK ==
    /\ messages \in Seq(Channel)
    /\ member \subseteq Pair
    /\ lastSeen \in [Pair -> Nat]
    /\ presence \in [Principal -> {"never", "connected", "disconnected"}]
    /\ clients \in [Principal -> Session \cup {None}]
    /\ channels \subseteq Pair
    /\ pc \in [Session -> Label]
    /\ owner \in [Session -> Principal \cup {None}]
    /\ chan \in [Session -> Channel \cup {None}]
    /\ seq \in [Session -> Nat]
    /\ pending \in [Session -> SUBSET Session]
    /\ target \in [Session -> Session \cup {None}]
    /\ todo \in [Session -> SUBSET Channel]
    /\ after \in [Session -> [Channel -> Nat]]
    /\ limit \in [Session -> Nat]
    /\ kicked \in [Session -> BOOLEAN]
    /\ writerUp \in [Session -> BOOLEAN]
    /\ got \in [Session -> SUBSET Nat]
    /\ received \in [Principal -> SUBSET Nat]
    /\ regAt \in [Session -> Nat]
    /\ subAt \in [Pair -> Nat]
    /\ resume \in [Session -> [Channel -> Nat \cup {NoRow}]]
    /\ crossed \subseteq Principal

Init ==
    /\ messages = <<>>
    /\ member = Seeded
    /\ lastSeen = [x \in Pair |-> 0]
    /\ presence = [p \in Principal |-> "never"]
    /\ clients = [p \in Principal |-> None]
    /\ channels = {}
    /\ pc = [s \in Session |-> "closed"]
    /\ owner = [s \in Session |-> None]
    /\ chan = [s \in Session |-> None]
    /\ seq = [s \in Session |-> 0]
    /\ pending = [s \in Session |-> {}]
    /\ target = [s \in Session |-> None]
    /\ todo = [s \in Session |-> {}]
    /\ after = [s \in Session |-> [c \in Channel |-> 0]]
    /\ limit = [s \in Session |-> 0]
    /\ kicked = [s \in Session |-> FALSE]
    /\ writerUp = [s \in Session |-> FALSE]
    /\ got = [s \in Session |-> {}]
    /\ received = [p \in Principal |-> {}]
    /\ regAt = [s \in Session |-> 0]
    /\ subAt = [x \in Pair |-> 0]
    /\ resume = [s \in Session |-> [c \in Channel |-> NoRow]]
    /\ crossed = {}

-----------------------------------------------------------------------------
(* Helpers *)

Goto(s, label) == pc' = [pc EXCEPT ![s] = label]

InChannel(c) == {m \in DOMAIN messages : messages[m] = c}

\* Faulty variant: seq >= a + 2, an off-by-one at the start of the page
Page_SkipsFirst(c, a, n) ==
    LET newer == {m \in InChannel(c) : m > a + 1}
    IN  {m \in newer : Cardinality({k \in newer : k < m}) < n}

\* SELECT ... WHERE channel = c AND seq > a ORDER BY seq ASC LIMIT n
Page(c, a, n) ==
    LET newer == {m \in InChannel(c) : m > a}
    IN  {m \in newer : Cardinality({k \in newer : k < m}) < n}

Clamp(n) == IF n < 1 THEN 1 ELSE IF n > HistoryCap THEN HistoryCap ELSE n

\* Faulty variant: SET last_seen_seq = ?1 without MAX
MarkSeen_Overwrites(p, c, m) ==
    lastSeen' = IF <<p, c>> \in member THEN [lastSeen EXCEPT ![<<p, c>>] = m] ELSE lastSeen

\* Server::mark_seen: an UPDATE, so it does nothing without a membership row
MarkSeen(p, c, m) ==
    lastSeen' = IF <<p, c>> \in member /\ lastSeen[<<p, c>>] < m
                THEN [lastSeen EXCEPT ![<<p, c>>] = m]
                ELSE lastSeen

\* tx.send of the messages in ms to session s: it works while the writer lives
Enqueue(s, ms) ==
    IF writerUp[s]
    THEN /\ got' = [got EXCEPT ![s] = @ \cup ms]
         /\ received' = [received EXCEPT ![owner[s]] = @ \cup ms]
    ELSE UNCHANGED <<got, received>>

\* ensure_registered passed: s is registered and still the active session
Active(s) == pc[s] = "idle" /\ clients[owner[s]] = s

\* Session s writes for its principal, in a section that belongs to a longer
\* operation, when another session of the principal has registered or is about to:
\* the client table is not as the operation left it
Cross(s, held) ==
    crossed' = IF \/ clients[owner[s]] # held
                  \/ \E q \in Session \ {s} : owner[q] = owner[s] /\ pc[q] = "insert"
               THEN crossed \cup {owner[s]}
               ELSE crossed

\* The bound on the history: started commands that will append count as well
Room == Len(messages) + Cardinality({q \in Session : pc[q] \in {"is_member", "append"}}) < MaxSeq

\* Nobody holds a handle of s: neither the client table nor a broadcast
Unreferenced(s) == /\ \A p \in Principal : clients[p] # s
                   /\ \A q \in Session : s \notin pending[q] /\ target[q] # s

-----------------------------------------------------------------------------
(* Connection and registration *)

Connect(s) ==
    /\ pc[s] = "closed" /\ Unreferenced(s)
    /\ Goto(s, "open")
    /\ owner' = [owner EXCEPT ![s] = None]
    /\ kicked' = [kicked EXCEPT ![s] = FALSE]
    /\ writerUp' = [writerUp EXCEPT ![s] = TRUE]
    /\ got' = [got EXCEPT ![s] = {}]
    /\ regAt' = [regAt EXCEPT ![s] = 0]
    /\ resume' = [resume EXCEPT ![s] = [c \in Channel |-> NoRow]]
    /\ UNCHANGED <<durable, clients, channels, operands, received, subAt, crossed>>

\* Faulty variant: memberships in which nothing was seen yet are left out
Snapshot_Seen(p) == {c \in Channel : <<p, c>> \in member /\ lastSeen[<<p, c>>] > 0}

\* memberships, read with the connected_at column
Snapshot(p) == {c \in Channel : <<p, c>> \in member}

\* try_register up to mark_connected_and_memberships: the token names p, the
\* row says connected, and the memberships are read, all under the db mutex
RegisterDb(s, p) ==
    /\ pc[s] = "open"
    /\ Goto(s, "insert")
    /\ owner' = [owner EXCEPT ![s] = p]
    /\ presence' = [presence EXCEPT ![p] = "connected"]
    /\ todo' = [todo EXCEPT ![s] = Snapshot(p)]
    /\ after' = [after EXCEPT ![s] = [c \in Channel |-> lastSeen[<<p, c>>]]]
    /\ limit' = [limit EXCEPT ![s] = ReplayLimit]
    /\ resume' = [resume EXCEPT ![s] = [c \in Channel |->
                      IF <<p, c>> \in member THEN lastSeen[<<p, c>>] ELSE NoRow]]
    /\ UNCHANGED <<messages, member, lastSeen, clients, channels, chan, seq, pending, target,
                   kicked, writerUp, got, received, regAt, subAt, crossed>>

\* What s has read is still so, older subscriptions do not go beyond it, and no
\* other session is about to register with what it has read
TrueSnapshot(s) ==
    /\ todo[s] = Snapshot(owner[s]) /\ presence[owner[s]] = "connected"
    /\ \A c \in Channel : <<owner[s], c>> \in channels => c \in todo[s]
    /\ \A q \in Session \ {s} : owner[q] = owner[s] => pc[q] # "insert"

\* The rest of try_register: take the client table over, tell the session that
\* was there to stop, subscribe to the channels of the snapshot
RegisterInner(s) ==
    LET p   == owner[s]
        new == {<<p, c>> : c \in todo[s]} \ channels
    IN  /\ pc[s] = "insert"
        /\ Goto(s, "replay")
        /\ clients' = [clients EXCEPT ![p] = s]
        /\ kicked' = [q \in Session |-> kicked[q] \/ q = clients[p]]
        /\ channels' = channels \cup new
        /\ regAt' = [regAt EXCEPT ![s] = Len(messages)]
        /\ subAt' = [x \in Pair |-> IF x \in new THEN Len(messages) ELSE subAt[x]]
        /\ crossed' = IF TrueSnapshot(s) THEN crossed \ {p} ELSE crossed
        /\ UNCHANGED <<durable, owner, operands, writerUp, got, received, resume>>

-----------------------------------------------------------------------------
(* replay_history, for the bouncer replay and for CHATHISTORY *)

\* Read one channel after the starting point and send what was found; the
\* watermark follows only if something was
ReplayChannel(s) ==
    \E c \in todo[s] :
        LET page == Page(c, after[s][c], limit[s])
        IN  /\ pc[s] = "replay"
            /\ Enqueue(s, page)
            /\ \/ /\ page = {}
                  /\ todo' = [todo EXCEPT ![s] = @ \ {c}]
                  /\ UNCHANGED <<pc, chan, seq>>
               \/ \E top \in page :
                     /\ \A m \in page : m <= top
                     /\ seq' = [seq EXCEPT ![s] = top]
                     /\ chan' = [chan EXCEPT ![s] = c]
                     /\ Goto(s, "replay_mark")
                     /\ UNCHANGED todo
            /\ UNCHANGED <<durable, clients, channels, owner, pending, target, after, limit,
                           kicked, writerUp, regAt, subAt, resume, crossed>>

ReplayMark(s) ==
    /\ pc[s] = "replay_mark"
    /\ MarkSeen(owner[s], chan[s], seq[s])
    /\ todo' = [todo EXCEPT ![s] = @ \ {chan[s]}]
    /\ chan' = [chan EXCEPT ![s] = None]
    /\ seq' = [seq EXCEPT ![s] = 0]
    /\ Goto(s, "replay")
    /\ UNCHANGED <<messages, member, presence, clients, channels, owner, pending, target, after,
                   limit, kicked, writerUp, history>>

ReplayDone(s) ==
    /\ pc[s] = "replay" /\ todo[s] = {}
    /\ after' = [after EXCEPT ![s] = [c \in Channel |-> 0]]
    /\ limit' = [limit EXCEPT ![s] = 0]
    /\ Goto(s, "idle")
    /\ UNCHANGED <<durable, clients, channels, owner, chan, seq, pending, target, todo, kicked,
                   writerUp, history>>

\* CHATHISTORY AFTER: of one channel, or of every membership
BeginHistory(s) ==
    /\ "CHATHISTORY" \in Enabled /\ Active(s)
    /\ \E a \in 0 .. MaxSeq, n \in Requested :
          /\ after' = [after EXCEPT ![s] = [c \in Channel |-> a]]
          /\ limit' = [limit EXCEPT ![s] = Clamp(n)]
    /\ \/ \E c \in Channel : todo' = [todo EXCEPT ![s] = {c}] /\ Goto(s, "replay")
       \/ Goto(s, "memberships") /\ UNCHANGED todo
    /\ UNCHANGED <<durable, clients, channels, owner, chan, seq, pending, target, kicked,
                   writerUp, history>>

ListMemberships(s) ==
    /\ pc[s] = "memberships"
    /\ todo' = [todo EXCEPT ![s] = Snapshot(owner[s])]
    /\ Goto(s, "replay")
    /\ UNCHANGED <<durable, clients, channels, owner, chan, seq, pending, target, after, limit,
                   kicked, writerUp, history>>

-----------------------------------------------------------------------------
(* PRIVMSG and the task events: append, find the recipients, send to each *)

BeginPrivmsg(s, c) ==
    /\ "PRIVMSG" \in Enabled /\ Active(s) /\ Room
    /\ chan' = [chan EXCEPT ![s] = c]
    /\ Goto(s, "is_member")
    /\ UNCHANGED <<durable, clients, channels, owner, seq, pending, target, todo, after, limit,
                   kicked, writerUp, history>>

IsMember(s) ==
    /\ pc[s] = "is_member"
    /\ \/ <<owner[s], chan[s]>> \in member /\ Goto(s, "append") /\ UNCHANGED chan
       \/ /\ <<owner[s], chan[s]>> \notin member
          /\ Goto(s, "idle") /\ chan' = [chan EXCEPT ![s] = None]
    /\ UNCHANGED <<durable, clients, channels, owner, seq, pending, target, todo, after, limit,
                   kicked, writerUp, history>>

\* broadcast_task_event writes to the task's channel without a membership check
BeginTaskEvent(s, c) ==
    /\ "TASK" \in Enabled /\ Active(s) /\ Room
    /\ chan' = [chan EXCEPT ![s] = c]
    /\ Goto(s, "append")
    /\ UNCHANGED <<durable, clients, channels, owner, seq, pending, target, todo, after, limit,
                   kicked, writerUp, history>>

\* HistoryStore::append
AppendMessage(s) ==
    /\ pc[s] = "append"
    /\ messages' = Append(messages, chan[s])
    /\ seq' = [seq EXCEPT ![s] = Len(messages) + 1]
    /\ Goto(s, "recipients")
    /\ UNCHANGED <<member, lastSeen, presence, clients, channels, owner, chan, pending, target,
                   todo, after, limit, kicked, writerUp, history>>

\* Faulty variants: no look-up in the client table; the database rows instead
\* of the subscriptions; sessions left out while they replay
Subscribers_Unfiltered(c) == {clients[p] : p \in {p \in Principal : <<p, c>> \in channels}}
Subscribers_Rows(c) == {clients[p] : p \in {p \in Principal :
                            <<p, c>> \in member /\ clients[p] # None}}
Subscribers_NotReplaying(c) == {clients[p] : p \in {p \in Principal :
    <<p, c>> \in channels /\ clients[p] # None /\ pc[clients[p]] # "replay"}}

\* recipients_with_ids: the handles of the subscribers that are connected now
Subscribers(c) == {clients[p] : p \in {p \in Principal :
                                       <<p, c>> \in channels /\ clients[p] # None}}

Recipients(s) ==
    /\ pc[s] = "recipients"
    /\ pending' = [pending EXCEPT ![s] = Subscribers(chan[s])]
    /\ Goto(s, "fanout")
    /\ UNCHANGED <<durable, clients, channels, owner, chan, seq, target, todo, after, limit,
                   kicked, writerUp, history>>

Send(s) ==
    \E r \in pending[s] :
        /\ pc[s] = "fanout"
        /\ Enqueue(r, {seq[s]})
        /\ pending' = [pending EXCEPT ![s] = @ \ {r}]
        /\ \/ writerUp[r] /\ Goto(s, "mark_seen") /\ target' = [target EXCEPT ![s] = r]
           \/ ~writerUp[r] /\ UNCHANGED <<pc, target>>
        /\ UNCHANGED <<durable, clients, channels, owner, chan, seq, todo, after, limit, kicked,
                       writerUp, regAt, subAt, resume, crossed>>

SendMark(s) ==
    /\ pc[s] = "mark_seen"
    /\ MarkSeen(owner[target[s]], chan[s], seq[s])
    /\ target' = [target EXCEPT ![s] = None]
    /\ Goto(s, "fanout")
    /\ UNCHANGED <<messages, member, presence, clients, channels, owner, chan, seq, pending, todo,
                   after, limit, kicked, writerUp, history>>

SendDone(s) ==
    /\ pc[s] = "fanout" /\ pending[s] = {}
    /\ seq' = [seq EXCEPT ![s] = 0]
    /\ chan' = [chan EXCEPT ![s] = None]
    /\ Goto(s, "idle")
    /\ UNCHANGED <<durable, clients, channels, owner, pending, target, todo, after, limit, kicked,
                   writerUp, history>>

-----------------------------------------------------------------------------
(* JOIN and PART: the database row first, the subscription in a second step *)

BeginMembership(s, c) ==
    /\ Active(s)
    /\ \/ "JOIN" \in Enabled /\ Goto(s, "add_membership")
       \/ "PART" \in Enabled /\ Goto(s, "remove_membership")
    /\ chan' = [chan EXCEPT ![s] = c]
    /\ UNCHANGED <<durable, clients, channels, owner, seq, pending, target, todo, after, limit,
                   kicked, writerUp, history>>

\* INSERT OR IGNORE with the channel's largest seq as the watermark
AddMembership(s) ==
    LET x == <<owner[s], chan[s]>>
    IN  /\ pc[s] = "add_membership"
        /\ Goto(s, "join_inner")
        /\ \/ x \in member /\ UNCHANGED <<member, lastSeen, received>>
           \/ /\ x \notin member
              /\ member' = member \cup {x}
              /\ \E top \in InChannel(chan[s]) \cup {0} :
                    /\ \A m \in InChannel(chan[s]) : m <= top
                    /\ lastSeen' = [lastSeen EXCEPT ![x] = top]
              /\ received' = [received EXCEPT ![owner[s]] = @ \cup InChannel(chan[s])]
        /\ Cross(s, s)
        /\ UNCHANGED <<messages, presence, clients, channels, owner, operands, kicked, writerUp,
                       got, regAt, subAt, resume>>

JoinInner(s) ==
    LET x == <<owner[s], chan[s]>>
    IN  /\ pc[s] = "join_inner"
        /\ Goto(s, "idle")
        /\ channels' = channels \cup {x}
        /\ subAt' = IF x \in channels THEN subAt ELSE [subAt EXCEPT ![x] = Len(messages)]
        /\ chan' = [chan EXCEPT ![s] = None]
        /\ Cross(s, s)
        /\ UNCHANGED <<durable, clients, owner, seq, pending, target, todo, after, limit, kicked,
                       writerUp, got, received, regAt, resume>>

RemoveMembership(s) ==
    LET x == <<owner[s], chan[s]>>
    IN  /\ pc[s] = "remove_membership"
        /\ Goto(s, "part_inner")
        /\ member' = member \ {x}
        /\ lastSeen' = [lastSeen EXCEPT ![x] = 0]
        /\ Cross(s, s)
        /\ UNCHANGED <<messages, presence, clients, channels, owner, operands, kicked, writerUp,
                       got, received, regAt, subAt, resume>>

PartInner(s) ==
    /\ pc[s] = "part_inner"
    /\ Goto(s, "idle")
    /\ channels' = channels \ {<<owner[s], chan[s]>>}
    /\ subAt' = [subAt EXCEPT ![<<owner[s], chan[s]>>] = 0]
    /\ chan' = [chan EXCEPT ![s] = None]
    /\ Cross(s, s)
    /\ UNCHANGED <<durable, clients, owner, seq, pending, target, todo, after, limit, kicked,
                   writerUp, got, received, regAt, resume>>

-----------------------------------------------------------------------------
(* The ways a session ends *)

\* Faulty variant: handle_stream without the shutdown branch
MayLeave_IgnoresShutdown(s) == "QUIT" \in Enabled /\ pc[s] \in {"open", "idle"}

\* QUIT, end of input, or the shutdown branch of the select! loop
MayLeave(s) == \/ "QUIT" \in Enabled /\ pc[s] \in {"open", "idle"}
               \/ kicked[s] /\ pc[s] = "idle"

Leave(s) ==
    /\ MayLeave(s)
    /\ Goto(s, "disconnect")
    /\ UNCHANGED <<durable, clients, channels, owner, operands, kicked, writerUp, history>>

\* Faulty variant: disconnect without the comparison of the channels
Owns_Unchecked(s) == owner[s] # None

\* disconnect: the client table still holds the handle of s
Owns(s) == owner[s] # None /\ clients[owner[s]] = s

\* disconnect, first section: give the client table entry up if it is still ours
DisconnectInner(s) ==
    /\ pc[s] = "disconnect"
    /\ \/ /\ Owns(s)
          /\ clients' = [clients EXCEPT ![owner[s]] = None]
          /\ Goto(s, "mark_gone") /\ UNCHANGED writerUp
       \/ /\ ~Owns(s)
          /\ Goto(s, "closed")
          /\ writerUp' = [writerUp EXCEPT ![s] = FALSE]
          /\ UNCHANGED clients
    /\ UNCHANGED <<durable, channels, owner, operands, kicked, history>>

\* disconnect, second section, and the abort of the writer task
MarkGone(s) ==
    /\ pc[s] = "mark_gone"
    /\ presence' = [presence EXCEPT ![owner[s]] = "disconnected"]
    /\ writerUp' = [writerUp EXCEPT ![s] = FALSE]
    /\ Goto(s, "closed")
    /\ Cross(s, None)
    /\ UNCHANGED <<messages, member, lastSeen, clients, channels, owner, operands, kicked,
                   got, received, regAt, subAt, resume>>

\* A command of a replaced session: ensure_registered fails, `?` leaves
\* handle_stream without disconnect and without abort
Evicted(s) ==
    /\ pc[s] = "idle" /\ clients[owner[s]] # s
    /\ Goto(s, "closed")
    /\ UNCHANGED <<durable, clients, channels, owner, operands, kicked, writerUp, history>>

\* next_line fails (reset, invalid UTF-8): `line?` leaves the same way
ReadError(s) ==
    /\ "READ_ERROR" \in Enabled /\ pc[s] \in {"open", "idle"}
    /\ Goto(s, "closed")
    /\ UNCHANGED <<durable, clients, channels, owner, operands, kicked, writerUp, history>>

\* The writer task stops at a failed write and drops its queue
WriteError(s) ==
    /\ "WRITE_ERROR" \in Enabled /\ writerUp[s]
    /\ pc[s] # "closed" \/ ~Unreferenced(s)
    /\ writerUp' = [writerUp EXCEPT ![s] = FALSE]
    /\ UNCHANGED <<durable, clients, channels, pc, owner, operands, kicked, history>>

\* The server process dies: SQLite keeps its rows, everything else is gone
Crash ==
    /\ "CRASH" \in Enabled
    /\ clients' = [p \in Principal |-> None]
    /\ channels' = {}
    /\ pc' = [s \in Session |-> "closed"]
    /\ owner' = [s \in Session |-> None]
    /\ chan' = [s \in Session |-> None]
    /\ seq' = [s \in Session |-> 0]
    /\ pending' = [s \in Session |-> {}]
    /\ target' = [s \in Session |-> None]
    /\ todo' = [s \in Session |-> {}]
    /\ after' = [s \in Session |-> [c \in Channel |-> 0]]
    /\ limit' = [s \in Session |-> 0]
    /\ kicked' = [s \in Session |-> FALSE]
    /\ writerUp' = [s \in Session |-> FALSE]
    /\ got' = [s \in Session |-> {}]
    /\ regAt' = [s \in Session |-> 0]
    /\ subAt' = [x \in Pair |-> 0]
    /\ resume' = [s \in Session |-> [c \in Channel |-> NoRow]]
    /\ crossed' = {}
    /\ UNCHANGED <<durable, received>>

-----------------------------------------------------------------------------
(* What a session does without waiting for its client *)
Handler(s) ==
    \/ RegisterInner(s)
    \/ ReplayChannel(s) \/ ReplayMark(s) \/ ReplayDone(s) \/ ListMemberships(s)
    \/ IsMember(s) \/ AppendMessage(s) \/ Recipients(s)
    \/ Send(s) \/ SendMark(s) \/ SendDone(s)
    \/ AddMembership(s) \/ JoinInner(s) \/ RemoveMembership(s) \/ PartInner(s)
    \/ DisconnectInner(s) \/ MarkGone(s)

(* What its client asks for *)
Command(s) ==
    \/ \E p \in Principal : RegisterDb(s, p)
    \/ \E c \in Channel : BeginPrivmsg(s, c) \/ BeginTaskEvent(s, c) \/ BeginMembership(s, c)
    \/ BeginHistory(s) \/ Evicted(s)

Next ==
    \/ \E s \in Session : \/ Connect(s) \/ Command(s) \/ Handler(s) \/ Leave(s)
                          \/ ReadError(s) \/ WriteError(s)
    \/ Crash

Spec == Init /\ [][Next]_vars

\* A handler that has started runs to its end (it is synchronous and both
\* mutexes are released after every section); a reason in shutdown_rx is
\* picked up by the select! loop
Fairness == \A s \in Session : WF_vars(Handler(s)) /\ WF_vars(kicked[s] /\ Leave(s))
FairSpec == Spec /\ Fairness

-----------------------------------------------------------------------------
(* Properties *)

\* The broadcast of m has still to reach session s
InFlight(m, s) ==
    \E q \in Session : /\ seq[q] = m
                       /\ \/ pc[q] = "recipients"
                          \/ pc[q] \in {"fanout", "mark_seen"} /\ s \in pending[q]

\* m has been put in the queue of s or is about to be
Covered(m, s) == m \in got[s] \/ InFlight(m, s)

\* One active connection per principal (README.md:192-194): a registered
\* session that is no longer in the client table has been told to stop, so it
\* cannot stay connected beside its successor (try_register, disconnect).
ReplacedIsToldToStop ==
    \A s \in Session : pc[s] \in Ready /\ clients[owner[s]] # s => kicked[s]

\* Live fan-out leaves no hole: every message of a channel that was appended
\* after the active session registered and subscribed has reached the queue of
\* that session or is in the hands of a broadcast that will put it there,
\* however appends, recipient lists, joins and replacements interleave.
LiveComplete ==
    \A x \in channels :
        LET s == clients[x[1]]
        IN  s # None /\ writerUp[s] =>
              \A m \in InChannel(x[2]) : m > subAt[x] /\ m > regAt[s] => Covered(m, s)

\* Replay and live traffic meet without a gap: once the bouncer replay of a
\* session has ended, everything after its old watermark is covered, unless
\* more than one replay page had been missed (try_register subscribes before
\* it reads the history).
Caught(s, c) == LET missed == {m \in InChannel(c) : resume[s][c] < m /\ m <= regAt[s]}
                IN  Cardinality(missed) <= ReplayLimit
ReconnectComplete ==
    \A x \in channels :
        LET s == clients[x[1]]
            c == x[2]
        IN  s # None /\ writerUp[s] /\ pc[s] \in Ready \ {"replay", "replay_mark", "memberships"}
                /\ resume[s][c] # NoRow /\ subAt[x] <= regAt[s] /\ Caught(s, c) =>
              \A m \in InChannel(c) : m > resume[s][c] => Covered(m, s)

\* The three records of who is where agree: while no JOIN, PART, registration or
\* disconnect of a principal is half done, its active session is subscribed to
\* exactly its rows and its row says it is connected, after replacements, errors
\* and crashes too. The exception is an operation that another session of the
\* principal ran into, whose sections interleave with a snapshot or another JOIN:
\* what that leaves behind lasts until a registration that nothing runs into.
HalfDone == {"insert", "add_membership", "join_inner", "remove_membership", "part_inner", "mark_gone"}
TablesAgree ==
    \A p \in Principal \ crossed :
        clients[p] # None /\ (\A s \in Session : owner[s] = p => pc[s] \notin HalfDone) =>
            /\ {c \in Channel : <<p, c>> \in channels} = {c \in Channel : <<p, c>> \in member}
            /\ presence[p] = "connected"

\* A watermark never goes back and only ever moves to a message that was
\* enqueued for its principal (README.md:203-205), or that a replay has just
\* written to a session whose writer task is dead: Session::send ignores the
\* error of its queue (server.rs:849-851) and replay_history marks regardless.
WatermarkHonest ==
    [][\A x \in member \cap member' :
          lastSeen'[x] # lastSeen[x] =>
            /\ lastSeen'[x] > lastSeen[x]
            /\ messages[lastSeen'[x]] = x[2]
            /\ \/ lastSeen'[x] \in received[x[1]]
               \/ \E s \in Session : /\ pc[s] = "replay_mark" /\ ~writerUp[s]
                                      /\ owner[s] = x[1] /\ seq[s] = lastSeen'[x]]_vars

\* All the ways a message can be lost behind a watermark (replay_history,
\* broadcast_message). A watermark passes a message its principal was never given
\* only if a replay moves it, that began behind the message (CHATHISTORY with a
\* later seq) or wrote to a dead writer; or if a live message moves it for a session
\* that was cut off or left the channel in the meantime, or overtakes the message,
\* or meets a backlog from before the session was there: one that a replay of the
\* session is still to bring, that exceeds a page, or that a JOIN did not cover.
Backlogged(s, x, m) ==
    /\ (m <= regAt[s] \/ m <= subAt[x])
    /\ \/ pc[s] \in {"replay", "replay_mark"} /\ x[2] \in todo[s] /\ after[s][x[2]] < m
       \/ resume[s][x[2]] = NoRow \/ regAt[s] < subAt[x]
       \/ ~Caught(s, x[2])
Skippable(s, x, m) ==
    \/ clients[x[1]] # s \/ ~writerUp[s] \/ x \notin channels
    \/ InFlight(m, s)
    \/ Backlogged(s, x, m)
SkipsExplained ==
    [][\A x \in member \cap member' : \A m \in InChannel(x[2]) \ received[x[1]] :
          lastSeen[x] < m /\ m <= lastSeen'[x] =>
            \/ \E s \in Session : /\ pc[s] = "replay_mark" /\ <<owner[s], chan[s]>> = x
                                  /\ (m <= after[s][x[2]] \/ ~writerUp[s])
            \/ \E s, q \in Session : /\ pc[q] = "mark_seen" /\ target[q] = s /\ chan[q] = x[2]
                                     /\ owner[s] = x[1] /\ Skippable(s, x, m)]_vars

\* The server actively shuts down the old socket (README.md:192-194): a session
\* that is told to stop ends, whatever it was doing.
KickedStops == \A s \in Session : kicked[s] ~> pc[s] = "closed"

\* A message appended after an active session registered and subscribed reaches
\* the queue of that session, unless the session is replaced, leaves the
\* channel or loses its writer first (broadcast_message never stops half way).
Owed(s, m) ==
    /\ writerUp[s] /\ m \notin got[s] /\ m > regAt[s]
    /\ \E x \in channels : clients[x[1]] = s /\ m \in InChannel(x[2]) /\ m > subAt[x]
Delivered == \A s \in Session, m \in 1 .. MaxSeq : Owed(s, m) ~> ~Owed(s, m)

-----------------------------------------------------------------------------
(* What the documentation says and the code does not do *)

\* "reconnecting with the same principal ... automatically replays missed
\* channel messages" (README.md:176-179): no watermark has passed a message of
\* the channel, posted since its principal joined, that was never enqueued to
\* the principal and that neither a broadcast nor a replay under way will bring.
ReplayPending(p, c, m) ==
    \E s \in Session : /\ owner[s] = p /\ pc[s] \in {"insert", "replay", "replay_mark"}
                       /\ c \in todo[s] /\ after[s][c] < m
NoSilentLoss ==
    \A x \in member : \A m \in InChannel(x[2]) :
        m <= lastSeen[x] =>
            \/ m \in received[x[1]]
            \/ \E s \in Session : owner[s] = x[1] /\ InFlight(m, s)
            \/ ReplayPending(x[1], x[2], m)

=============================================================================
