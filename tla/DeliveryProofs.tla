--------------------------- MODULE DeliveryProofs ---------------------------
(***************************************************************************)
(* Invariants of Delivery for every set of principals, sessions and        *)
(* channels, every limit and every choice of enabled commands and faults.  *)
(***************************************************************************)
EXTENDS Delivery, FiniteSetTheorems, TLAPS

WithChannel == {"is_member", "append", "recipients", "fanout", "mark_seen", "add_membership",
                "join_inner", "remove_membership", "part_inner", "replay_mark"}

\* What a handler holds when it is at a given section
OperandsKnown ==
    \A s \in Session : /\ pc[s] \in Ready \cup {"insert", "mark_gone"} => owner[s] \in Principal
                       /\ pc[s] \in WithChannel => chan[s] \in Channel

TypeInv == TypeOK /\ OperandsKnown

\* Initially nothing is connected and nothing is stored but the seeded rows.
LEMMA InitTypeInv == Init => TypeInv
BY SeededMemberships DEF Init, TypeInv, TypeOK, OperandsKnown, Pair, Label, Ready, WithChannel, NoRow

\* Enqueue adds the given messages to what the session, and its principal, got.
LEMMA EnqueueTypes ==
    ASSUME TypeOK, NEW s \in Session, NEW ms \in SUBSET Nat, Enqueue(s, ms)
    PROVE  got' \in [Session -> SUBSET Nat] /\ received' \in [Principal -> SUBSET Nat]
<1>1. got \in [Session -> SUBSET Nat] /\ received \in [Principal -> SUBSET Nat]
    BY DEF TypeOK
<1>2. CASE writerUp[s]
    <2>1. got' \in [Session -> SUBSET Nat]
        BY <1>1, <1>2 DEF Enqueue
    <2>2. received' = [received EXCEPT ![owner[s]] = @ \cup ms]
        BY <1>2 DEF Enqueue
    <2>3. CASE owner[s] \in Principal
        BY <1>1, <2>1, <2>2, <2>3
    <2>4. CASE owner[s] \notin Principal
        BY <1>1, <2>1, <2>2, <2>4
    <2> QED
        BY <2>3, <2>4
<1>3. CASE ~writerUp[s]
    BY <1>1, <1>3 DEF Enqueue
<1> QED
    BY <1>2, <1>3

\* Only principals are recorded as crossed.
LEMMA CrossTypes ==
    ASSUME TypeOK, NEW s, owner[s] \in Principal, NEW held, Cross(s, held)
    PROVE  crossed' \subseteq Principal
BY DEF TypeOK, Cross

\* recipients_with_ids returns handles of sessions that exist.
LEMMA SubscribersAreSessions ==
    ASSUME TypeOK, NEW c
    PROVE  Subscribers(c) \subseteq Session
<1> SUFFICES ASSUME NEW r \in Subscribers(c) PROVE r \in Session
    OBVIOUS
<1>1. PICK p \in Principal : clients[p] # None /\ r = clients[p]
    BY DEF Subscribers
<1> QED
    BY <1>1 DEF TypeOK

\* Every action keeps the types and gives a handler the operands of its next section.
LEMMA NextTypeInv == TypeInv /\ [Next]_vars => TypeInv'
<1> SUFFICES ASSUME TypeInv, [Next]_vars PROVE TypeInv'
    OBVIOUS
<1> USE DEF TypeInv, TypeOK, OperandsKnown, Label, Ready, WithChannel, Goto
<1>1. ASSUME NEW s \in Session, Connect(s) PROVE TypeInv'
    BY <1>1 DEF Connect, durable, operands
<1>2. ASSUME NEW s \in Session, NEW p \in Principal, RegisterDb(s, p) PROVE TypeInv'
    BY <1>2, Limits DEF RegisterDb, Snapshot, Pair, NoRow
<1>3. ASSUME NEW s \in Session, RegisterInner(s) PROVE TypeInv'
    <2>1. owner[s] \in Principal /\ todo[s] \subseteq Channel
        BY <1>3 DEF RegisterInner
    <2>2. channels' \subseteq Pair
        BY <1>3, <2>1 DEF RegisterInner, Pair
    <2>3. subAt' \in [Pair -> Nat] /\ regAt' \in [Session -> Nat]
        BY <1>3 DEF RegisterInner
    <2>4. clients' \in [Principal -> Session \cup {None}] /\ kicked' \in [Session -> BOOLEAN]
        BY <1>3, <2>1 DEF RegisterInner
    <2>5. crossed' \subseteq Principal
        BY <1>3 DEF RegisterInner
    <2> QED
        BY <1>3, <2>2, <2>3, <2>4, <2>5 DEF RegisterInner, durable, operands
<1>4. ASSUME NEW s \in Session, ReplayChannel(s) PROVE TypeInv'
    <2>1. PICK c \in todo[s] : ReplayChannel(s)!(c)
        BY <1>4 DEF ReplayChannel
    <2> DEFINE page == Page(c, after[s][c], limit[s])
    <2>2. c \in Channel /\ page \subseteq Nat
        BY DEF Page, InChannel
    <2>3. got' \in [Session -> SUBSET Nat] /\ received' \in [Principal -> SUBSET Nat]
        BY <2>1, <2>2, EnqueueTypes
    <2>4. CASE page = {} /\ todo' = [todo EXCEPT ![s] = @ \ {c}] /\ UNCHANGED <<pc, chan, seq>>
        BY <2>1, <2>3, <2>4 DEF durable
    <2>5. CASE \E top \in page : /\ seq' = [seq EXCEPT ![s] = top]
                                 /\ chan' = [chan EXCEPT ![s] = c]
                                 /\ pc' = [pc EXCEPT ![s] = "replay_mark"] /\ UNCHANGED todo
        <3>1. PICK top \in page : seq' = [seq EXCEPT ![s] = top]
            BY <2>5
        <3>2. seq' \in [Session -> Nat]
            BY <2>2, <3>1
        <3> QED
            BY <2>1, <2>2, <2>3, <2>5, <3>2 DEF durable
    <2> QED
        BY <2>1, <2>4, <2>5
<1>5. ASSUME NEW s \in Session, ReplayMark(s) PROVE TypeInv'
    BY <1>5 DEF ReplayMark, MarkSeen, history
<1>6. ASSUME NEW s \in Session, ReplayDone(s) PROVE TypeInv'
    BY <1>6 DEF ReplayDone, durable, history
<1>7. ASSUME NEW s \in Session, BeginHistory(s) PROVE TypeInv'
    <2>1. after' \in [Session -> [Channel -> Nat]] /\ limit' \in [Session -> Nat]
        BY <1>7, Limits DEF BeginHistory, Clamp
    <2>2. ASSUME NEW c \in Channel, todo' = [todo EXCEPT ![s] = {c}],
                 pc' = [pc EXCEPT ![s] = "replay"]
          PROVE  TypeInv'
        BY <1>7, <2>1, <2>2 DEF BeginHistory, Active, durable, history
    <2>3. CASE pc' = [pc EXCEPT ![s] = "memberships"] /\ UNCHANGED todo
        BY <1>7, <2>1, <2>3 DEF BeginHistory, Active, durable, history
    <2> QED
        BY <1>7, <2>2, <2>3 DEF BeginHistory
<1>8. ASSUME NEW s \in Session, ListMemberships(s) PROVE TypeInv'
    BY <1>8 DEF ListMemberships, Snapshot, durable, history
<1>9. ASSUME NEW s \in Session, NEW c \in Channel, BeginPrivmsg(s, c) PROVE TypeInv'
    BY <1>9 DEF BeginPrivmsg, Active, durable, history
<1>10. ASSUME NEW s \in Session, IsMember(s) PROVE TypeInv'
    <2>1. CASE pc' = [pc EXCEPT ![s] = "append"] /\ UNCHANGED chan
        BY <1>10, <2>1 DEF IsMember, durable, history
    <2>2. CASE pc' = [pc EXCEPT ![s] = "idle"] /\ chan' = [chan EXCEPT ![s] = None]
        BY <1>10, <2>2 DEF IsMember, durable, history
    <2> QED
        BY <1>10, <2>1, <2>2 DEF IsMember
<1>11. ASSUME NEW s \in Session, NEW c \in Channel, BeginTaskEvent(s, c) PROVE TypeInv'
    BY <1>11 DEF BeginTaskEvent, Active, durable, history
<1>12. ASSUME NEW s \in Session, AppendMessage(s) PROVE TypeInv'
    BY <1>12 DEF AppendMessage, history
<1>13. ASSUME NEW s \in Session, Recipients(s) PROVE TypeInv'
    <2>1. Subscribers(chan[s]) \subseteq Session
        BY SubscribersAreSessions
    <2> QED
        BY <1>13, <2>1 DEF Recipients, durable, history
<1>14. ASSUME NEW s \in Session, Send(s) PROVE TypeInv'
    <2>1. PICK r \in pending[s] : Send(s)!(r)
        BY <1>14 DEF Send
    <2>2. r \in Session /\ {seq[s]} \subseteq Nat
        OBVIOUS
    <2>3. got' \in [Session -> SUBSET Nat] /\ received' \in [Principal -> SUBSET Nat]
        BY <2>1, <2>2, EnqueueTypes
    <2>4. CASE pc' = [pc EXCEPT ![s] = "mark_seen"] /\ target' = [target EXCEPT ![s] = r]
        BY <2>1, <2>2, <2>3, <2>4 DEF durable
    <2>5. CASE UNCHANGED <<pc, target>>
        BY <2>1, <2>2, <2>3, <2>5 DEF durable
    <2> QED
        BY <2>1, <2>4, <2>5
<1>15. ASSUME NEW s \in Session, SendMark(s) PROVE TypeInv'
    BY <1>15 DEF SendMark, MarkSeen, history
<1>16. ASSUME NEW s \in Session, SendDone(s) PROVE TypeInv'
    BY <1>16 DEF SendDone, durable, history
<1>17. ASSUME NEW s \in Session, NEW c \in Channel, BeginMembership(s, c) PROVE TypeInv'
    <2>1. CASE pc' = [pc EXCEPT ![s] = "add_membership"]
        BY <1>17, <2>1 DEF BeginMembership, Active, durable, history
    <2>2. CASE pc' = [pc EXCEPT ![s] = "remove_membership"]
        BY <1>17, <2>2 DEF BeginMembership, Active, durable, history
    <2> QED
        BY <1>17, <2>1, <2>2 DEF BeginMembership
<1>18. ASSUME NEW s \in Session, AddMembership(s) PROVE TypeInv'
    <2> DEFINE x == <<owner[s], chan[s]>>
    <2>1. x \in Pair
        BY <1>18 DEF AddMembership, Pair
    <2>0. crossed' \subseteq Principal
        BY <1>18, CrossTypes DEF AddMembership
    <2>2. CASE UNCHANGED <<member, lastSeen, received>>
        BY <1>18, <2>0, <2>2 DEF AddMembership, operands
    <2>3. ASSUME NEW top \in InChannel(chan[s]) \cup {0}, member' = member \cup {x},
                 lastSeen' = [lastSeen EXCEPT ![x] = top],
                 received' = [received EXCEPT ![owner[s]] = @ \cup InChannel(chan[s])]
          PROVE  TypeInv'
        <3>1. top \in Nat /\ InChannel(chan[s]) \subseteq Nat
            BY DEF InChannel
        <3>2. /\ lastSeen' \in [Pair -> Nat]
              /\ received' \in [Principal -> SUBSET Nat]
              /\ member' \subseteq Pair
            BY <2>1, <2>3, <3>1
        <3> QED
            BY <1>18, <2>0, <3>2 DEF AddMembership, operands
    <2> QED
        BY <1>18, <2>2, <2>3 DEF AddMembership
<1>19. ASSUME NEW s \in Session, JoinInner(s) PROVE TypeInv'
    <2>1. <<owner[s], chan[s]>> \in Pair
        BY <1>19 DEF JoinInner, Pair
    <2>2. channels' \subseteq Pair
        BY <1>19, <2>1 DEF JoinInner
    <2>3. subAt' \in [Pair -> Nat]
        <3>1. Len(messages) \in Nat
            OBVIOUS
        <3> QED
            BY <1>19, <2>1, <3>1 DEF JoinInner
    <2>4. crossed' \subseteq Principal
        BY <1>19, CrossTypes DEF JoinInner
    <2> QED
        BY <1>19, <2>2, <2>3, <2>4 DEF JoinInner, durable
<1>20. ASSUME NEW s \in Session, RemoveMembership(s) PROVE TypeInv'
    <2>1. crossed' \subseteq Principal
        BY <1>20, CrossTypes DEF RemoveMembership
    <2> QED
        BY <1>20, <2>1 DEF RemoveMembership, Pair, operands
<1>21. ASSUME NEW s \in Session, PartInner(s) PROVE TypeInv'
    <2>1. crossed' \subseteq Principal
        BY <1>21, CrossTypes DEF PartInner
    <2>2. subAt' \in [Pair -> Nat]
        BY <1>21 DEF PartInner
    <2> QED
        BY <1>21, <2>1, <2>2 DEF PartInner, durable
<1>22. ASSUME NEW s \in Session, Leave(s) PROVE TypeInv'
    BY <1>22 DEF Leave, MayLeave, durable, operands, history
<1>23. ASSUME NEW s \in Session, DisconnectInner(s) PROVE TypeInv'
    <2>1. /\ clients' \in [Principal -> Session \cup {None}]
          /\ writerUp' \in [Session -> BOOLEAN]
        BY <1>23 DEF DisconnectInner
    <2>2. CASE Owns(s) /\ pc' = [pc EXCEPT ![s] = "mark_gone"]
        BY <1>23, <2>1, <2>2 DEF DisconnectInner, Owns, durable, operands, history
    <2>3. CASE pc' = [pc EXCEPT ![s] = "closed"]
        BY <1>23, <2>1, <2>3 DEF DisconnectInner, durable, operands, history
    <2> QED
        BY <1>23, <2>2, <2>3 DEF DisconnectInner
<1>24. ASSUME NEW s \in Session, MarkGone(s) PROVE TypeInv'
    <2>1. crossed' \subseteq Principal
        BY <1>24, CrossTypes DEF MarkGone
    <2> QED
        BY <1>24, <2>1 DEF MarkGone, operands
<1>25. ASSUME NEW s \in Session, Evicted(s) PROVE TypeInv'
    BY <1>25 DEF Evicted, durable, operands, history
<1>26. ASSUME NEW s \in Session, ReadError(s) PROVE TypeInv'
    BY <1>26 DEF ReadError, durable, operands, history
<1>27. ASSUME NEW s \in Session, WriteError(s) PROVE TypeInv'
    BY <1>27 DEF WriteError, durable, operands, history
<1>28. CASE Crash
    BY <1>28 DEF Crash, durable
<1>29. CASE UNCHANGED vars
    BY <1>29 DEF vars, durable, operands, history
<1> QED
    BY <1>1, <1>2, <1>3, <1>4, <1>5, <1>6, <1>7, <1>8, <1>9, <1>10, <1>11, <1>12, <1>13, <1>14,
       <1>15, <1>16, <1>17, <1>18, <1>19, <1>20, <1>21, <1>22, <1>23, <1>24, <1>25, <1>26,
       <1>27, <1>28, <1>29 DEF Next, Handler, Command

\* Type correctness of the server, and that no handler runs a section without
\* the principal and the channel that section works on.
THEOREM TypeCorrect == Spec => [](TypeOK /\ OperandsKnown)
<1>1. TypeInv => TypeOK /\ OperandsKnown
    BY DEF TypeInv
<1> QED
    BY <1>1, InitTypeInv, NextTypeInv, PTL DEF Spec

-----------------------------------------------------------------------------
(* One active connection per principal *)

Arriving == {"open", "insert"}

\* The client table maps a principal to a session that registered as it, and
\* never to a session that has yet to register.
TableSound ==
    /\ \A p \in Principal : clients[p] # None => owner[clients[p]] = p
    /\ \A s \in Session : pc[s] \in Arriving => \A p \in Principal : clients[p] # s
ReplaceInv == TypeInv /\ TableSound /\ ReplacedIsToldToStop

\* No session is registered at first, so none was replaced.
LEMMA InitReplaceInv == Init => TableSound /\ ReplacedIsToldToStop
BY DEF Init, TableSound, Arriving, ReplacedIsToldToStop, Ready

\* A step that leaves the table, the owners and the shutdown queues alone and
\* makes no session arrive or become ready keeps the table sound.
LEMMA TableUntouched ==
    ASSUME ReplaceInv, UNCHANGED <<clients, owner, kicked>>,
           \A t \in Session : /\ pc'[t] \in Ready => pc[t] \in Ready
                              /\ pc'[t] \in Arriving => pc[t] \in Arriving
    PROVE  TableSound' /\ ReplacedIsToldToStop'
BY DEF ReplaceInv, TableSound, ReplacedIsToldToStop

\* Every action keeps the client table sound: one that replaces an entry tells
\* the old session, and only the owner of an entry removes it.
LEMMA NextReplaceInv == ReplaceInv /\ [Next]_vars => (TableSound /\ ReplacedIsToldToStop)'
<1> SUFFICES ASSUME ReplaceInv, [Next]_vars PROVE TableSound' /\ ReplacedIsToldToStop'
    OBVIOUS
<1>0. TypeOK /\ pc \in [Session -> Label] /\ OperandsKnown
    BY DEF ReplaceInv, TypeInv, TypeOK
<1>1. ASSUME NEW s \in Session, Connect(s) PROVE TableSound' /\ ReplacedIsToldToStop'
    BY <1>0, <1>1 DEF Connect, ReplaceInv, TableSound, ReplacedIsToldToStop, Unreferenced, Goto,
                 Arriving, Ready, TypeOK
<1>2. ASSUME NEW s \in Session, NEW p \in Principal, RegisterDb(s, p)
      PROVE  TableSound' /\ ReplacedIsToldToStop'
    BY <1>0, <1>2 DEF RegisterDb, ReplaceInv, TableSound, ReplacedIsToldToStop, Goto, Arriving,
                 Ready, TypeOK
<1>3. ASSUME NEW s \in Session, RegisterInner(s) PROVE TableSound' /\ ReplacedIsToldToStop'
    <2>1. /\ owner[s] \in Principal /\ owner' = owner
          /\ clients' = [clients EXCEPT ![owner[s]] = s]
          /\ pc' = [pc EXCEPT ![s] = "replay"]
          /\ \A q \in Session : kicked'[q] = (kicked[q] \/ q = clients[owner[s]])
        BY <1>0, <1>3 DEF RegisterInner, OperandsKnown, Goto
    <2>2. TableSound'
        BY <1>0, <1>3, <2>1 DEF RegisterInner, ReplaceInv, TableSound, Arriving, TypeOK
    <2>3. ReplacedIsToldToStop'
        BY <1>0, <2>1 DEF ReplaceInv, ReplacedIsToldToStop, OperandsKnown, TypeOK
    <2> QED
        BY <2>2, <2>3
<1>4. ASSUME NEW s \in Session, DisconnectInner(s) PROVE TableSound' /\ ReplacedIsToldToStop'
    <2>1. CASE Owns(s)
        <3>1. /\ owner[s] \in Principal /\ clients[owner[s]] = s /\ pc[s] = "disconnect"
              /\ clients' = [clients EXCEPT ![owner[s]] = None]
              /\ pc' = [pc EXCEPT ![s] = "mark_gone"]
              /\ UNCHANGED <<owner, kicked>>
            BY <1>0, <1>4, <2>1 DEF DisconnectInner, Owns, Goto, TypeOK
        <3>2. TableSound'
            BY <1>0, <3>1, NoneIsNobody DEF ReplaceInv, TableSound, Arriving, TypeOK
        <3>3. ASSUME NEW t \in Session, pc'[t] \in Ready, clients'[owner'[t]] # t PROVE kicked'[t]
            <4>1. t # s /\ pc[t] \in Ready /\ owner[t] \in Principal
                BY <1>0, <3>1, <3>3 DEF Ready, OperandsKnown
            <4>2. clients[owner[t]] # t
                BY <1>0, <3>1, <3>3, <4>1 DEF TypeOK
            <4> QED
                BY <3>1, <4>1, <4>2 DEF ReplaceInv, ReplacedIsToldToStop
        <3> QED
            BY <3>2, <3>3 DEF ReplacedIsToldToStop
    <2>2. CASE ~Owns(s)
        BY <1>0, <1>4, <2>2, TableUntouched DEF DisconnectInner, Goto, Arriving, Ready
    <2> QED
        BY <2>1, <2>2
<1>5. CASE Crash
    BY <1>0, <1>5, NoneIsNobody DEF Crash, TableSound, ReplacedIsToldToStop, Arriving, Ready
<1>6. ASSUME NEW s \in Session, UNCHANGED <<clients, owner, kicked>>,
             NEW l \in Ready \cup {"closed", "disconnect", "mark_gone"},
             pc' = [pc EXCEPT ![s] = l], l \in Ready => pc[s] \in Ready
      PROVE  TableSound' /\ ReplacedIsToldToStop'
    BY <1>0, <1>6, TableUntouched DEF Arriving, Ready
<1>7. ASSUME NEW s \in Session,
             ReplayChannel(s) \/ ReplayMark(s) \/ ReplayDone(s) \/ BeginHistory(s) \/ ListMemberships(s)
      PROVE  TableSound' /\ ReplacedIsToldToStop'
    <2>1. UNCHANGED <<clients, owner, kicked>> /\ pc[s] \in Ready
        BY <1>7 DEF ReplayChannel, ReplayMark, ReplayDone, BeginHistory, ListMemberships, Active, Ready
    <2>2. \E l \in Ready : pc' = [pc EXCEPT ![s] = l]
        <3>1. CASE UNCHANGED pc
            BY <1>0, <2>1, <3>1
        <3> QED
            BY <1>7, <3>1
            DEF ReplayChannel, ReplayMark, ReplayDone, BeginHistory, ListMemberships, Goto, Ready
    <2> QED
        BY <1>6, <2>1, <2>2
<1>8. ASSUME NEW s \in Session,
             \/ \E c \in Channel : BeginPrivmsg(s, c) \/ BeginTaskEvent(s, c)
             \/ IsMember(s) \/ AppendMessage(s) \/ Recipients(s) \/ Send(s) \/ SendMark(s) \/ SendDone(s)
      PROVE  TableSound' /\ ReplacedIsToldToStop'
    <2>1. UNCHANGED <<clients, owner, kicked>> /\ pc[s] \in Ready
        BY <1>8 DEF BeginPrivmsg, BeginTaskEvent, IsMember, AppendMessage, Recipients, Send, SendMark,
                    SendDone, Active, Ready
    <2>2. \E l \in Ready : pc' = [pc EXCEPT ![s] = l]
        <3>1. CASE UNCHANGED pc
            BY <1>0, <2>1, <3>1
        <3> QED
            BY <1>8, <3>1 DEF BeginPrivmsg, BeginTaskEvent, IsMember, AppendMessage, Recipients, Send,
                              SendMark, SendDone, Goto, Ready
    <2> QED
        BY <1>6, <2>1, <2>2
<1>9. ASSUME NEW s \in Session,
             \/ \E c \in Channel : BeginMembership(s, c)
             \/ AddMembership(s) \/ JoinInner(s) \/ RemoveMembership(s) \/ PartInner(s)
      PROVE  TableSound' /\ ReplacedIsToldToStop'
    <2>1. UNCHANGED <<clients, owner, kicked>> /\ pc[s] \in Ready
        BY <1>9 DEF BeginMembership, AddMembership, JoinInner, RemoveMembership, PartInner, Active, Ready
    <2>2. \E l \in Ready : pc' = [pc EXCEPT ![s] = l]
        BY <1>9 DEF BeginMembership, AddMembership, JoinInner, RemoveMembership, PartInner, Goto, Ready
    <2> QED
        BY <1>6, <2>1, <2>2
<1>10. ASSUME NEW s \in Session, Leave(s) \/ MarkGone(s) \/ Evicted(s) \/ ReadError(s)
       PROVE  TableSound' /\ ReplacedIsToldToStop'
    BY <1>6, <1>10 DEF Leave, MarkGone, Evicted, ReadError, Goto, Ready
<1>11. ASSUME NEW s \in Session, WriteError(s) PROVE TableSound' /\ ReplacedIsToldToStop'
    BY <1>11, TableUntouched DEF WriteError
<1>12. CASE UNCHANGED vars
    BY <1>12, TableUntouched DEF vars
<1> QED
    BY <1>1, <1>2, <1>3, <1>4, <1>5, <1>7, <1>8, <1>9, <1>10, <1>11, <1>12
    DEF Next, Handler, Command

\* A registered session that is not, or no longer, the active one of its
\* principal has been told to stop: no replaced session lives on unnoticed.
THEOREM ReplacedStops == Spec => []ReplacedIsToldToStop
<1>1. Init => ReplaceInv
    BY InitTypeInv, InitReplaceInv DEF ReplaceInv
<1>2. ReplaceInv /\ [Next]_vars => ReplaceInv'
    BY NextTypeInv, NextReplaceInv DEF ReplaceInv
<1>3. ReplaceInv => ReplacedIsToldToStop
    BY DEF ReplaceInv
<1> QED
    BY <1>1, <1>2, <1>3, PTL DEF Spec

-----------------------------------------------------------------------------
(* Live fan-out leaves no hole *)

Phase(q) == pc[q] \in {"fanout", "mark_seen"}

\* A broadcast carries a message of the channel it looks recipients up for.
Carries == \A q \in Session : pc[q] = "recipients" \/ Phase(q) =>
                seq[q] \in DOMAIN messages /\ messages[seq[q]] = chan[q]
ActiveCovered(x, m) == Covered(m, clients[x[1]])
LiveInv == ReplaceInv /\ Carries /\ LiveComplete

\* The history is empty at first, so nothing is owed.
LEMMA InitLiveInv == Init => Carries /\ LiveComplete
BY DEF Init, Carries, Phase, LiveComplete

\* Enqueue takes nothing out of a queue and puts its messages into a live one.
LEMMA EnqueueGrows ==
    ASSUME TypeOK, NEW s \in Session, NEW ms, Enqueue(s, ms)
    PROVE  /\ \A r \in Session : got[r] \subseteq got'[r]
           /\ writerUp[s] => ms \subseteq got'[s]
<1>1. CASE writerUp[s]
    <2>1. got \in [Session -> SUBSET Nat] /\ got' = [got EXCEPT ![s] = @ \cup ms]
        BY <1>1 DEF TypeOK, Enqueue
    <2>2. got'[s] = got[s] \cup ms /\ \A r \in Session \ {s} : got'[r] = got[r]
        BY <2>1
    <2> QED
        BY <2>2
<1>2. CASE ~writerUp[s]
    BY <1>2 DEF Enqueue
<1> QED
    BY <1>1, <1>2

\* What covers a message at one step covers it at the next, when queues only
\* grow and no broadcast moves past the session.
LEMMA CoveredStays ==
    ASSUME NEW m, NEW r \in Session, Covered(m, r), got[r] \subseteq got'[r],
           \A q \in Session :
              \/ ~(pc[q] = "recipients" \/ Phase(q))
              \/ /\ seq'[q] = seq[q] /\ pending'[q] = pending[q]
                 /\ pc[q] = "recipients" => pc'[q] = "recipients"
                 /\ Phase(q) => Phase(q)'
    PROVE  Covered(m, r)'
BY DEF Covered, InFlight, Phase

\* A step that touches neither the history nor the tables, and under which no
\* broadcast begins, ends or advances.
Broadcasts == <<messages, clients, channels, regAt, subAt>>
LEMMA LiveUntouched ==
    ASSUME LiveInv, UNCHANGED Broadcasts,
           \A r \in Session : got[r] \subseteq got'[r] /\ (writerUp'[r] => writerUp[r]),
           \A q \in Session :
              /\ \/ pc'[q] = pc[q]
                 \/ Phase(q) /\ Phase(q)'
                 \/ /\ ~(pc[q] = "recipients" \/ Phase(q))
                    /\ ~(pc'[q] = "recipients" \/ Phase(q)')
              /\ \/ ~(pc[q] = "recipients" \/ Phase(q))
                 \/ seq'[q] = seq[q] /\ pending'[q] = pending[q] /\ chan'[q] = chan[q]
    PROVE  Carries' /\ LiveComplete'
<1>1. Carries'
    BY DEF LiveInv, Carries, Phase, Broadcasts
<1>2. ASSUME NEW x \in channels', clients'[x[1]] # None, writerUp'[clients'[x[1]]],
             NEW m \in InChannel(x[2])', m > subAt'[x], m > regAt'[clients'[x[1]]]
      PROVE  ActiveCovered(x, m)'
    <2> DEFINE r == clients[x[1]]
    <2>1. x \in channels /\ r = clients'[x[1]] /\ x[1] \in Principal /\ r \in Session
        BY <1>2, NoneIsNobody DEF LiveInv, ReplaceInv, TypeInv, TypeOK, Pair, Broadcasts
    <2>2. Covered(m, r)
        BY <1>2, <2>1 DEF LiveInv, LiveComplete, Broadcasts, InChannel
    <2>3. Covered(m, r)'
        BY <2>1, <2>2, CoveredStays DEF Phase
    <2> QED
        BY <2>1, <2>3 DEF Broadcasts, ActiveCovered, Covered, InFlight
<1> QED
    BY <1>1, <1>2 DEF LiveComplete, ActiveCovered

\* The same when tables change, as long as whatever is owed after the step was
\* owed before it.
LEMMA OwedBefore ==
    ASSUME LiveInv,
           ASSUME NEW x \in channels', clients'[x[1]] # None, writerUp'[clients'[x[1]]],
                  NEW m \in InChannel(x[2])', m > subAt'[x], m > regAt'[clients'[x[1]]]
           PROVE  /\ x \in channels /\ clients[x[1]] = clients'[x[1]] /\ writerUp[clients[x[1]]]
                  /\ m \in InChannel(x[2]) /\ m > subAt[x] /\ m > regAt[clients[x[1]]]
                  /\ got[clients[x[1]]] \subseteq got'[clients[x[1]]],
           \A q \in Session :
              \/ ~(pc[q] = "recipients" \/ Phase(q))
              \/ seq'[q] = seq[q] /\ pending'[q] = pending[q] /\ pc'[q] = pc[q]
    PROVE  LiveComplete'
<1>1. ASSUME NEW x \in channels', clients'[x[1]] # None, writerUp'[clients'[x[1]]],
             NEW m \in InChannel(x[2])', m > subAt'[x], m > regAt'[clients'[x[1]]]
      PROVE  ActiveCovered(x, m)'
    <2> DEFINE r == clients[x[1]]
    <2>1. /\ x \in channels /\ r = clients'[x[1]] /\ writerUp[r] /\ got[r] \subseteq got'[r]
          /\ m \in InChannel(x[2]) /\ m > subAt[x] /\ m > regAt[r]
        BY <1>1
    <2>2. r \in Session
        BY <1>1, <2>1 DEF LiveInv, ReplaceInv, TypeInv, TypeOK, Pair
    <2>3. Covered(m, r)
        BY <1>1, <2>1 DEF LiveInv, LiveComplete
    <2>4. Covered(m, r)'
        BY <2>1, <2>2, <2>3, CoveredStays DEF Phase
    <2> QED
        BY <2>1, <2>4 DEF ActiveCovered, Covered, InFlight
<1> QED
    BY <1>1 DEF LiveComplete, ActiveCovered

\* Every action keeps the fan-out complete: a message enters the history with
\* its recipients still to be computed, and leaves a handler into their queues.
LEMMA NextLiveInv == LiveInv /\ [Next]_vars => (Carries /\ LiveComplete)'
<1> SUFFICES ASSUME LiveInv, [Next]_vars PROVE Carries' /\ LiveComplete'
    OBVIOUS
<1>0. TypeOK /\ OperandsKnown /\ TableSound /\ Carries /\ LiveComplete
    BY DEF LiveInv, ReplaceInv, TypeInv
<1>1. ASSUME NEW s \in Session, Connect(s) PROVE Carries' /\ LiveComplete'
    <2>1. /\ \A p \in Principal : clients[p] # s
          /\ pc[s] = "closed" /\ pc' = [pc EXCEPT ![s] = "open"]
          /\ got' = [got EXCEPT ![s] = {}] /\ writerUp' = [writerUp EXCEPT ![s] = TRUE]
          /\ regAt' = [regAt EXCEPT ![s] = 0]
          /\ UNCHANGED <<messages, clients, channels, chan, seq, pending, subAt>>
        BY <1>1 DEF Connect, Unreferenced, Goto, durable, operands
    <2>2. Carries'
        BY <1>0, <2>1 DEF Carries, Phase, TypeOK
    <2>3. LiveComplete'
        BY <1>0, <2>1, OwedBefore DEF Phase, TypeOK, Pair, InChannel
    <2> QED
        BY <2>2, <2>3
<1>2. ASSUME NEW s \in Session, RegisterInner(s) PROVE Carries' /\ LiveComplete'
    <2>1. /\ owner[s] \in Principal
          /\ clients' = [clients EXCEPT ![owner[s]] = s]
          /\ pc[s] = "insert" /\ pc' = [pc EXCEPT ![s] = "replay"]
          /\ regAt' = [regAt EXCEPT ![s] = Len(messages)]
          /\ \A x \in Pair : subAt'[x] = IF x \in channels' \ channels THEN Len(messages) ELSE subAt[x]
          /\ channels' \subseteq Pair
          /\ UNCHANGED <<messages, chan, seq, pending, got, writerUp>>
        BY <1>0, <1>2 DEF RegisterInner, OperandsKnown, Goto, durable, operands, TypeOK, Pair
    <2>2. Carries'
        BY <1>0, <2>1 DEF Carries, Phase, TypeOK
    <2>3. LiveComplete'
        <3>1. Len(messages) \in Nat /\ DOMAIN messages = 1 .. Len(messages)
            BY <1>0 DEF TypeOK
        <3>2. ASSUME NEW x \in channels', clients'[x[1]] # None, writerUp'[clients'[x[1]]],
                     NEW m \in InChannel(x[2])', m > subAt'[x], m > regAt'[clients'[x[1]]]
              PROVE  /\ x \in channels /\ clients[x[1]] = clients'[x[1]] /\ writerUp[clients[x[1]]]
                     /\ m \in InChannel(x[2]) /\ m > subAt[x] /\ m > regAt[clients[x[1]]]
                     /\ got[clients[x[1]]] \subseteq got'[clients[x[1]]]
            <4>1. m \in Nat /\ m <= Len(messages) /\ m \in InChannel(x[2])
                BY <2>1, <3>1, <3>2 DEF InChannel
            <4>2. x \in Pair /\ x[1] \in Principal
                BY <2>1, <3>2 DEF Pair
            <4>3. x \in channels /\ subAt'[x] = subAt[x]
                BY <2>1, <3>1, <3>2, <4>1, <4>2
            <4>4. clients'[x[1]] # s
                BY <1>0, <2>1, <3>1, <3>2, <4>1 DEF TypeOK
            <4>5. clients[x[1]] = clients'[x[1]] /\ clients[x[1]] \in Session
                BY <1>0, <2>1, <3>2, <4>2, <4>4 DEF TypeOK
            <4> QED
                BY <1>0, <2>1, <3>2, <4>1, <4>3, <4>4, <4>5 DEF TypeOK
        <3> QED
            BY <1>0, <2>1, <3>2, OwedBefore DEF Phase, TypeOK
    <2> QED
        BY <2>2, <2>3
<1>3. ASSUME NEW s \in Session, AppendMessage(s) PROVE Carries' /\ LiveComplete'
    <2> DEFINE n == Len(messages) + 1
    <2>1. /\ chan[s] \in Channel /\ messages' = Append(messages, chan[s])
          /\ seq' = [seq EXCEPT ![s] = n]
          /\ pc[s] = "append" /\ pc' = [pc EXCEPT ![s] = "recipients"]
          /\ UNCHANGED <<clients, channels, chan, pending, got, writerUp, regAt, subAt>>
        BY <1>0, <1>3 DEF AppendMessage, OperandsKnown, WithChannel, Goto, history
    <2>2. /\ n \in Nat /\ DOMAIN messages = 1 .. n - 1 /\ DOMAIN messages' = 1 .. n
          /\ messages'[n] = chan[s] /\ \A m \in DOMAIN messages : messages'[m] = messages[m]
        BY <1>0, <2>1 DEF TypeOK
    <2>3. Carries'
        BY <1>0, <2>1, <2>2 DEF Carries, Phase, TypeOK
    <2>4. ASSUME NEW x \in channels', clients'[x[1]] # None, writerUp'[clients'[x[1]]],
                 NEW m \in InChannel(x[2])', m > subAt'[x], m > regAt'[clients'[x[1]]]
          PROVE  ActiveCovered(x, m)'
        <3> DEFINE r == clients[x[1]]
        <3>1. x \in channels /\ r \in Session /\ m \in 1 .. n
            BY <1>0, <2>1, <2>2, <2>4 DEF TypeOK, Pair, InChannel
        <3>2. CASE m = n
            <4>1. seq'[s] = m /\ pc'[s] = "recipients"
                BY <1>0, <2>1, <3>2 DEF TypeOK
            <4> QED
                BY <4>1 DEF ActiveCovered, Covered, InFlight
        <3>3. CASE m # n
            <4>1. m \in InChannel(x[2])
                BY <2>2, <2>4, <3>1, <3>3 DEF InChannel
            <4>2. Covered(m, r)
                BY <1>0, <2>1, <2>4, <3>1, <4>1 DEF LiveComplete
            <4>3. Covered(m, r)'
                BY <1>0, <2>1, <3>1, <4>2, CoveredStays DEF Phase, TypeOK
            <4> QED
                BY <2>1, <4>3 DEF ActiveCovered, Covered, InFlight
        <3> QED
            BY <3>2, <3>3
    <2> QED
        BY <2>3, <2>4 DEF LiveComplete, ActiveCovered
<1>4. ASSUME NEW s \in Session, Recipients(s) PROVE Carries' /\ LiveComplete'
    <2>1. /\ pending' = [pending EXCEPT ![s] = Subscribers(chan[s])]
          /\ pc[s] = "recipients" /\ pc' = [pc EXCEPT ![s] = "fanout"]
          /\ UNCHANGED <<messages, clients, channels, chan, seq, got, writerUp, regAt, subAt>>
        BY <1>4 DEF Recipients, Goto, durable, history
    <2>2. Carries'
        BY <1>0, <2>1 DEF Carries, Phase, TypeOK
    <2>3. ASSUME NEW x \in channels, clients[x[1]] # None, writerUp[clients[x[1]]],
                 NEW m \in InChannel(x[2]), m > subAt[x], m > regAt[clients[x[1]]]
          PROVE  ActiveCovered(x, m)'
        <3> DEFINE r == clients[x[1]]
        <3>1. Covered(m, r) /\ r \in Session /\ x[1] \in Principal /\ x = <<x[1], x[2]>>
            BY <1>0, <2>3 DEF LiveComplete, TypeOK, Pair
        <3>2. CASE seq[s] = m
            <4>1. x[2] = chan[s]
                BY <1>0, <2>1, <2>3, <3>2 DEF Carries, InChannel
            <4>2. r \in Subscribers(chan[s])
                BY <2>3, <3>1, <4>1 DEF Subscribers
            <4>3. seq'[s] = m /\ pc'[s] = "fanout" /\ r \in pending'[s] /\ clients'[x[1]] = r
                BY <1>0, <2>1, <3>2, <4>2 DEF TypeOK
            <4> QED
                BY <4>3 DEF ActiveCovered, Covered, InFlight
        <3>3. CASE seq[s] # m
            BY <1>0, <2>1, <3>1, <3>3 DEF ActiveCovered, Covered, InFlight, TypeOK
        <3> QED
            BY <3>2, <3>3
    <2> QED
        BY <2>1, <2>2, <2>3 DEF LiveComplete, ActiveCovered, InChannel
<1>5. ASSUME NEW s \in Session, Send(s) PROVE Carries' /\ LiveComplete'
    <2>1. PICK r0 \in pending[s] :
             /\ pc[s] = "fanout" /\ Enqueue(r0, {seq[s]})
             /\ pending' = [pending EXCEPT ![s] = @ \ {r0}]
             /\ \/ writerUp[r0] /\ pc' = [pc EXCEPT ![s] = "mark_seen"]
                \/ ~writerUp[r0] /\ UNCHANGED pc
             /\ UNCHANGED <<messages, clients, channels, chan, seq, writerUp, regAt, subAt>>
        BY <1>5 DEF Send, Goto, durable
    <2>2. /\ \A q \in Session \ {s} : pc'[q] = pc[q] /\ pending'[q] = pending[q]
          /\ pc'[s] \in {"fanout", "mark_seen"} /\ pending'[s] = pending[s] \ {r0}
          /\ \A r \in Session : got[r] \subseteq got'[r]
          /\ r0 \in Session /\ (writerUp[r0] => seq[s] \in got'[r0])
        <3>1. r0 \in Session /\ pending'[s] = pending[s] \ {r0}
              /\ \A q \in Session \ {s} : pending'[q] = pending[q]
            BY <1>0, <2>1 DEF TypeOK
        <3>2. /\ \A r \in Session : got[r] \subseteq got'[r]
              /\ writerUp[r0] => seq[s] \in got'[r0]
            BY <1>0, <2>1, <3>1, EnqueueGrows
        <3>3. pc'[s] \in {"fanout", "mark_seen"} /\ \A q \in Session \ {s} : pc'[q] = pc[q]
            BY <1>0, <2>1 DEF TypeOK
        <3> QED
            BY <3>1, <3>2, <3>3
    <2>3. Carries'
        BY <1>0, <2>1, <2>2 DEF Carries, Phase
    <2>4. ASSUME NEW x \in channels, clients[x[1]] # None, writerUp[clients[x[1]]],
                 NEW m \in InChannel(x[2]), m > subAt[x], m > regAt[clients[x[1]]]
          PROVE  ActiveCovered(x, m)'
        <3> DEFINE r == clients[x[1]]
        <3>1. Covered(m, r) /\ r \in Session
            BY <1>0, <2>4 DEF LiveComplete, TypeOK, Pair
        <3>2. CASE m \in got[r]
            BY <2>1, <2>2, <3>1, <3>2 DEF ActiveCovered, Covered
        <3>3. ASSUME NEW q \in Session, seq[q] = m,
                     pc[q] = "recipients" \/ (pc[q] \in {"fanout", "mark_seen"} /\ r \in pending[q])
              PROVE  ActiveCovered(x, m)'
            <4>1. CASE q = s /\ r = r0
                BY <2>1, <2>2, <2>4, <3>3, <4>1 DEF ActiveCovered, Covered
            <4>2. CASE q # s \/ r # r0
                BY <2>1, <2>2, <3>3, <4>2 DEF ActiveCovered, Covered, InFlight
            <4> QED
                BY <4>1, <4>2
        <3> QED
            BY <3>1, <3>2, <3>3 DEF Covered, InFlight
    <2> QED
        BY <2>1, <2>3, <2>4 DEF LiveComplete, ActiveCovered, InChannel
<1>6. ASSUME NEW s \in Session, SendDone(s) PROVE Carries' /\ LiveComplete'
    <2>1. /\ pc[s] = "fanout" /\ pending[s] = {} /\ pc' = [pc EXCEPT ![s] = "idle"]
          /\ seq' = [seq EXCEPT ![s] = 0] /\ chan' = [chan EXCEPT ![s] = None]
          /\ UNCHANGED <<messages, clients, channels, pending, got, writerUp, regAt, subAt>>
        BY <1>6 DEF SendDone, Goto, durable, history
    <2>2. Carries'
        BY <1>0, <2>1 DEF Carries, Phase, TypeOK
    <2>3. ASSUME NEW m, NEW r, Covered(m, r) PROVE Covered(m, r)'
        BY <1>0, <2>1, <2>3 DEF Covered, InFlight, TypeOK
    <2>4. ASSUME NEW x \in channels, clients[x[1]] # None, writerUp[clients[x[1]]],
                 NEW m \in InChannel(x[2]), m > subAt[x], m > regAt[clients[x[1]]]
          PROVE  ActiveCovered(x, m)'
        <3>1. Covered(m, clients[x[1]])
            BY <1>0, <2>4 DEF LiveComplete
        <3> QED
            BY <2>1, <2>3, <3>1 DEF ActiveCovered, Covered, InFlight
    <2> QED
        BY <2>1, <2>2, <2>4 DEF LiveComplete, ActiveCovered, InChannel
<1>7. ASSUME NEW s \in Session, JoinInner(s) PROVE Carries' /\ LiveComplete'
    <2> DEFINE y == <<owner[s], chan[s]>>
    <2>1. /\ y \in Pair /\ channels' = channels \cup {y}
          /\ subAt' = IF y \in channels THEN subAt ELSE [subAt EXCEPT ![y] = Len(messages)]
          /\ pc[s] = "join_inner" /\ pc' = [pc EXCEPT ![s] = "idle"]
          /\ chan' = [chan EXCEPT ![s] = None]
          /\ UNCHANGED <<messages, clients, seq, pending, got, writerUp, regAt>>
        BY <1>0, <1>7 DEF JoinInner, OperandsKnown, Ready, WithChannel, Pair, Goto, durable
    <2>2. Carries'
        BY <1>0, <2>1 DEF Carries, Phase, TypeOK
    <2>3. Len(messages) \in Nat /\ DOMAIN messages = 1 .. Len(messages)
        BY <1>0 DEF TypeOK
    <2>4. ASSUME NEW x \in channels', NEW m \in InChannel(x[2])', m > subAt'[x]
          PROVE  x \in channels /\ subAt'[x] = subAt[x] /\ m \in InChannel(x[2])
        <3>1. m \in InChannel(x[2]) /\ m \in Nat /\ m <= Len(messages)
            BY <2>1, <2>3, <2>4 DEF InChannel
        <3>2. CASE y \in channels
            BY <2>1, <2>4, <3>1, <3>2
        <3>3. CASE y \notin channels
            <4>1. subAt'[y] = Len(messages) /\ \A z \in Pair \ {y} : subAt'[z] = subAt[z]
                BY <1>0, <2>1, <3>3 DEF TypeOK
            <4>2. x # y
                BY <2>3, <2>4, <3>1, <4>1
            <4>3. x \in channels /\ x \in Pair
                BY <1>0, <2>1, <2>4, <4>2 DEF TypeOK
            <4> QED
                BY <3>1, <4>1, <4>2, <4>3
        <3> QED
            BY <3>2, <3>3
    <2>5. LiveComplete'
        BY <1>0, <2>1, <2>4, OwedBefore DEF Phase, TypeOK
    <2> QED
        BY <2>2, <2>5
<1>8. ASSUME NEW s \in Session, PartInner(s) PROVE Carries' /\ LiveComplete'
    <2> DEFINE y == <<owner[s], chan[s]>>
    <2>1. /\ channels' = channels \ {y} /\ subAt' = [subAt EXCEPT ![y] = 0]
          /\ pc[s] = "part_inner" /\ pc' = [pc EXCEPT ![s] = "idle"]
          /\ chan' = [chan EXCEPT ![s] = None]
          /\ UNCHANGED <<messages, clients, seq, pending, got, writerUp, regAt>>
        BY <1>8 DEF PartInner, Goto, durable
    <2>2. Carries'
        BY <1>0, <2>1 DEF Carries, Phase, TypeOK
    <2>3. \A x \in channels' : x \in channels /\ subAt'[x] = subAt[x]
        BY <1>0, <2>1 DEF TypeOK
    <2>4. LiveComplete'
        BY <1>0, <2>1, <2>3, OwedBefore DEF Phase, TypeOK, InChannel
    <2> QED
        BY <2>2, <2>4
<1>9. ASSUME NEW s \in Session, DisconnectInner(s) PROVE Carries' /\ LiveComplete'
    <2>1. /\ pc[s] = "disconnect" /\ \A q \in Session \ {s} : pc'[q] = pc[q]
          /\ pc'[s] \in {"mark_gone", "closed"}
          /\ \A r \in Session : writerUp'[r] => writerUp[r]
          /\ UNCHANGED <<messages, channels, chan, seq, pending, got, regAt, subAt>>
        BY <1>0, <1>9 DEF DisconnectInner, Goto, durable, operands, history, TypeOK
    <2>2. \A p \in Principal : clients'[p] # None => clients'[p] = clients[p]
        BY <1>0, <1>9 DEF DisconnectInner, TypeOK
    <2>3. Carries'
        BY <1>0, <2>1 DEF Carries, Phase
    <2>4. ASSUME NEW x \in channels', clients'[x[1]] # None
          PROVE  clients'[x[1]] = clients[x[1]] /\ clients[x[1]] \in Session
        BY <1>0, <2>1, <2>2, <2>4 DEF TypeOK, Pair
    <2>5. LiveComplete'
        BY <1>0, <2>1, <2>4, OwedBefore DEF Phase, InChannel
    <2> QED
        BY <2>3, <2>5
<1>10. CASE Crash
    BY <1>10 DEF Crash, Carries, Phase, LiveComplete
<1>11. ASSUME NEW s \in Session,
              ReplayChannel(s) \/ ReplayMark(s) \/ ReplayDone(s) \/ BeginHistory(s) \/ ListMemberships(s)
       PROVE  Carries' /\ LiveComplete'
    <2>1. UNCHANGED <<messages, clients, channels, regAt, subAt, pending, writerUp>>
        BY <1>11 DEF ReplayChannel, ReplayMark, ReplayDone, BeginHistory, ListMemberships, durable, history
    <2>2. \A r \in Session : got[r] \subseteq got'[r]
        <3>1. CASE ReplayChannel(s)
            BY <1>0, <3>1, EnqueueGrows DEF ReplayChannel
        <3> QED
            BY <1>11, <3>1 DEF ReplayMark, ReplayDone, BeginHistory, ListMemberships, history
    <2>3. /\ pc[s] \in {"idle", "replay", "replay_mark", "memberships"}
          /\ pc'[s] \in {"idle", "replay", "replay_mark", "memberships"}
          /\ \A q \in Session \ {s} : pc'[q] = pc[q] /\ seq'[q] = seq[q] /\ chan'[q] = chan[q]
        <3>1. ASSUME ReplayChannel(s) PROVE <2>3!1 /\ <2>3!2 /\ <2>3!3
            BY <1>0, <3>1 DEF ReplayChannel, Goto, TypeOK
        <3> QED
            BY <1>0, <1>11, <3>1 DEF ReplayMark, ReplayDone, BeginHistory, ListMemberships, Active,
                                     Goto, TypeOK
    <2> QED
        BY <2>1, <2>2, <2>3, LiveUntouched DEF Phase, Broadcasts
<1>12. ASSUME NEW s \in Session,
              \/ \E p \in Principal : RegisterDb(s, p)
              \/ \E c \in Channel : BeginPrivmsg(s, c) \/ BeginTaskEvent(s, c) \/ BeginMembership(s, c)
              \/ IsMember(s) \/ AddMembership(s) \/ RemoveMembership(s)
       PROVE  Carries' /\ LiveComplete'
    <2> DEFINE Before == {"open", "idle", "is_member", "add_membership", "remove_membership"}
               After  == {"insert", "idle", "is_member", "append", "add_membership", "join_inner",
                          "remove_membership", "part_inner"}
    <2>1. UNCHANGED <<messages, clients, channels, regAt, subAt, pending, seq, got, writerUp>>
        BY <1>12 DEF RegisterDb, BeginPrivmsg, BeginTaskEvent, BeginMembership, IsMember, AddMembership,
                     RemoveMembership, durable, operands, history
    <2>2. pc[s] \in Before /\ \A q \in Session \ {s} : pc'[q] = pc[q] /\ chan'[q] = chan[q]
        BY <1>0, <1>12 DEF RegisterDb, BeginPrivmsg, BeginTaskEvent, BeginMembership, IsMember,
                           AddMembership, RemoveMembership, Active, Goto, operands, TypeOK
    <2>3. pc'[s] \in After
        BY <1>0, <1>12 DEF RegisterDb, BeginPrivmsg, BeginTaskEvent, BeginMembership, IsMember,
                           AddMembership, RemoveMembership, Goto, TypeOK
    <2> QED
        BY <2>1, <2>2, <2>3, LiveUntouched DEF Phase, Broadcasts
<1>13. ASSUME NEW s \in Session, SendMark(s) PROVE Carries' /\ LiveComplete'
    <2>1. /\ pc[s] = "mark_seen" /\ pc' = [pc EXCEPT ![s] = "fanout"]
          /\ UNCHANGED <<messages, clients, channels, regAt, subAt, pending, chan, seq, got, writerUp>>
        BY <1>13 DEF SendMark, Goto, history
    <2> QED
        BY <1>0, <2>1, LiveUntouched DEF Phase, Broadcasts, TypeOK
<1>14. ASSUME NEW s \in Session, Leave(s) \/ MarkGone(s) \/ Evicted(s) \/ ReadError(s) \/ WriteError(s)
       PROVE  Carries' /\ LiveComplete'
    <2>1. /\ UNCHANGED <<messages, clients, channels, regAt, subAt, pending, chan, seq, got>>
          /\ \A r \in Session : writerUp'[r] => writerUp[r]
        BY <1>0, <1>14 DEF Leave, MarkGone, Evicted, ReadError, WriteError, durable, operands, history, TypeOK
    <2>2. \/ UNCHANGED pc
          \/ /\ pc[s] \in {"open", "idle", "mark_gone"} /\ pc'[s] \in {"disconnect", "closed"}
             /\ \A q \in Session \ {s} : pc'[q] = pc[q]
        BY <1>0, <1>14 DEF Leave, MayLeave, MarkGone, Evicted, ReadError, WriteError, Goto, TypeOK
    <2> QED
        BY <2>1, <2>2, LiveUntouched DEF Phase, Broadcasts
<1>15. CASE UNCHANGED vars
    BY <1>15, LiveUntouched DEF vars, durable, operands, history, Broadcasts, Phase
<1> QED
    BY <1>1, <1>2, <1>3, <1>4, <1>5, <1>6, <1>7, <1>8, <1>9, <1>10, <1>11, <1>12, <1>13, <1>14, <1>15
    DEF Next, Handler, Command

\* Every message appended after the active session of a principal registered
\* and subscribed is in the queue of that session or on its way there.
THEOREM FanOutComplete == Spec => []LiveComplete
<1>1. Init => LiveInv
    BY InitTypeInv, InitReplaceInv, InitLiveInv DEF LiveInv, ReplaceInv
<1>2. LiveInv /\ [Next]_vars => LiveInv'
    BY NextTypeInv, NextReplaceInv, NextLiveInv DEF LiveInv, ReplaceInv
<1>3. LiveInv => LiveComplete
    BY DEF LiveInv
<1> QED
    BY <1>1, <1>2, <1>3, PTL DEF Spec

-----------------------------------------------------------------------------
(* Watermarks are honest *)

\* A broadcast will send to the session, or has just done so
Held(r) == \E q \in Session : r \in pending[q] \/ (pc[q] = "mark_seen" /\ target[q] = r)

\* A handle in a recipient list is one of a session that has registered, and
\* its slot is not used again while the list is there.
HandlesHeld == \A r \in Session : Held(r) => owner[r] \in Principal /\ pc[r] \notin Arriving

\* A watermark about to move has a message of its channel to move to, which the
\* principal was sent, or would have been but for a dead writer.
MarksSupported ==
    \A q \in Session :
        /\ pc[q] = "mark_seen" => target[q] \in Session /\ seq[q] \in received[owner[target[q]]]
        /\ pc[q] = "replay_mark" =>
             /\ seq[q] \in DOMAIN messages /\ messages[seq[q]] = chan[q]
             /\ seq[q] \in received[owner[q]] \/ ~writerUp[q]

HonestInv == LiveInv /\ HandlesHeld /\ MarksSupported

LEMMA InitHonest == Init => HandlesHeld /\ MarksSupported
BY DEF Init, HandlesHeld, MarksSupported, Held

\* A step under which histories grow, no broadcast moves to another session and
\* no replay finds messages.
LEMMA HonestUntouched ==
    ASSUME HonestInv,
           \A p \in Principal : received[p] \subseteq received'[p],
           \A m \in DOMAIN messages : m \in DOMAIN messages' /\ messages'[m] = messages[m],
           \A q \in Session :
              /\ pending'[q] \subseteq pending[q]
              /\ pc'[q] = "mark_seen" => pc[q] = "mark_seen" /\ seq'[q] = seq[q] /\ target'[q] = target[q]
              /\ pc'[q] = "replay_mark" => /\ pc[q] = "replay_mark" /\ seq'[q] = seq[q]
                                           /\ chan'[q] = chan[q] /\ owner'[q] = owner[q]
                                           /\ writerUp'[q] => writerUp[q],
           \A r \in Session : Held(r) =>
              /\ owner'[r] = owner[r]
              /\ pc'[r] \in Arriving => pc[r] \in Arriving
    PROVE  HandlesHeld' /\ MarksSupported'
<1>0. HandlesHeld /\ MarksSupported /\ OperandsKnown
    BY DEF HonestInv, LiveInv, ReplaceInv, TypeInv
<1>1. \A r \in Session : Held(r)' => Held(r)
    BY DEF Held
<1>2. HandlesHeld'
    BY <1>0, <1>1 DEF HandlesHeld
<1>3. ASSUME NEW q \in Session, pc'[q] = "mark_seen"
      PROVE  target'[q] \in Session /\ seq'[q] \in received'[owner'[target'[q]]]
    <2> DEFINE r == target[q]
    <2>1. pc[q] = "mark_seen" /\ seq'[q] = seq[q] /\ target'[q] = r
        BY <1>3
    <2>2. r \in Session /\ seq[q] \in received[owner[r]]
        BY <1>0, <2>1 DEF MarksSupported
    <2>3. Held(r)
        BY <2>1 DEF Held
    <2>4. owner[r] \in Principal /\ owner'[r] = owner[r]
        BY <1>0, <2>2, <2>3 DEF HandlesHeld
    <2> QED
        BY <2>1, <2>2, <2>4
<1>4. ASSUME NEW q \in Session, pc'[q] = "replay_mark"
      PROVE  /\ seq'[q] \in DOMAIN messages' /\ messages'[seq'[q]] = chan'[q]
             /\ seq'[q] \in received'[owner'[q]] \/ ~writerUp'[q]
    <2>1. /\ pc[q] = "replay_mark" /\ seq'[q] = seq[q] /\ chan'[q] = chan[q] /\ owner'[q] = owner[q]
          /\ writerUp'[q] => writerUp[q]
        BY <1>4
    <2>2. owner[q] \in Principal
        BY <1>0, <2>1 DEF OperandsKnown, Ready
    <2>3. /\ seq[q] \in DOMAIN messages /\ messages[seq[q]] = chan[q]
          /\ seq[q] \in received[owner[q]] \/ ~writerUp[q]
        BY <1>0, <2>1 DEF MarksSupported
    <2> QED
        BY <2>1, <2>2, <2>3
<1> QED
    BY <1>2, <1>3, <1>4 DEF MarksSupported

\* Enqueue gives the messages to the principal of the session.
LEMMA EnqueueReceived ==
    ASSUME TypeOK, NEW s \in Session, owner[s] \in Principal, NEW ms, Enqueue(s, ms)
    PROVE  /\ \A p \in Principal : received[p] \subseteq received'[p]
           /\ writerUp[s] => ms \subseteq received'[owner[s]]
<1>1. CASE writerUp[s]
    <2>1. received \in [Principal -> SUBSET Nat] /\ received' = [received EXCEPT ![owner[s]] = @ \cup ms]
        BY <1>1 DEF TypeOK, Enqueue
    <2>2. /\ received'[owner[s]] = received[owner[s]] \cup ms
          /\ \A p \in Principal \ {owner[s]} : received'[p] = received[p]
        BY <2>1
    <2> QED
        BY <2>2
<1>2. CASE ~writerUp[s]
    BY <1>2 DEF Enqueue
<1> QED
    BY <1>1, <1>2

LEMMA NextHonest == HonestInv /\ [Next]_vars => (HandlesHeld /\ MarksSupported)'
<1> SUFFICES ASSUME HonestInv, [Next]_vars PROVE HandlesHeld' /\ MarksSupported'
    OBVIOUS
<1>0. TypeOK /\ OperandsKnown /\ TableSound /\ Carries /\ HandlesHeld /\ MarksSupported
    BY DEF HonestInv, LiveInv, ReplaceInv, TypeInv
<1> DEFINE Kept == HandlesHeld' /\ MarksSupported'
<1>1. ASSUME NEW s \in Session, Connect(s) PROVE Kept
    <2>1. /\ ~Held(s) /\ pc' = [pc EXCEPT ![s] = "open"] /\ owner' = [owner EXCEPT ![s] = None]
          /\ writerUp' = [writerUp EXCEPT ![s] = TRUE]
          /\ UNCHANGED <<messages, received, pending, target, seq, chan>>
        BY <1>1 DEF Connect, Unreferenced, Held, Goto, durable, operands
    <2>2. \A r \in Session : Held(r) => r # s
        BY <2>1
    <2> QED
        BY <1>0, <2>1, <2>2, HonestUntouched DEF Arriving, TypeOK
<1>2. ASSUME NEW s \in Session, NEW p \in Principal, RegisterDb(s, p) PROVE Kept
    <2>1. /\ pc[s] = "open" /\ pc' = [pc EXCEPT ![s] = "insert"] /\ owner' = [owner EXCEPT ![s] = p]
          /\ UNCHANGED <<messages, received, pending, target, seq, chan, writerUp>>
        BY <1>2 DEF RegisterDb, Goto
    <2>2. \A r \in Session : Held(r) => r # s
        BY <1>0, <2>1 DEF HandlesHeld, Arriving
    <2> QED
        BY <1>0, <2>1, <2>2, HonestUntouched DEF Arriving, TypeOK
<1>3. ASSUME NEW s \in Session, NEW l \in Label \ (Arriving \cup {"mark_seen", "replay_mark"}),
             pc' = [pc EXCEPT ![s] = l], owner' = owner,
             \A q \in Session : /\ writerUp'[q] => writerUp[q]
                                /\ pending'[q] \subseteq pending[q],
             \A p \in Principal : received[p] \subseteq received'[p],
             \A m \in DOMAIN messages : m \in DOMAIN messages' /\ messages'[m] = messages[m],
             \A q \in Session \ {s} : seq'[q] = seq[q] /\ chan'[q] = chan[q] /\ target'[q] = target[q]
      PROVE  Kept
    <2>1. pc'[s] = l /\ \A q \in Session \ {s} : pc'[q] = pc[q]
        BY <1>0, <1>3 DEF TypeOK
    <2>2. \A q \in Session : pc'[q] \in Arriving => pc[q] \in Arriving
        BY <1>3, <2>1
    <2>3. ASSUME NEW q \in Session
          PROVE  /\ pc'[q] = "mark_seen" => pc[q] = "mark_seen" /\ seq'[q] = seq[q] /\ target'[q] = target[q]
                 /\ pc'[q] = "replay_mark" => pc[q] = "replay_mark" /\ seq'[q] = seq[q] /\ chan'[q] = chan[q]
        BY <1>3, <2>1
    <2> QED
        BY <1>3, <2>2, <2>3, HonestUntouched
<1>4. ASSUME NEW s \in Session, ReplayChannel(s) PROVE Kept
    <2>1. PICK c \in todo[s] : ReplayChannel(s)!(c)
        BY <1>4 DEF ReplayChannel
    <2> DEFINE page == Page(c, after[s][c], limit[s])
    <2>2. /\ owner[s] \in Principal /\ pc[s] = "replay" /\ Enqueue(s, page)
          /\ UNCHANGED <<messages, owner, pending, target, writerUp>>
        BY <1>0, <2>1 DEF OperandsKnown, Ready, durable
    <2>3. /\ \A p \in Principal : received[p] \subseteq received'[p]
          /\ writerUp[s] => page \subseteq received'[owner[s]]
        BY <1>0, <2>2, EnqueueReceived
    <2>4. page \subseteq InChannel(c)
        BY DEF Page
    <2> HIDE DEF page
    <2>5. CASE UNCHANGED <<pc, chan, seq>>
        BY <1>0, <2>2, <2>3, <2>5, HonestUntouched
    <2>6. ASSUME NEW top \in page, seq' = [seq EXCEPT ![s] = top], chan' = [chan EXCEPT ![s] = c],
                 pc' = [pc EXCEPT ![s] = "replay_mark"]
          PROVE  Kept
        <3>1. /\ \A q \in Session \ {s} : pc'[q] = pc[q] /\ seq'[q] = seq[q] /\ chan'[q] = chan[q]
              /\ pc'[s] = "replay_mark" /\ seq'[s] = top /\ chan'[s] = c
            BY <1>0, <2>6 DEF TypeOK
        <3>2. top \in DOMAIN messages /\ messages[top] = c
            BY <2>4, <2>6 DEF InChannel
        <3>3. HandlesHeld'
            BY <1>0, <2>2, <3>1 DEF HandlesHeld, Held, Arriving
        <3>4. ASSUME NEW q \in Session, pc'[q] = "mark_seen"
              PROVE  target'[q] \in Session /\ seq'[q] \in received'[owner'[target'[q]]]
            <4>1. q # s /\ pc[q] = "mark_seen" /\ seq'[q] = seq[q] /\ target'[q] = target[q]
                BY <2>2, <3>1, <3>4
            <4>2. target[q] \in Session /\ seq[q] \in received[owner[target[q]]]
                BY <1>0, <4>1 DEF MarksSupported
            <4>3. owner[target[q]] \in Principal
                BY <1>0, <4>1, <4>2 DEF HandlesHeld, Held
            <4> QED
                BY <2>2, <2>3, <4>1, <4>2, <4>3
        <3>5. ASSUME NEW q \in Session, pc'[q] = "replay_mark"
              PROVE  /\ seq'[q] \in DOMAIN messages' /\ messages'[seq'[q]] = chan'[q]
                     /\ seq'[q] \in received'[owner'[q]] \/ ~writerUp'[q]
            <4>1. CASE q = s
                BY <2>2, <2>3, <2>6, <3>1, <3>2, <4>1
            <4>2. CASE q # s
                <5>1. owner[q] \in Principal
                    BY <1>0, <3>1, <3>5, <4>2 DEF OperandsKnown, Ready
                <5> QED
                    BY <1>0, <2>2, <2>3, <3>1, <3>5, <4>2, <5>1 DEF MarksSupported
            <4> QED
                BY <4>1, <4>2
        <3> QED
            BY <3>3, <3>4, <3>5 DEF MarksSupported
    <2> QED
        BY <2>1, <2>5, <2>6 DEF Goto, page
<1>5. ASSUME NEW s \in Session, Recipients(s) PROVE Kept
    <2>1. /\ pending' = [pending EXCEPT ![s] = Subscribers(chan[s])]
          /\ pc[s] = "recipients" /\ pc' = [pc EXCEPT ![s] = "fanout"]
          /\ UNCHANGED <<messages, owner, received, chan, seq, target, writerUp>>
        BY <1>5 DEF Recipients, Goto, durable, history
    <2>2. ASSUME NEW r \in Subscribers(chan[s])
          PROVE  r \in Session /\ owner[r] \in Principal /\ pc[r] \notin Arriving
        <3>1. PICK p \in Principal : clients[p] # None /\ r = clients[p]
            BY <2>2 DEF Subscribers
        <3> QED
            BY <1>0, <3>1 DEF TypeOK, TableSound
    <2>3. /\ \A q \in Session \ {s} : pending'[q] = pending[q] /\ pc'[q] = pc[q]
          /\ pending'[s] = Subscribers(chan[s]) /\ pc'[s] = "fanout"
        BY <1>0, <2>1 DEF TypeOK
    <2>4. HandlesHeld'
        <3> SUFFICES ASSUME NEW r \in Session, Held(r)'
                     PROVE  owner[r] \in Principal /\ pc'[r] \notin Arriving
            BY <2>1 DEF HandlesHeld
        <3>1. Held(r) \/ r \in Subscribers(chan[s])
            BY <2>1, <2>3 DEF Held
        <3>2. owner[r] \in Principal /\ pc[r] \notin Arriving
            BY <1>0, <2>2, <3>1 DEF HandlesHeld
        <3> QED
            BY <2>3, <3>2 DEF Arriving
    <2>5. MarksSupported'
        BY <1>0, <2>1, <2>3 DEF MarksSupported
    <2> QED
        BY <2>4, <2>5
<1>6. ASSUME NEW s \in Session, Send(s) PROVE Kept
    <2>1. PICK r \in pending[s] : Send(s)!(r)
        BY <1>6 DEF Send
    <2>2. /\ r \in Session /\ owner[r] \in Principal /\ Enqueue(r, {seq[s]}) /\ pc[s] = "fanout"
          /\ pending' = [pending EXCEPT ![s] = @ \ {r}]
          /\ UNCHANGED <<messages, owner, chan, seq, writerUp>>
        <3>1. r \in Session /\ Held(r)
            BY <1>0, <2>1 DEF TypeOK, Held
        <3> QED
            BY <1>0, <2>1, <3>1 DEF HandlesHeld, durable
    <2>3. /\ \A p \in Principal : received[p] \subseteq received'[p]
          /\ writerUp[r] => seq[s] \in received'[owner[r]]
        BY <1>0, <2>2, EnqueueReceived
    <2>4. \A q \in Session : pending'[q] \subseteq pending[q]
        BY <1>0, <2>2 DEF TypeOK
    <2>5. CASE UNCHANGED <<pc, target>>
        BY <1>0, <2>2, <2>3, <2>4, <2>5, HonestUntouched
    <2>6. CASE /\ writerUp[r] /\ pc' = [pc EXCEPT ![s] = "mark_seen"]
               /\ target' = [target EXCEPT ![s] = r]
        <3>1. /\ \A q \in Session \ {s} : pc'[q] = pc[q] /\ target'[q] = target[q]
              /\ pc'[s] = "mark_seen" /\ target'[s] = r
            BY <1>0, <2>6 DEF TypeOK
        <3>2. HandlesHeld'
            <4> SUFFICES ASSUME NEW t \in Session, Held(t)'
                         PROVE  owner[t] \in Principal /\ pc'[t] \notin Arriving
                BY <2>2 DEF HandlesHeld
            <4>1. Held(t) \/ t = r
                BY <2>4, <3>1 DEF Held
            <4>2. Held(r)
                BY <2>1 DEF Held
            <4>3. owner[t] \in Principal /\ pc[t] \notin Arriving
                BY <1>0, <2>2, <4>1, <4>2 DEF HandlesHeld
            <4> QED
                BY <3>1, <4>3 DEF Arriving
        <3>3. ASSUME NEW q \in Session, pc'[q] = "mark_seen"
              PROVE  target'[q] \in Session /\ seq'[q] \in received'[owner'[target'[q]]]
            <4>1. CASE q = s
                BY <2>2, <2>3, <2>6, <3>1, <4>1
            <4>2. CASE q # s
                <5>1. target[q] \in Session /\ seq[q] \in received[owner[target[q]]]
                    BY <1>0, <3>1, <3>3, <4>2 DEF MarksSupported
                <5>2. owner[target[q]] \in Principal
                    BY <1>0, <3>1, <3>3, <4>2, <5>1 DEF HandlesHeld, Held
                <5> QED
                    BY <2>2, <2>3, <3>1, <4>2, <5>1, <5>2
            <4> QED
                BY <4>1, <4>2
        <3>4. ASSUME NEW q \in Session, pc'[q] = "replay_mark"
              PROVE  /\ seq'[q] \in DOMAIN messages' /\ messages'[seq'[q]] = chan'[q]
                     /\ seq'[q] \in received'[owner'[q]] \/ ~writerUp'[q]
            <4>1. q # s /\ pc[q] = "replay_mark"
                BY <3>1, <3>4
            <4>2. owner[q] \in Principal
                BY <1>0, <4>1 DEF OperandsKnown, Ready
            <4> QED
                BY <1>0, <2>2, <2>3, <4>1, <4>2 DEF MarksSupported
        <3> QED
            BY <3>2, <3>3, <3>4 DEF MarksSupported
    <2> QED
        BY <2>1, <2>5, <2>6 DEF Goto
<1>7. ASSUME NEW s \in Session, AppendMessage(s) PROVE Kept
    <2>1. /\ chan[s] \in Channel /\ messages' = Append(messages, chan[s])
          /\ pc' = [pc EXCEPT ![s] = "recipients"]
          /\ UNCHANGED <<owner, received, pending, target, chan, writerUp>>
        BY <1>0, <1>7 DEF AppendMessage, OperandsKnown, WithChannel, Goto, history
    <2>2. \A m \in DOMAIN messages : m \in DOMAIN messages' /\ messages'[m] = messages[m]
        BY <1>0, <2>1 DEF TypeOK
    <2>3. \A q \in Session \ {s} : seq'[q] = seq[q]
        BY <1>0, <1>7 DEF AppendMessage, TypeOK
    <2> QED
        BY <1>3, <2>1, <2>2, <2>3 DEF Label, Ready, Arriving
<1>8. ASSUME NEW s \in Session, \/ RegisterInner(s) \/ DisconnectInner(s) \/ MarkGone(s)
                                \/ Leave(s) \/ Evicted(s) \/ ReadError(s)
      PROVE  Kept
    <2>1. /\ UNCHANGED <<messages, owner, received, pending, target, seq, chan>>
          /\ \A q \in Session : writerUp'[q] => writerUp[q]
        BY <1>0, <1>8 DEF RegisterInner, DisconnectInner, MarkGone, Leave, Evicted, ReadError, durable,
                          operands, history, TypeOK
    <2>2. \E l \in {"replay", "mark_gone", "closed", "disconnect"} : pc' = [pc EXCEPT ![s] = l]
        BY <1>8 DEF RegisterInner, DisconnectInner, MarkGone, Leave, Evicted, ReadError, Goto
    <2> QED
        BY <1>3, <2>1, <2>2 DEF Label, Ready, Arriving
<1>9. ASSUME NEW s \in Session,
             ReplayMark(s) \/ ReplayDone(s) \/ BeginHistory(s) \/ ListMemberships(s)
      PROVE  Kept
    <2>1. /\ UNCHANGED <<messages, owner, received, pending, target, writerUp>>
          /\ \A q \in Session \ {s} : seq'[q] = seq[q] /\ chan'[q] = chan[q]
        BY <1>0, <1>9 DEF ReplayMark, ReplayDone, BeginHistory, ListMemberships, durable, history, TypeOK
    <2>2. \E l \in {"replay", "idle", "memberships"} : pc' = [pc EXCEPT ![s] = l]
        BY <1>9 DEF ReplayMark, ReplayDone, BeginHistory, ListMemberships, Goto
    <2> QED
        BY <1>3, <2>1, <2>2 DEF Label, Ready, Arriving
<1>10. ASSUME NEW s \in Session,
              \/ \E c \in Channel : BeginPrivmsg(s, c) \/ BeginTaskEvent(s, c) \/ BeginMembership(s, c)
              \/ IsMember(s) \/ SendMark(s) \/ SendDone(s)
       PROVE  Kept
    <2>1. /\ UNCHANGED <<messages, owner, received, pending, writerUp>>
          /\ \A q \in Session \ {s} : seq'[q] = seq[q] /\ chan'[q] = chan[q] /\ target'[q] = target[q]
        BY <1>0, <1>10 DEF BeginPrivmsg, BeginTaskEvent, BeginMembership, IsMember, SendMark, SendDone,
                           durable, history, TypeOK
    <2>2. \E l \in {"is_member", "append", "add_membership", "remove_membership", "idle", "fanout"} :
             pc' = [pc EXCEPT ![s] = l]
        BY <1>10 DEF BeginPrivmsg, BeginTaskEvent, BeginMembership, IsMember, SendMark, SendDone, Goto
    <2> QED
        BY <1>3, <2>1, <2>2 DEF Label, Ready, Arriving
<1>11. ASSUME NEW s \in Session,
              AddMembership(s) \/ JoinInner(s) \/ RemoveMembership(s) \/ PartInner(s)
       PROVE  Kept
    <2>1. /\ UNCHANGED <<messages, owner, pending, target, seq, writerUp>>
          /\ \A q \in Session \ {s} : chan'[q] = chan[q]
        BY <1>0, <1>11 DEF AddMembership, JoinInner, RemoveMembership, PartInner, durable, operands, TypeOK
    <2>2. \A p \in Principal : received[p] \subseteq received'[p]
        <3>1. \/ received' = received
              \/ received' = [received EXCEPT ![owner[s]] = @ \cup InChannel(chan[s])]
            BY <1>11 DEF AddMembership, JoinInner, RemoveMembership, PartInner
        <3>2. received \in [Principal -> SUBSET Nat]
            BY <1>0 DEF TypeOK
        <3> QED
            BY <3>1, <3>2
    <2>3. \E l \in {"join_inner", "idle", "part_inner"} : pc' = [pc EXCEPT ![s] = l]
        BY <1>11 DEF AddMembership, JoinInner, RemoveMembership, PartInner, Goto
    <2> QED
        BY <1>3, <2>1, <2>2, <2>3 DEF Label, Ready, Arriving
<1>12. ASSUME NEW s \in Session, WriteError(s) PROVE Kept
    <2>1. UNCHANGED <<messages, owner, received, pending, target, seq, chan, pc>>
        BY <1>12 DEF WriteError, durable, operands, history
    <2>2. \A q \in Session : writerUp'[q] => writerUp[q]
        BY <1>0, <1>12 DEF WriteError, TypeOK
    <2> QED
        BY <2>1, <2>2, HonestUntouched
<1>13. CASE Crash
    BY <1>13 DEF Crash, HandlesHeld, MarksSupported, Held
<1>14. CASE UNCHANGED vars
    BY <1>14, HonestUntouched DEF vars, durable, operands, history
<1> QED
    BY <1>1, <1>2, <1>4, <1>5, <1>6, <1>7, <1>8, <1>9, <1>10, <1>11, <1>12, <1>13, <1>14
    DEF Next, Handler, Command

\* What WatermarkHonest says of one step
HonestStep ==
    \A x \in member \cap member' :
        lastSeen'[x] # lastSeen[x] =>
          /\ lastSeen'[x] > lastSeen[x]
          /\ messages[lastSeen'[x]] = x[2]
          /\ \/ lastSeen'[x] \in received[x[1]]
             \/ \E s \in Session : /\ pc[s] = "replay_mark" /\ ~writerUp[s]
                                    /\ owner[s] = x[1] /\ seq[s] = lastSeen'[x]

\* mark_seen only raises a watermark, and only to the message it is given.
LEMMA MarkSeenRaises ==
    ASSUME TypeOK, NEW p, NEW c, NEW m \in Nat, MarkSeen(p, c, m),
           NEW x \in Pair, lastSeen'[x] # lastSeen[x]
    PROVE  x = <<p, c>> /\ lastSeen'[x] = m /\ m > lastSeen[x]
<1>1. lastSeen \in [Pair -> Nat]
    BY DEF TypeOK
<1>2. <<p, c>> \in member /\ lastSeen[<<p, c>>] < m /\ lastSeen' = [lastSeen EXCEPT ![<<p, c>>] = m]
    BY DEF MarkSeen
<1>3. x = <<p, c>>
    BY <1>1, <1>2
<1> QED
    BY <1>1, <1>2, <1>3

\* A step moves a watermark in mark_seen, to the message the replay or the
\* broadcast holds; JOIN and PART only set the watermark of a row they write.
LEMMA HonestInvStep == HonestInv /\ [Next]_vars => [HonestStep]_vars
<1> SUFFICES ASSUME HonestInv, Next PROVE HonestStep
    BY DEF vars
<1>0. TypeOK /\ OperandsKnown /\ Carries /\ HandlesHeld /\ MarksSupported
    BY DEF HonestInv, LiveInv, ReplaceInv, TypeInv
<1>1. CASE UNCHANGED lastSeen
    BY <1>1 DEF HonestStep
<1>2. ASSUME NEW s \in Session, ReplayMark(s) PROVE HonestStep
    <2> SUFFICES ASSUME NEW x \in member, lastSeen'[x] # lastSeen[x]
                 PROVE  /\ lastSeen'[x] > lastSeen[x]
                        /\ messages[lastSeen'[x]] = x[2]
                        /\ \/ lastSeen'[x] \in received[x[1]]
                           \/ /\ pc[s] = "replay_mark" /\ ~writerUp[s]
                              /\ owner[s] = x[1] /\ seq[s] = lastSeen'[x]
        BY DEF HonestStep
    <2>1. x \in Pair /\ seq[s] \in Nat /\ MarkSeen(owner[s], chan[s], seq[s]) /\ pc[s] = "replay_mark"
        BY <1>0, <1>2 DEF TypeOK, ReplayMark
    <2>2. x = <<owner[s], chan[s]>> /\ lastSeen'[x] = seq[s] /\ seq[s] > lastSeen[x]
        BY <1>0, <2>1, MarkSeenRaises
    <2>3. lastSeen[x] \in Nat
        BY <1>0, <2>1 DEF TypeOK
    <2> QED
        BY <1>0, <2>1, <2>2, <2>3 DEF MarksSupported
<1>3. ASSUME NEW s \in Session, SendMark(s) PROVE HonestStep
    <2> SUFFICES ASSUME NEW x \in member, lastSeen'[x] # lastSeen[x]
                 PROVE  /\ lastSeen'[x] > lastSeen[x]
                        /\ messages[lastSeen'[x]] = x[2]
                        /\ lastSeen'[x] \in received[x[1]]
        BY DEF HonestStep
    <2>1. x \in Pair /\ seq[s] \in Nat /\ MarkSeen(owner[target[s]], chan[s], seq[s]) /\ pc[s] = "mark_seen"
        BY <1>0, <1>3 DEF TypeOK, SendMark
    <2>2. x = <<owner[target[s]], chan[s]>> /\ lastSeen'[x] = seq[s] /\ seq[s] > lastSeen[x]
        BY <1>0, <2>1, MarkSeenRaises
    <2>3. lastSeen[x] \in Nat
        BY <1>0, <2>1 DEF TypeOK
    <2>4. messages[seq[s]] = chan[s]
        BY <1>0, <2>1 DEF Carries, Phase
    <2>5. seq[s] \in received[owner[target[s]]]
        BY <1>0, <2>1 DEF MarksSupported
    <2> QED
        BY <2>2, <2>3, <2>4, <2>5
<1>4. ASSUME NEW s \in Session, AddMembership(s) PROVE HonestStep
    <2>1. CASE UNCHANGED lastSeen
        BY <1>1, <2>1
    <2>2. ASSUME <<owner[s], chan[s]>> \notin member,
                 NEW top, lastSeen' = [lastSeen EXCEPT ![<<owner[s], chan[s]>>] = top]
          PROVE  HonestStep
        BY <1>0, <2>2 DEF TypeOK, HonestStep
    <2> QED
        BY <1>4, <2>1, <2>2 DEF AddMembership
<1>5. ASSUME NEW s \in Session, RemoveMembership(s) PROVE HonestStep
    <2>1. /\ member' = member \ {<<owner[s], chan[s]>>}
          /\ lastSeen' = [lastSeen EXCEPT ![<<owner[s], chan[s]>>] = 0]
        BY <1>5 DEF RemoveMembership
    <2> QED
        BY <1>0, <2>1 DEF TypeOK, HonestStep
<1>6. ASSUME NEW s \in Session,
             \/ \E p \in Principal : RegisterDb(s, p)
             \/ \E c \in Channel : BeginPrivmsg(s, c) \/ BeginTaskEvent(s, c) \/ BeginMembership(s, c)
             \/ Connect(s) \/ BeginHistory(s) \/ Evicted(s) \/ Leave(s) \/ ReadError(s) \/ WriteError(s)
      PROVE  UNCHANGED lastSeen
    BY <1>6 DEF RegisterDb, BeginPrivmsg, BeginTaskEvent, BeginMembership, Connect, BeginHistory, Evicted,
                Leave, ReadError, WriteError, durable
<1>7. ASSUME NEW s \in Session,
             \/ RegisterInner(s) \/ ReplayChannel(s) \/ ReplayDone(s) \/ ListMemberships(s)
             \/ IsMember(s) \/ AppendMessage(s) \/ Recipients(s) \/ Send(s) \/ SendDone(s)
             \/ JoinInner(s) \/ PartInner(s) \/ DisconnectInner(s) \/ MarkGone(s)
      PROVE  UNCHANGED lastSeen
    BY <1>7 DEF RegisterInner, ReplayChannel, ReplayDone, ListMemberships, IsMember, AppendMessage,
                Recipients, Send, SendDone, JoinInner, PartInner, DisconnectInner, MarkGone, durable
<1>8. CASE Crash
    BY <1>1, <1>8 DEF Crash, durable
<1> QED
    BY <1>1, <1>2, <1>3, <1>4, <1>5, <1>6, <1>7, <1>8 DEF Next, Handler, Command

\* A watermark never goes back, and moves only to a message of its channel that
\* was enqueued for its principal or replayed to a dead writer.
THEOREM WatermarksAreHonest == Spec => WatermarkHonest
<1>1. Init => HonestInv
    BY InitTypeInv, InitReplaceInv, InitLiveInv, InitHonest DEF HonestInv, LiveInv, ReplaceInv
<1>2. HonestInv /\ [Next]_vars => HonestInv'
    BY NextTypeInv, NextReplaceInv, NextLiveInv, NextHonest DEF HonestInv, LiveInv, ReplaceInv
<1> QED
    BY <1>1, <1>2, HonestInvStep, PTL DEF Spec, WatermarkHonest, HonestStep

-----------------------------------------------------------------------------
(* The three records of who is where agree *)

\* Session q of p is at the second section of a JOIN or a PART of c
HalfWay(p, c, label) == \E q \in Session : owner[q] = p /\ pc[q] = label /\ chan[q] = c

\* What a session is about to register with is what the database says
SnapshotsHold(p) ==
    \A s \in Session : owner[s] = p /\ pc[s] = "insert" =>
        todo[s] = Snapshot(p) /\ presence[p] = "connected"

\* A difference between the rows and the subscriptions is one JOIN's or PART's
RowsFollowed(p) ==
    /\ clients[p] # None => presence[p] = "connected"
    /\ \A c \in Channel : <<p, c>> \in channels \ member => HalfWay(p, c, "part_inner")
    /\ \A c \in Channel : clients[p] # None /\ <<p, c>> \in member \ channels => HalfWay(p, c, "join_inner")

\* and the row is still as the active session left it.
RowsWritten(p) ==
    \A s \in Session : clients[p] = s =>
        /\ pc[s] = "join_inner" => <<p, chan[s]>> \in member
        /\ pc[s] = "part_inner" => <<p, chan[s]>> \notin member

Agreed(p) == SnapshotsHold(p) /\ RowsFollowed(p) /\ RowsWritten(p)
AgreeInv == ReplaceInv /\ \A p \in Principal \ crossed : Agreed(p)

LEMMA InitAgreed == Init => \A p \in Principal : Agreed(p)
BY DEF Init, Agreed, SnapshotsHold, RowsFollowed, RowsWritten

\* A step that writes no record of p, and moves no session of p in or out of the
\* sections that lie between two of them.
Between == {"insert", "join_inner", "part_inner"}
LEMMA AgreedUntouched ==
    ASSUME NEW p \in Principal, Agreed(p),
           presence'[p] = presence[p], clients'[p] = clients[p],
           \A c \in Channel : /\ <<p, c>> \in member' <=> <<p, c>> \in member
                              /\ <<p, c>> \in channels' <=> <<p, c>> \in channels,
           \A q \in Session :
              \/ pc'[q] = pc[q] /\ owner'[q] = owner[q] /\ chan'[q] = chan[q] /\ todo'[q] = todo[q]
              \/ pc[q] \notin Between /\ pc'[q] \notin Between
              \/ owner[q] # p /\ owner'[q] # p /\ clients[p] # q,
           \A q \in Session : pc[q] \in {"join_inner", "part_inner"} => chan[q] \in Channel
    PROVE  Agreed(p)'
<1>1. Snapshot(p)' = Snapshot(p)
    BY DEF Snapshot
<1>2. SnapshotsHold(p)'
    BY <1>1 DEF Agreed, SnapshotsHold, Between
<1>3. \A c \in Channel : /\ HalfWay(p, c, "join_inner") => HalfWay(p, c, "join_inner")'
                         /\ HalfWay(p, c, "part_inner") => HalfWay(p, c, "part_inner")'
    BY DEF HalfWay, Between
<1>4. RowsFollowed(p)'
    BY <1>3 DEF Agreed, RowsFollowed
<1>5. RowsWritten(p)'
    BY DEF Agreed, RowsWritten, Between
<1> QED
    BY <1>2, <1>4, <1>5 DEF Agreed

\* A section that records a crossing unless it meets the tables as its operation
\* left them.
LEMMA NotCrossed ==
    ASSUME TypeOK, NEW s \in Session, owner[s] \in Principal, NEW held, Cross(s, held)
    PROVE  /\ crossed \subseteq crossed'
           /\ owner[s] \notin crossed' =>
                 /\ clients[owner[s]] = held
                 /\ \A q \in Session \ {s} : owner[q] = owner[s] => pc[q] # "insert"
BY DEF Cross

LEMMA NextAgreed == AgreeInv /\ [Next]_vars => (\A p \in Principal \ crossed : Agreed(p))'
<1> SUFFICES ASSUME AgreeInv, [Next]_vars, NEW p \in Principal, p \notin crossed'
             PROVE  Agreed(p)'
    OBVIOUS
<1>0. /\ TypeOK /\ OperandsKnown /\ TableSound
      /\ p \notin crossed => Agreed(p)
      /\ \A q \in Session : pc[q] \in {"join_inner", "part_inner"} => chan[q] \in Channel
    BY DEF AgreeInv, ReplaceInv, TypeInv, OperandsKnown, WithChannel
<1>1. ASSUME NEW s \in Session, crossed' = crossed,
             presence' = presence, clients' = clients, member' = member, channels' = channels,
             \A q \in Session \ {s} : /\ pc'[q] = pc[q] /\ owner'[q] = owner[q]
                                      /\ chan'[q] = chan[q] /\ todo'[q] = todo[q],
             pc[s] \notin Between, pc'[s] \notin Between
      PROVE  Agreed(p)'
    BY <1>0, <1>1, AgreedUntouched
<1>2. ASSUME NEW s \in Session, Connect(s) PROVE Agreed(p)'
    <2>1. /\ \A q \in Session \ {s} : /\ pc'[q] = pc[q] /\ owner'[q] = owner[q]
                                      /\ chan'[q] = chan[q] /\ todo'[q] = todo[q]
          /\ pc[s] = "closed" /\ pc'[s] = "open"
          /\ UNCHANGED <<crossed, presence, clients, member, channels>>
        BY <1>0, <1>2 DEF Connect, Goto, durable, operands, TypeOK
    <2> QED
        BY <1>1, <2>1 DEF Between
<1>3. ASSUME NEW s \in Session, NEW o \in Principal, RegisterDb(s, o) PROVE Agreed(p)'
    <2>1. /\ \A q \in Session \ {s} : /\ pc'[q] = pc[q] /\ owner'[q] = owner[q]
                                      /\ chan'[q] = chan[q] /\ todo'[q] = todo[q]
          /\ pc[s] = "open" /\ pc'[s] = "insert" /\ owner'[s] = o
          /\ todo'[s] = Snapshot(o)
          /\ presence'[o] = "connected" /\ \A r \in Principal \ {o} : presence'[r] = presence[r]
          /\ UNCHANGED <<crossed, clients, member, channels, chan>>
        BY <1>0, <1>3 DEF RegisterDb, Goto, TypeOK
    <2>2. Agreed(p) /\ Snapshot(p)' = Snapshot(p) /\ clients[p] # s
        BY <1>0, <2>1 DEF Snapshot, TableSound, Arriving
    <2>3. SnapshotsHold(p)'
        BY <2>1, <2>2 DEF Agreed, SnapshotsHold
    <2>4. \A c \in Channel : /\ HalfWay(p, c, "join_inner") => HalfWay(p, c, "join_inner")'
                             /\ HalfWay(p, c, "part_inner") => HalfWay(p, c, "part_inner")'
        BY <2>1 DEF HalfWay
    <2>5. RowsFollowed(p)'
        BY <2>1, <2>2, <2>4 DEF Agreed, RowsFollowed
    <2>6. RowsWritten(p)'
        BY <2>1, <2>2 DEF Agreed, RowsWritten
    <2> QED
        BY <2>3, <2>5, <2>6 DEF Agreed
<1>4. ASSUME NEW s \in Session, RegisterInner(s) PROVE Agreed(p)'
    <2> DEFINE new == {<<owner[s], c>> : c \in todo[s]}
    <2>1. /\ \A q \in Session \ {s} : pc'[q] = pc[q]
          /\ pc[s] = "insert" /\ pc'[s] = "replay" /\ owner[s] \in Principal
          /\ clients' = [clients EXCEPT ![owner[s]] = s]
          /\ UNCHANGED <<presence, member, chan, todo, owner>>
        BY <1>0, <1>4 DEF RegisterInner, OperandsKnown, Goto, durable, operands, TypeOK
    <2>2. channels' = channels \cup new
        BY <1>4 DEF RegisterInner
    <2>3. crossed' = IF TrueSnapshot(s) THEN crossed \ {owner[s]} ELSE crossed
        BY <1>4 DEF RegisterInner
    <2>4. CASE p # owner[s]
        <3>1. p \notin crossed /\ clients'[p] = clients[p] /\ clients[p] # s
            BY <1>0, <2>1, <2>3, <2>4 DEF TypeOK, TableSound, Arriving
        <3>2. \A c \in Channel : <<p, c>> \notin new
            BY <2>4
        <3> HIDE DEF new
        <3>3. \A c \in Channel : /\ <<p, c>> \in member' <=> <<p, c>> \in member
                                 /\ <<p, c>> \in channels' <=> <<p, c>> \in channels
            BY <2>1, <2>2, <3>2
        <3> QED
            BY <1>0, <2>1, <2>4, <3>1, <3>3, AgreedUntouched
    <2>5. CASE p = owner[s]
        <3>1. TrueSnapshot(s) \/ Agreed(p)
            BY <1>0, <2>3, <2>5
        <3>2. todo[s] = Snapshot(p) /\ presence[p] = "connected" /\ clients'[p] = s
            BY <1>0, <2>1, <2>5, <3>1 DEF TrueSnapshot, Agreed, SnapshotsHold, TypeOK
        <3>3. \A c \in Channel : <<p, c>> \in new <=> <<p, c>> \in member
            BY <2>5, <3>2 DEF Snapshot
        <3> HIDE DEF new
        <3>4. SnapshotsHold(p)'
            <4>1. \A q \in Session \ {s} : owner[q] = p /\ pc[q] = "insert" =>
                        todo[q] = Snapshot(p) /\ presence[p] = "connected"
                BY <2>5, <3>1 DEF TrueSnapshot, Agreed, SnapshotsHold
            <4> QED
                BY <2>1, <4>1 DEF SnapshotsHold, Snapshot
        <3>5. ASSUME NEW c \in Channel, <<p, c>> \in channels' \ member'
              PROVE  HalfWay(p, c, "part_inner")'
            <4>1. <<p, c>> \in channels /\ <<p, c>> \notin member
                BY <2>1, <2>2, <3>3, <3>5
            <4>2. c \notin todo[s]
                BY <3>2, <4>1 DEF Snapshot
            <4>3. Agreed(p)
                BY <2>5, <3>1, <4>1, <4>2 DEF TrueSnapshot
            <4>4. HalfWay(p, c, "part_inner")
                BY <4>1, <4>3 DEF Agreed, RowsFollowed
            <4> QED
                BY <2>1, <4>4 DEF HalfWay
        <3>6. RowsFollowed(p)'
            BY <2>1, <2>2, <3>2, <3>3, <3>5 DEF RowsFollowed
        <3>7. RowsWritten(p)'
            BY <2>1, <3>2 DEF RowsWritten
        <3> QED
            BY <3>4, <3>6, <3>7 DEF Agreed
    <2> QED
        BY <2>4, <2>5
<1>5. ASSUME NEW s \in Session, NEW c0 \in Channel, owner[s] \in Principal, chan[s] = c0,
             Cross(s, s), UNCHANGED <<presence, clients, owner, todo>>,
             \A q \in Session \ {s} : pc'[q] = pc[q] /\ chan'[q] = chan[q],
             pc[s] # "insert", pc'[s] # "insert",
             \A r \in Principal, c \in Channel : r # owner[s] \/ c # c0 =>
                 /\ <<r, c>> \in member' <=> <<r, c>> \in member
                 /\ <<r, c>> \in channels' <=> <<r, c>> \in channels,
             p # owner[s] \/
                (Agreed(p) => \/ /\ pc[s] = "add_membership" /\ pc'[s] = "join_inner" /\ chan'[s] = c0
                                 /\ channels' = channels /\ <<p, c0>> \in member'
                              \/ /\ pc[s] = "remove_membership" /\ pc'[s] = "part_inner" /\ chan'[s] = c0
                                 /\ channels' = channels /\ <<p, c0>> \notin member'
                              \/ /\ pc[s] = "join_inner" /\ pc'[s] = "idle"
                                 /\ member' = member /\ <<p, c0>> \in channels'
                              \/ /\ pc[s] = "part_inner" /\ pc'[s] = "idle"
                                 /\ member' = member /\ <<p, c0>> \notin channels')
      PROVE  Agreed(p)'
    <2>1. p \notin crossed /\ Agreed(p)
        BY <1>0, <1>5, NotCrossed
    <2>2. CASE p # owner[s]
        <3>1. clients[p] # s
            BY <1>0, <1>5, <2>2, NoneIsNobody DEF TableSound
        <3> QED
            BY <1>0, <1>5, <2>1, <2>2, <3>1, AgreedUntouched
    <2>3. CASE p = owner[s]
        <3>1. clients[p] = s /\ \A q \in Session : owner[q] = p => pc[q] # "insert"
            BY <1>0, <1>5, <2>3, NotCrossed
        <3>2. SnapshotsHold(p)'
            BY <1>5, <3>1 DEF SnapshotsHold
        <3>3. \A c \in Channel \ {c0} :
                  /\ HalfWay(p, c, "join_inner") => HalfWay(p, c, "join_inner")'
                  /\ HalfWay(p, c, "part_inner") => HalfWay(p, c, "part_inner")'
            BY <1>5 DEF HalfWay
        <3>4. /\ <<p, c0>> \in channels' \ member' => HalfWay(p, c0, "part_inner")'
              /\ <<p, c0>> \in member' \ channels' => HalfWay(p, c0, "join_inner")'
            BY <1>5, <2>1, <2>3, <3>1 DEF HalfWay, Agreed, RowsWritten
        <3>5. RowsFollowed(p)'
            BY <1>5, <2>1, <2>3, <3>3, <3>4 DEF Agreed, RowsFollowed
        <3>6. RowsWritten(p)'
            BY <1>5, <2>1, <2>3, <3>1 DEF RowsWritten
        <3> QED
            BY <3>2, <3>5, <3>6 DEF Agreed
    <2> QED
        BY <2>2, <2>3
<1>6. ASSUME NEW s \in Session,
             AddMembership(s) \/ JoinInner(s) \/ RemoveMembership(s) \/ PartInner(s)
      PROVE  Agreed(p)'
    <2>1. /\ owner[s] \in Principal /\ chan[s] \in Channel /\ Cross(s, s)
          /\ pc[s] \in {"add_membership", "join_inner", "remove_membership", "part_inner"}
          /\ UNCHANGED <<presence, clients, owner, todo>>
        BY <1>0, <1>6 DEF AddMembership, JoinInner, RemoveMembership, PartInner, OperandsKnown, Ready,
                          WithChannel, durable, operands
    <2>2. \A q \in Session \ {s} : pc'[q] = pc[q] /\ chan'[q] = chan[q]
        BY <1>0, <1>6 DEF AddMembership, JoinInner, RemoveMembership, PartInner, Goto, operands, TypeOK
    <2>3. \A r \in Principal, c \in Channel : r # owner[s] \/ c # chan[s] =>
              /\ <<r, c>> \in member' <=> <<r, c>> \in member
              /\ <<r, c>> \in channels' <=> <<r, c>> \in channels
        BY <1>6 DEF AddMembership, JoinInner, RemoveMembership, PartInner, durable
    <2>4. CASE AddMembership(s)
        <3>1. /\ pc[s] = "add_membership" /\ pc'[s] = "join_inner" /\ chan'[s] = chan[s]
              /\ channels' = channels /\ <<owner[s], chan[s]>> \in member'
            BY <1>0, <2>4 DEF AddMembership, Goto, operands, TypeOK
        <3> QED
            BY <1>5, <2>1, <2>2, <2>3, <3>1
    <2>5. CASE RemoveMembership(s)
        <3>1. /\ pc[s] = "remove_membership" /\ pc'[s] = "part_inner" /\ chan'[s] = chan[s]
              /\ channels' = channels /\ <<owner[s], chan[s]>> \notin member'
            BY <1>0, <2>5 DEF RemoveMembership, Goto, operands, TypeOK
        <3> QED
            BY <1>5, <2>1, <2>2, <2>3, <3>1
    <2>6. CASE JoinInner(s)
        <3>1. /\ pc[s] = "join_inner" /\ pc'[s] = "idle"
              /\ member' = member /\ <<owner[s], chan[s]>> \in channels'
            BY <1>0, <2>6 DEF JoinInner, Goto, durable, TypeOK
        <3> QED
            BY <1>5, <2>1, <2>2, <2>3, <3>1
    <2>7. CASE PartInner(s)
        <3>1. /\ pc[s] = "part_inner" /\ pc'[s] = "idle"
              /\ member' = member /\ <<owner[s], chan[s]>> \notin channels'
            BY <1>0, <2>7 DEF PartInner, Goto, durable, TypeOK
        <3> QED
            BY <1>5, <2>1, <2>2, <2>3, <3>1
    <2> QED
        BY <1>6, <2>4, <2>5, <2>6, <2>7
<1>7. ASSUME NEW s \in Session, DisconnectInner(s) PROVE Agreed(p)'
    <2>1. /\ \A q \in Session \ {s} : pc'[q] = pc[q]
          /\ pc[s] \notin Between /\ pc'[s] \notin Between
          /\ UNCHANGED <<crossed, presence, member, channels, owner, chan, todo>>
        BY <1>0, <1>7 DEF DisconnectInner, Goto, durable, operands, history, Between, TypeOK
    <2>2. CASE clients'[p] = clients[p]
        BY <1>0, <2>1, <2>2, AgreedUntouched
    <2>3. CASE clients'[p] = None
        <3>1. Agreed(p) /\ Snapshot(p)' = Snapshot(p)
            BY <1>0, <2>1 DEF Snapshot
        <3>2. SnapshotsHold(p)'
            BY <2>1, <3>1 DEF Agreed, SnapshotsHold, Between
        <3>3. \A c \in Channel : HalfWay(p, c, "part_inner") => HalfWay(p, c, "part_inner")'
            BY <2>1 DEF HalfWay, Between
        <3>4. RowsFollowed(p)' /\ RowsWritten(p)'
            BY <2>1, <2>3, <3>1, <3>3, NoneIsNobody DEF Agreed, RowsFollowed, RowsWritten
        <3> QED
            BY <3>2, <3>4 DEF Agreed
    <2> QED
        BY <1>0, <1>7, <2>2, <2>3 DEF DisconnectInner, TypeOK
<1>8. ASSUME NEW s \in Session, MarkGone(s) PROVE Agreed(p)'
    <2>1. /\ \A q \in Session \ {s} : pc'[q] = pc[q]
          /\ pc[s] \notin Between /\ pc'[s] \notin Between
          /\ owner[s] \in Principal /\ Cross(s, None)
          /\ \A r \in Principal \ {owner[s]} : presence'[r] = presence[r]
          /\ UNCHANGED <<clients, member, channels, owner, chan, todo>>
        BY <1>0, <1>8 DEF MarkGone, OperandsKnown, Goto, operands, Between, TypeOK
    <2>2. p \notin crossed /\ Agreed(p)
        BY <1>0, <2>1, NotCrossed
    <2>3. CASE p # owner[s]
        BY <1>0, <2>1, <2>2, <2>3, AgreedUntouched
    <2>4. CASE p = owner[s]
        <3>1. clients[p] = None /\ \A q \in Session : owner[q] = p => pc[q] # "insert"
            BY <1>0, <2>1, <2>4, NotCrossed DEF Between
        <3>2. SnapshotsHold(p)'
            BY <2>1, <3>1 DEF SnapshotsHold, Between
        <3>3. \A c \in Channel : HalfWay(p, c, "part_inner") => HalfWay(p, c, "part_inner")'
            BY <2>1 DEF HalfWay, Between
        <3>4. RowsFollowed(p)' /\ RowsWritten(p)'
            BY <2>1, <2>2, <3>1, <3>3, NoneIsNobody DEF Agreed, RowsFollowed, RowsWritten
        <3> QED
            BY <3>2, <3>4 DEF Agreed
    <2> QED
        BY <2>3, <2>4
<1>9. ASSUME NEW s \in Session,
             \/ ReplayChannel(s) \/ ReplayMark(s) \/ ReplayDone(s) \/ BeginHistory(s) \/ ListMemberships(s)
             \/ \E c \in Channel : BeginPrivmsg(s, c) \/ BeginTaskEvent(s, c) \/ BeginMembership(s, c)
             \/ IsMember(s) \/ AppendMessage(s)
      PROVE  Agreed(p)'
    <2>1. UNCHANGED <<crossed, presence, clients, member, channels, owner>>
        BY <1>9 DEF ReplayChannel, ReplayMark, ReplayDone, BeginHistory, ListMemberships, BeginPrivmsg,
                    BeginTaskEvent, BeginMembership, IsMember, AppendMessage, durable, history
    <2>2. \A q \in Session \ {s} : chan'[q] = chan[q] /\ todo'[q] = todo[q]
        BY <1>0, <1>9 DEF ReplayChannel, ReplayMark, ReplayDone, BeginHistory, ListMemberships, BeginPrivmsg,
                    BeginTaskEvent, BeginMembership, IsMember, AppendMessage, TypeOK
    <2>3. /\ pc[s] \notin Between /\ pc'[s] \notin Between
          /\ \A q \in Session \ {s} : pc'[q] = pc[q]
        BY <1>0, <1>9 DEF ReplayChannel, ReplayMark, ReplayDone, BeginHistory, ListMemberships, BeginPrivmsg,
                    BeginTaskEvent, BeginMembership, IsMember, AppendMessage, Active, Goto, Between, TypeOK
    <2> QED
        BY <1>1, <2>1, <2>2, <2>3
<1>10. ASSUME NEW s \in Session,
              \/ Recipients(s) \/ Send(s) \/ SendMark(s) \/ SendDone(s)
              \/ Evicted(s) \/ Leave(s) \/ ReadError(s)
       PROVE  Agreed(p)'
    <2>1. UNCHANGED <<crossed, presence, clients, member, channels, owner, todo>>
        BY <1>10 DEF Recipients, Send, SendMark, SendDone, Evicted, Leave, ReadError, durable, operands, history
    <2>2. \A q \in Session \ {s} : chan'[q] = chan[q]
        BY <1>0, <1>10 DEF Recipients, Send, SendMark, SendDone, Evicted, Leave, ReadError, operands, TypeOK
    <2>3. /\ pc[s] \notin Between /\ pc'[s] \notin Between
          /\ \A q \in Session \ {s} : pc'[q] = pc[q]
        BY <1>0, <1>10 DEF Recipients, Send, SendMark, SendDone, Evicted, Leave, MayLeave, ReadError, Goto,
                           Between, TypeOK
    <2> QED
        BY <1>1, <2>1, <2>2, <2>3
<1>11. ASSUME NEW s \in Session, WriteError(s) PROVE Agreed(p)'
    BY <1>0, <1>11, AgreedUntouched DEF WriteError, durable, operands, history
<1>12. CASE Crash
    BY <1>12, NoneIsNobody DEF Crash, Agreed, SnapshotsHold, RowsFollowed, RowsWritten
<1>13. CASE UNCHANGED vars
    BY <1>0, <1>13, AgreedUntouched DEF vars, durable, operands, history
<1> QED
    BY <1>2, <1>3, <1>4, <1>6, <1>7, <1>8, <1>9, <1>10, <1>11, <1>12, <1>13 DEF Next, Handler, Command

\* Whatever errors, replacements and crashes happened, a connected principal no
\* operation of which was run into is subscribed to exactly its rows.
THEOREM TablesAlwaysAgree == Spec => []TablesAgree
<1>1. Init => AgreeInv
    BY InitTypeInv, InitReplaceInv, InitAgreed DEF AgreeInv, ReplaceInv
<1>2. AgreeInv /\ [Next]_vars => AgreeInv'
    BY NextTypeInv, NextReplaceInv, NextAgreed DEF AgreeInv, ReplaceInv
<1>3. AgreeInv => TablesAgree
    <2> SUFFICES ASSUME AgreeInv, NEW p \in Principal \ crossed, clients[p] # None,
                        \A s \in Session : owner[s] = p => pc[s] \notin HalfDone
                 PROVE  /\ \A c \in Channel : <<p, c>> \in channels <=> <<p, c>> \in member
                        /\ presence[p] = "connected"
        BY DEF TablesAgree
    <2> QED
        BY DEF AgreeInv, Agreed, RowsFollowed, HalfWay, HalfDone
<1> QED
    BY <1>1, <1>2, <1>3, PTL DEF Spec

-----------------------------------------------------------------------------
(* Replay and live traffic meet without a gap *)

\* What was posted between the old watermark and the registration
Missed(s, c) == {m \in InChannel(c) : resume[s][c] < m /\ m <= regAt[s]}

\* The bouncer replay has still to send c, from where the principal left
Replaying(s, c) ==
    /\ pc[s] \in {"replay", "replay_mark"} /\ c \in todo[s]
    /\ pc[s] = "replay_mark" => chan[s] # c
    /\ after[s][c] = resume[s][c] /\ limit[s] = ReplayLimit

\* Between the two sections of try_register the snapshot waits to be replayed.
SnapshotWaits(s) ==
    pc[s] = "insert" =>
        /\ limit[s] = ReplayLimit
        /\ \A c \in Channel : resume[s][c] # NoRow => c \in todo[s] /\ after[s][c] = resume[s][c]

\* What one page can hold has been sent or will be by the replay of the channel.
CaughtUp(s) ==
    pc[s] \notin Arriving /\ writerUp[s] =>
        \A c \in Channel : resume[s][c] # NoRow /\ Caught(s, c) =>
            Missed(s, c) \subseteq got[s] \/ Replaying(s, c)

\* A connection that has yet to register has registered with nothing.
Unregistered(s) == pc[s] = "open" => \A c \in Channel : resume[s][c] = NoRow

Rejoined(s) == regAt[s] <= Len(messages) /\ SnapshotWaits(s) /\ CaughtUp(s) /\ Unregistered(s)
RejoinInv == LiveInv /\ \A s \in Session : Rejoined(s)

LEMMA InitRejoined == Init => \A s \in Session : Rejoined(s)
BY DEF Init, Rejoined, SnapshotWaits, CaughtUp, Unregistered, Arriving

\* A page that is large enough holds everything that was missed.
LEMMA PageHoldsMissed ==
    ASSUME TypeOK, NEW s \in Session, NEW c \in Channel, resume[s][c] # NoRow, Caught(s, c)
    PROVE  Missed(s, c) \subseteq Page(c, resume[s][c], ReplayLimit)
<1> DEFINE newer == {m \in InChannel(c) : m > resume[s][c]}
<1>1. resume[s][c] \in Nat /\ regAt[s] \in Nat /\ InChannel(c) \subseteq 1 .. Len(messages)
    BY DEF TypeOK, InChannel
<1>2. IsFiniteSet(1 .. Len(messages))
    <2>1. Len(messages) \in Nat
        BY DEF TypeOK
    <2> QED
        BY <2>1, FS_Interval
<1>3. Missed(s, c) \subseteq 1 .. Len(messages)
    BY <1>1 DEF Missed
<1>4. IsFiniteSet(Missed(s, c))
    BY <1>2, <1>3, FS_Subset
<1>5. Cardinality(Missed(s, c)) <= ReplayLimit
    BY DEF Caught, Missed
<1>6. ASSUME NEW m \in Missed(s, c) PROVE m \in Page(c, resume[s][c], ReplayLimit)
    <2> DEFINE earlier == {k \in newer : k < m}
               others  == Missed(s, c) \ {m}
    <2>1. m \in newer /\ m <= regAt[s] /\ m \in Nat
        BY <1>1, <1>3 DEF Missed
    <2>2. earlier \subseteq others
        BY <1>1, <2>1 DEF Missed
    <2> HIDE DEF earlier, others
    <2>3. IsFiniteSet(others) /\ Cardinality(others) = Cardinality(Missed(s, c)) - 1
        BY <1>4, FS_RemoveElement DEF others
    <2>4. Cardinality(earlier) <= Cardinality(others) /\ IsFiniteSet(earlier)
        BY <2>2, <2>3, FS_Subset
    <2>5. /\ Cardinality(earlier) \in Nat /\ Cardinality(others) \in Nat
          /\ Cardinality(Missed(s, c)) \in Nat
        BY <1>4, <2>3, <2>4, FS_CardinalityType
    <2>6. Cardinality(earlier) < ReplayLimit
        BY <1>5, <2>3, <2>4, <2>5, Limits
    <2> QED
        BY <2>1, <2>6 DEF Page, earlier
<1> QED
    BY <1>6

\* A step that changes neither what a session registered with nor its bouncer
\* replay, or ends that of a channel by sending what was missed.
LEMMA RejoinedKept ==
    ASSUME TypeOK, TypeOK', NEW s \in Session, Rejoined(s),
           Len(messages) <= Len(messages'),
           \A c \in Channel, m \in Nat : m <= Len(messages) => (m \in InChannel(c)' <=> m \in InChannel(c)),
           resume'[s] = resume[s], regAt'[s] = regAt[s], got[s] \subseteq got'[s],
           writerUp'[s] => writerUp[s],
           pc'[s] \notin Arriving => pc[s] # "insert",
           pc'[s] = "open" => pc[s] = "open",
           pc'[s] = "insert" => pc[s] = "insert" /\ limit'[s] = limit[s] /\ todo'[s] = todo[s]
                                /\ after'[s] = after[s],
           ASSUME NEW c \in Channel, writerUp[s], resume[s][c] # NoRow, Caught(s, c),
                  Replaying(s, c)
           PROVE  Replaying(s, c)' \/ Missed(s, c) \subseteq got'[s]
    PROVE  Rejoined(s)'
<1>0. /\ Len(messages) \in Nat /\ Len(messages') \in Nat /\ regAt[s] \in Nat
      /\ regAt[s] <= Len(messages) /\ SnapshotWaits(s) /\ CaughtUp(s) /\ Unregistered(s)
    BY DEF TypeOK, Rejoined
<1>1. regAt'[s] <= Len(messages')
    BY <1>0
<1>2. SnapshotWaits(s)'
    BY <1>0 DEF SnapshotWaits
<1>3. \A c \in Channel : Missed(s, c)' = Missed(s, c)
    <2>1. \A c \in Channel : InChannel(c) \subseteq Nat /\ InChannel(c)' \subseteq Nat
        <3>1. messages \in Seq(Channel) /\ messages' \in Seq(Channel)
            BY DEF TypeOK
        <3>2. DOMAIN messages = 1 .. Len(messages) /\ DOMAIN messages' = 1 .. Len(messages')
            BY <3>1
        <3> QED
            BY <1>0, <3>2 DEF InChannel
    <2> QED
        BY <1>0, <2>1 DEF Missed
<1>4. \A c \in Channel : Caught(s, c)' <=> Caught(s, c)
    BY <1>3 DEF Caught, Missed
<1>5. CaughtUp(s)'
    <2>1. CASE pc[s] \in Arriving
        BY <1>0, <2>1 DEF CaughtUp, Unregistered, Arriving
    <2>2. CASE pc[s] \notin Arriving
        BY <1>0, <1>3, <1>4, <2>2 DEF CaughtUp
    <2> QED
        BY <2>1, <2>2
<1>6. Unregistered(s)'
    BY <1>0 DEF Unregistered
<1> QED
    BY <1>1, <1>2, <1>5, <1>6 DEF Rejoined

LEMMA NextRejoined == RejoinInv /\ [Next]_vars => (\A s \in Session : Rejoined(s))'
<1> SUFFICES ASSUME RejoinInv, [Next]_vars, NEW r \in Session PROVE Rejoined(r)'
    OBVIOUS
<1>0. /\ TypeOK /\ TypeOK' /\ OperandsKnown
      /\ Rejoined(r) /\ regAt[r] <= Len(messages) /\ SnapshotWaits(r) /\ CaughtUp(r) /\ Unregistered(r)
    BY NextTypeInv DEF RejoinInv, LiveInv, ReplaceInv, TypeInv, Rejoined
<1>1. /\ Len(messages) \in Nat
      /\ messages' = messages => /\ Len(messages) <= Len(messages')
                                 /\ \A c \in Channel : InChannel(c)' = InChannel(c)
    BY <1>0 DEF TypeOK, InChannel
<1> DEFINE Grows == /\ Len(messages) <= Len(messages')
                    /\ \A c \in Channel, m \in Nat :
                           m <= Len(messages) => (m \in InChannel(c)' <=> m \in InChannel(c))
<1>2. ASSUME NEW s \in Session, Grows, UNCHANGED <<resume, regAt>>, got[r] \subseteq got'[r],
             writerUp'[r] => writerUp[r],
             pc[s] \notin {"insert", "replay", "replay_mark"}, pc'[s] \notin Arriving,
             \A q \in Session \ {s} : /\ pc'[q] = pc[q] /\ todo'[q] = todo[q] /\ chan'[q] = chan[q]
                                      /\ after'[q] = after[q] /\ limit'[q] = limit[q]
      PROVE  Rejoined(r)'
    BY <1>0, <1>2, RejoinedKept DEF Replaying, Arriving
<1>3. ASSUME NEW s \in Session, Connect(s) PROVE Rejoined(r)'
    <2>1. /\ \A q \in Session \ {s} :
                 /\ pc'[q] = pc[q] /\ resume'[q] = resume[q] /\ regAt'[q] = regAt[q]
                 /\ got'[q] = got[q] /\ writerUp'[q] = writerUp[q]
          /\ pc'[s] = "open" /\ regAt'[s] = 0 /\ resume'[s] = [c \in Channel |-> NoRow]
          /\ UNCHANGED <<messages, todo, chan, after, limit>>
        BY <1>0, <1>3 DEF Connect, Goto, durable, operands, TypeOK
    <2>2. CASE r = s
        BY <1>1, <2>1, <2>2 DEF Rejoined, SnapshotWaits, CaughtUp, Unregistered, Arriving
    <2>3. CASE r # s
        BY <1>0, <1>1, <2>1, <2>3, RejoinedKept DEF Replaying, Arriving
    <2> QED
        BY <2>2, <2>3
<1>4. ASSUME NEW s \in Session, NEW p \in Principal, RegisterDb(s, p) PROVE Rejoined(r)'
    <2>1. /\ \A q \in Session \ {s} :
                 /\ pc'[q] = pc[q] /\ resume'[q] = resume[q] /\ todo'[q] = todo[q]
                 /\ after'[q] = after[q] /\ limit'[q] = limit[q]
          /\ pc'[s] = "insert"
          /\ UNCHANGED <<messages, chan, regAt, got, writerUp>>
        BY <1>0, <1>4 DEF RegisterDb, Goto, TypeOK
    <2>2. CASE r = s
        <3>1. /\ limit'[s] = ReplayLimit
              /\ after'[s] = [c \in Channel |-> lastSeen[<<p, c>>]] /\ todo'[s] = Snapshot(p)
              /\ resume'[s] = [c \in Channel |-> IF <<p, c>> \in member THEN lastSeen[<<p, c>>] ELSE NoRow]
            BY <1>0, <1>4 DEF RegisterDb, TypeOK
        <3>2. \A c \in Channel : resume'[s][c] # NoRow => c \in todo'[s] /\ after'[s][c] = resume'[s][c]
            BY <3>1 DEF Snapshot
        <3> QED
            BY <1>0, <2>1, <2>2, <3>1, <3>2 DEF Rejoined, SnapshotWaits, CaughtUp, Unregistered, Arriving
    <2>3. CASE r # s
        BY <1>0, <1>1, <2>1, <2>3, RejoinedKept DEF Replaying, Arriving
    <2> QED
        BY <2>2, <2>3
<1>5. ASSUME NEW s \in Session, RegisterInner(s) PROVE Rejoined(r)'
    <2>1. /\ \A q \in Session \ {s} : pc'[q] = pc[q] /\ regAt'[q] = regAt[q]
          /\ pc[s] = "insert" /\ pc'[s] = "replay" /\ regAt'[s] = Len(messages)
          /\ UNCHANGED <<messages, resume, todo, chan, after, limit, got, writerUp>>
        BY <1>0, <1>5 DEF RegisterInner, Goto, durable, operands, TypeOK
    <2>2. CASE r = s
        <3>1. \A c \in Channel : resume'[s][c] # NoRow => Replaying(s, c)'
            BY <1>0, <2>1, <2>2 DEF SnapshotWaits, Replaying
        <3> QED
            BY <1>1, <2>1, <2>2, <3>1 DEF Rejoined, SnapshotWaits, CaughtUp, Unregistered
    <2>3. CASE r # s
        BY <1>0, <1>1, <2>1, <2>3, RejoinedKept DEF Replaying, Arriving
    <2> QED
        BY <2>2, <2>3
<1>6. ASSUME NEW s \in Session, ReplayChannel(s) PROVE Rejoined(r)'
    <2>1. PICK d \in todo[s] : ReplayChannel(s)!(d)
        BY <1>6 DEF ReplayChannel
    <2> DEFINE page == Page(d, after[s][d], limit[s])
    <2>2. /\ pc[s] = "replay" /\ Enqueue(s, page) /\ d \in Channel
          /\ UNCHANGED <<messages, resume, regAt, after, limit, writerUp>>
        BY <1>0, <2>1 DEF TypeOK, durable
    <2>3. /\ got[r] \subseteq got'[r]
          /\ writerUp[s] => page \subseteq got'[s]
        BY <1>0, <2>2, EnqueueGrows
    <2>4. /\ \A q \in Session \ {s} : pc'[q] = pc[q] /\ todo'[q] = todo[q] /\ chan'[q] = chan[q]
          /\ \/ pc'[s] = "replay" /\ todo'[s] = todo[s] \ {d}
             \/ pc'[s] = "replay_mark" /\ todo'[s] = todo[s] /\ chan'[s] = d
        <3>1. CASE todo' = [todo EXCEPT ![s] = @ \ {d}] /\ UNCHANGED <<pc, chan, seq>>
            BY <1>0, <2>2, <3>1 DEF TypeOK
        <3>2. CASE chan' = [chan EXCEPT ![s] = d] /\ Goto(s, "replay_mark") /\ UNCHANGED todo
            BY <1>0, <2>2, <3>2 DEF TypeOK, Goto
        <3> QED
            BY <2>1, <3>1, <3>2
    <2>5. CASE r # s
        BY <1>0, <1>1, <2>2, <2>3, <2>4, <2>5, RejoinedKept DEF Replaying, Arriving
    <2>6. CASE r = s
        <3>1. ASSUME NEW c \in Channel, writerUp[s], resume[s][c] # NoRow, Caught(s, c), Replaying(s, c)
              PROVE  Replaying(s, c)' \/ Missed(s, c) \subseteq got'[s]
            <4>1. CASE c = d
                <5>1. page = Page(c, resume[s][c], ReplayLimit)
                    BY <3>1, <4>1 DEF Replaying
                <5>2. Missed(s, c) \subseteq page
                    BY <1>0, <3>1, <5>1, PageHoldsMissed
                <5> QED
                    BY <2>3, <3>1, <5>2
            <4>2. CASE c # d
                BY <2>2, <2>4, <3>1, <4>2 DEF Replaying
            <4> QED
                BY <4>1, <4>2
        <3>2. pc[s] = "replay" /\ pc'[s] \notin Arriving
            BY <2>2, <2>4 DEF Arriving
        <3> HIDE DEF page
        <3> QED
            BY <1>0, <1>1, <2>2, <2>3, <2>6, <3>1, <3>2, RejoinedKept DEF Arriving
    <2> QED
        BY <2>5, <2>6
<1>7. ASSUME NEW s \in Session, ReplayMark(s) PROVE Rejoined(r)'
    <2>1. /\ \A q \in Session \ {s} : pc'[q] = pc[q] /\ todo'[q] = todo[q] /\ chan'[q] = chan[q]
          /\ pc[s] = "replay_mark" /\ pc'[s] = "replay" /\ todo'[s] = todo[s] \ {chan[s]}
          /\ UNCHANGED <<messages, resume, regAt, after, limit, writerUp, got>>
        BY <1>0, <1>7 DEF ReplayMark, Goto, history, TypeOK
    <2>2. CASE r # s
        BY <1>0, <1>1, <2>1, <2>2, RejoinedKept DEF Replaying, Arriving
    <2>3. CASE r = s
        <3>1. ASSUME NEW c \in Channel, Replaying(s, c) PROVE Replaying(s, c)'
            BY <2>1, <3>1 DEF Replaying
        <3> QED
            BY <1>0, <1>1, <2>1, <2>3, <3>1, RejoinedKept DEF Arriving
    <2> QED
        BY <2>2, <2>3
<1>8. ASSUME NEW s \in Session, ReplayDone(s) PROVE Rejoined(r)'
    <2>1. /\ \A q \in Session \ {s} : pc'[q] = pc[q] /\ after'[q] = after[q] /\ limit'[q] = limit[q]
          /\ pc[s] = "replay" /\ pc'[s] = "idle" /\ todo[s] = {}
          /\ UNCHANGED <<messages, resume, regAt, todo, chan, writerUp, got>>
        BY <1>0, <1>8 DEF ReplayDone, Goto, durable, history, TypeOK
    <2>2. CASE r # s
        BY <1>0, <1>1, <2>1, <2>2, RejoinedKept DEF Replaying, Arriving
    <2>3. CASE r = s
        BY <1>0, <1>1, <2>1, <2>3, RejoinedKept DEF Replaying, Arriving
    <2> QED
        BY <2>2, <2>3
<1>9. ASSUME NEW s \in Session, AppendMessage(s) PROVE Rejoined(r)'
    <2>1. /\ chan[s] \in Channel /\ messages' = Append(messages, chan[s])
          /\ pc[s] = "append" /\ pc'[s] = "recipients" /\ \A q \in Session \ {s} : pc'[q] = pc[q]
          /\ UNCHANGED <<resume, regAt, todo, chan, after, limit, writerUp, got>>
        BY <1>0, <1>9 DEF AppendMessage, OperandsKnown, WithChannel, Goto, history, TypeOK
    <2>2. Grows
        <3>1. messages \in Seq(Channel) /\ DOMAIN messages = 1 .. Len(messages) /\ Len(messages) \in Nat
            BY <1>0 DEF TypeOK
        <3>2. /\ DOMAIN messages' = 1 .. Len(messages) + 1 /\ Len(messages') = Len(messages) + 1
              /\ \A m \in 1 .. Len(messages) : messages'[m] = messages[m]
            BY <2>1, <3>1
        <3>3. ASSUME NEW c \in Channel, NEW m \in Nat, m <= Len(messages)
              PROVE  m \in InChannel(c)' <=> m \in InChannel(c)
            BY <3>1, <3>2, <3>3 DEF InChannel
        <3> QED
            BY <3>1, <3>2, <3>3
    <2> HIDE DEF Grows
    <2> QED
        BY <1>2, <2>1, <2>2 DEF Ready, Arriving
<1>10. ASSUME NEW s \in Session,
              \/ \E c \in Channel : BeginPrivmsg(s, c) \/ BeginTaskEvent(s, c) \/ BeginMembership(s, c)
              \/ BeginHistory(s) \/ ListMemberships(s) \/ IsMember(s)
       PROVE  Rejoined(r)'
    <2>1. UNCHANGED <<messages, resume, regAt, got, writerUp>>
        BY <1>10 DEF BeginPrivmsg, BeginTaskEvent, BeginMembership, BeginHistory, ListMemberships, IsMember,
                     durable, history
    <2>2. \A q \in Session \ {s} : /\ todo'[q] = todo[q] /\ chan'[q] = chan[q]
                                   /\ after'[q] = after[q] /\ limit'[q] = limit[q]
        BY <1>0, <1>10 DEF BeginPrivmsg, BeginTaskEvent, BeginMembership, BeginHistory, ListMemberships,
                           IsMember, TypeOK
    <2>3. pc[s] \in {"idle", "memberships", "is_member"}
        BY <1>10 DEF BeginPrivmsg, BeginTaskEvent, BeginMembership, BeginHistory, ListMemberships, IsMember, Active
    <2>4. \E l \in Ready : pc' = [pc EXCEPT ![s] = l]
        BY <1>10 DEF BeginPrivmsg, BeginTaskEvent, BeginMembership, BeginHistory, ListMemberships, IsMember,
                     Goto, Ready
    <2>5. pc'[s] \in Ready /\ \A q \in Session \ {s} : pc'[q] = pc[q]
        BY <1>0, <2>4 DEF TypeOK
    <2> QED
        BY <1>1, <1>2, <2>1, <2>2, <2>3, <2>5 DEF Ready, Arriving
<1>11. ASSUME NEW s \in Session,
              \/ Recipients(s) \/ Send(s) \/ SendMark(s) \/ SendDone(s)
              \/ AddMembership(s) \/ JoinInner(s) \/ RemoveMembership(s) \/ PartInner(s)
       PROVE  Rejoined(r)'
    <2>1. UNCHANGED <<messages, resume, regAt, writerUp, todo, after, limit>>
        BY <1>11 DEF Recipients, Send, SendMark, SendDone, AddMembership, JoinInner, RemoveMembership,
                     PartInner, durable, operands, history
    <2>2. got[r] \subseteq got'[r]
        <3>1. CASE Send(s)
            <4>1. PICK q \in pending[s] : Enqueue(q, {seq[s]})
                BY <3>1 DEF Send
            <4>2. q \in Session
                BY <1>0 DEF TypeOK
            <4> QED
                BY <1>0, <4>1, <4>2, EnqueueGrows
        <3> QED
            BY <1>11, <3>1 DEF Recipients, SendMark, SendDone, AddMembership, JoinInner, RemoveMembership,
                               PartInner, history
    <2>3. pc[s] \in {"recipients", "fanout", "mark_seen", "add_membership", "join_inner",
                     "remove_membership", "part_inner"}
        BY <1>11 DEF Recipients, Send, SendMark, SendDone, AddMembership, JoinInner, RemoveMembership, PartInner
    <2>4. pc' = pc \/ \E l \in Ready : pc' = [pc EXCEPT ![s] = l]
        BY <1>11 DEF Recipients, Send, SendMark, SendDone, AddMembership, JoinInner, RemoveMembership,
                     PartInner, Goto, Ready
    <2>5. pc'[s] \in Ready /\ \A q \in Session \ {s} : pc'[q] = pc[q]
        BY <1>0, <2>3, <2>4 DEF TypeOK, Ready
    <2>6. \A q \in Session \ {s} : chan'[q] = chan[q]
        BY <1>0, <1>11 DEF Recipients, Send, SendMark, SendDone, AddMembership, JoinInner, RemoveMembership,
                           PartInner, operands, TypeOK
    <2> QED
        BY <1>1, <1>2, <2>1, <2>2, <2>3, <2>5, <2>6 DEF Ready, Arriving
<1>12. ASSUME NEW s \in Session,
              Leave(s) \/ DisconnectInner(s) \/ MarkGone(s) \/ Evicted(s) \/ ReadError(s)
       PROVE  Rejoined(r)'
    <2>1. UNCHANGED <<messages, resume, regAt, got, todo, chan, after, limit>>
        BY <1>12 DEF Leave, DisconnectInner, MarkGone, Evicted, ReadError, durable, operands, history
    <2>2. writerUp'[r] => writerUp[r]
        BY <1>0, <1>12 DEF Leave, DisconnectInner, MarkGone, Evicted, ReadError, TypeOK
    <2>3. pc[s] \in {"open", "idle", "disconnect", "mark_gone"}
        BY <1>12 DEF Leave, MayLeave, DisconnectInner, MarkGone, Evicted, ReadError
    <2>4. \E l \in {"disconnect", "mark_gone", "closed"} : pc' = [pc EXCEPT ![s] = l]
        BY <1>12 DEF Leave, DisconnectInner, MarkGone, Evicted, ReadError, Goto
    <2>5. pc'[s] \in {"disconnect", "mark_gone", "closed"} /\ \A q \in Session \ {s} : pc'[q] = pc[q]
        BY <1>0, <2>4 DEF TypeOK
    <2> QED
        BY <1>1, <1>2, <2>1, <2>2, <2>3, <2>5 DEF Ready, Arriving
<1>13. ASSUME NEW s \in Session, WriteError(s) PROVE Rejoined(r)'
    <2>1. UNCHANGED <<messages, resume, regAt, got, todo, chan, after, limit, pc>>
        BY <1>13 DEF WriteError, durable, operands, history
    <2>2. writerUp'[r] => writerUp[r]
        BY <1>0, <1>13 DEF WriteError, TypeOK
    <2> QED
        BY <1>0, <1>1, <2>1, <2>2, RejoinedKept DEF Replaying, Arriving
<1>14. CASE Crash
    BY <1>1, <1>14 DEF Crash, durable, Rejoined, SnapshotWaits, CaughtUp, Unregistered, Arriving
<1>15. CASE UNCHANGED vars
    <2>1. UNCHANGED <<messages, resume, regAt, got, todo, chan, after, limit, pc, writerUp>>
        BY <1>15 DEF vars, durable, operands, history
    <2> QED
        BY <1>0, <1>1, <2>1, RejoinedKept DEF Replaying, Arriving
<1> QED
    BY <1>3, <1>4, <1>5, <1>6, <1>7, <1>8, <1>9, <1>10, <1>11, <1>12, <1>13, <1>14, <1>15
    DEF Next, Handler, Command

\* Once the bouncer replay of the active session has ended, every message after
\* its old watermark is in its queue or on the way, if one page held what was
\* missed: the replay brings what was there at registration, the broadcasts of
\* a session subscribed by then bring the rest.
THEOREM ReconnectsAreComplete == Spec => []ReconnectComplete
<1>1. Init => RejoinInv
    BY InitTypeInv, InitReplaceInv, InitLiveInv, InitRejoined DEF RejoinInv, LiveInv, ReplaceInv
<1>2. RejoinInv /\ [Next]_vars => RejoinInv'
    BY NextTypeInv, NextReplaceInv, NextLiveInv, NextRejoined DEF RejoinInv, LiveInv, ReplaceInv
<1>3. RejoinInv => ReconnectComplete
    <2> SUFFICES ASSUME RejoinInv, NEW x \in channels, clients[x[1]] # None, writerUp[clients[x[1]]],
                        pc[clients[x[1]]] \in Ready \ {"replay", "replay_mark", "memberships"},
                        resume[clients[x[1]]][x[2]] # NoRow, subAt[x] <= regAt[clients[x[1]]],
                        Caught(clients[x[1]], x[2]),
                        NEW m \in InChannel(x[2]), m > resume[clients[x[1]]][x[2]]
                 PROVE  Covered(m, clients[x[1]])
        BY DEF ReconnectComplete
    <2> DEFINE s == clients[x[1]]
    <2>1. /\ x \in Pair /\ s \in Session /\ x[2] \in Channel /\ m \in Nat
          /\ subAt[x] \in Nat /\ regAt[s] \in Nat
        BY DEF RejoinInv, LiveInv, ReplaceInv, TypeInv, TypeOK, Pair, InChannel
    <2>2. CASE m <= regAt[s]
        <3>1. Missed(s, x[2]) \subseteq got[s]
            BY <2>1 DEF RejoinInv, Rejoined, CaughtUp, Replaying, Arriving, Ready
        <3> QED
            BY <2>2, <3>1 DEF Missed, Covered
    <2>3. CASE m > regAt[s]
        BY <2>1, <2>3 DEF RejoinInv, LiveInv, LiveComplete
    <2> QED
        BY <2>1, <2>2, <2>3
<1> QED
    BY <1>1, <1>2, <1>3, PTL DEF Spec

-----------------------------------------------------------------------------
(* Every message lost behind a watermark is accounted for *)

\* What a session got its principal got; a slot starts with an empty queue.
GotGiven == \A s \in Session : /\ owner[s] \in Principal => got[s] \subseteq received[owner[s]]
                               /\ pc[s] = "open" => got[s] = {}

\* A replay about to move the watermark has sent the channel from its starting
\* point up to there.
ReplayBrought ==
    \A s \in Session : pc[s] = "replay_mark" /\ writerUp[s] =>
        \A m \in InChannel(chan[s]) : after[s][chan[s]] < m /\ m <= seq[s] => m \in got[s]

\* A watermark points to a message of its channel, or before all of them, and
\* what a session registered with is not ahead of it.
RowsPointIn ==
    /\ \A s \in Session, c \in Channel : resume[s][c] \in InChannel(c) \cup {0, NoRow}
    /\ \A x \in member :
          /\ lastSeen[x] \in InChannel(x[2]) \cup {0}
          /\ \A s \in Session : owner[s] = x[1] => resume[s][x[2]] <= lastSeen[x]

SkipInv == HonestInv /\ RejoinInv /\ GotGiven /\ ReplayBrought /\ RowsPointIn

LEMMA InitSkips == Init => GotGiven /\ ReplayBrought /\ RowsPointIn
BY SeededMemberships, NoneIsNobody DEF Init, GotGiven, ReplayBrought, RowsPointIn, InChannel, Pair, NoRow

\* Messages are put only into queues of sessions that are registered, and then
\* their principals have them.
LEMMA NextGotGiven == SkipInv /\ [Next]_vars => GotGiven'
<1> SUFFICES ASSUME SkipInv, [Next]_vars PROVE GotGiven'
    OBVIOUS
<1>0. TypeOK /\ OperandsKnown /\ HandlesHeld /\ GotGiven
    BY DEF SkipInv, HonestInv, LiveInv, ReplaceInv, TypeInv
<1>1. ASSUME UNCHANGED <<owner, got>>, \A p \in Principal : received[p] \subseteq received'[p],
             \A s \in Session : pc'[s] = "open" => pc[s] = "open"
      PROVE  GotGiven'
    BY <1>0, <1>1 DEF GotGiven
<1>2. ASSUME UNCHANGED <<owner, got, received>>, NEW s \in Session, NEW l \in Label \ {"open"},
             pc' = [pc EXCEPT ![s] = l]
      PROVE  GotGiven'
    BY <1>0, <1>1, <1>2 DEF TypeOK
<1>3. ASSUME NEW r \in Session, NEW ms, Enqueue(r, ms), owner[r] \in Principal, pc[r] # "open",
             owner' = owner, \A s \in Session : pc'[s] = "open" => pc[s] = "open"
      PROVE  GotGiven'
    <2>1. \A p \in Principal : received[p] \subseteq received'[p]
        BY <1>0, <1>3, EnqueueReceived
    <2>2. \A s \in Session \ {r} : got'[s] = got[s]
        BY <1>0, <1>3 DEF Enqueue, TypeOK
    <2>3. got'[r] \subseteq received'[owner[r]]
        <3>1. CASE writerUp[r]
            <4>1. got'[r] = got[r] \cup ms
                BY <1>0, <1>3, <3>1 DEF Enqueue, TypeOK
            <4>2. ms \subseteq received'[owner[r]]
                BY <1>0, <1>3, <3>1, EnqueueReceived
            <4> QED
                BY <1>0, <1>3, <2>1, <4>1, <4>2 DEF GotGiven
        <3>2. CASE ~writerUp[r]
            BY <1>0, <1>3, <3>2 DEF Enqueue, GotGiven
        <3> QED
            BY <3>1, <3>2
    <2>4. pc'[r] # "open"
        BY <1>3
    <2> QED
        BY <1>0, <1>3, <2>1, <2>2, <2>3, <2>4 DEF GotGiven
<1>4. ASSUME NEW s \in Session, Connect(s) PROVE GotGiven'
    <2>1. /\ \A q \in Session \ {s} : pc'[q] = pc[q] /\ owner'[q] = owner[q] /\ got'[q] = got[q]
          /\ owner'[s] = None /\ got'[s] = {} /\ received' = received
        BY <1>0, <1>4 DEF Connect, Goto, TypeOK
    <2> QED
        BY <1>0, <2>1, NoneIsNobody DEF GotGiven
<1>5. ASSUME NEW s \in Session, NEW p \in Principal, RegisterDb(s, p) PROVE GotGiven'
    <2>1. /\ \A q \in Session \ {s} : pc'[q] = pc[q] /\ owner'[q] = owner[q]
          /\ pc[s] = "open" /\ pc'[s] = "insert" /\ owner'[s] = p /\ UNCHANGED <<got, received>>
        BY <1>0, <1>5 DEF RegisterDb, Goto, TypeOK
    <2> QED
        BY <1>0, <2>1 DEF GotGiven
<1>6. ASSUME NEW s \in Session, ReplayChannel(s) PROVE GotGiven'
    <2>1. PICK c \in todo[s] : ReplayChannel(s)!(c)
        BY <1>6 DEF ReplayChannel
    <2>2. pc[s] = "replay" /\ owner' = owner /\ owner[s] \in Principal
        BY <1>0, <2>1 DEF OperandsKnown, Ready
    <2>3. \A q \in Session : pc'[q] = "open" => pc[q] = "open"
        BY <1>0, <2>1 DEF Goto, TypeOK
    <2> QED
        BY <1>3, <2>1, <2>2, <2>3
<1>7. ASSUME NEW s \in Session, Send(s) PROVE GotGiven'
    <2>1. PICK r \in pending[s] : Send(s)!(r)
        BY <1>7 DEF Send
    <2>2. r \in Session /\ Held(r) /\ owner' = owner
        BY <1>0, <2>1 DEF TypeOK, Held
    <2>3. owner[r] \in Principal /\ pc[r] # "open"
        BY <1>0, <2>2 DEF HandlesHeld, Arriving
    <2>4. \A q \in Session : pc'[q] = "open" => pc[q] = "open"
        BY <1>0, <2>1 DEF Goto, TypeOK
    <2> QED
        BY <1>3, <2>1, <2>2, <2>3, <2>4
<1>8. ASSUME NEW s \in Session, AddMembership(s) PROVE GotGiven'
    <2>1. UNCHANGED <<owner, got>> /\ \A q \in Session : pc'[q] = "open" => pc[q] = "open"
        BY <1>0, <1>8 DEF AddMembership, Goto, TypeOK
    <2>2. \/ received' = received
          \/ received' = [received EXCEPT ![owner[s]] = @ \cup InChannel(chan[s])]
        BY <1>8 DEF AddMembership
    <2>3. \A p \in Principal : received[p] \subseteq received'[p]
        BY <1>0, <2>2 DEF TypeOK
    <2> QED
        BY <1>1, <2>1, <2>3
<1>9. ASSUME NEW s \in Session,
             \/ \E c \in Channel : BeginPrivmsg(s, c) \/ BeginTaskEvent(s, c) \/ BeginMembership(s, c)
             \/ BeginHistory(s) \/ Evicted(s) \/ Leave(s) \/ ReadError(s)
             \/ ReplayMark(s) \/ ReplayDone(s) \/ ListMemberships(s)
             \/ IsMember(s) \/ AppendMessage(s) \/ Recipients(s) \/ SendMark(s) \/ SendDone(s)
             \/ RegisterInner(s) \/ JoinInner(s) \/ RemoveMembership(s) \/ PartInner(s)
             \/ DisconnectInner(s) \/ MarkGone(s)
      PROVE  GotGiven'
    <2>1. UNCHANGED <<owner, got, received>>
        BY <1>9 DEF BeginPrivmsg, BeginTaskEvent, BeginMembership, BeginHistory, Evicted, Leave, ReadError,
                    ReplayMark, ReplayDone, ListMemberships, IsMember, AppendMessage, Recipients, SendMark,
                    SendDone, RegisterInner, JoinInner, RemoveMembership, PartInner, DisconnectInner,
                    MarkGone, history
    <2>2. \E l \in Label \ {"open"} : pc' = [pc EXCEPT ![s] = l]
        BY <1>9 DEF BeginPrivmsg, BeginTaskEvent, BeginMembership, BeginHistory, Evicted, Leave, ReadError,
                    ReplayMark, ReplayDone, ListMemberships, IsMember, AppendMessage, Recipients, SendMark,
                    SendDone, RegisterInner, JoinInner, RemoveMembership, PartInner, DisconnectInner,
                    MarkGone, Goto, Label, Ready
    <2> QED
        BY <1>2, <2>1, <2>2
<1>10. ASSUME NEW s \in Session, WriteError(s) PROVE GotGiven'
    BY <1>1, <1>10 DEF WriteError, history
<1>11. CASE Crash
    BY <1>11 DEF Crash, GotGiven
<1>12. CASE UNCHANGED vars
    BY <1>1, <1>12 DEF vars, history
<1> QED
    BY <1>4, <1>5, <1>6, <1>7, <1>8, <1>9, <1>10, <1>11, <1>12 DEF Next, Handler, Command

\* A page is a beginning of what lies after its starting point.
LEMMA PageFromStart ==
    ASSUME messages \in Seq(Channel), NEW c, NEW a \in Nat, NEW n \in Nat,
           NEW top \in Page(c, a, n), NEW m \in InChannel(c), a < m, m <= top
    PROVE  m \in Page(c, a, n)
<1> DEFINE newer    == {k \in InChannel(c) : k > a}
           before(j) == {k \in newer : k < j}
<1>1. InChannel(c) \subseteq 1 .. Len(messages) /\ Len(messages) \in Nat
    BY DEF InChannel
<1>2. top \in newer /\ m \in newer /\ m \in Nat /\ top \in Nat /\ Cardinality(before(top)) < n
    BY <1>1 DEF Page
<1>3. before(m) \subseteq before(top)
    BY <1>1, <1>2
<1>4. IsFiniteSet(before(top))
    <2>1. before(top) \subseteq 1 .. Len(messages)
        BY <1>1
    <2> HIDE DEF before
    <2>2. IsFiniteSet(1 .. Len(messages))
        BY <1>1, FS_Interval
    <2> QED
        BY <2>1, <2>2, FS_Subset
<1> HIDE DEF before
<1>5. IsFiniteSet(before(m)) /\ Cardinality(before(m)) <= Cardinality(before(top))
    BY <1>3, <1>4, FS_Subset
<1>6. Cardinality(before(m)) \in Nat /\ Cardinality(before(top)) \in Nat
    BY <1>4, <1>5, FS_CardinalityType
<1>7. Cardinality(before(m)) < n
    BY <1>2, <1>5, <1>6
<1> QED
    BY <1>2, <1>7 DEF Page, before

\* A replay marks the last message of the page it has just sent.
LEMMA NextReplayBrought == SkipInv /\ [Next]_vars => ReplayBrought'
<1> SUFFICES ASSUME SkipInv, [Next]_vars PROVE ReplayBrought'
    OBVIOUS
<1>0. TypeOK /\ OperandsKnown /\ MarksSupported /\ ReplayBrought
    BY DEF SkipInv, HonestInv, LiveInv, ReplaceInv, TypeInv
<1> DEFINE Kept(q) == pc'[q] = "replay_mark" /\ writerUp'[q] =>
                          /\ pc[q] = "replay_mark" /\ writerUp[q] /\ got[q] \subseteq got'[q]
                          /\ chan'[q] = chan[q] /\ seq'[q] = seq[q] /\ after'[q] = after[q]
<1>1. ASSUME \A q \in Session : Kept(q), UNCHANGED messages PROVE ReplayBrought'
    BY <1>0, <1>1 DEF ReplayBrought, InChannel
<1>2. ASSUME NEW s \in Session, NEW l \in Label \ {"replay_mark"}, pc' = [pc EXCEPT ![s] = l],
             \A q \in Session : got[q] \subseteq got'[q], UNCHANGED <<messages, writerUp>>,
             \A q \in Session \ {s} : chan'[q] = chan[q] /\ seq'[q] = seq[q] /\ after'[q] = after[q]
      PROVE  ReplayBrought'
    BY <1>0, <1>1, <1>2 DEF TypeOK
<1>3. ASSUME NEW s \in Session, Connect(s) PROVE ReplayBrought'
    <2>1. /\ \A q \in Session \ {s} :
                pc'[q] = pc[q] /\ got'[q] = got[q] /\ writerUp'[q] = writerUp[q]
          /\ pc'[s] = "open" /\ UNCHANGED <<messages, chan, seq, after>>
        BY <1>0, <1>3 DEF Connect, Goto, durable, operands, TypeOK
    <2> QED
        BY <1>1, <2>1
<1>4. ASSUME NEW s \in Session,
             \/ \E p \in Principal : RegisterDb(s, p)
             \/ \E c \in Channel : BeginPrivmsg(s, c) \/ BeginTaskEvent(s, c) \/ BeginMembership(s, c)
             \/ BeginHistory(s) \/ Evicted(s) \/ Leave(s) \/ ReadError(s)
             \/ ReplayMark(s) \/ ReplayDone(s) \/ ListMemberships(s)
             \/ IsMember(s) \/ Recipients(s) \/ SendMark(s) \/ SendDone(s)
             \/ RegisterInner(s) \/ AddMembership(s) \/ JoinInner(s) \/ RemoveMembership(s) \/ PartInner(s)
      PROVE  ReplayBrought'
    <2>1. UNCHANGED <<messages, writerUp, got>>
        BY <1>4 DEF RegisterDb, BeginPrivmsg, BeginTaskEvent, BeginMembership, BeginHistory, Evicted, Leave,
                    ReadError, ReplayMark, ReplayDone, ListMemberships, IsMember, Recipients, SendMark,
                    SendDone, RegisterInner, AddMembership, JoinInner, RemoveMembership, PartInner, durable,
                    history
    <2>2. \E l \in Label \ {"replay_mark"} : pc' = [pc EXCEPT ![s] = l]
        BY <1>4 DEF RegisterDb, BeginPrivmsg, BeginTaskEvent, BeginMembership, BeginHistory, Evicted, Leave,
                    ReadError, ReplayMark, ReplayDone, ListMemberships, IsMember, Recipients, SendMark,
                    SendDone, RegisterInner, AddMembership, JoinInner, RemoveMembership, PartInner, Goto,
                    Label, Ready
    <2>3. \A q \in Session \ {s} : chan'[q] = chan[q] /\ seq'[q] = seq[q] /\ after'[q] = after[q]
        BY <1>0, <1>4 DEF RegisterDb, BeginPrivmsg, BeginTaskEvent, BeginMembership, BeginHistory, Evicted,
                          Leave, ReadError, ReplayMark, ReplayDone, ListMemberships, IsMember, Recipients,
                          SendMark, SendDone, RegisterInner, AddMembership, JoinInner, RemoveMembership,
                          PartInner, operands, TypeOK
    <2> QED
        BY <1>2, <2>1, <2>2, <2>3
<1>5. ASSUME NEW s \in Session, ReplayChannel(s) PROVE ReplayBrought'
    <2>1. PICK c \in todo[s] : ReplayChannel(s)!(c)
        BY <1>5 DEF ReplayChannel
    <2> DEFINE page == Page(c, after[s][c], limit[s])
    <2>2. /\ pc[s] = "replay" /\ Enqueue(s, page) /\ UNCHANGED <<messages, after, writerUp>>
          /\ c \in Channel /\ after[s][c] \in Nat /\ limit[s] \in Nat /\ messages \in Seq(Channel)
        BY <1>0, <2>1 DEF TypeOK, durable
    <2>3. (\A q \in Session : got[q] \subseteq got'[q]) /\ (writerUp[s] => page \subseteq got'[s])
        BY <1>0, <2>2, EnqueueGrows
    <2>4. CASE todo' = [todo EXCEPT ![s] = @ \ {c}] /\ UNCHANGED <<pc, chan, seq>>
        BY <1>1, <2>2, <2>3, <2>4
    <2>5. ASSUME NEW top \in page, seq' = [seq EXCEPT ![s] = top], chan' = [chan EXCEPT ![s] = c],
                 Goto(s, "replay_mark")
          PROVE  ReplayBrought'
        <3>1. /\ seq'[s] = top /\ chan'[s] = c
              /\ \A q \in Session \ {s} : pc'[q] = pc[q] /\ chan'[q] = chan[q] /\ seq'[q] = seq[q]
            BY <1>0, <2>5 DEF Goto, TypeOK
        <3>2. \A m \in InChannel(c) : after[s][c] < m /\ m <= top => m \in page
            BY <2>2, PageFromStart
        <3> HIDE DEF page
        <3>3. writerUp[s] => \A m \in InChannel(c) : after[s][c] < m /\ m <= top => m \in got'[s]
            BY <2>3, <3>2
        <3> QED
            BY <1>0, <2>2, <2>3, <3>1, <3>3 DEF ReplayBrought, InChannel
    <2> QED
        BY <2>1, <2>4, <2>5
<1>6. ASSUME NEW s \in Session, AppendMessage(s) PROVE ReplayBrought'
    <2>1. /\ \A q \in Session \ {s} : pc'[q] = pc[q] /\ seq'[q] = seq[q]
          /\ pc'[s] = "recipients" /\ messages' = Append(messages, chan[s])
          /\ UNCHANGED <<chan, after, writerUp, got>>
        BY <1>0, <1>6 DEF AppendMessage, Goto, history, TypeOK
    <2>2. /\ messages \in Seq(Channel) /\ chan[s] \in Channel /\ Len(messages) \in Nat
        BY <1>0, <1>6 DEF AppendMessage, OperandsKnown, WithChannel, TypeOK
    <2>3. /\ DOMAIN messages = 1 .. Len(messages) /\ DOMAIN messages' = 1 .. Len(messages) + 1
          /\ \A m \in 1 .. Len(messages) : messages'[m] = messages[m]
        BY <2>1, <2>2
    <2>4. ASSUME NEW q \in Session, pc'[q] = "replay_mark", writerUp'[q],
                 NEW m \in InChannel(chan[q])', after'[q][chan'[q]] < m, m <= seq'[q]
          PROVE  m \in got'[q]
        <3>1. pc[q] = "replay_mark" /\ seq'[q] = seq[q] /\ writerUp[q] /\ seq[q] \in DOMAIN messages
            BY <1>0, <2>1, <2>4 DEF MarksSupported
        <3>2. m <= Len(messages) /\ m \in DOMAIN messages'
            BY <2>2, <2>3, <2>4, <3>1 DEF InChannel
        <3>3. m \in InChannel(chan[q])
            BY <2>1, <2>2, <2>3, <2>4, <3>2 DEF InChannel
        <3> QED
            BY <1>0, <2>1, <2>4, <3>1, <3>3 DEF ReplayBrought
    <2> QED
        BY <2>4 DEF ReplayBrought
<1>7. ASSUME NEW s \in Session, Send(s) PROVE ReplayBrought'
    <2>1. PICK r \in pending[s] : Send(s)!(r)
        BY <1>7 DEF Send
    <2>2. /\ \A q \in Session : pc'[q] = "replay_mark" => pc[q] = "replay_mark"
          /\ UNCHANGED <<messages, chan, seq, after, writerUp>>
        BY <1>0, <2>1 DEF Goto, durable, TypeOK
    <2>3. \A q \in Session : got[q] \subseteq got'[q]
        BY <1>0, <2>1, EnqueueGrows DEF TypeOK
    <2> QED
        BY <1>1, <2>2, <2>3
<1>8. ASSUME NEW s \in Session, DisconnectInner(s) \/ MarkGone(s) \/ WriteError(s) PROVE ReplayBrought'
    <2>1. UNCHANGED <<messages, chan, seq, after, got>>
        BY <1>8 DEF DisconnectInner, MarkGone, WriteError, durable, operands, history
    <2>2. \A q \in Session : /\ writerUp'[q] => writerUp[q]
                             /\ pc'[q] = "replay_mark" => pc[q] = "replay_mark"
        BY <1>0, <1>8 DEF DisconnectInner, MarkGone, WriteError, Goto, TypeOK
    <2> QED
        BY <1>1, <2>1, <2>2
<1>9. CASE Crash
    BY <1>9 DEF Crash, ReplayBrought
<1>10. CASE UNCHANGED vars
    BY <1>1, <1>10 DEF vars, durable, operands, history
<1> QED
    BY <1>3, <1>4, <1>5, <1>6, <1>7, <1>8, <1>9, <1>10 DEF Next, Handler, Command

\* Watermarks move to messages of their channel, and up; a row that is written
\* again starts at the end of the channel.
LEMMA NextRowsPointIn == SkipInv /\ [Next]_vars => RowsPointIn'
<1> SUFFICES ASSUME SkipInv, [Next]_vars PROVE RowsPointIn'
    OBVIOUS
<1>0. TypeOK /\ OperandsKnown /\ Carries /\ HandlesHeld /\ MarksSupported /\ RowsPointIn
    BY DEF SkipInv, HonestInv, LiveInv, ReplaceInv, TypeInv
<1>1. /\ messages \in Seq(Channel) /\ lastSeen \in [Pair -> Nat] /\ member \subseteq Pair
      /\ resume \in [Session -> [Channel -> Nat \cup {NoRow}]] /\ \A c : InChannel(c) \subseteq Nat
      /\ \A x \in Pair : x[1] \in Principal /\ x[2] \in Channel /\ x = <<x[1], x[2]>>
    BY <1>0 DEF TypeOK, InChannel, Pair
<1>2. ASSUME UNCHANGED <<messages, member, lastSeen, owner, resume>> PROVE RowsPointIn'
    BY <1>0, <1>2 DEF RowsPointIn, InChannel
<1>3. ASSUME UNCHANGED <<messages, member, owner, resume>>, NEW p, NEW c, NEW m \in InChannel(c),
             MarkSeen(p, c, m)
      PROVE  RowsPointIn'
    <2>1. CASE UNCHANGED lastSeen
        BY <1>2, <1>3, <2>1
    <2>2. CASE lastSeen' # lastSeen
        <3>1. <<p, c>> \in member /\ lastSeen[<<p, c>>] < m /\ lastSeen' = [lastSeen EXCEPT ![<<p, c>>] = m]
            BY <1>3, <2>2 DEF MarkSeen
        <3>2. ASSUME NEW x \in member
              PROVE  lastSeen'[x] \in InChannel(x[2]) \cup {0} /\ lastSeen[x] <= lastSeen'[x]
            <4>1. lastSeen[x] \in InChannel(x[2]) \cup {0} /\ lastSeen[x] \in Nat /\ m \in Nat
                BY <1>0, <1>1, <1>3 DEF RowsPointIn
            <4>2. CASE x = <<p, c>>
                <5>1. x[2] = c /\ lastSeen'[x] = m
                    BY <1>1, <3>1, <4>2
                <5> QED
                    BY <1>3, <3>1, <4>1, <4>2, <5>1
            <4>3. CASE x # <<p, c>>
                <5>1. lastSeen'[x] = lastSeen[x]
                    BY <1>1, <3>1, <4>3
                <5> QED
                    BY <4>1, <5>1
            <4> QED
                BY <4>2, <4>3
        <3>3. ASSUME NEW x \in member, NEW s \in Session, owner[s] = x[1]
              PROVE  resume[s][x[2]] <= lastSeen'[x]
            <4>1. resume[s][x[2]] <= lastSeen[x] /\ lastSeen[x] <= lastSeen'[x]
                BY <1>0, <3>2, <3>3 DEF RowsPointIn
            <4>2. /\ lastSeen[x] \in Nat /\ resume[s][x[2]] \in Nat \cup {-1}
                  /\ lastSeen'[x] \in Nat
                BY <1>1, <3>2 DEF NoRow
            <4> QED
                BY <4>1, <4>2
        <3> QED
            BY <1>0, <1>3, <3>2, <3>3 DEF RowsPointIn, InChannel
    <2> QED
        BY <2>1, <2>2
<1>4. ASSUME NEW s \in Session, Connect(s) PROVE RowsPointIn'
    <2>1. /\ \A q \in Session \ {s} : owner'[q] = owner[q] /\ resume'[q] = resume[q]
          /\ owner'[s] = None /\ resume'[s] = [c \in Channel |-> NoRow]
          /\ UNCHANGED <<messages, member, lastSeen>>
        BY <1>0, <1>4 DEF Connect, durable, TypeOK
    <2>2. \A x \in member : owner'[s] # x[1]
        BY <1>1, <2>1, NoneIsNobody
    <2> QED
        BY <1>0, <2>1, <2>2 DEF RowsPointIn, InChannel
<1>5. ASSUME NEW s \in Session, NEW p \in Principal, RegisterDb(s, p) PROVE RowsPointIn'
    <2>1. /\ \A q \in Session \ {s} : owner'[q] = owner[q] /\ resume'[q] = resume[q]
          /\ owner'[s] = p
          /\ resume'[s] = [c \in Channel |-> IF <<p, c>> \in member THEN lastSeen[<<p, c>>] ELSE NoRow]
          /\ UNCHANGED <<messages, member, lastSeen>>
        BY <1>0, <1>5 DEF RegisterDb, TypeOK
    <2>2. \A c \in Channel : resume'[s][c] \in InChannel(c) \cup {0, NoRow}
        BY <1>0, <2>1 DEF RowsPointIn
    <2>3. ASSUME NEW x \in member, x[1] = p PROVE resume'[s][x[2]] <= lastSeen[x]
        <3>1. x = <<p, x[2]>> /\ x[2] \in Channel /\ lastSeen[x] \in Nat
            BY <1>1, <2>3
        <3>2. resume'[s][x[2]] = lastSeen[x]
            BY <2>1, <3>1
        <3> QED
            BY <3>1, <3>2
    <2> QED
        BY <1>0, <2>1, <2>2, <2>3 DEF RowsPointIn, InChannel
<1>6. ASSUME NEW s \in Session, ReplayMark(s) PROVE RowsPointIn'
    <2>1. /\ UNCHANGED <<messages, member, owner, resume>>
          /\ MarkSeen(owner[s], chan[s], seq[s]) /\ pc[s] = "replay_mark"
        BY <1>6 DEF ReplayMark, history
    <2>2. seq[s] \in InChannel(chan[s])
        BY <1>0, <2>1 DEF MarksSupported, InChannel
    <2> QED
        BY <1>3, <2>1, <2>2
<1>7. ASSUME NEW s \in Session, SendMark(s) PROVE RowsPointIn'
    <2>1. /\ UNCHANGED <<messages, member, owner, resume>>
          /\ MarkSeen(owner[target[s]], chan[s], seq[s]) /\ pc[s] = "mark_seen"
        BY <1>7 DEF SendMark, history
    <2>2. seq[s] \in InChannel(chan[s])
        BY <1>0, <2>1 DEF Carries, Phase, InChannel
    <2> QED
        BY <1>3, <2>1, <2>2
<1>8. ASSUME NEW s \in Session, AppendMessage(s) PROVE RowsPointIn'
    <2>1. messages' = Append(messages, chan[s]) /\ UNCHANGED <<member, lastSeen, owner, resume>>
        BY <1>8 DEF AppendMessage, history
    <2>2. chan[s] \in Channel
        BY <1>0, <1>8 DEF AppendMessage, OperandsKnown, WithChannel
    <2>3. DOMAIN messages \subseteq DOMAIN messages' /\ \A m \in DOMAIN messages : messages'[m] = messages[m]
        BY <1>1, <2>1, <2>2
    <2>4. \A c : InChannel(c) \subseteq InChannel(c)'
        BY <2>3 DEF InChannel
    <2> QED
        BY <1>0, <2>1, <2>4 DEF RowsPointIn
<1>9. ASSUME NEW s \in Session, AddMembership(s) PROVE RowsPointIn'
    <2> DEFINE y == <<owner[s], chan[s]>>
    <2>1. UNCHANGED <<messages, owner, resume>> /\ owner[s] \in Principal /\ chan[s] \in Channel
        BY <1>0, <1>9 DEF AddMembership, OperandsKnown, Ready, WithChannel
    <2>2. CASE UNCHANGED <<member, lastSeen>>
        BY <1>2, <2>1, <2>2
    <2>3. ASSUME y \notin member, member' = member \cup {y}, NEW top \in InChannel(chan[s]) \cup {0},
                 \A m \in InChannel(chan[s]) : m <= top, lastSeen' = [lastSeen EXCEPT ![y] = top]
          PROVE  RowsPointIn'
        <3>1. y \in Pair /\ lastSeen'[y] = top /\ \A x \in member : lastSeen'[x] = lastSeen[x]
            BY <1>1, <2>1, <2>3 DEF Pair
        <3>2. ASSUME NEW q \in Session PROVE resume[q][chan[s]] <= top
            <4>1. resume[q][chan[s]] \in InChannel(chan[s]) \cup {0, NoRow} /\ top \in Nat
                BY <1>0, <1>1, <2>1, <2>3 DEF RowsPointIn
            <4>2. CASE resume[q][chan[s]] \in InChannel(chan[s])
                BY <2>3, <4>2
            <4>3. CASE resume[q][chan[s]] \in {0, -1}
                BY <4>1, <4>3
            <4> QED
                BY <4>1, <4>2, <4>3 DEF NoRow
        <3> QED
            BY <1>0, <2>1, <2>3, <3>1, <3>2 DEF RowsPointIn, InChannel
    <2> QED
        BY <1>9, <2>2, <2>3 DEF AddMembership
<1>10. ASSUME NEW s \in Session, RemoveMembership(s) PROVE RowsPointIn'
    <2>1. /\ UNCHANGED <<messages, owner, resume>> /\ member' \subseteq member
          /\ \A x \in member' : lastSeen'[x] = lastSeen[x]
        BY <1>1, <1>10 DEF RemoveMembership
    <2> QED
        BY <1>0, <2>1 DEF RowsPointIn, InChannel
<1>11. ASSUME NEW s \in Session,
              \/ \E c \in Channel : BeginPrivmsg(s, c) \/ BeginTaskEvent(s, c) \/ BeginMembership(s, c)
              \/ BeginHistory(s) \/ Evicted(s) \/ Leave(s) \/ ReadError(s) \/ WriteError(s)
              \/ ReplayChannel(s) \/ ReplayDone(s) \/ ListMemberships(s)
              \/ IsMember(s) \/ Recipients(s) \/ Send(s) \/ SendDone(s)
              \/ RegisterInner(s) \/ JoinInner(s) \/ PartInner(s) \/ DisconnectInner(s) \/ MarkGone(s)
       PROVE  UNCHANGED <<messages, member, lastSeen, owner, resume>>
    BY <1>11 DEF BeginPrivmsg, BeginTaskEvent, BeginMembership, BeginHistory, Evicted, Leave, ReadError,
                 WriteError, ReplayChannel, ReplayDone, ListMemberships, IsMember, Recipients, Send,
                 SendDone, RegisterInner, JoinInner, PartInner, DisconnectInner, MarkGone, durable, history
<1>12. CASE Crash
    <2>1. UNCHANGED <<messages, member, lastSeen>> /\ \A q \in Session : owner'[q] = None
        BY <1>12 DEF Crash, durable
    <2>2. \A q \in Session, c \in Channel : resume'[q][c] = NoRow
        BY <1>12 DEF Crash
    <2>3. \A x \in member, q \in Session : owner'[q] # x[1]
        BY <1>1, <2>1, NoneIsNobody
    <2> QED
        BY <1>0, <2>1, <2>2, <2>3 DEF RowsPointIn, InChannel
<1>13. CASE UNCHANGED vars
    BY <1>2, <1>13 DEF vars, durable, history
<1> QED
    BY <1>2, <1>4, <1>5, <1>6, <1>7, <1>8, <1>9, <1>10, <1>11, <1>12, <1>13 DEF Next, Handler, Command

\* What SkipsExplained says of one message and one watermark
Explained(x, m) ==
    \/ \E s \in Session : /\ pc[s] = "replay_mark" /\ <<owner[s], chan[s]>> = x
                          /\ (m <= after[s][x[2]] \/ ~writerUp[s])
    \/ \E s, q \in Session : /\ pc[q] = "mark_seen" /\ target[q] = s /\ chan[q] = x[2]
                             /\ owner[s] = x[1] /\ Skippable(s, x, m)
SkipStep == \A x \in member \cap member' : \A m \in InChannel(x[2]) \ received[x[1]] :
                lastSeen[x] < m /\ m <= lastSeen'[x] => Explained(x, m)

\* A watermark moves in mark_seen alone; that of a replay has brought everything
\* up to there, that of a live message what its session was owed.
LEMMA SkipInvStep == SkipInv /\ [Next]_vars => [SkipStep]_vars
<1> SUFFICES ASSUME SkipInv, Next,
                    NEW x \in member \cap member', NEW m \in InChannel(x[2]) \ received[x[1]],
                    lastSeen[x] < m, m <= lastSeen'[x]
             PROVE  Explained(x, m)
    BY DEF SkipStep, vars
<1>0. /\ TypeOK /\ OperandsKnown /\ TableSound /\ LiveComplete /\ MarksSupported /\ HandlesHeld
      /\ GotGiven /\ ReplayBrought /\ RowsPointIn
    BY DEF SkipInv, HonestInv, LiveInv, ReplaceInv, TypeInv
<1>1. /\ x \in Pair /\ x[1] \in Principal /\ x[2] \in Channel /\ x = <<x[1], x[2]>>
      /\ m \in Nat /\ lastSeen[x] \in Nat /\ lastSeen \in [Pair -> Nat]
    BY <1>0 DEF TypeOK, Pair, InChannel
<1>2. lastSeen'[x] # lastSeen[x]
    BY <1>1
<1>3. ASSUME NEW s \in Session, ReplayMark(s) PROVE Explained(x, m)
    <2>1. pc[s] = "replay_mark" /\ MarkSeen(owner[s], chan[s], seq[s]) /\ seq[s] \in Nat
        BY <1>0, <1>3 DEF ReplayMark, TypeOK
    <2>2. x = <<owner[s], chan[s]>> /\ lastSeen'[x] = seq[s]
        BY <1>0, <1>1, <1>2, <2>1, MarkSeenRaises
    <2>3. CASE writerUp[s] /\ after[s][x[2]] < m
        <3>1. m \in got[s]
            BY <1>0, <2>1, <2>2, <2>3 DEF ReplayBrought
        <3>2. got[s] \subseteq received[x[1]]
            BY <1>0, <1>1, <2>2 DEF GotGiven
        <3> QED
            BY <3>1, <3>2
    <2>4. CASE ~(writerUp[s] /\ after[s][x[2]] < m)
        <3>1. after[s][x[2]] \in Nat
            BY <1>0, <1>1 DEF TypeOK
        <3> QED
            BY <1>1, <2>1, <2>2, <2>4, <3>1 DEF Explained
    <2> QED
        BY <2>3, <2>4
<1>4. ASSUME NEW q \in Session, SendMark(q) PROVE Explained(x, m)
    <2> DEFINE s == target[q]
               c == x[2]
    <2>1. pc[q] = "mark_seen" /\ MarkSeen(owner[s], chan[q], seq[q]) /\ seq[q] \in Nat /\ s \in Session
        BY <1>0, <1>4 DEF SendMark, TypeOK, MarksSupported
    <2>2. x = <<owner[s], chan[q]>>
        BY <1>0, <1>1, <1>2, <2>1, MarkSeenRaises
    <2>3. SUFFICES ASSUME ~Skippable(s, x, m) PROVE FALSE
        BY <1>1, <2>1, <2>2 DEF Explained
    <2>4. /\ clients[x[1]] = s /\ writerUp[s] /\ x \in channels /\ ~InFlight(m, s) /\ ~Backlogged(s, x, m)
        BY <2>3 DEF Skippable
    <2>5. m \notin got[s]
        BY <1>0, <1>1, <2>1, <2>2 DEF GotGiven
    <2>6. regAt[s] \in Nat /\ subAt[x] \in Nat /\ resume[s][c] \in Nat \cup {NoRow} /\ s # None
        BY <1>0, <1>1, <2>1, NoneIsNobody DEF TypeOK
    <2>7. m <= regAt[s] \/ m <= subAt[x]
        BY <1>0, <1>1, <2>4, <2>5, <2>6 DEF LiveComplete, Covered
    <2>8. /\ resume[s][c] # NoRow /\ subAt[x] <= regAt[s] /\ Caught(s, c)
          /\ ~(pc[s] \in {"replay", "replay_mark"} /\ c \in todo[s] /\ after[s][c] < m)
        BY <2>4, <2>6, <2>7 DEF Backlogged
    <2>9. resume[s][c] < m /\ m <= regAt[s]
        <3>1. resume[s][c] <= lastSeen[x]
            BY <1>0, <1>1, <2>1, <2>2 DEF RowsPointIn
        <3>2. resume[s][c] \in Nat
            BY <2>6, <2>8
        <3> QED
            BY <1>1, <2>6, <2>7, <2>8, <3>1, <3>2
    <2>10. pc[s] \notin Arriving
        BY <1>0, <1>1, <2>1, <2>4 DEF TableSound
    <2>11. Missed(s, c) \subseteq got[s] \/ Replaying(s, c)
        BY <1>1, <2>1, <2>4, <2>8, <2>10 DEF SkipInv, RejoinInv, Rejoined, CaughtUp
    <2>12. m \in Missed(s, c)
        BY <2>9 DEF Missed
    <2>13. Replaying(s, c)
        BY <2>5, <2>11, <2>12
    <2> QED
        BY <2>8, <2>9, <2>13 DEF Replaying
<1>5. ASSUME NEW s \in Session, AddMembership(s) PROVE FALSE
    <2>1. \/ UNCHANGED lastSeen
          \/ /\ <<owner[s], chan[s]>> \notin member
             /\ \E top : lastSeen' = [lastSeen EXCEPT ![<<owner[s], chan[s]>>] = top]
        BY <1>5 DEF AddMembership
    <2> QED
        BY <1>1, <1>2, <2>1
<1>6. ASSUME NEW s \in Session, RemoveMembership(s) PROVE FALSE
    BY <1>1, <1>2, <1>6 DEF RemoveMembership
<1>7. ASSUME NEW s \in Session,
             \/ \E p \in Principal : RegisterDb(s, p)
             \/ \E c \in Channel : BeginPrivmsg(s, c) \/ BeginTaskEvent(s, c) \/ BeginMembership(s, c)
             \/ Connect(s) \/ BeginHistory(s) \/ Evicted(s) \/ Leave(s) \/ ReadError(s) \/ WriteError(s)
             \/ RegisterInner(s) \/ ReplayChannel(s) \/ ReplayDone(s) \/ ListMemberships(s)
             \/ IsMember(s) \/ AppendMessage(s) \/ Recipients(s) \/ Send(s) \/ SendDone(s)
             \/ JoinInner(s) \/ PartInner(s) \/ DisconnectInner(s) \/ MarkGone(s)
      PROVE  UNCHANGED lastSeen
    BY <1>7 DEF RegisterDb, BeginPrivmsg, BeginTaskEvent, BeginMembership, Connect, BeginHistory, Evicted,
                Leave, ReadError, WriteError, RegisterInner, ReplayChannel, ReplayDone, ListMemberships,
                IsMember, AppendMessage, Recipients, Send, SendDone, JoinInner, PartInner, DisconnectInner,
                MarkGone, durable
<1>8. CASE Crash
    BY <1>2, <1>8 DEF Crash, durable
<1> QED
    BY <1>2, <1>3, <1>4, <1>5, <1>6, <1>7, <1>8 DEF Next, Handler, Command

\* Whenever a watermark passes a message its principal was never given, one of the
\* listed circumstances holds: SkipsExplained names every way to lose a message.
THEOREM EverySkipIsExplained == Spec => SkipsExplained
<1>1. Init => SkipInv
    BY InitTypeInv, InitReplaceInv, InitLiveInv, InitHonest, InitRejoined, InitSkips
    DEF SkipInv, HonestInv, RejoinInv, LiveInv, ReplaceInv
<1>2. SkipInv /\ [Next]_vars => SkipInv'
    BY NextTypeInv, NextReplaceInv, NextLiveInv, NextHonest, NextRejoined, NextGotGiven,
       NextReplayBrought, NextRowsPointIn DEF SkipInv, HonestInv, RejoinInv, LiveInv, ReplaceInv
<1> QED
    BY <1>1, <1>2, SkipInvStep, PTL DEF Spec, SkipsExplained, SkipStep, Explained

=============================================================================
