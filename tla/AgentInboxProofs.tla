-------------------------- MODULE AgentInboxProofs --------------------------
(***************************************************************************)
(* The inbox of the daemon, for every set of messages, any number of       *)
(* incarnations of Claude and of faults, and every limit: no message       *)
(* vanishes or doubles, and none waits without somebody to deliver it,     *)
(* unless Claude could not be restarted.                                   *)
(***************************************************************************)
EXTENDS AgentInbox, SequenceFacts, TLAPS

\* Only the handler that delivers on stdin holds messages outside the inbox.
CarryInWrite == loop # "write" => carry = <<>>

\* Nothing is on its way twice, part by part.
Apart(p, c, f) ==
    /\ IsInjective(p) /\ IsInjective(c) /\ IsInjective(f)
    /\ ToSet(p) \cap ToSet(c) = {} /\ ToSet(p) \cap ToSet(f) = {} /\ ToSet(c) \cap ToSet(f) = {}

CopyInv == CarryInWrite /\ Accounted /\ Apart(pending, carry, inFlight)

\* Who delivers what waits: a process that runs has a reader, one that is busy
\* exists, and a handler on its way to Claude knows one.
ReadersKnown ==
    /\ \A c \in Claude : alive[c] => reader[c]
    /\ busy => process # None
    /\ loop = "notify" => busy
    /\ loop = "deliver" /\ pending # <<>> => process # None \/ unstarted
    /\ loop = "write" => process # None
    /\ loop = "restart" => process = None
    /\ unstarted => process = None

WakeInv == ReadersKnown /\ Wakeful

-----------------------------------------------------------------------------
(* Types *)

\* Putting back what has timed out moves messages, and neither loses nor doubles one.
LEMMA RequeuedFacts ==
    ASSUME TypeOK
    PROVE  /\ Requeued \in Seq(Message) /\ Unexpired \in Seq(Message)
           /\ ToSet(Requeued) \cup ToSet(Unexpired) = ToSet(pending) \cup ToSet(inFlight)
           /\ \A c \in Seq(Message) : Apart(pending, c, inFlight) => Apart(Requeued, c, Unexpired)
<1> DEFINE expired == SubSeq(inFlight, 1, late)
           back == Reverse(expired)
<1>1. /\ pending \in Seq(Message) /\ inFlight \in Seq(Message) /\ late \in 0..Len(inFlight)
    BY DEF TypeOK
<1>2. /\ expired \in Seq(Message) /\ Unexpired \in Seq(Message)
      /\ ToSet(inFlight) = ToSet(expired) \cup ToSet(Unexpired)
      /\ IsInjective(inFlight) => /\ IsInjective(expired) /\ IsInjective(Unexpired)
                                  /\ ToSet(expired) \cap ToSet(Unexpired) = {}
    BY <1>1, CutFacts DEF Unexpired
<1>3. /\ Requeued = back \o pending
    BY DEF Requeued
<1> HIDE DEF expired
<1>4. /\ back \in Seq(Message) /\ ToSet(back) = ToSet(expired)
      /\ IsInjective(expired) => IsInjective(back)
    BY <1>2, ReverseFacts
<1> HIDE DEF back
<1>5. /\ Requeued \in Seq(Message) /\ ToSet(Requeued) = ToSet(back) \cup ToSet(pending)
    BY <1>1, <1>3, <1>4, ToSetConcat
<1>6. IsInjective(Requeued) <=>
        IsInjective(back) /\ IsInjective(pending) /\ ToSet(back) \cap ToSet(pending) = {}
    BY <1>1, <1>3, <1>4, InjectiveConcat
<1>7. ASSUME NEW c \in Seq(Message), Apart(pending, c, inFlight) PROVE Apart(Requeued, c, Unexpired)
    BY <1>2, <1>4, <1>5, <1>6, <1>7 DEF Apart
<1> QED
    BY <1>2, <1>4, <1>5, <1>7

\* At first the inbox is empty and one process works.
LEMMA InitTypeOK == Init => TypeOK
<1> SUFFICES ASSUME Init PROVE TypeOK
    OBVIOUS
<1>1. /\ pending \in Seq(Message) /\ inFlight \in Seq(Message) /\ carry \in Seq(Message)
      /\ late \in 0..Len(inFlight)
    BY DEF Init
<1>2. faults \in 0..MaxFaults
    BY InboxLimit DEF Init
<1>3. /\ alive \in [Claude -> BOOLEAN] /\ working \in [Claude -> BOOLEAN]
      /\ reader \in [Claude -> BOOLEAN]
    BY DEF Init
<1>4. lines \in [Claude -> 0..1]
    BY DEF Init
<1> QED
    BY <1>1, <1>2, <1>3, <1>4 DEF Init, TypeOK

\* Every handler, the HTTP thread, Claude and the clock keep the types.
LEMMA NextTypeOK == TypeOK /\ [Next]_vars => TypeOK'
<1> SUFFICES ASSUME TypeOK, [Next]_vars PROVE TypeOK'
    OBVIOUS
<1> USE DEF trouble
<1>0. /\ Requeued \in Seq(Message) /\ Unexpired \in Seq(Message) /\ late \in Nat
      /\ Len(inFlight) \in Nat
    BY RequeuedFacts DEF TypeOK
<1>1. ASSUME NEW m \in Message, Accept(m) PROVE TypeOK'
    <2> DEFINE all == Append(pending, m)
    <2>1. all \in Seq(Message) /\ all # <<>>
        BY DEF TypeOK
    <2>2. Head(all) \in Message /\ Tail(all) \in Seq(Message)
        BY <2>1
    <2> HIDE DEF all
    <2>3. pending' \in Seq(Message) /\ dropped' \in SUBSET Message
        BY <1>1, <2>1, <2>2 DEF Accept, TypeOK, all
    <2> QED
        BY <1>1, <2>3 DEF Accept, TypeOK, external
<1>2. ASSUME NEW m \in Message, AckMessages(m) PROVE TypeOK'
    <2>1. PICK k \in DOMAIN inFlight : inFlight' = RemoveAt(inFlight, k) /\ late' = LateWithout(k)
        BY <1>2 DEF AckMessages
    <2>2. k \in 1..Len(inFlight)
        BY DEF TypeOK
    <2>3. inFlight' \in Seq(Message) /\ Len(inFlight') = Len(inFlight) - 1
        BY <2>1, <2>2, RemoveAtFacts DEF TypeOK
    <2>4. late' \in 0..Len(inFlight')
        BY <1>0, <2>1, <2>2, <2>3 DEF LateWithout, TypeOK
    <2> QED
        BY <1>2, <2>3, <2>4 DEF AckMessages, TypeOK, external
<1>3. CASE Notify
    BY <1>3 DEF Notify, Prompt, TypeOK, inbox, history
<1>4. CASE Deliver
    <2>1. CASE process = None \/ pending = <<>>
        BY <1>4, <2>1 DEF Deliver, TypeOK, external, history
    <2>2. CASE process # None /\ pending # <<>>
        <3>1. pending' = <<>> /\ carry' = pending /\ loop' = "write"
            BY <1>4, <2>2 DEF Deliver
        <3>2. pending' \in Seq(Message) /\ carry' \in Seq(Message)
            BY <3>1 DEF TypeOK
        <3> QED
            BY <1>4, <3>1, <3>2 DEF Deliver, TypeOK, external, history
    <2> QED
        BY <2>1, <2>2
<1>5. CASE WriteOk
    <2>1. ToSet(carry) \in SUBSET Message
        BY ToSetMember DEF TypeOK
    <2>2. told' \in SUBSET Message
        BY <1>5, <2>1 DEF WriteOk, TypeOK
    <2>3. working' \in [Claude -> BOOLEAN]
        BY <1>5 DEF WriteOk, Prompt, TypeOK
    <2>4. carry' \in Seq(Message)
        BY <1>5 DEF WriteOk
    <2> QED
        BY <1>5, <2>2, <2>3, <2>4 DEF WriteOk, TypeOK, inbox
<1>6. CASE WriteFails
    BY <1>6 DEF WriteFails, PutBack, TypeOK, external, history
<1>7. ASSUME NEW c \in Claude, StartClaude(c) PROVE TypeOK'
    BY <1>7 DEF StartClaude, TypeOK, inbox, history
<1>8. ASSUME Raises, process' \in Claude \cup {None}, unstarted' \in BOOLEAN PROVE TypeOK'
    <2>1. /\ faults' \in 0..MaxFaults /\ loop' = "idle"
          /\ UNCHANGED <<busy, pending, inFlight, late, seen, silent, carry, alive, working, lines,
                         reader, told, fetched, acked, dropped>>
        BY <1>8, InboxLimit DEF Raises, TypeOK, inbox, external, history
    <2>2. up' \in BOOLEAN
        BY <1>8 DEF Raises
    <2> QED
        BY <1>8, <2>1, <2>2 DEF TypeOK
<1>9. ASSUME NEW c \in Claude, ReadResult(c) PROVE TypeOK'
    <2>1. lines' \in [Claude -> 0..1]
        BY <1>9 DEF ReadResult, TypeOK
    <2>2. loop' \in {"idle", "deliver"}
        BY <1>9 DEF ReadResult, IfPending
    <2> QED
        BY <1>9, <2>1, <2>2 DEF ReadResult, TypeOK, inbox, history
<1>10. ASSUME NEW c \in Claude, ReadEof(c) PROVE TypeOK'
    BY <1>10 DEF ReadEof, IfPending, TypeOK, inbox, history
<1>11. ASSUME NEW c \in Claude, EndTurn(c) PROVE TypeOK'
    BY <1>11 DEF EndTurn, TypeOK, inbox, history
<1>12. ASSUME NEW c \in Claude, Exit(c) PROVE TypeOK'
    BY <1>12, InboxLimit DEF Exit, TypeOK, inbox, history
<1>13. CASE Watchdog
    BY <1>13 DEF Watchdog, IfPending, TypeOK, inbox, history
<1>14. CASE Reaper
    BY <1>0, <1>14 DEF Reaper, Wake, TypeOK, external, history
<1>15. CASE CheckMessages
    <2>1. Unexpired \o Requeued \in Seq(Message) /\ ToSet(Requeued) \in SUBSET Message
        BY <1>0, ToSetConcat, ToSetMember
    <2>2. Len(Unexpired \o Requeued) \in Nat
        BY <2>1
    <2> QED
        BY <1>15, <2>1, <2>2 DEF CheckMessages, TypeOK, external
<1>16. CASE Expire
    BY <1>0, <1>16 DEF Expire, TypeOK, external, history
<1>17. CASE Silence
    BY <1>17 DEF Silence, TypeOK, inbox, external, history
<1>18. CASE UNCHANGED vars
    BY <1>18 DEF vars, TypeOK, inbox, external, history
<1>19. ASSUME NEW c \in Claude, StartBreaks(c) PROVE TypeOK'
    BY <1>8, <1>19 DEF StartBreaks
<1>20. CASE StartFails
    <2>1. unstarted' \in BOOLEAN
        BY <1>20 DEF StartFails
    <2> QED
        BY <1>8, <1>20, <2>1 DEF StartFails, TypeOK
<1> QED
    BY <1>1, <1>2, <1>3, <1>4, <1>5, <1>6, <1>7, <1>9, <1>10, <1>11, <1>12, <1>13, <1>14,
       <1>15, <1>16, <1>17, <1>18, <1>19, <1>20 DEF Next, LoopStep

\* The inbox, the table of deliveries and the state of the process stay well
\* typed: in particular there are never more late deliveries than deliveries.
THEOREM TypeCorrect == Spec => []TypeOK
BY InitTypeOK, NextTypeOK, PTL DEF Spec


-----------------------------------------------------------------------------
(* Nothing vanishes, nothing doubles *)

\* OneCopy, part by part.
LEMMA OneCopyParts ==
    ASSUME TypeOK
    PROVE  OneCopy <=> Apart(pending, carry, inFlight)
<1> DEFINE u == pending \o carry
<1>1. pending \in Seq(Message) /\ carry \in Seq(Message) /\ inFlight \in Seq(Message)
    BY DEF TypeOK
<1>2. /\ u \in Seq(Message) /\ ToSet(u) = ToSet(pending) \cup ToSet(carry)
      /\ IsInjective(u) <=> /\ IsInjective(pending) /\ IsInjective(carry)
                            /\ ToSet(pending) \cap ToSet(carry) = {}
    BY <1>1, ToSetConcat, InjectiveConcat
<1>3. OneCopy <=> IsInjective(u \o inFlight)
    BY DEF OneCopy
<1> HIDE DEF u
<1>4. OneCopy <=> IsInjective(u) /\ IsInjective(inFlight) /\ ToSet(u) \cap ToSet(inFlight) = {}
    BY <1>1, <1>2, <1>3, InjectiveConcat
<1> QED
    BY <1>2, <1>4 DEF Apart

\* At first no message is known.
LEMMA InitCopyInv == Init => CopyInv
BY DEF Init, CopyInv, CarryInWrite, Accounted, Waiting, Apart, ToSet, IsInjective

\* A message enters once, moves between inbox, handler and table, and leaves to one
\* of the three places where it counts as handled.
LEMMA NextCopyInv == TypeOK /\ CopyInv /\ [Next]_vars => CopyInv'
<1> SUFFICES ASSUME TypeOK, CopyInv, [Next]_vars PROVE CopyInv'
    OBVIOUS
<1>0. /\ pending \in Seq(Message) /\ carry \in Seq(Message) /\ inFlight \in Seq(Message)
      /\ CarryInWrite /\ Accounted /\ Apart(pending, carry, inFlight)
      /\ ToSet(<<>>) = {} /\ IsInjective(<<>>)
    BY DEF TypeOK, CopyInv, ToSet, IsInjective
<1>1. ASSUME NEW m \in Message, Accept(m) PROVE CopyInv'
    <2> DEFINE all == Append(pending, m)
    <2>1. /\ loop = "idle" /\ carry = <<>> /\ m \notin ToSet(pending) \cup ToSet(inFlight)
          /\ seen' = seen \cup {m} /\ UNCHANGED <<carry, inFlight, told, acked>>
        BY <1>0, <1>1 DEF Accept, Fresh, Running, CarryInWrite, Accounted, Waiting
    <2>2. /\ all \in Seq(Message) /\ all # <<>> /\ ToSet(all) = ToSet(pending) \cup {m}
          /\ IsInjective(all)
        BY <1>0, <2>1, AppendFacts DEF Apart
    <2>3. CASE pending' = all /\ UNCHANGED dropped
        <3> HIDE DEF all
        <3> QED
            BY <1>0, <2>1, <2>2, <2>3 DEF CopyInv, CarryInWrite, Accounted, Waiting, Apart
    <2>4. CASE pending' = Tail(all) /\ dropped' = dropped \cup {Head(all)}
        <3> HIDE DEF all
        <3>1. /\ ToSet(all) = {Head(all)} \cup ToSet(pending') /\ IsInjective(pending')
            BY <2>2, <2>4, TailFacts
        <3> QED
            BY <1>0, <2>1, <2>2, <2>4, <3>1 DEF CopyInv, CarryInWrite, Accounted, Waiting, Apart
    <2> QED
        BY <1>1, <2>3, <2>4 DEF Accept
<1>2. ASSUME NEW m \in Message, AckMessages(m) PROVE CopyInv'
    <2>1. PICK k \in DOMAIN inFlight : inFlight[k] = m /\ inFlight' = RemoveAt(inFlight, k)
        BY <1>2 DEF AckMessages
    <2>2. /\ ToSet(inFlight) = ToSet(inFlight') \cup {m}
          /\ IsInjective(inFlight')
        BY <1>0, <2>1, RemoveAtFacts DEF Apart
    <2> QED
        BY <1>0, <1>2, <2>2 DEF AckMessages, CopyInv, CarryInWrite, Accounted, Waiting, Apart
<1>3. CASE Notify
    BY <1>0, <1>3 DEF Notify, CopyInv, CarryInWrite, Accounted, Waiting, inbox, history
<1>4. CASE Deliver
    <2>1. loop = "deliver" /\ carry = <<>> /\ UNCHANGED <<inFlight, seen, told, acked, dropped>>
        BY <1>0, <1>4 DEF Deliver, CarryInWrite, history
    <2>2. CASE UNCHANGED <<pending, carry>>
        BY <1>0, <2>1, <2>2 DEF CopyInv, CarryInWrite, Accounted, Waiting
    <2>3. CASE loop' = "write" /\ carry' = pending /\ pending' = <<>>
        BY <1>0, <2>1, <2>3 DEF CopyInv, CarryInWrite, Accounted, Waiting, Apart
    <2> QED
        BY <1>4, <2>2, <2>3 DEF Deliver
<1>5. CASE WriteOk
    BY <1>0, <1>5 DEF WriteOk, CopyInv, CarryInWrite, Accounted, Waiting, Apart, inbox
<1>6. CASE WriteFails
    <2>1. /\ ToSet(pending') = ToSet(pending) \cup ToSet(carry) /\ IsInjective(pending')
        BY <1>0, <1>6, ToSetConcat, InjectiveConcat DEF WriteFails, PutBack, Apart
    <2> QED
        BY <1>0, <1>6, <2>1 DEF WriteFails, CopyInv, CarryInWrite, Accounted, Waiting, Apart, history
<1>7. CASE Reaper
    <2>1. /\ ToSet(pending') \cup ToSet(inFlight') = ToSet(pending) \cup ToSet(inFlight)
          /\ Apart(pending', carry, inFlight')
        BY <1>0, <1>7, RequeuedFacts DEF Reaper
    <2> QED
        BY <1>0, <1>7, <2>1 DEF Reaper, Running, CopyInv, CarryInWrite, Accounted, Waiting, history
<1>8. CASE CheckMessages
    <2>1. /\ Requeued \in Seq(Message) /\ Unexpired \in Seq(Message)
          /\ ToSet(Requeued) \cup ToSet(Unexpired) = ToSet(pending) \cup ToSet(inFlight)
          /\ Apart(Requeued, carry, Unexpired)
        BY <1>0, RequeuedFacts
    <2>2. /\ pending' = <<>> /\ inFlight' = Unexpired \o Requeued
          /\ UNCHANGED <<carry, loop, seen, told, acked, dropped>>
        BY <1>8 DEF CheckMessages
    <2>3. ToSet(inFlight') = ToSet(pending) \cup ToSet(inFlight) /\ IsInjective(inFlight')
        BY <2>1, <2>2, ToSetConcat, InjectiveConcat DEF Apart
    <2> QED
        BY <1>0, <2>1, <2>2, <2>3 DEF CopyInv, CarryInWrite, Accounted, Waiting, Apart
<1>9. ASSUME NEW c \in Claude, \/ ReadResult(c) \/ ReadEof(c) \/ EndTurn(c) \/ Exit(c)
                               \/ StartClaude(c) \/ StartBreaks(c)
      PROVE  CopyInv'
    <2>1. /\ UNCHANGED <<pending, inFlight, carry, seen, told, acked, dropped>>
          /\ loop # "write" \/ loop' = loop
        BY <1>9 DEF ReadResult, ReadEof, EndTurn, Exit, StartClaude, StartBreaks, Raises, Running,
                    inbox, history
    <2> QED
        BY <1>0, <2>1 DEF CopyInv, CarryInWrite, Accounted, Waiting
<1>10. CASE StartFails \/ Watchdog \/ Expire \/ Silence \/ UNCHANGED vars
    <2>1. /\ UNCHANGED <<pending, inFlight, carry, seen, told, acked, dropped>>
          /\ loop # "write" \/ loop' = loop
        BY <1>10 DEF StartFails, Raises, Watchdog, Expire, Silence, Running, vars, inbox, history
    <2> QED
        BY <1>0, <2>1 DEF CopyInv, CarryInWrite, Accounted, Waiting
<1> QED
    BY <1>1, <1>2, <1>3, <1>4, <1>5, <1>6, <1>7, <1>8, <1>9, <1>10 DEF Next, LoopStep

\* No message the reader accepted vanishes: it waits somewhere until it is written
\* to Claude, acknowledged, or dropped by the limit (_irc_reader_loop,
\* _deliver_pending_idle, _handle_check_messages, _in_flight_reaper).
THEOREM NothingVanishes == Spec => []Accounted
<1>1. CopyInv => Accounted
    BY DEF CopyInv
<1> QED
    BY <1>1, InitCopyInv, NextCopyInv, TypeCorrect, PTL DEF Spec

\* There is one copy of a message on its way at most, whichever thread moves it.
THEOREM NothingDoubles == Spec => []OneCopy
<1>1. TypeOK /\ CopyInv => OneCopy
    BY OneCopyParts DEF CopyInv
<1> QED
    BY <1>1, InitCopyInv, NextCopyInv, TypeCorrect, PTL DEF Spec

-----------------------------------------------------------------------------
(* No lost wake-up *)

\* The first process runs, works and has its reader.
LEMMA InitWakeInv == Init => WakeInv
BY NoneIsNoClaude DEF Init, WakeInv, ReadersKnown, Wakeful

\* Whoever leaves the loop idle with messages waiting leaves a process whose reader
\* will see its turn or its pipe end, or is a restart that raised.
LEMMA NextWakeInv == TypeOK /\ WakeInv /\ [Next]_vars => WakeInv'
<1> SUFFICES ASSUME TypeOK, WakeInv, [Next]_vars PROVE WakeInv'
    OBVIOUS
<1> USE DEF WakeInv, ReadersKnown, Wakeful, Broken, Running, trouble
<1>0. /\ process \in Claude \cup {None} /\ alive \in [Claude -> BOOLEAN]
      /\ reader \in [Claude -> BOOLEAN] /\ None \notin Claude
    BY NoneIsNoClaude DEF TypeOK
<1>1. ASSUME NEW m \in Message, Accept(m) PROVE WakeInv'
    BY <1>0, <1>1 DEF Accept, external
<1>2. ASSUME NEW m \in Message, AckMessages(m) PROVE WakeInv'
    BY <1>0, <1>2 DEF AckMessages, external
<1>3. CASE Notify
    BY <1>0, <1>3 DEF Notify, inbox
<1>4. CASE Deliver
    BY <1>0, <1>4 DEF Deliver, external
<1>5. CASE WriteOk
    BY <1>0, <1>5 DEF WriteOk, inbox
<1>6. CASE WriteFails
    BY <1>0, <1>6 DEF WriteFails, external
<1>7. ASSUME NEW c \in Claude, StartClaude(c) PROVE WakeInv'
    BY <1>0, <1>7 DEF StartClaude, inbox
<1>8. ASSUME NEW c \in Claude, StartBreaks(c) PROVE WakeInv'
    <2>1. /\ process' = c /\ loop' = "idle" /\ unstarted' = FALSE /\ ~reader[c] /\ c # process
          /\ UNCHANGED <<busy, pending, carry, alive, reader>>
        BY <1>8 DEF StartBreaks, Raises, Unused, inbox, external
    <2> QED
        BY <1>0, <2>1
<1>9. ASSUME NEW c \in Claude, ReadResult(c) PROVE WakeInv'
    BY <1>0, <1>9 DEF ReadResult, IfPending, inbox
<1>10. ASSUME NEW c \in Claude, ReadEof(c) PROVE WakeInv'
    BY <1>0, <1>10 DEF ReadEof, IfPending, inbox
<1>11. ASSUME NEW c \in Claude, EndTurn(c) PROVE WakeInv'
    BY <1>0, <1>11 DEF EndTurn, inbox
<1>12. ASSUME NEW c \in Claude, Exit(c) PROVE WakeInv'
    BY <1>0, <1>12 DEF Exit, inbox
<1>13. CASE Watchdog
    BY <1>0, <1>13 DEF Watchdog, TurnStuck, IfPending, inbox
<1>14. CASE Reaper
    BY <1>0, <1>14 DEF Reaper, Wake, external
<1>15. CASE CheckMessages
    BY <1>0, <1>15 DEF CheckMessages, external
<1>16. CASE Expire
    BY <1>0, <1>16 DEF Expire, external
<1>17. CASE Silence
    BY <1>0, <1>17 DEF Silence, inbox, external
<1>18. CASE UNCHANGED vars
    BY <1>18 DEF vars, trouble, inbox, external
<1>19. CASE StartFails
    <2>1. loop' = "idle" /\ UNCHANGED <<process, busy, pending, carry, alive, reader>>
        BY <1>19 DEF StartFails, Raises, inbox, external
    <2>2. CASE loop = "restart"
        <3>1. unstarted' = TRUE
            BY <1>19, <2>2 DEF StartFails
        <3> QED
            BY <1>0, <2>1, <2>2, <3>1
    <2>3. CASE loop = "start"
        <3>1. up' = FALSE /\ unstarted' = FALSE
            BY <1>19, <2>3 DEF StartFails, Raises
        <3> QED
            BY <1>0, <2>1, <3>1
    <2> QED
        BY <1>19, <2>2, <2>3 DEF StartFails, Raises
<1> QED
    BY <1>1, <1>2, <1>3, <1>4, <1>5, <1>6, <1>7, <1>8, <1>9, <1>10, <1>11, <1>12, <1>13, <1>14,
       <1>15, <1>16, <1>17, <1>18, <1>19 DEF Next, LoopStep

\* When the loop is idle and messages wait, somebody will deliver them: a turn that
\* ends, or a reader that is to see its process exit (_claude_stdout_reader). The only
\* exceptions are a restart that raised before there was a process and one whose
\* process could not be prompted (_start_claude, in the reader).
THEOREM NoLostWakeUp == Spec => []Wakeful
<1>1. WakeInv => Wakeful
    BY DEF WakeInv
<1> QED
    BY <1>1, InitWakeInv, NextWakeInv, TypeCorrect, PTL DEF Spec

-----------------------------------------------------------------------------
(* The inbox is a mailbox *)

\* The places a message can be in, in the words of Mailbox.
Waits == ToSet(pending) \cup ToSet(carry)
Due == {inFlight[i] : i \in 1..late}
Lent == {inFlight[i] : i \in late + 1..Len(inFlight)}
Handled == told \cup acked

\* What was handled or dropped is in no queue any more, and is not both.
GoneInv ==
    /\ Handled \cap Waiting = {} /\ dropped \cap Waiting = {}
    /\ Handled \cap dropped = {}

PlaceInv == TypeOK /\ CopyInv /\ GoneInv

\* A message is in one place at most, and Where names it.
Sorted ==
    \A m \in Message :
        /\ Where(m) \in {"new", "waiting", "lent", "due", "done", "dropped"}
        /\ Where(m) = "waiting" <=> m \in Waits
        /\ Where(m) = "due" <=> m \in Due
        /\ Where(m) = "lent" <=> m \in Lent
        /\ Where(m) = "done" <=> m \in Handled
        /\ Where(m) = "dropped" <=> m \in dropped
        /\ Where(m) = "new" <=> m \notin seen

\* The deliveries that are due and those that are not share nothing.
LEMMA DeliveriesSplit ==
    TypeOK /\ IsInjective(inFlight) =>
        /\ ToSet(inFlight) = Due \cup Lent /\ Due \cap Lent = {}
        /\ ToSet(SubSeq(inFlight, 1, late)) = Due
        /\ ToSet(Unexpired) = Lent
<1> SUFFICES ASSUME TypeOK, IsInjective(inFlight)
             PROVE  /\ ToSet(inFlight) = Due \cup Lent /\ Due \cap Lent = {}
                    /\ ToSet(SubSeq(inFlight, 1, late)) = Due
                    /\ ToSet(Unexpired) = Lent
    OBVIOUS
<1>1. /\ inFlight \in Seq(Message) /\ Len(inFlight) \in Nat /\ late \in 0..Len(inFlight)
      /\ DOMAIN inFlight = 1..Len(inFlight)
    BY DEF TypeOK
<1>2. /\ SubSeq(inFlight, 1, late) \in Seq(Message) /\ Len(SubSeq(inFlight, 1, late)) = late
      /\ \A i \in 1..late : SubSeq(inFlight, 1, late)[i] = inFlight[i]
    BY <1>1
<1>3. /\ Unexpired \in Seq(Message) /\ Len(Unexpired) = Len(inFlight) - late
      /\ \A i \in 1..Len(inFlight) - late : Unexpired[i] = inFlight[late + i]
    BY <1>1 DEF Unexpired
<1>4. ToSet(SubSeq(inFlight, 1, late)) = Due
    <2> DEFINE a == SubSeq(inFlight, 1, late)
    <2>1. DOMAIN a = 1..late /\ \A i \in 1..late : a[i] = inFlight[i]
        BY <1>1, <1>2
    <2> HIDE DEF a
    <2>2. ToSet(a) = Due
        BY <2>1 DEF ToSet, Due
    <2> QED
        BY <2>2 DEF a
<1>5. ToSet(Unexpired) = Lent
    <2>1. ToSet(Unexpired) \subseteq Lent
        <3> SUFFICES ASSUME NEW i \in 1..Len(inFlight) - late PROVE Unexpired[i] \in Lent
            BY <1>3 DEF ToSet
        <3>1. late + i \in late + 1..Len(inFlight)
            BY <1>1
        <3> QED
            BY <1>3, <3>1 DEF Lent
    <2>2. Lent \subseteq ToSet(Unexpired)
        <3> SUFFICES ASSUME NEW i \in late + 1..Len(inFlight) PROVE inFlight[i] \in ToSet(Unexpired)
            BY DEF Lent
        <3>1. i - late \in 1..Len(inFlight) - late /\ late + (i - late) = i
            BY <1>1
        <3>2. Unexpired[i - late] = inFlight[i] /\ i - late \in DOMAIN Unexpired
            BY <1>3, <3>1
        <3> QED
            BY <3>2 DEF ToSet
    <2> QED
        BY <2>1, <2>2
<1>6. ToSet(inFlight) = Due \cup Lent
    BY <1>1 DEF ToSet, Due, Lent
<1>7. Due \cap Lent = {}
    BY <1>1 DEF Due, Lent, IsInjective
<1> QED
    BY <1>4, <1>5, <1>6, <1>7

\* No message is in two places.
LEMMA PlacesSorted == PlaceInv => Sorted
<1> SUFFICES ASSUME PlaceInv, NEW m \in Message
             PROVE  /\ Where(m) \in {"new", "waiting", "lent", "due", "done", "dropped"}
                    /\ Where(m) = "waiting" <=> m \in Waits
                    /\ Where(m) = "due" <=> m \in Due
                    /\ Where(m) = "lent" <=> m \in Lent
                    /\ Where(m) = "done" <=> m \in Handled
                    /\ Where(m) = "dropped" <=> m \in dropped
                    /\ Where(m) = "new" <=> m \notin seen
    BY DEF Sorted
<1>1. /\ seen = Waiting \cup Handled \cup dropped /\ Waiting = Waits \cup ToSet(inFlight)
      /\ Waits \cap ToSet(inFlight) = {}
      /\ Handled \cap Waiting = {} /\ dropped \cap Waiting = {} /\ Handled \cap dropped = {}
    BY DEF PlaceInv, GoneInv, CopyInv, Accounted, Apart, Waiting, Waits, Handled
<1>2. /\ ToSet(inFlight) = Due \cup Lent /\ Due \cap Lent = {}
      /\ ToSet(SubSeq(inFlight, 1, late)) = Due
    BY DeliveriesSplit DEF PlaceInv, CopyInv, Apart
<1>3. Where(m) = CASE m \in Waits -> "waiting"
                   [] m \in ToSet(inFlight) -> IF m \in Due THEN "due" ELSE "lent"
                   [] OTHER -> IF m \in Handled THEN "done"
                               ELSE IF m \in dropped THEN "dropped" ELSE "new"
    BY <1>2 DEF Where, Waits, Handled
<1>4. CASE m \in Waits
    BY <1>1, <1>2, <1>3, <1>4
<1>5. CASE m \in ToSet(inFlight)
    BY <1>1, <1>2, <1>3, <1>5
<1>6. CASE m \notin Waits /\ m \notin ToSet(inFlight)
    BY <1>1, <1>2, <1>3, <1>6
<1> QED
    BY <1>4, <1>5, <1>6

\* At first nothing was handled, dropped or taken in.
LEMMA InitGoneInv == Init => GoneInv
BY DEF Init, GoneInv, Handled, Waiting, ToSet

\* Handling and dropping take the one copy of a message away.
LEMMA NextGoneInv == PlaceInv /\ [Next]_vars => GoneInv'
<1> SUFFICES ASSUME PlaceInv, [Next]_vars PROVE GoneInv'
    OBVIOUS
<1>0. /\ TypeOK /\ CopyInv /\ GoneInv
      /\ pending \in Seq(Message) /\ carry \in Seq(Message) /\ inFlight \in Seq(Message)
      /\ CarryInWrite /\ Accounted /\ Apart(pending, carry, inFlight)
      /\ ToSet(<<>>) = {}
    BY DEF PlaceInv, TypeOK, CopyInv, ToSet
<1>1. ASSUME NEW m \in Message, Accept(m) PROVE GoneInv'
    <2> DEFINE all == Append(pending, m)
    <2>1. /\ carry = <<>> /\ m \notin seen /\ m \notin Waiting \cup Handled \cup dropped
          /\ UNCHANGED <<carry, inFlight, told, acked>>
        BY <1>0, <1>1 DEF Accept, Fresh, Running, CarryInWrite, Accounted, Handled
    <2>2. /\ all \in Seq(Message) /\ all # <<>> /\ ToSet(all) = ToSet(pending) \cup {m}
          /\ IsInjective(all)
        BY <1>0, <2>1, AppendFacts DEF Apart, Waiting
    <2>3. CASE pending' = all /\ UNCHANGED dropped
        <3> HIDE DEF all
        <3> QED
            BY <1>0, <2>1, <2>2, <2>3 DEF GoneInv, Waiting, Handled
    <2>4. CASE pending' = Tail(all) /\ dropped' = dropped \cup {Head(all)}
        <3> HIDE DEF all
        <3>1. ToSet(all) = {Head(all)} \cup ToSet(pending') /\ Head(all) \notin ToSet(pending')
            BY <2>2, <2>4, TailFacts
        <3> QED
            BY <1>0, <2>1, <2>2, <2>4, <3>1 DEF GoneInv, Waiting, Handled, Apart
    <2> QED
        BY <1>1, <2>3, <2>4 DEF Accept
<1>2. ASSUME NEW m \in Message, AckMessages(m) PROVE GoneInv'
    <2>1. PICK k \in DOMAIN inFlight : inFlight[k] = m /\ inFlight' = RemoveAt(inFlight, k)
        BY <1>2 DEF AckMessages
    <2>2. ToSet(inFlight) = ToSet(inFlight') \cup {m} /\ m \notin ToSet(inFlight')
        <3>1. k \in 1..Len(inFlight) /\ IsInjective(inFlight)
            BY <1>0 DEF Apart
        <3> QED
            BY <1>0, <2>1, <3>1, RemoveAtFacts
    <2> QED
        BY <1>0, <1>2, <2>2 DEF AckMessages, GoneInv, Waiting, Handled, Apart
<1>3. CASE Deliver
    <2>1. Waiting' = Waiting
        BY <1>0, <1>3 DEF Deliver, CarryInWrite, Waiting
    <2> QED
        BY <1>0, <1>3, <2>1 DEF Deliver, GoneInv, Handled, history
<1>4. CASE WriteOk
    BY <1>0, <1>4 DEF WriteOk, GoneInv, Waiting, Handled, Apart, inbox
<1>5. CASE WriteFails
    <2>1. ToSet(pending') = ToSet(pending) \cup ToSet(carry)
        BY <1>0, <1>5, ToSetConcat DEF WriteFails, PutBack
    <2> QED
        BY <1>0, <1>5, <2>1 DEF WriteFails, GoneInv, Waiting, Handled, history
<1>6. CASE Reaper
    <2>1. ToSet(pending') \cup ToSet(inFlight') = ToSet(pending) \cup ToSet(inFlight)
        BY <1>0, <1>6, RequeuedFacts DEF Reaper
    <2> QED
        BY <1>0, <1>6, <2>1 DEF Reaper, GoneInv, Waiting, Handled, history
<1>7. CASE CheckMessages
    <2>1. /\ pending' = <<>> /\ inFlight' = Unexpired \o Requeued
          /\ UNCHANGED <<carry, told, acked, dropped>>
        BY <1>7 DEF CheckMessages
    <2>2. /\ Requeued \in Seq(Message) /\ Unexpired \in Seq(Message)
          /\ ToSet(Requeued) \cup ToSet(Unexpired) = ToSet(pending) \cup ToSet(inFlight)
        BY <1>0, RequeuedFacts
    <2>3. ToSet(inFlight') = ToSet(pending) \cup ToSet(inFlight)
        BY <2>1, <2>2, ToSetConcat
    <2> QED
        BY <1>0, <2>1, <2>3 DEF GoneInv, Waiting, Handled
<1>8. ASSUME UNCHANGED <<pending, inFlight, carry, told, acked, dropped>> PROVE GoneInv'
    BY <1>0, <1>8 DEF GoneInv, Waiting, Handled
<1>9. ASSUME NEW c \in Claude, \/ ReadResult(c) \/ ReadEof(c) \/ EndTurn(c) \/ Exit(c)
                               \/ StartClaude(c) \/ StartBreaks(c)
      PROVE  GoneInv'
    BY <1>8, <1>9 DEF ReadResult, ReadEof, EndTurn, Exit, StartClaude, StartBreaks, Raises, inbox, history
<1>10. CASE Notify \/ StartFails \/ Watchdog \/ Expire \/ Silence \/ UNCHANGED vars
    BY <1>8, <1>10 DEF Notify, StartFails, Raises, Watchdog, Expire, Silence, vars, inbox, history
<1> QED
    BY <1>1, <1>2, <1>3, <1>4, <1>5, <1>6, <1>7, <1>9, <1>10 DEF Next, LoopStep

\* At first every message is new.
LEMMA InitBox == Init => Box!MailboxInit
<1> SUFFICES ASSUME Init, NEW m \in Message PROVE Where(m) = "new"
    BY DEF Box!MailboxInit
<1>1. /\ ToSet(pending) = {} /\ ToSet(carry) = {} /\ ToSet(inFlight) = {}
      /\ told = {} /\ acked = {} /\ dropped = {}
    BY DEF Init, ToSet
<1> QED
    BY <1>1 DEF Where

\* A full inbox holds as many messages as the limit says.
LEMMA FullInbox ==
    ASSUME TypeOK, CopyInv, Sorted, carry = <<>>, Len(pending) >= MaxPending
    PROVE  Box!Cardinality(Box!In("waiting")) >= MaxPending
<1>1. pending \in Seq(Message) /\ IsInjective(pending) /\ ToSet(carry) = {}
    BY DEF TypeOK, CopyInv, Apart, ToSet
<1>2. Cardinality(ToSet(pending)) = Len(pending) /\ ToSet(pending) \subseteq Message
    BY <1>1, InjectiveCount, ToSetMember
<1>3. Box!In("waiting") = ToSet(pending)
    BY <1>1, <1>2 DEF Box!In, Sorted, Waits
<1>4. Box!Cardinality(ToSet(pending)) = Cardinality(ToSet(pending))
    BY DEF Cardinality, Box!Cardinality, Box!IsFiniteSet, IsFiniteSet
<1> QED
    BY <1>2, <1>3, <1>4

\* Every step of the inbox moves messages as the mailbox may, or not at all.
LEMMA StepBox == PlaceInv /\ PlaceInv' /\ Sorted /\ Sorted' /\ [Next]_vars =>
                     [Box!MailboxNext]_[m \in Message |-> Where(m)]
<1> SUFFICES ASSUME PlaceInv, PlaceInv', Sorted, Sorted', [Next]_vars
             PROVE  Box!MailboxNext \/ \A m \in Message : Where(m)' = Where(m)
    OBVIOUS
<1>0. /\ TypeOK /\ TypeOK' /\ CopyInv /\ GoneInv
      /\ pending \in Seq(Message) /\ carry \in Seq(Message) /\ inFlight \in Seq(Message)
      /\ Len(inFlight) \in Nat /\ late \in 0..Len(inFlight)
      /\ CarryInWrite /\ Accounted /\ Apart(pending, carry, inFlight) /\ IsInjective(inFlight)
      /\ ToSet(<<>>) = {}
    <2>1. TypeOK /\ TypeOK' /\ CopyInv /\ GoneInv /\ ToSet(<<>>) = {}
        BY DEF PlaceInv, ToSet
    <2>2. /\ pending \in Seq(Message) /\ carry \in Seq(Message) /\ inFlight \in Seq(Message)
          /\ Len(inFlight) \in Nat /\ late \in 0..Len(inFlight)
        BY <2>1 DEF TypeOK
    <2> QED
        BY <2>1, <2>2 DEF CopyInv, Apart
<1>1. ASSUME NEW S \in SUBSET Message, NEW state,
             \A m \in Message : Where(m)' = IF m \in S THEN state ELSE Where(m)
      PROVE  Box!Move(S, state)
    BY <1>1 DEF Box!Move
<1>2. ASSUME UNCHANGED <<Waits, inFlight, late, Handled, dropped, seen>>
      PROVE  \A m \in Message : Where(m)' = Where(m)
    <2>1. Due' = Due /\ Lent' = Lent
        BY <1>2 DEF Due, Lent
    <2> QED
        BY <1>2, <2>1 DEF Sorted
<1>3. ASSUME NEW m \in Message, Accept(m) PROVE Box!MailboxNext
    <2> DEFINE all == Append(pending, m)
    <2>1. /\ carry = <<>> /\ m \notin seen /\ seen' = seen \cup {m}
          /\ UNCHANGED <<carry, inFlight, late, told, acked>>
        BY <1>0, <1>3 DEF Accept, Fresh, Running, CarryInWrite
    <2>2. /\ Where(m) = "new" /\ Due' = Due /\ Lent' = Lent /\ Handled' = Handled
          /\ m \notin ToSet(pending)
        BY <1>0, <2>1 DEF Sorted, Due, Lent, Handled, Accounted, Waiting
    <2>3. /\ all \in Seq(Message) /\ all # <<>> /\ ToSet(all) = ToSet(pending) \cup {m}
          /\ IsInjective(all)
        BY <1>0, <2>2, AppendFacts DEF Apart
    <2>4. CASE pending' = all /\ UNCHANGED dropped
        <3> HIDE DEF all
        <3>1. Waits' = Waits \cup {m}
            BY <2>1, <2>3, <2>4 DEF Waits
        <3>2. \A n \in Message : Where(n)' = IF n \in {m} THEN "waiting" ELSE Where(n)
            BY <2>1, <2>2, <2>4, <3>1 DEF Sorted
        <3> QED
            BY <1>1, <2>2, <3>2 DEF Box!MailboxNext, Box!TakeIn
    <2>5. CASE Over(all) /\ pending' = Tail(all) /\ dropped' = dropped \cup {Head(all)}
        <3> DEFINE old == Head(all)
        <3>1. Len(pending) >= MaxPending /\ old = Head(pending) /\ old \in ToSet(pending)
            BY <1>0, <2>5, InboxLimit, TailFacts DEF Over
        <3> HIDE DEF all, old
        <3>2. /\ old \in Message /\ Where(old) = "waiting"
              /\ Waits' = (Waits \cup {m}) \ {old} /\ dropped' = dropped \cup {old}
            <4>1. /\ ToSet(all) = {Head(all)} \cup ToSet(pending') /\ Head(all) \notin ToSet(pending')
                  /\ Head(all) \in Message
                BY <2>3, <2>5, TailFacts
            <4>2. old \in Message /\ old \in Waits /\ old # m
                BY <2>2, <3>1, <4>1 DEF old, Waits
            <4> QED
                BY <1>0, <2>1, <2>2, <2>3, <2>5, <4>1, <4>2 DEF old, Waits, Sorted, Apart
        <3>3. Box!Cardinality(Box!In("waiting")) >= MaxPending
            BY <1>0, <2>1, <3>1, FullInbox
        <3>4. \A n \in Message : Where(n)' = IF n = old THEN "dropped"
                                             ELSE IF n = m THEN "waiting" ELSE Where(n)
            BY <2>1, <2>2, <3>2 DEF Sorted
        <3>5. Box!Displace(m, old)
            <4>1. m # old
                BY <2>2, <3>2
            <4>2. [n \in Message |-> Where(n)]' = [n \in Message |->
                     IF n = old THEN "dropped" ELSE IF n = m THEN "waiting" ELSE Where(n)]
                BY <3>4
            <4>3. @ = [[n \in Message |-> Where(n)] EXCEPT ![m] = "waiting", ![old] = "dropped"]
                BY <4>1
            <4>4. /\ [n \in Message |-> Where(n)][m] = "new"
                  /\ [n \in Message |-> Where(n)][old] = "waiting"
                BY <2>2, <3>2
            <4> QED
                BY <3>3, <4>2, <4>3, <4>4, Zenon DEF Box!Displace
        <3> QED
            BY <3>2, <3>5 DEF Box!MailboxNext
    <2> QED
        BY <1>3, <2>4, <2>5 DEF Accept
<1>4. ASSUME NEW m \in Message, AckMessages(m) PROVE Box!MailboxNext
    <2>1. PICK k \in 1..Len(inFlight) : /\ inFlight[k] = m /\ inFlight' = RemoveAt(inFlight, k)
                                        /\ late' = LateWithout(k)
        BY <1>0, <1>4 DEF AckMessages
    <2>2. /\ UNCHANGED <<Waits, seen, dropped>> /\ Handled' = Handled \cup {m}
        BY <1>4 DEF AckMessages, Waits, Handled
    <2>3. /\ Len(inFlight') = Len(inFlight) - 1 /\ inFlight' \in Seq(Message)
          /\ ToSet(inFlight) = ToSet(inFlight') \cup {m} /\ m \notin ToSet(inFlight')
          /\ \A i \in 1..Len(inFlight) - 1 :
                inFlight'[i] = IF i < k THEN inFlight[i] ELSE inFlight[i + 1]
        <3>1. /\ RemoveAt(inFlight, k) \in Seq(Message) /\ Len(RemoveAt(inFlight, k)) = Len(inFlight) - 1
              /\ ToSet(inFlight) = ToSet(RemoveAt(inFlight, k)) \cup {inFlight[k]}
              /\ inFlight[k] \notin ToSet(RemoveAt(inFlight, k))
            BY <1>0, RemoveAtFacts
        <3>2. \A i \in 1..Len(inFlight) - 1 :
                RemoveAt(inFlight, k)[i] = IF i < k THEN inFlight[i] ELSE inFlight[i + 1]
            BY <1>0, RemoveAtElements
        <3> QED
            BY <2>1, <3>1, <3>2
    <2>4. Due' \subseteq Due /\ Lent' \subseteq Lent
        <3>1. ASSUME NEW i \in 1..late' PROVE inFlight'[i] \in Due
            <4>1. /\ i \in 1..Len(inFlight) - 1 /\ i \in 1..late
                  /\ i >= k => i + 1 \in 1..late
                BY <1>0, <2>1 DEF LateWithout
            <4> QED
                BY <2>1, <2>3, <4>1 DEF Due
        <3>2. ASSUME NEW i \in late' + 1..Len(inFlight') PROVE inFlight'[i] \in Lent
            <4>1. i \in 1..Len(inFlight) - 1 /\ i \in late' + 1..Len(inFlight) - 1
                BY <1>0, <2>1, <2>3 DEF LateWithout
            <4>2. CASE i < k
                BY <1>0, <2>1, <2>3, <4>1, <4>2 DEF LateWithout, Lent
            <4>3. CASE i >= k
                <5>1. i + 1 \in late + 1..Len(inFlight)
                    BY <1>0, <2>1, <4>1, <4>3 DEF LateWithout
                <5> QED
                    BY <2>3, <4>1, <4>3, <5>1 DEF Lent
            <4> QED
                BY <1>0, <2>1, <4>1, <4>2, <4>3
        <3> QED
            BY <3>1, <3>2 DEF Due, Lent
    <2>5. /\ ToSet(inFlight) = Due \cup Lent /\ Due \cap Lent = {}
          /\ ToSet(inFlight)' = Due' \cup Lent' /\ Due' \cap Lent' = {}
        <3>1. TypeOK /\ IsInjective(inFlight) => ToSet(inFlight) = Due \cup Lent /\ Due \cap Lent = {}
            BY DeliveriesSplit
        <3>2. IsInjective(inFlight')
            BY <1>0, <2>1, RemoveAtFacts
        <3>3. (TypeOK /\ IsInjective(inFlight))' =>
                  (/\ ToSet(inFlight) = Due \cup Lent /\ Due \cap Lent = {}
                   /\ ToSet(SubSeq(inFlight, 1, late)) = Due
                   /\ ToSet(Unexpired) = Lent)'
            BY DeliveriesSplit, PTL
        <3> QED
            BY <1>0, <3>1, <3>2, <3>3
    <2>6. Due' = Due \ {m} /\ Lent' = Lent \ {m} /\ m \in Due \cup Lent
        BY <2>3, <2>4, <2>5
    <2>7. \A n \in Message : Where(n)' = IF n \in {m} THEN "done" ELSE Where(n)
        BY <2>2, <2>6 DEF Sorted
    <2>8. Box!Move({m}, "done")
        BY <1>1, <2>7
    <2> QED
        BY <2>6, <2>8 DEF Sorted, Box!MailboxNext, Box!Acknowledge
<1>5. CASE Deliver
    <2>1. Waits' = Waits
        BY <1>0, <1>5 DEF Deliver, CarryInWrite, Waits
    <2> QED
        BY <1>2, <1>5, <2>1 DEF Deliver, Handled, history
<1>6. CASE WriteOk
    <2> DEFINE S == ToSet(carry)
    <2>1. /\ S \in SUBSET Message /\ S \subseteq Waits /\ Waits' = Waits \ S
          /\ Handled' = Handled \cup S /\ UNCHANGED <<inFlight, late, seen, dropped>>
        BY <1>0, <1>6, ToSetMember DEF WriteOk, Waits, Handled, Apart, inbox
    <2> HIDE DEF S
    <2>2. Due' = Due /\ Lent' = Lent
        BY <2>1 DEF Due, Lent
    <2>3. \A n \in Message : Where(n)' = IF n \in S THEN "done" ELSE Where(n)
        BY <2>1, <2>2 DEF Sorted
    <2>4. Box!Move(S, "done") /\ S \subseteq Box!In("waiting")
        BY <1>1, <2>1, <2>3 DEF Sorted, Box!In
    <2> QED
        BY <2>1, <2>4 DEF Box!MailboxNext, Box!HandOver
<1>7. CASE WriteFails
    <2>1. ToSet(pending') = ToSet(pending) \cup ToSet(carry) /\ ToSet(carry') = {}
        BY <1>0, <1>7, ToSetConcat DEF WriteFails, PutBack
    <2>2. Waits' = Waits
        BY <2>1 DEF Waits
    <2> QED
        BY <1>2, <1>7, <2>2 DEF WriteFails, Handled, history
<1>8. /\ Requeued \in Seq(Message) /\ Unexpired \in Seq(Message)
      /\ ToSet(Requeued) = Due \cup ToSet(pending)
      /\ ToSet(Unexpired) = Lent
      /\ Due \subseteq Message /\ Lent \subseteq Message /\ Due \cap Lent = {}
    <2> DEFINE expired == SubSeq(inFlight, 1, late)
    <2>1. /\ expired \in Seq(Message) /\ ToSet(expired) = Due /\ ToSet(Unexpired) = Lent
          /\ Due \cap Lent = {}
        BY <1>0, CutFacts, DeliveriesSplit
    <2>2. Requeued = Reverse(expired) \o pending
        BY DEF Requeued
    <2> HIDE DEF expired
    <2>3. ToSet(Requeued) = Due \cup ToSet(pending)
        BY <1>0, <2>1, <2>2, ReverseFacts, ToSetConcat
    <2>4. Requeued \in Seq(Message) /\ Unexpired \in Seq(Message)
        BY <1>0, RequeuedFacts
    <2> QED
        BY <2>1, <2>3, <2>4, ToSetMember
<1>9. CASE Reaper
    <2>1. /\ carry = <<>> /\ carry' = <<>> /\ pending' = Requeued /\ inFlight' = Unexpired /\ late' = 0
          /\ UNCHANGED <<Handled, seen, dropped>>
        BY <1>0, <1>9 DEF Reaper, Running, CarryInWrite, Handled, history
    <2>2. Waits' = Waits \cup Due /\ Due' = {} /\ Lent' = Lent
        <3>1. Waits' = Waits \cup Due /\ Due' = {}
            BY <1>0, <1>8, <2>1 DEF Waits, Due
        <3>2. Due' \cup Lent' = ToSet(inFlight')
            BY <1>8, <2>1 DEF Due, Lent, ToSet
        <3> QED
            BY <1>8, <2>1, <3>1, <3>2
    <2>3. \A n \in Message : Where(n)' = IF n \in Due THEN "waiting" ELSE Where(n)
        BY <1>8, <2>1, <2>2 DEF Sorted
    <2>4. Box!Move(Due, "waiting") /\ Due \subseteq Box!In("due")
        BY <1>1, <1>8, <2>3 DEF Sorted, Box!In
    <2> QED
        BY <1>8, <2>4 DEF Box!MailboxNext, Box!Return
<1>10. CASE CheckMessages
    <2> DEFINE S == Due \cup ToSet(pending)
    <2>1. /\ pending' = <<>> /\ inFlight' = Unexpired \o Requeued /\ late' = 0
          /\ UNCHANGED <<carry, Handled, seen, dropped>>
        BY <1>10 DEF CheckMessages, Handled
    <2>2. inFlight' \in Seq(Message) /\ ToSet(inFlight') = Lent \cup S
        BY <1>8, <2>1, ToSetConcat
    <2>3. Due' = {} /\ Lent' = Lent \cup S
        <3>1. Due' = {}
            BY <2>1 DEF Due
        <3>2. Lent' = ToSet(inFlight')
            <4>1. DOMAIN inFlight' = 1..Len(inFlight') /\ late' + 1 = 1
                BY <2>1, <2>2
            <4> QED
                BY <4>1 DEF Lent, ToSet
        <3> QED
            BY <2>2, <3>1, <3>2
    <2>4. Waits' = Waits \ ToSet(pending) /\ ToSet(pending) \subseteq Waits
        BY <1>0, <2>1 DEF Waits, Apart
    <2>5. \A n \in Message : Where(n)' = IF n \in S THEN "lent" ELSE Where(n)
        BY <1>8, <2>1, <2>3, <2>4 DEF Sorted
    <2>6. S \in SUBSET Message /\ S \subseteq Box!In("waiting") \cup Box!In("due")
        BY <1>0, <1>8, <2>4, ToSetMember DEF Sorted, Box!In
    <2> HIDE DEF S
    <2>7. Box!Move(S, "lent")
        BY <1>1, <2>5, <2>6
    <2> QED
        BY <2>6, <2>7 DEF Box!MailboxNext, Box!Lend
<1>11. CASE Expire
    <2> DEFINE m == inFlight[late + 1]
    <2>1. /\ late + 1 \in 1..Len(inFlight) /\ late' = late + 1
          /\ UNCHANGED <<Waits, inFlight, Handled, seen, dropped>>
        BY <1>0, <1>11 DEF Expire, Waits, Handled, history
    <2>2. m \in Message /\ m \in Lent
        BY <1>0, <2>1 DEF Lent
    <2>3. Due' = Due \cup {m}
        BY <1>0, <2>1 DEF Due
    <2>4. Lent' = Lent \ {m}
        BY <1>0, <2>1 DEF Lent, IsInjective
    <2> HIDE DEF m
    <2>5. \A n \in Message : Where(n)' = IF n \in {m} THEN "due" ELSE Where(n)
        BY <1>8, <2>1, <2>2, <2>3, <2>4 DEF Sorted
    <2>6. Box!Move({m}, "due")
        BY <1>1, <2>2, <2>5
    <2> QED
        BY <2>2, <2>6 DEF Sorted, Box!MailboxNext, Box!FallDue
<1>12. ASSUME NEW c \in Claude, \/ ReadResult(c) \/ ReadEof(c) \/ EndTurn(c) \/ Exit(c)
                                \/ StartClaude(c) \/ StartBreaks(c)
       PROVE  \A m \in Message : Where(m)' = Where(m)
    <2>1. UNCHANGED <<pending, carry, inFlight, late, seen, told, acked, dropped>>
        BY <1>12 DEF ReadResult, ReadEof, EndTurn, Exit, StartClaude, StartBreaks, Raises, inbox, history
    <2> QED
        BY <1>2, <2>1 DEF Waits, Handled
<1>13. CASE Notify \/ StartFails \/ Watchdog \/ Silence \/ UNCHANGED vars
    <2>1. UNCHANGED <<pending, carry, inFlight, late, seen, told, acked, dropped>>
        BY <1>13 DEF Notify, StartFails, Raises, Watchdog, Silence, vars, inbox, history
    <2> QED
        BY <1>2, <2>1 DEF Waits, Handled
<1> QED
    BY <1>3, <1>4, <1>5, <1>6, <1>7, <1>9, <1>10, <1>11, <1>12, <1>13 DEF Next, LoopStep

\* The inbox implements the mailbox: each message goes its way once, whatever the
\* two threads, the timeouts and the deaths of Claude do in between.
THEOREM InboxIsMailbox == Spec => MailboxRefined
<1>1. Init => PlaceInv
    BY InitTypeOK, InitCopyInv, InitGoneInv DEF PlaceInv
<1>2. PlaceInv /\ [Next]_vars => PlaceInv'
    BY NextTypeOK, NextCopyInv, NextGoneInv DEF PlaceInv
<1>3. PlaceInv => Sorted
    BY PlacesSorted
<1> QED
    BY <1>1, <1>2, <1>3, InitBox, StepBox, PTL DEF Spec, MailboxRefined, Box!MailboxSpec

=============================================================================
