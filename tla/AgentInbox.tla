----------------------------- MODULE AgentInbox -----------------------------
(***************************************************************************)
(* The inbox of aircd-daemon (clients/python/aircd/daemon.py): how a       *)
(* message read from IRC reaches the Claude process it manages.            *)
(*                                                                         *)
(* Two threads share the inbox under `inbox_lock`: the asyncio loop, which *)
(* runs the IRC reader, the readers of Claude's stdout, the turn watchdog  *)
(* and the in-flight reaper, and the HTTP thread, which serves the MCP     *)
(* bridge (check_messages, ack_messages). A handler of the loop contains   *)
(* no await that yields, so handlers exclude each other; `loop` says where *)
(* the running one is, because the HTTP thread can run between two of its  *)
(* sections under the lock.                                                *)
(*                                                                         *)
(* A message stands for its msg-id; those Claude sent itself, and those    *)
(* answered to a synchronous request, never come here. At most             *)
(* MAX_DEDUP_ENTRIES ids are assumed. Time is abstract: a delivery or a    *)
(* turn is timed out from some moment on. A Claude process is external: it *)
(* works, ends turns, fetches, acknowledges, hangs or exits. Incarnations  *)
(* are recycled once their reader is gone.                                 *)
(***************************************************************************)
EXTENDS Integers, Sequences, SequencesExt

CONSTANTS Message, None,
          Claude,         \* bound: incarnations with a reader at the same time
          MaxPending,     \* MAX_PENDING
          MaxFaults       \* bound: processes that exit, do not start, or cannot be prompted

ASSUME NoneIsNoClaude == None \notin Claude
ASSUME InboxLimit == MaxPending \in Nat \ {0} /\ MaxFaults \in Nat

VARIABLES
    process, busy,      \* AgentState.process, is_busy
    pending,            \* pending_inbox
    inFlight, late,     \* in_flight, in insertion order; how many have timed out
    seen,               \* seen_msg_ids
    silent,             \* no stdout for TURN_WATCHDOG_TIMEOUT
    loop, carry,        \* where the handler of the loop is; messages it has popped
    up,                 \* the daemon runs
    faults,             \* processes that exited by themselves, did not start or were not prompted
    unstarted,          \* history: the reader's last restart raised before there was a process
    alive, working,     \* of an incarnation: it runs; a turn is not over
    lines, reader,      \* "result" lines in its pipe; a task reads its stdout
    told, fetched,      \* history: written to stdin; returned by check_messages
    acked, dropped      \* history: acknowledged; dropped by the limit

inbox == <<pending, inFlight, late>>
external == <<alive, working, lines, reader>>
history == <<told, fetched, acked, dropped>>
trouble == <<faults, unstarted>>
vars == <<process, busy, inbox, seen, silent, loop, carry, up, trouble, external, history>>

TypeOK ==
    /\ process \in Claude \cup {None} /\ busy \in BOOLEAN
    /\ pending \in Seq(Message) /\ inFlight \in Seq(Message)
    /\ late \in 0..Len(inFlight)
    /\ silent \in BOOLEAN /\ up \in BOOLEAN /\ faults \in 0..MaxFaults /\ unstarted \in BOOLEAN
    /\ loop \in {"idle", "notify", "deliver", "write", "start", "restart"}
    /\ carry \in Seq(Message)
    /\ alive \in [Claude -> BOOLEAN] /\ working \in [Claude -> BOOLEAN]
    /\ reader \in [Claude -> BOOLEAN] /\ lines \in [Claude -> 0..1]
    /\ {seen, told, fetched, acked, dropped} \subseteq SUBSET Message

\* run: connected, channels joined, the first process started
Init ==
    /\ process \in Claude /\ busy = TRUE
    /\ pending = <<>> /\ inFlight = <<>> /\ late = 0
    /\ seen = {} /\ silent = FALSE
    /\ loop = "idle" /\ carry = <<>> /\ up = TRUE
    /\ faults = 0 /\ unstarted = FALSE
    /\ alive = [c \in Claude |-> c = process]
    /\ working = alive /\ reader = alive
    /\ lines = [c \in Claude |-> 0]
    /\ told = {} /\ fetched = {} /\ acked = {} /\ dropped = {}

-----------------------------------------------------------------------------
Running == up /\ loop = "idle"
Unused(c) == ~reader[c] /\ c # process

\* _requeue_expired_in_flight_locked: one appendleft each, so the last is first
Requeued == Reverse(SubSeq(inFlight, 1, late)) \o pending
Unexpired == SubSeq(inFlight, late + 1, Len(inFlight))

\* _wake_pending_delivery
Wake == IF process = None THEN "start" ELSE IF busy THEN "notify" ELSE "deliver"

\* the handler of the loop goes on to deliver or restart if messages wait
IfPending_Never(step) == "idle"  \* faulty variant: waits for the next message
IfPending(step) == IF pending = <<>> THEN "idle" ELSE step

\* a line on the stdin of the current process, if someone still reads it
Prompt == working' = [working EXCEPT ![process] = TRUE]

-----------------------------------------------------------------------------
(* The handlers of the asyncio loop. *)

\* _irc_reader_loop: deduplicate, then put the message where the process's
\* state says; only the inbox of a busy process is limited
Fresh_Always(m) == TRUE  \* faulty variant: a replayed message is taken again
Fresh(m) == m \notin seen

\* messages beyond the limit of the inbox
Over_Full(q) == Len(q) >= MaxPending  \* faulty variant: a full inbox counts as well
Over(q) == Len(q) > MaxPending

Accept(m) ==
    /\ Running /\ Fresh(m)
    /\ seen' = seen \cup {m}
    /\ LET all == Append(pending, m) IN
         IF busy /\ Over(all)
           THEN pending' = Tail(all) /\ dropped' = dropped \cup {Head(all)}
           ELSE pending' = all /\ UNCHANGED dropped
    /\ loop' = IF busy THEN "notify" ELSE IF process = None THEN "start" ELSE "deliver"
    /\ UNCHANGED <<process, busy, inFlight, late, silent, carry, up, trouble, external,
                   told, fetched, acked>>

\* _deliver_busy_notification: debounced, and only if something waits
Notify ==
    /\ up /\ loop = "notify"
    /\ loop' = "idle"
    /\ \/ process # None /\ busy /\ pending # <<>> /\ alive[process] /\ Prompt
       \/ UNCHANGED working
    /\ UNCHANGED <<process, busy, inbox, seen, silent, carry, up, trouble, alive, lines, reader, history>>

\* _deliver_pending_idle, under the lock: everything that waits is taken
Deliver ==
    /\ up /\ loop = "deliver"
    /\ IF process = None \/ pending = <<>>
         THEN loop' = "idle" /\ UNCHANGED <<pending, carry>>
         ELSE loop' = "write" /\ carry' = pending /\ pending' = <<>>
    /\ UNCHANGED <<process, busy, inFlight, late, seen, silent, up, trouble, external, history>>

\* _deliver_pending_idle, after the lock: it is written in one prompt ...
WriteOk ==
    /\ up /\ loop = "write" /\ alive[process]
    /\ loop' = "idle" /\ carry' = <<>>
    /\ told' = told \cup ToSet(carry)
    /\ busy' = TRUE /\ silent' = FALSE /\ Prompt
    /\ UNCHANGED <<process, inbox, seen, up, trouble, alive, lines, reader, fetched, acked, dropped>>

\* ... or put back where it was, the pipe being broken
PutBack_Nothing == pending  \* faulty variant: what was popped is forgotten
PutBack == carry \o pending

WriteFails ==
    /\ up /\ loop = "write" /\ ~alive[process]
    /\ loop' = "idle" /\ carry' = <<>>
    /\ pending' = PutBack
    /\ UNCHANGED <<process, busy, inFlight, late, seen, silent, up, trouble, external, history>>

\* _claude_stdout_reader, a "result" line: the turn is over. The line may come
\* from the pipe of a process that has been replaced
ReadResult(c) ==
    /\ Running /\ reader[c] /\ lines[c] > 0
    /\ lines' = [lines EXCEPT ![c] = @ - 1]
    /\ busy' = FALSE /\ silent' = FALSE
    /\ loop' = IfPending("deliver")
    /\ UNCHANGED <<process, inbox, seen, carry, up, trouble, alive, working, reader, history>>

\* _claude_stdout_reader, end of file
ReadEof(c) ==
    /\ Running /\ reader[c] /\ lines[c] = 0 /\ ~alive[c]
    /\ reader' = [reader EXCEPT ![c] = FALSE]
    /\ IF process = c
         THEN busy' = FALSE /\ process' = None /\ loop' = IfPending("restart")
         ELSE UNCHANGED <<busy, process, loop>>
    /\ UNCHANGED <<inbox, seen, silent, carry, up, trouble, alive, working, lines, history>>

\* _turn_watchdog: terminate a process that has been silent for too long
TurnStuck == busy /\ process # None /\ silent

Watchdog ==
    /\ Running /\ TurnStuck
    /\ \E c \in Claude : Unused(c)  \* bound: an incarnation is left to start
    /\ alive' = [alive EXCEPT ![process] = FALSE]
    /\ busy' = FALSE /\ process' = None
    /\ loop' = IfPending("start")
    /\ UNCHANGED <<inbox, seen, silent, carry, up, trouble, working, lines, reader, history>>

\* _in_flight_reaper: what has timed out goes back, and a delivery is started
Reapable_WhileRunning == late > 0 /\ process # None  \* faulty variant: not without a process
Reapable == late > 0

Reaper ==
    /\ Running /\ Reapable
    /\ pending' = Requeued /\ inFlight' = Unexpired /\ late' = 0
    /\ loop' = Wake
    /\ UNCHANGED <<process, busy, seen, silent, carry, up, trouble, external, history>>

\* _start_claude: a process, its first prompt, its reader; messages that wait
\* are not part of the prompt
StartClaude(c) ==
    /\ up /\ loop \in {"start", "restart"} /\ Unused(c)
    /\ process' = c /\ busy' = TRUE /\ silent' = FALSE /\ loop' = "idle"
    /\ unstarted' = FALSE
    /\ alive' = [alive EXCEPT ![c] = TRUE]
    /\ working' = [working EXCEPT ![c] = TRUE]
    /\ reader' = [reader EXCEPT ![c] = TRUE]
    /\ UNCHANGED <<inbox, seen, carry, up, faults, lines, history>>

\* _start_claude raises. The reader task of the process before catches the error
\* (and ends); in a task that run gathers it ends the daemon
Raises ==
    /\ faults < MaxFaults /\ faults' = faults + 1
    /\ up /\ loop \in {"start", "restart"}
    /\ loop' = "idle" /\ up' = (loop = "restart")
    /\ UNCHANGED <<busy, inbox, seen, silent, carry, external, history>>

\* ... there is no process yet: no CLI is found, the temporary file or Popen fails
StartFails ==
    /\ Raises
    /\ unstarted' = (loop = "restart")
    /\ UNCHANGED process

\* ... the process is gone before it was prompted, and has no reader
StartBreaks(c) ==
    /\ Raises /\ Unused(c)
    /\ process' = c /\ unstarted' = FALSE

-----------------------------------------------------------------------------
(* The HTTP thread, for the MCP bridge of some process. *)

\* _handle_check_messages
CheckMessages ==
    /\ up /\ \E c \in Claude : alive[c]
    /\ Requeued # <<>>
    /\ inFlight' = Unexpired \o Requeued
    /\ pending' = <<>> /\ late' = 0
    /\ fetched' = fetched \cup ToSet(Requeued)
    /\ UNCHANGED <<process, busy, seen, silent, loop, carry, up, trouble, external, told, acked, dropped>>

\* the entry in place k is deleted, with its time
LateWithout_Stale(k) == late  \* faulty variant: times are kept apart, and this one stays
LateWithout(k) == IF k <= late THEN late - 1 ELSE late

\* _handle_ack_messages, perhaps sent by a process that has been replaced
AckMessages(m) ==
    /\ up /\ m \in fetched
    /\ \E k \in DOMAIN inFlight :
         /\ inFlight[k] = m
         /\ inFlight' = RemoveAt(inFlight, k)
         /\ late' = LateWithout(k)
    /\ acked' = acked \cup {m}
    /\ UNCHANGED <<process, busy, pending, seen, silent, loop, carry, up, trouble, external,
                   told, fetched, dropped>>

-----------------------------------------------------------------------------
(* Claude and the clock. *)

\* a "result" line; prompts that came meanwhile may keep the process at work
EndTurn(c) ==
    /\ alive[c] /\ working[c] /\ lines[c] = 0
    /\ lines' = [lines EXCEPT ![c] = 1]
    /\ \E more \in BOOLEAN : working' = [working EXCEPT ![c] = more]
    /\ UNCHANGED <<process, busy, inbox, seen, silent, loop, carry, up, trouble, alive, reader, history>>

Exit(c) ==
    /\ alive[c] /\ faults < MaxFaults
    /\ faults' = faults + 1
    /\ alive' = [alive EXCEPT ![c] = FALSE]
    /\ UNCHANGED <<process, busy, inbox, seen, silent, loop, carry, up, unstarted, working, lines,
                   reader, history>>

\* the oldest delivery has been unacknowledged for MESSAGE_VISIBILITY_TIMEOUT
Expire ==
    /\ late < Len(inFlight)
    /\ late' = late + 1
    /\ UNCHANGED <<process, busy, pending, inFlight, seen, silent, loop, carry, up, trouble, external,
                   history>>

\* TURN_WATCHDOG_TIMEOUT passes; a line that is in the pipe is read before that
Silence ==
    /\ busy /\ process # None /\ ~silent /\ lines[process] = 0
    /\ silent' = TRUE
    /\ UNCHANGED <<process, busy, inbox, seen, loop, carry, up, trouble, external, history>>

LoopStep ==
    \/ Notify \/ Deliver \/ WriteOk \/ WriteFails
    \/ StartFails \/ \E c \in Claude : StartClaude(c) \/ StartBreaks(c)

Next ==
    \/ \E m \in Message : Accept(m) \/ AckMessages(m)
    \/ LoopStep
    \/ \E c \in Claude : ReadResult(c) \/ ReadEof(c) \/ EndTurn(c) \/ Exit(c)
    \/ Watchdog \/ Reaper \/ CheckMessages
    \/ Expire \/ Silence

Spec == Init /\ [][Next]_vars

\* The loop and its tasks run, time passes, and a Claude that keeps being
\* given turns ends one of them now and then.
Fairness ==
    /\ WF_vars(LoopStep)
    /\ \A c \in Claude : WF_vars(ReadResult(c)) /\ WF_vars(ReadEof(c))
    /\ WF_vars(Reaper) /\ WF_vars(Expire)
    /\ WF_vars(Watchdog) /\ WF_vars(Silence)
    /\ SF_vars(\E c \in Claude : c = process /\ EndTurn(c))

FairSpec == Spec /\ Fairness

-----------------------------------------------------------------------------
(* Properties. *)

Waiting == ToSet(pending) \cup ToSet(carry) \cup ToSet(inFlight)

\* A message the reader has accepted is in the inbox, in the hands of the
\* delivering handler or in flight, until it is written to Claude's stdin,
\* acknowledged, or dropped by the limit: no broken pipe, timeout, restart or
\* interleaving of the two threads makes one vanish.
Accounted == seen = Waiting \cup told \cup acked \cup dropped

\* There is never more than one copy of a message on its way, across inbox,
\* handler and in-flight table: requeueing and putting back do not duplicate.
OneCopy == IsInjective(pending \o carry \o inFlight)

\* The inbox is the mailbox that Mailbox promises, whichever thread, timeout, broken
\* pipe or restart moves a message: nothing that was written to Claude or
\* acknowledged comes back, nothing lent does before its time is up, and nothing
\* is dropped while there is room. A message counts where it still is, if anywhere.
Where(m) ==
    CASE m \in ToSet(pending) \cup ToSet(carry) -> "waiting"
      [] m \in ToSet(inFlight) -> IF m \in ToSet(SubSeq(inFlight, 1, late)) THEN "due" ELSE "lent"
      [] OTHER -> IF m \in told \cup acked THEN "done"
                  ELSE IF m \in dropped THEN "dropped" ELSE "new"
Box == INSTANCE Mailbox WITH Limit <- MaxPending, phase <- [m \in Message |-> Where(m)]
MailboxRefined == Box!MailboxSpec

\* No lost wake-up: when the loop is idle and messages wait, Claude is in a
\* turn whose end delivers them, or its reader is still to see it exit and
\* restart it. There are two exceptions, both left by a restart that raises in
\* the reader, which logs the error and ends (daemon.py:616-618): without a
\* process (482, 500, 537) the messages wait for the next one from IRC or for
\* the reaper, and a process whose first prompt could not be written stays in
\* AgentState.process without a reader (544-550).
Broken == ~alive[process] /\ ~reader[process]
Wakeful ==
    Running /\ pending # <<>> =>
        \/ unstarted
        \/ process # None /\ (Broken \/ (reader[process] /\ (busy \/ ~alive[process])))

\* Every message accepted reaches Claude, on stdin or by check_messages, unless
\* the limit drops it: also when turns hang and the watchdog restarts Claude, or
\* when it exits by itself. A start that raises stops the daemon, or leaves one
\* of the two exceptions of Wakeful.
Stuck == ~up \/ unstarted \/ (process # None /\ Broken)
Reached == \A m \in Message : m \in seen ~> m \in told \cup fetched \cup dropped \/ Stuck

\* A delivery that timed out does not stay in the in-flight table: it is
\* acknowledged, or made visible again whatever Claude does.
Redelivered == late > 0 ~> late = 0 \/ ~up

=============================================================================
