# A TLA+ verification of aircd

aircd is an IRC-style server for humans and agents, written in Rust, with a
Python client, a daemon that keeps a Claude process attached to the server, and
an MCP bridge. The server keeps a durable history, remembers which messages each
principal has seen and replays the missed ones on reconnecting; it also runs a
task board with leases. This directory holds TLA+ models of those parts, TLC
configurations that check them on small instances, and TLAPS proofs of their
central properties for every instance.

Paths below are relative to the repository root (`src/server.rs`,
`clients/python/aircd/daemon.py`, ...). `PROJECT.json` maps every definition to
the lines it models.

## The system

| part | state | operations | interacts with |
|---|---|---|---|
| server core, `src/server.rs` | `ServerInner` behind the `inner` mutex: active client of each principal, subscribers of each channel; per session: principal, output queue, shutdown queue | register, JOIN, PART, PRIVMSG, CHATHISTORY, QUIT, replace, disconnect, fan-out, replay | SQLite through the `db` mutex; one reader and one writer task per socket |
| history, `src/history.rs` | table `messages` | `append`, `after` | server core |
| task board, `src/tasks.rs` | table `tasks`: status, claimant, lease | create, claim, done, release, list | server core, which tells every change in the channel |
| tokens and authentication, `src/auth.rs`, `src/tokens.rs` | tables `principals` (plaintext) and `principal_tokens` (hashes) | authenticate by the new table, then by the old one; parse, generate, hash and verify a token | registration; the operator, who changes both tables in SQL |
| store, `src/store.rs` | schema, seeded rows | open: create, migrate columns, seed, backfill | everything in SQLite |
| wire protocol, `src/protocol.rs`, `src/server.rs`, `client.py` | none | write and parse a command; write, escape and parse a line | server core, client |
| start and TLS, `src/main.rs` | none | parse arguments, listen | server core |
| Python client, `clients/python/aircd/client.py` | connection, reader task, `_message_queue`, joined channels, last seqs | connect, register, read, reconnect, send | server by lines; daemon by a queue |
| daemon: inbox and supervision, `daemon.py` | `AgentState`: process, busy, pending inbox, in-flight table, seen ids | accept, deliver, notify, check, ack, reap, watch, start | Claude by pipes, bridge by HTTP |
| daemon: requests, router, sender, `daemon.py` | registered synchronous requests, outgoing queue | history, list, claim, done, send | client, bridge |
| MCP bridge, `bridge.py` | none | one HTTP request per tool | daemon |
| scripts, examples, tests | | | |

### What is hard here, and what correctness means

*Server core.* Handlers are synchronous functions, but sessions run on a
multi-threaded runtime and each handler takes `inner` and `db` in several short
critical sections: a registration reads the memberships, then enters the client
table, then replays; a broadcast appends, then looks recipients up, then sends
and marks, one recipient at a time. Between any two of these sections every
other session, a read or write error or a crash may come. It is correct if a
principal has one active session and the one it replaced is told to stop; if no
message owed to a session falls between live traffic and replay; and if
`last_seen_seq` means what it says.

*Task board.* A claim reads the clock before it waits for the database, a lease
is reclaimed lazily by the next claim, and a change is told in a critical section
after the one that made it. It is correct if an acknowledged claim holds until
its lease runs out, a task is finished once, and the channel is told what happened.

*Inbox and supervision.* The asyncio loop and the HTTP thread share the inbox;
Claude may be busy, idle, hung, gone, or replaced while its reader still drains a
pipe; deliveries time out and come back; the inbox has a limit. It is correct if
no accepted message vanishes or doubles, and if waiting messages always have
somebody who will deliver them.

*Client, router and requests.* The same stream carries live messages, catch-up,
answers to requests and other agents' events, and may be cut anywhere; requests
time out in two places and answers come late. It is correct if what the server
counts as seen reaches the daemon, if Claude is told of success only when the
server granted it, and if Claude's own messages are not lost.

*Tokens and store.* Every statement of `store::init` commits by itself, and a
start may die between any two; the hash of a token is made once and outlives the
plaintext; `authenticate` reads two tables in two critical sections. It is correct
if any start completes, whatever it finds, and leaves the schema complete and every
principal with a token; if a plaintext that was rotated away stays out after any
number of restarts; and if the answer to a login was right at some time of it.

*Wire protocol.* Two languages parse what the other one writes. It is correct if
the server parses the command the client meant, and if a client is given the text
that was stored, whatever is in it.

## Modules

| module | models | built on |
|---|---|---|
| `Delivery` | server core and history | |
| `DeliveryProofs` | theorems about `Delivery` | `Delivery`, `FiniteSetTheorems` |
| `TaskLock` | abstract specification of the task board | |
| `TaskLease` | task board: rows, clock, racing handlers, events | instantiates `TaskLock` |
| `TaskLeaseProofs` | theorems about `TaskLease`, the refinement included | `TaskLease`, `FiniteSetTheorems` |
| `Mailbox` | abstract specification of the inbox | |
| `AgentInbox` | inbox and supervision of Claude | instantiates `Mailbox` |
| `AgentInboxProofs` | theorems about `AgentInbox`, the refinement included | `AgentInbox`, `SequenceFacts` |
| `DaemonLink` | client, router, requests and sender, composed with a small server | |
| `DaemonLinkProofs` | theorems about `DaemonLink` | `DaemonLink`, `SequenceFacts` |
| `TokenStore` | opening the database, tokens, logging in | |
| `TokenStoreProofs` | theorems about `TokenStore` | `TokenStore`, `SequenceFacts` |
| `SequenceFacts` | lemmas on the operators on sequences the models use | `SequenceTheorems` |
| `Wire` | the line protocol, from client to server to client | |
| `WireFacts` | what the parsers' operators on texts return, for every text | `Wire`, `SequenceFacts` |
| `WireProofs` | theorems about `Wire` | `WireFacts` |

`MCDelivery`, `MCTaskLease`, `MCAgentInbox`, `MCDaemonLink`, `MCTokenStore` and
`MCWire` hold the constants of the instances that TLC checks.

### Delivery

One action is one critical section; `pc[s]` is the section that session `s`
enters next, and the operands of its handler (`chan`, `seq`, `pending`, `target`,
`todo`, `after`, `limit`) are the locals the code carries from one section to the
next. `messages`, `member`, `lastSeen` and `presence` are the SQLite tables and
survive `Crash`; `clients` and `channels` are `ServerInner`. `kicked` is a reason
waiting in `shutdown_rx`, `writerUp` says that the writer task still drains the
session's queue: `tx.send` fails exactly when it does not. `got`, `received`,
`regAt`, `subAt`, `resume` and `crossed` are history variables; no guard
reads them. `crossed` are the principals of which one session wrote while another was
registering or had taken its place; a registration whose snapshot is still
true, and which no other registration of the principal waits behind with an older
snapshot, takes its principal out again.

| code | actions |
|---|---|
| `handle_stream` | `Connect`, `Leave`, `ReadError`, `Evicted`; writer task: `WriteError` |
| `try_register` | `RegisterDb`, `RegisterInner`, then the replay actions |
| `replay_history` | `ReplayChannel`, `ReplayMark`, `ReplayDone` |
| CHATHISTORY | `BeginHistory`, `ListMemberships`, then the replay actions |
| `privmsg`, `broadcast_task_event`, `broadcast_message` | `BeginPrivmsg`, `IsMember`, `BeginTaskEvent`, `AppendMessage`, `Recipients`, `Send`, `SendMark`, `SendDone` |
| `join`, `part` | `BeginMembership`, `AddMembership`, `JoinInner`, `RemoveMembership`, `PartInner` |
| `disconnect` | `DisconnectInner`, `MarkGone` |
| process death | `Crash` |

A replay reads a page and sends it without another critical section in between,
and reads nothing another session writes while sending, so reading and sending
are one action; the mark that follows is another one.

### TaskLock, TaskLease

`TaskLock` says what agents rely on: a task has one holder, passes on by release
or after its lease has lapsed, and is finished once. `TaskLease` has handlers
that read `now`, wait, change a row by the WHERE clauses of `src/tasks.rs`, and
append their event later. `made` counts the changes, `lost` the events that a crash
took from their handlers, and `crossed` holds the tasks whose last change was made while another
one was yet to be told, or whose event was lost; no guard of the code's steps reads these three, only the
bound on the number of changes does. `LockRefined` says that it implements `TaskLock` under
the mapping of rows to phases, with a lease live while `expires[t] >= clock`.
The clock is assumed not to step back.

### Mailbox, AgentInbox

`Mailbox` says what the daemon promises of each message: it is taken in once, waits,
and is handed over for good or lent with a deadline; only what is due comes back,
nothing that was handed over or acknowledged does, and one is dropped only for a newer
one when `Limit` of them wait. `MailboxRefined` says that `AgentInbox`, with its queues
and two threads, implements it; a message is in the phase of the place where it is
(`Where`), those in the hands of a handler count as waiting.

`loop` is the handler of the asyncio loop that is running and the section it is
in; handlers of the loop exclude each other because none of them yields within
the modelled region, but the HTTP thread (`CheckMessages`, `AckMessages`) may run
between two sections. `inFlight` is in insertion order, and `late` counts the
entries past their visibility timeout. The Claude process is external: it ends
turns, hangs, or exits. An incarnation stands for a process and its reader task;
it is recycled when its reader has ended. A start may raise before there is a process
(`StartFails`: no CLI is found, the temporary file or `Popen` fails) or at the first prompt
(`StartBreaks`); in the reader of the previous process the error is caught and the reader ends,
in a task that `run` gathers it ends the daemon. `unstarted` records that the last restart raised
without a process. `faults` bounds exits and starts that raise.

### DaemonLink

One channel and one task. `phase` and `session` are the two ends of one
connection; `cmds` and `wire` are the bytes between them, `queue` is
`_message_queue`. The server is the small part of `Delivery` and `TaskLease` that
one client sees: a log, a watermark, a registration in two steps and a task which
other agents claim, return and complete too, and tell the channel of. `Route` is the cascade of `_irc_reader_loop`: history first,
then list, then task results, then the inbox. A replayed task event is a plain
message without task tags, so the router recognises it by its text ("past" lines).
`reg[k]` is a key of the request tables; it "leaks" when the send raises. `granted` and
`told` count, for claims and completions, what the server granted to this agent and what the bridge was told by
an event. A
registration that the server refuses (464) ends `_do_connect` with an exception, after
which the reader loop reads on from the connection the server keeps open: phase
"refused", which nothing leaves but the loss of that connection.

### TokenStore

One action per SQL statement of `store::init`: `stage` is the kind of statement
that comes next, `step` its number, and `todo` the rows that the query of
`backfill_principal_tokens` returned. A statement that SQLite would refuse is not
enabled, so a start that meets one never completes. `Crash` may come between any two.
`Authenticate` and `AuthenticateLegacy` are the two critical sections of
`AuthStore::authenticate`. A token text is the sequence of its parts between
underscores, and a hash is what it hashes, since only `verify` looks at it; in
particular `generate` hashes the part after the id and the mirror hashes the whole
plaintext, which is why a plaintext in the new format needs the legacy table.
The operator (`AddPrincipal`, `Rotate`, `Issue`, `Revoke`) is external: no tool of
this commit changes tokens, the tests do so in SQL. `may` and `retired` are history.

### Wire

A text is a sequence of symbols: a character the protocol gives a meaning to is a
symbol, and so is a run of others. `Call` writes what `client.py` writes, `ServerLine`
takes a line, parses it (`ParseCommand`), stores messages and task events and writes the
answers with escaped tags, `ClientLine` parses one of those (`ParseIrcLine`). Both
parsers are functions; what relates them is stated over the bytes between them.
`split_whitespace` is given by where words start and end (`Words`), so that it can be
reasoned about; the scanner that unescapes a tag value is a recursive function with
the loop's body as its step (`Scanned`).

## Runs

| run | instance | shows |
|---|---|---|
| `delivery_live` | 2 principals, 2 sessions, 1 channel, 2 messages, page of 2; PRIVMSG, JOIN, PART, read errors, crashes | replaced sessions are told to stop; fan-out and replay leave no gap; watermarks are honest; subscriptions and presence agree with the rows |
| `delivery_history` | the same with task events, CHATHISTORY with a limit above the cap, quits; page of 1 | types; fan-out, replay and presence against explicit replays and disconnects; every way in which a watermark passes a message that was never given out |
| `delivery_progress` | fairness; task events, write errors; page of 1 | a replaced session ends; an owed message is delivered; watermarks are honest although writers die |
| `task_lease` | 1 task, 2 principals, 3 handlers, 5 changes, crashes, clock to 2 | leases are honoured; the board implements `TaskLock`; every change is told once or lost in a crash, and the last event of a task shows its row; done once |
| `inbox` | fairness; 2 messages, inbox of 1, 2 incarnations, 2 exits or starts that raise, any number of hanging turns and broken pipes | nothing vanishes or doubles; the inbox implements `Mailbox`; no lost wake-up; messages reach Claude; time-outs end |
| `link_catchup` | fairness; 2 messages, 1 outbound message, history requests, 1 lost connection, refused registrations | what is marked seen reaches the router; Claude's messages are accounted for; messages arrive, and Claude's depart |
| `link_tasks` | history, list, claim, done, two of them under way at once, 3 events, another agent that claims, returns and completes | no more successes are told than were granted, and none that is read from a replay is anybody else's |
| `token_store` | fairness; 2 built-in principals and 1 other, databases of any age, 2 crashes, 2 changes by the operator | a start completes and leaves nothing undone; retired plaintexts stay out; logins are answered rightly |
| `wire` | every call of the client, 2 in a row, texts of up to 3 of 8 symbols | commands are parsed as meant; stored messages and titles arrive unchanged |

Three further runs refute what a document or a comment says of the code; each checks
that one statement:

| run | statement | what happens |
|---|---|---|
| `delivery_lost` | README 176-179: missed messages are replayed | a watermark passes a message its principal never got: when a later message is sent first, and when more than a page was missed |
| `link_swallowed` | comment at `daemon.py:896-899` | a history request made while the connection is lost fails and leaves its key; the catch-up of the next connection is given to it |
| `wire_lines` | `bridge.py:117-121`, README 348: the content is sent | a text is stored up to its first line break; the other lines are commands of their own |

What `delivery_lost` refutes is not the end of the matter: `SkipsExplained` lists all the
ways in which a watermark passes a message of the channel that its principal was never
given, and `delivery_history` shows that there are no others. A replay marks a page
that started after the message (CHATHISTORY with a high start), or marks for a dead writer; or a
broadcast marks for a session that was replaced, lost its writer or left the channel
meanwhile, that has the message still coming by another broadcast, or that met it as
a backlog: one that its replay is still to bring, that exceeds a page, or that a JOIN,
which replays nothing, did not cover.

The passing properties name the other exceptions that the code forces:

* a replay to a dead writer still moves the watermark (`WatermarkHonest`);
* an operation that another session of its principal ran into may leave a
  subscription without a row, or a connected principal recorded as gone, until the next
  registration (`TablesAgree`, `crossed`);
* a restart that raises in the reader leaves messages that nobody delivers: without a process they wait
  for the next message or time-out, and a process that dies before its first prompt is written is never
  replaced (`Wakeful`, `Reached`);
* an event may be lost in a crash, and two changes of a task made before the first is told may be
  told in the opposite order, so that the last event does not show the row (`ChangesTold`, `crossed`);
* an event read from a replay has no tags and no time, so that an older success of this agent can
  answer a newer request; it is left out of the count, and must be in the history (`SuccessWasGranted`);
* a message sent on a new connection before NICK is refused and not sent again
  (`OutboundAccounted`); a refused registration strands the client (`Arrives`);
* a CHATHISTORY of a channel named without `#` is read with its arguments one place
  off, and a message with an empty text is stored but dropped by the client
  (`ParsedAsMeant`, `ReceivedAsStored`).

Four hazards of the list in `PROJECT.json` have no property, because the code does nothing against
them: a wall clock that is set back; messages written to a Claude that exits before it reads them;
the answer to a claim that a task list under way takes for one of its lines
(`daemon.py:816`: the claim was granted, and times out); and the row of `principal_tokens` that mirrors a
plaintext rotated since (`store.rs:210`: it keeps logging in by its id).

### Bounds, and why they are enough

The hard cases of `Delivery` are races of two: an old and a new session of one
principal, or a sender and a receiver. Two sessions and two principals give both;
a session slot is used again after it ends, so a run sees any number of
successive sessions. One channel is enough for them: channels meet only in the order in
which a replay visits them, and the theorems hold for any number. Two messages are the least with an order between them, and
with a page of 1 the least that overflow a page (`delivery_history`,
`delivery_progress`); `delivery_live` has a page of 2, so that replays are complete.
`Enabled` splits the commands and faults over the runs: all of them together exceed
what TLC can enumerate, and each run keeps those that interact most.
Principals and sessions are interchangeable (both principals have the
same rows), so symmetry is sound for the safety runs; `delivery_progress` uses none.
The history is bounded by `MaxSeq`, `MaxChanges` and `MaxLog`, the clock by
`MaxClock` (2, with leases of 1: a lease can lapse and a second one start), the lines
under way by `MaxLines` and the lost connections by `MaxLosses`. In `link_tasks` no connection is
lost: replays come by history requests there, whose answers may be as late as those of a
catch-up, and 3 events are the least with a claim, its completion or return by whoever holds the
task, and a claim after it. `MaxLog` bounds the history when another agent adds to it or a request is
made, so that a command under way may exceed it by one. Five changes of a task
suffice to create, claim, lose, reclaim and finish it. The inbox run has
more messages than places, which makes the limit bite with a message in flight; two
faults let a process be replaced and its successor fail as well. Three messages
exceed what TLC can enumerate under fairness. In `link_catchup`
two messages are the least of which one is caught up while the other comes live, and one lost connection
gives two registrations. Two crashes of `TokenStore` cut off a start and the one that
repairs it; two changes by the operator are a rotation and the one that gives the
old plaintext to somebody else. The plaintexts include one in the new format, which is
also what a generated token may look like, and one only nearly so. The symbols of `Wire` are all the
characters either parser or the escaping looks at, and `s`, which follows a backslash in an
escape; three of them make every escape with a neighbour, and `MaxSize` gives a call
with such a text a second call before or after it. What
the bounds cannot show for the server and the task board, the theorems do.

Deadlock is not checked where the model ends by its bounds: in `delivery_progress`
every session may stand idle with the history full, in the inbox and link runs every
message may have been handled, in the wire runs every call, and in `token_store` a
start that runs out of crashes and changes only logs in.

### Fairness

`Delivery`: a handler that has started goes on (`WF` of `Handler(s)`): it is
synchronous and waits only for mutexes that every holder releases within its
section; and a session waiting in `select!` with a reason in `shutdown_rx` takes it.
Nothing is assumed of clients.

`AgentInbox`: the tasks of the loop run and time passes (`WF` of the loop's steps, the
readers, reaper, watchdog, and both timeouts). Claude may hang in any turn; the one
strong fairness says that a process that is again and again in a turn
ends one of them at some time, without which no message can be delivered on stdin.

`DaemonLink`: the tasks of both ends go on: the reader loop connects, registers and
reads, the server session handles lines, the router and the sender loop take the next
of their queues. Each is a loop that awaits only input that is there; the sleeps of
back-off and retry are finite. Nothing is assumed of losses, requests or their timeouts.

`TokenStore`: a start goes on to its next statement; it is one synchronous function.

## Proofs

Every invariant and action property of the passing runs is a theorem of `Spec`, and so are
the refinements of `TaskLock` and of `Mailbox`. TLC found the invariants out on small
instances; the theorems hold for every value of the constants, and so for any number of
sessions, handlers, messages, crashes and changes. Each theorem rests on an invariant that
is inductive by itself; what was added to the property, and why, is said below.

`DeliveryProofs`, for any sets of principals, sessions and channels, any limits, and
any choice of commands and faults:

* `TypeCorrect`: `Spec => [](TypeOK /\ OperandsKnown)`: a handler past registration has
  a principal, down to the second section of its disconnect, and one that works on a
  channel has that channel. Without the second part types are not inductive,
  since `owner[s]` and `chan[s]` may be `None`.
* `ReplacedStops`: `Spec => []ReplacedIsToldToStop`. Inductive with `TableSound`: an
  entry of the client table is a session that registered as that principal, and no
  session that has yet to register is in the table. Only registration
  replaces an entry, and it kicks; only its owner removes one.
* `FanOutComplete`: `Spec => []LiveComplete`. Inductive with `Carries`: a broadcast
  between append and last send holds a message of its channel. The argument
  follows a message: a new one is in flight to everybody; looking
  recipients up keeps it in flight for every active subscriber, because the table is
  sound; a send moves it into the queue; sessions and subscriptions that come
  later start after it.
* `WatermarksAreHonest`: `Spec => WatermarkHonest`, an action property. A broadcast marks
  in a section after the send, for a session that may be replaced or gone by then, so
  the invariant says two things of the time between: the handle it holds is of a session
  that keeps its principal while the handle is held (`HandlesHeld`), and the message
  is in what that principal received (`MarksSupported`).
* `TablesAlwaysAgree`: `Spec => []TablesAgree`. For a principal that is not `crossed`, a
  difference between its rows and its subscriptions belongs to a session that is half-way through
  a JOIN or a PART of that very channel (`RowsFollowed`), the row is as
  the active session left it (`RowsWritten`), and every snapshot that waits to be
  registered is true (`SnapshotsHold`). The proof showed that with three sessions of one
  principal a second registration under way must keep the principal `crossed`, which two
  sessions never need.
* `ReconnectsAreComplete`: `Spec => []ReconnectComplete`. Until the end of its bouncer
  replay a channel is still to be read from the old watermark (`Replaying`), afterwards what had been
  missed is in the queue (`CaughtUp`); `PageHoldsMissed` counts, with the theorems on
  finite sets, that a page of `ReplayLimit` messages holds everything if not more were missed.
  Messages after the registration are those of `LiveComplete`.
* `EverySkipIsExplained`: `Spec => SkipsExplained`, an action property: the list of ways to
  lose a message is complete, for any number of sessions and any page size. `SkipInv` joins the
  invariants above with three facts: what a session got its principal got
  (`GotGiven`), a replay about to mark has sent the channel from its start up to the mark
  (`ReplayBrought`), and a watermark points to a message of its own channel or before all of
  them, and is not behind what a session registered with (`RowsPointIn`).

`TaskLeaseProofs`, for any tasks, principals, handlers and lease length:

* `TypeCorrect`: `Spec => []TypeOK`.
* `LeaseIsHonoured`: `Spec => []LeaseHonoured`, inductive with the types, and with
  `now[w] <= clock`, since a handler's reading of the clock is never ahead of it: a claim
  with an old reading finds fewer leases lapsed, never more.
* `LeaseImplementsLock`: `Spec => LockRefined`. Every step maps to a step or a stutter
  of `TaskLock`; `AbsentIsFree` (an absent row has no claimant and no lease) is needed for
  creation.
* `ChangesAreTold`: `Spec => []ChangesTold`. Its first part, that each change is once in the history, in
  a handler or lost, holds by itself: a commit adds one to the count of its change and puts it into a
  handler, and every other step moves it on. The second part, that the last event shows the row, is inductive as
  `Settled`: of a task that is not `crossed` at most one change is in a handler, and it
  shows the row until it is told. Counting needs the handlers that run to be finitely many (`FinitelyBusy`).
* `DoneAtMostOnce`: `Spec => []DoneOnce`, from `ToldOnce` and `FinishedRow`: a completion was made once,
  and the row of the task says so ever after.

`AgentInboxProofs`, for any messages, incarnations of Claude, faults and limit:

* `TypeCorrect`: `Spec => []TypeOK`.
* `NothingVanishes`, `NothingDoubles`: `Spec => []Accounted`, `Spec => []OneCopy`,
  inductive together, since a copy that appears twice could be acknowledged in one place and stay in
  the other, and with `CarryInWrite`: only the handler that delivers on stdin holds messages.
  `RequeuedFacts` and its neighbours say what the time-out, the limit and the
  return of failed messages keep of the three sequences.
* `NoLostWakeUp`: `Spec => []Wakeful`, inductive with `ReadersKnown`: a running process has
  a reader, a busy one exists, a handler on its way to Claude knows one or follows a restart that
  raised, and such a restart (`unstarted`) leaves no process behind.

* `InboxIsMailbox`: `Spec => MailboxRefined`. Every step of the two threads, the timers and
  Claude maps to a step or a stutter of `Mailbox`. `GoneInv` keeps what was handled or
  dropped out of the queues and apart; with it, `Sorted` says that the phase `Where` names
  is the one place a message is in, and each action then moves one set of messages between two
  phases.

`DaemonLinkProofs`, for any messages, requests, and any number of lost connections:

* `TypeCorrect`: `Spec => []TypeOK`.
* `MarkedArrives`: `Spec => []MarkedReachesRouter`. Inductive with the agreement of the
  two ends (`PhasesAgree`: 001 is on the wire only for a registered session, 464 only for one that
  will not be), with a NICK being under way at most once (`NickOnce`), and with
  `MarksCurrent`: the watermark is at the end of the channel for a registered session
  and not behind the snapshot for one being registered. The property
  counts live and replayed lines only; the answer to a history request does
  not make up for one of them.
* `NothingDropped`: `Spec => []OutboundAccounted`, inductive with the types.
* `SuccessIsReal`: `Spec => []SuccessWasGranted`, inductive with `GrantsCounted`: the events of
  this agent on the wire, in the queue, in the hands of a request and told to the bridge are together no more
  than the actions granted, so that one grant is never told twice and nobody else's event is; and with `PastKnown`:
  what is read from a replay is in the history. `Occurs` (in `SequenceFacts`) counts the
  occurrences of a line in a sequence, and lemmas say what appending, joining and
  taking the head do to the count.

`TokenStoreProofs`, for any principals and tokens, and any database of before the tokens
were hashed:

* `TypeCorrect`: `Spec => []TypeOK`, the uniqueness of plaintexts included.
* `AnswersAreRightful`, `RotationIsFinal`: `Spec => []AnswerRightful` and
  `Spec => []RetiredStaysOut`. They share one invariant: between the two sections of a login every outcome that is
  right now has been noted, and so has refusal unless the old table alone has known the token (`AttemptSound`);
  a retired plaintext has been replaced (`RetiredReplaced`); a mirror hashes a
  plaintext (`RowsSound`).
* `OpenIsComplete`, `MirrorsAreFaithful`: the action properties `OpenComplete` and
  `MirrorFaithful`. The first from `SchemaSoFar`, what each stage of a start has done,
  and both from `PendingSound`: what the query of the backfill returned is still what it would return.

`WireProofs`, with `WireFacts`, for texts over any symbols and of any length, and any number
of calls:

* `CommandsMeant`: `Spec => []ParsedAsMeant`. A line is words and perhaps a text. The first
  ` :` of a line is the one `Format` wrote, because no word has a space in it and none of
  those in front begins with a colon, so the parser finds the words and the text of the call again
  (`TakenPlain`, `TakenText`); the words of each call mean its command (`Meaning`); and what is on its way
  to the server is the lines of the calls not yet parsed, in order, as long as no text
  had a line break (`Owed`), so that the k-th command belongs to the k-th call.
* `TypeCorrect`: `Spec => []TypeOK`: whatever bytes the server reads, `parse_command` returns
  a command, and a channel name it stores begins with `#`.
* `MessagesArrive`: `Spec => []ReceivedAsStored`. The property compares what the client has read with
  what is stored, and says nothing of the bytes between them; `WireInv` does. What is on its way to the client
  is the bytes of whole lines, and what it has read, followed by what it will read of those
  lines, tells of the messages stored: as many live messages as stored ones with a text,
  matching one by one and in order, and every replayed one among them (`Underway`, `Told`). A step of the client
  moves the first line over; a step of the server stores at most one message and adds its line
  (`ToldNews`), or adds lines that are no live message (`ToldAside`). That needs three facts of the parsers. A line with tags
  is read as it was written, because nothing in the escaped tags, sender, verb and channel ends
  one of them early (`TaggedRead`, on `TagRoundTrip`). An answer begins with its prefix
  and so has no tags. And whatever line a command was parsed from, the channel it stores
  under is a word and the text does not end in white space, which reading would trim (`CommandSaid`, `StoredGood`; hence
  `stored \in Seq(Good)` in the invariant).
* `TagRoundTrip` (in `WireFacts`): the client's unescaping undoes the server's escaping for every value,
  and the escaped value has no `;`, space, CR or LF in it that would end the tag early. Neither
  function knows the other; the proof follows the scanner through the pieces that the escaping wrote.

`WireFacts` builds these from `Find`, `Words` and `Join`: joining words by a space and
splitting at white space are inverse (`JoinedLine`); so are joining pieces by a separator that is in
none of them and splitting there (`JoinedPieces`), up to the order of the pieces, which tags do not have.

The assumptions are the named `ASSUME`s of the modules. Most say that `None` and
other marks are not members of the other sets, that limits are positive and
bounds are numbers, and that seeded rows are rows. Three say more: `GeneratedAreNew` (TokenStore)
that 32 random bytes are not a hardcoded token, and that nobody chooses as plaintext
the id of a row followed by a plaintext; `GeneratedAreTexts`, that there are as many secrets as ids
to draw and no id is empty; `TextsDiffer` (DaemonLink), that Claude's own messages are
told from everybody else's, which makes `asked` a history of what it sent and restricts nothing
the code does.

Only model-checked: liveness (`KickedStops`, `Delivered`, `Reached`, `Redelivered`, `Arrives`, `Departs`,
`StartCompletes`), which is out of the prover's reach, and with it `ENABLED`. The three properties that
the code violates are refuted by TLC.

Inductions over a text or a list of words use a set of numbers with the property
(`NatUpward` in `WireFacts`) in place of the library's induction theorems, whose operator
parameter the provers cannot instantiate; recursive functions are unfolded by
`WellFoundedInduction`.

## Not modelled

* The bridge, environment variables, listeners and TLS: no state of their own. An error of
  `accept` ends the server; it is an error of the operating system.
* Nicks, CAP and PING outside `Wire`, JOIN and PART echoes, which are not persisted.
* SQLite errors other than refused statements, the column `principals.last_seen_seq`, which is
  never read, and two processes that open one database at once.
* Deleting a principal, which the code never does; the counter behind a log line of the
  legacy login; the folding of the case of verbs.
* Of the Python client: `close`, the length of the back-off, lines longer than the
  stream's limit of 64 KiB. Of the daemon: eviction from `seen_msg_ids`, which holds
  far more than a replay page.
* A wall clock that steps back. `LeaseHonoured` speaks of one time line; with a clock
  that returns, a lapsed lease would live again although another principal holds
  the task, and no property of leases could be stated.
* Messages that were written to Claude's stdin and never read by it: they count as
  delivered, as the documentation counts them.

## Plan

The modules of the table are done, and their safety properties are proved. What could
still be stated: an abstract specification of the connection of a principal, one active session,
replaced or given up, which `Delivery` would implement.
