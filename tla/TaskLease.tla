------------------------------ MODULE TaskLease -----------------------------
(***************************************************************************)
(* Tasks of aircd (src/tasks.rs and the task handlers of src/server.rs):   *)
(* TASK CREATE, CLAIM, DONE and RELEASE run in parallel handlers; each     *)
(* reads the clock, waits for the `db` mutex, changes one row, and only    *)
(* then, in a critical section of its own, appends the event that tells    *)
(* the channel. Leases are reclaimed lazily, by the next CLAIM.            *)
(*                                                                         *)
(* Left out: titles, channels, TASK LIST (it reads and sends), who may     *)
(* send the command (Delivery), the fan-out of the event (Delivery).       *)
(* The clock is the system clock in seconds, assumed not to step back.     *)
(***************************************************************************)
EXTENDS Integers, Sequences, FiniteSets, Functions

CONSTANTS Principal, Task, None,
          Worker,         \* handlers that can run at the same time
          LeaseSeconds,
          Crashes,        \* whether the server may crash
          MaxClock,       \* bound: the clock
          MaxChanges      \* bound: commands that change a row

ASSUME NoneIsNobody == None \notin Principal \cup Task
ASSUME LeaseIsPositive == LeaseSeconds \in Nat \ {0}
ASSUME Bounds == MaxClock \in Nat /\ MaxChanges \in Nat /\ Crashes \in BOOLEAN

VARIABLES
    status, claimedBy, expires,     \* the rows of the table tasks
    events,                         \* task events in the message history
    made, lost,                     \* history: how often each change was made; how often a
                                    \* crash kept its event from the message history
    crossed,                        \* history: tasks whose last change was made while another
                                    \* one was yet to be told, or lost its event
    clock,
    pc, op, who, task, now,         \* a handler and its operands
    grants                          \* history: claims that were acknowledged and not returned

rows == <<status, claimedBy, expires>>
changes == <<made, crossed>>
handlers == <<pc, op, who, task, now>>
vars == <<rows, events, lost, changes, clock, handlers, grants>>

Null_Leaks == None  \* faulty variant: the column without a value of its own
Null == -1
Ops == {"create", "claim", "done", "release"}
Event == [action : Ops, task : Task, actor : Principal]

TypeOK ==
    /\ status \in [Task -> {"absent", "open", "claimed", "done"}]
    /\ claimedBy \in [Task -> Principal \cup {None}]
    /\ expires \in [Task -> Int]
    /\ events \in Seq(Event)
    /\ made \in [Event -> Nat] /\ lost \in [Event -> Nat] /\ crossed \subseteq Task
    /\ clock \in Nat
    /\ pc \in [Worker -> {"idle", "db", "announce"}]
    /\ op \in [Worker -> Ops]
    /\ who \in [Worker -> Principal \cup {None}]
    /\ task \in [Worker -> Task \cup {None}]
    /\ now \in [Worker -> Nat]
    /\ grants \subseteq [task : Task, who : Principal, until : Int]

Init ==
    /\ status = [t \in Task |-> "absent"]
    /\ claimedBy = [t \in Task |-> None]
    /\ expires = [t \in Task |-> Null]
    /\ events = <<>> /\ crossed = {}
    /\ made = [e \in Event |-> 0] /\ lost = made
    /\ clock = 0
    /\ pc = [w \in Worker |-> "idle"]
    /\ op = [w \in Worker |-> "create"]
    /\ who = [w \in Worker |-> None]
    /\ task = [w \in Worker |-> None]
    /\ now = [w \in Worker |-> 0]
    /\ grants = {}

-----------------------------------------------------------------------------
Busy == {w \in Worker : pc[w] # "idle"}
Creating == {w \in Worker : pc[w] = "db" /\ op[w] = "create"}
Announcing == {w \in Worker : pc[w] = "announce"}
InHand(t) == {w \in Announcing : task[w] = t}

\* Faulty variant: the event names whoever the row names by then
Change_Row(w) ==
    [action |-> op[w], task |-> task[w],
     actor |-> IF claimedBy[task[w]] = None THEN who[w] ELSE claimedBy[task[w]]]

\* What an announcing handler is about to tell
Change(w) == [action |-> op[w], task |-> task[w], actor |-> who[w]]

\* bound: changes that were made, and commands that may still make one
Commands == FoldFunction(+, 0, made) + Cardinality(Busy \ Announcing)

Tick ==
    /\ clock < MaxClock
    /\ clock' = clock + 1
    /\ UNCHANGED <<rows, events, lost, changes, handlers, grants>>

\* A handler starts: `let now = unix_timestamp()` comes before db.lock()
Begin(w, p, o, t) ==
    /\ pc[w] = "idle"
    /\ Commands < MaxChanges
    /\ (o = "create") <=> (t = None)
    /\ o = "create" => Cardinality(Creating) < Cardinality({u \in Task : status[u] = "absent"})
    /\ pc' = [pc EXCEPT ![w] = "db"]
    /\ op' = [op EXCEPT ![w] = o]
    /\ who' = [who EXCEPT ![w] = p]
    /\ task' = [task EXCEPT ![w] = t]
    /\ now' = [now EXCEPT ![w] = clock]
    /\ UNCHANGED <<rows, events, lost, changes, clock, grants>>

Idle(w) ==
    /\ pc' = [pc EXCEPT ![w] = "idle"]
    /\ op' = [op EXCEPT ![w] = "create"]
    /\ who' = [who EXCEPT ![w] = None]
    /\ task' = [task EXCEPT ![w] = None]
    /\ now' = [now EXCEPT ![w] = 0]

\* The row of t changes; the handler goes on to tell the channel
Commit(w, t, s, p, e) ==
    /\ status' = [status EXCEPT ![t] = s]
    /\ claimedBy' = [claimedBy EXCEPT ![t] = p]
    /\ expires' = [expires EXCEPT ![t] = e]
    /\ pc' = [pc EXCEPT ![w] = "announce"]
    /\ task' = [task EXCEPT ![w] = t]
    /\ made' = [made EXCEPT ![[action |-> op[w], task |-> t, actor |-> who[w]]] = @ + 1]
    /\ crossed' = IF InHand(t) = {} THEN crossed \ {t} ELSE crossed \cup {t}
    /\ UNCHANGED <<events, lost, clock, op, who, now>>

Returned(t, p) == {g \in grants : g.task = t /\ g.who = p}

\* Faulty variants of the WHERE clause: a lease counts as expired in its last
\* second; a claimed row may be claimed again by anybody
Claimable_Early(t, n) == status[t] = "open" \/ (status[t] = "claimed" /\ expires[t] <= n)
Claimable_Always(t, n) == status[t] \in {"open", "claimed"}

\* WHERE status != 'done' AND (status = 'open' OR lease_expires_at IS NULL
\*       OR lease_expires_at < now)
Claimable(t, n) ==
    /\ status[t] \in {"open", "claimed"}
    /\ \/ status[t] = "open"
       \/ expires[t] = Null
       \/ expires[t] < n

\* Faulty variant: AND status = 'claimed' is missing
HeldBy_Finished(t, p) == claimedBy[t] = p

\* WHERE claimed_by = p AND status = 'claimed'
HeldBy(t, p) == claimedBy[t] = p /\ status[t] = "claimed"

CreateTask(w) ==
    \E t \in Task :
        /\ pc[w] = "db" /\ op[w] = "create" /\ status[t] = "absent"
        /\ Commit(w, t, "open", None, Null)
        /\ UNCHANGED grants

ClaimTask(w) ==
    LET t == task[w]
        until == now[w] + LeaseSeconds
    IN  /\ pc[w] = "db" /\ op[w] = "claim" /\ Claimable(t, now[w])
        /\ Commit(w, t, "claimed", who[w], until)
        /\ grants' = grants \cup {[task |-> t, who |-> who[w], until |-> until]}

\* claimed_by and lease_expires_at stay in the row
DoneTask(w) ==
    LET t == task[w]
    IN  /\ pc[w] = "db" /\ op[w] = "done" /\ HeldBy(t, who[w])
        /\ Commit(w, t, "done", claimedBy[t], expires[t])
        /\ grants' = grants \ Returned(t, who[w])

ReleaseTask(w) ==
    LET t == task[w]
    IN  /\ pc[w] = "db" /\ op[w] = "release" /\ HeldBy(t, who[w])
        /\ Commit(w, t, "open", None, Null)
        /\ grants' = grants \ Returned(t, who[w])

\* No row matched: the caller gets the failure notice and nobody else hears of it
Refuse(w) ==
    /\ pc[w] = "db"
    /\ \/ op[w] = "claim" /\ ~Claimable(task[w], now[w])
       \/ op[w] \in {"done", "release"} /\ ~HeldBy(task[w], who[w])
    /\ Idle(w)
    /\ UNCHANGED <<rows, events, lost, changes, clock, grants>>

\* broadcast_task_event appends to the history in a critical section of its own
Announce(w) ==
    /\ pc[w] = "announce"
    /\ events' = Append(events, Change(w))
    /\ Idle(w)
    /\ UNCHANGED <<rows, lost, changes, clock, grants>>

\* The process dies: rows and history are on disk, handlers are gone
Crash ==
    /\ Crashes
    /\ lost' = [e \in Event |-> lost[e] + Cardinality({w \in Announcing : Change(w) = e})]
    /\ crossed' = crossed \cup {task[w] : w \in Announcing}
    /\ pc' = [w \in Worker |-> "idle"]
    /\ op' = [w \in Worker |-> "create"]
    /\ who' = [w \in Worker |-> None]
    /\ task' = [w \in Worker |-> None]
    /\ now' = [w \in Worker |-> 0]
    /\ UNCHANGED <<rows, events, made, clock, grants>>

Step(w) == CreateTask(w) \/ ClaimTask(w) \/ DoneTask(w) \/ ReleaseTask(w) \/ Refuse(w) \/ Announce(w)

Next ==
    \/ \E w \in Worker : \/ Step(w)
                         \/ \E p \in Principal, o \in Ops, t \in Task \cup {None} : Begin(w, p, o, t)
    \/ Tick
    \/ Crash

Spec == Init /\ [][Next]_vars
-----------------------------------------------------------------------------
(* Properties *)

\* An acknowledged claim that is not returned holds until its lease runs out:
\* the row still names the claimant, so no two principals can have an unexpired
\* claim on one task (TaskStore::claim, README.md:209-210).
LeaseHonoured ==
    \A g \in grants : g.until >= clock =>
        /\ status[g.task] = "claimed"
        /\ claimedBy[g.task] = g.who
        /\ expires[g.task] = g.until

\* Rows, timestamps and late handlers implement the lock that TaskLock promises.
Lock == INSTANCE TaskLock WITH phase <- status, holder <- claimedBy,
                               live <- [t \in Task |-> expires[t] >= clock]
LockRefined == Lock!LockSpec

\* Each change of a row (creation, claim, release, completion, repeated or not) is
\* in the history once, is about to be appended by the handler that made it, or
\* was lost in a crash that came in between; and nothing is told that did not
\* happen (README.md:212-213, broadcast_task_event).
ToldOnce ==
    \A e \in Event :
        made[e] = Cardinality({i \in DOMAIN events : events[i] = e})
                      + Cardinality({w \in Announcing : Change(w) = e}) + lost[e]

\* The row is as the event says
Shows(e) ==
    LET left == [create |-> "open", claim |-> "claimed", done |-> "done", release |-> "open"]
    IN  /\ status[e.task] = left[e.action]
        /\ claimedBy[e.task] = IF left[e.action] = "open" THEN None ELSE e.actor

\* Whoever reads the history learns the state of a task from its last event, once
\* the handlers have told their changes. The exception is a last change that was
\* made while another one of that task was yet to be told (the two may be told in
\* the opposite order, server.rs:622) or whose event a crash took.
LastTold ==
    \A t \in Task \ crossed :
        InHand(t) = {} =>
            LET about == {i \in DOMAIN events : events[i].task = t}
            IN  IF about = {} THEN status[t] = "absent"
                ELSE \E i \in about : (\A j \in about : j <= i) /\ Shows(events[i])

\* The channel is told of every change, and in the end of the last one.
ChangesTold == ToldOnce /\ LastTold

\* A task is finished at most once, and by its last claimant, however often the
\* command is repeated and whoever repeats it, before or after a crash
\* (TaskStore::done).
DoneOnce ==
    \A t \in Task :
        LET finishes(e) == e.action = "done" /\ e.task = t
            logged == {i \in DOMAIN events : finishes(events[i])}
            coming == {w \in Announcing : finishes(Change(w))}
            gone == {e \in Event : lost[e] > 0 /\ finishes(e)}
        IN  /\ Cardinality(logged) + Cardinality(coming) + Cardinality(gone) <= 1
            /\ \A i \in logged : events[i].actor = claimedBy[t]
            /\ \A w \in coming : who[w] = claimedBy[t]
            /\ \A e \in gone : lost[e] = 1 /\ e.actor = claimedBy[t]

=============================================================================
