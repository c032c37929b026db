-------------------------- MODULE TaskLeaseProofs ---------------------------
(***************************************************************************)
(* The lease of a task, for every set of principals, tasks and handlers,   *)
(* every lease length and any number of crashes: claims are honoured, the  *)
(* racing handlers implement the lock of TaskLock, and every change is     *)
(* told once.                                                              *)
(***************************************************************************)
EXTENDS TaskLease, FiniteSetTheorems, TLAPS

\* What a handler holds while it waits for the database and while it announces;
\* the time it has read is never ahead of the clock.
HandlersKnown ==
    \A w \in Worker :
        /\ pc[w] # "idle" => who[w] \in Principal /\ now[w] <= clock
        /\ pc[w] = "db" /\ op[w] # "create" => task[w] \in Task
        /\ pc[w] = "announce" => task[w] \in Task

\* However many handlers there can be, finitely many run.
FinitelyBusy == IsFiniteSet(Busy)

TypeInv == TypeOK /\ HandlersKnown /\ FinitelyBusy
LeaseInv == TypeInv /\ LeaseHonoured

\* There is no task and no claim at first.
LEMMA InitLeaseInv == Init => LeaseInv
<1> SUFFICES ASSUME Init PROVE LeaseInv
    OBVIOUS
<1>1. TypeOK
    BY DEF Init, TypeOK, Ops, Null
<1>2. FinitelyBusy
    <2>1. Busy = {}
        BY DEF Init, Busy
    <2> QED
        BY <2>1, FS_EmptySet DEF FinitelyBusy
<1> QED
    BY <1>1, <1>2 DEF Init, LeaseInv, TypeInv, HandlersKnown, LeaseHonoured

\* Facts about one row change that CREATE, CLAIM, DONE and RELEASE share.
LEMMA CommitFacts ==
    ASSUME TypeInv, NEW w \in Worker, NEW t \in Task, NEW p \in Principal \cup {None},
           NEW s \in {"open", "claimed", "done"}, NEW e \in Int, pc[w] = "db",
           Commit(w, t, s, p, e)
    PROVE  /\ status' \in [Task -> {"absent", "open", "claimed", "done"}]
           /\ claimedBy' \in [Task -> Principal \cup {None}]
           /\ expires' \in [Task -> Int]
           /\ status'[t] = s /\ claimedBy'[t] = p /\ expires'[t] = e
           /\ \A u \in Task \ {t} : /\ status'[u] = status[u] /\ claimedBy'[u] = claimedBy[u]
                                    /\ expires'[u] = expires[u]
           /\ HandlersKnown'
           /\ pc' \in [Worker -> {"idle", "db", "announce"}]
           /\ FinitelyBusy'
           /\ task' \in [Worker -> Task \cup {None}]
           /\ made' \in [Event -> Nat] /\ crossed' \subseteq Task
           /\ UNCHANGED <<events, lost, clock, op, who, now>>
<1> USE DEF TypeInv, TypeOK, Commit
<1>1. HandlersKnown'
    BY DEF HandlersKnown
<1>2. FinitelyBusy'
    <2>1. Busy' = Busy
        BY DEF Busy
    <2> QED
        BY <2>1 DEF FinitelyBusy
<1>3. made' \in [Event -> Nat]
    <2>1. [action |-> op[w], task |-> t, actor |-> who[w]] \in Event
        BY DEF HandlersKnown, Event
    <2> QED
        BY <2>1
<1> QED
    BY <1>1, <1>2, <1>3

\* Becoming idle keeps what the other handlers hold.
LEMMA IdleFacts ==
    ASSUME TypeInv, NEW w \in Worker, Idle(w), UNCHANGED clock
    PROVE  /\ HandlersKnown'
           /\ pc' \in [Worker -> {"idle", "db", "announce"}]
           /\ op' \in [Worker -> Ops]
           /\ who' \in [Worker -> Principal \cup {None}]
           /\ task' \in [Worker -> Task \cup {None}]
           /\ now' \in [Worker -> Nat]
           /\ FinitelyBusy'
<1>1. Busy' \subseteq Busy
    BY DEF Busy, Idle, TypeInv, TypeOK
<1>2. FinitelyBusy'
    BY <1>1, FS_Subset DEF FinitelyBusy, TypeInv
<1> QED
    BY <1>2 DEF TypeInv, TypeOK, HandlersKnown, Idle, Ops

\* A handler that is about to announce knows what it has to tell.
LEMMA ChangeIsEvent ==
    ASSUME TypeInv, NEW w \in Announcing
    PROVE  Change(w) \in Event
BY DEF TypeInv, TypeOK, HandlersKnown, Announcing, Change, Event

\* How often a change is in the history, and in the hands of handlers.
LoggedAs(e) == {i \in DOMAIN events : events[i] = e}
HeldAs(e) == {w \in Announcing : Change(w) = e}

\* Both are finite, so that counting them finds one where there is one.
LEMMA CountFacts ==
    ASSUME TypeInv, NEW e
    PROVE  /\ IsFiniteSet(LoggedAs(e)) /\ Cardinality(LoggedAs(e)) \in Nat
           /\ IsFiniteSet(HeldAs(e)) /\ Cardinality(HeldAs(e)) \in Nat
           /\ LoggedAs(e) # {} => Cardinality(LoggedAs(e)) > 0
           /\ HeldAs(e) # {} => Cardinality(HeldAs(e)) > 0
<1>1. IsFiniteSet(LoggedAs(e))
    <2>1. LoggedAs(e) \subseteq 1..Len(events) /\ Len(events) \in Nat
        BY DEF LoggedAs, TypeInv, TypeOK
    <2>2. IsFiniteSet(1..Len(events))
        BY <2>1, FS_Interval
    <2> QED
        BY <2>1, <2>2, FS_Subset
<1>2. IsFiniteSet(HeldAs(e))
    <2>1. HeldAs(e) \subseteq Busy
        BY DEF HeldAs, Announcing, Busy
    <2> QED
        BY <2>1, FS_Subset DEF TypeInv, FinitelyBusy
<1>3. ASSUME NEW S, IsFiniteSet(S) PROVE Cardinality(S) \in Nat /\ (S # {} => Cardinality(S) > 0)
    BY <1>3, FS_CardinalityType, FS_EmptySet
<1> QED
    BY <1>1, <1>2, <1>3

\* Every action keeps the acknowledged claims: a row changes under the lock, from
\* what the lock holder reads there.
LEMMA NextLeaseInv == LeaseInv /\ [Next]_vars => LeaseInv'
<1> SUFFICES ASSUME LeaseInv, [Next]_vars PROVE LeaseInv'
    OBVIOUS
<1>0. TypeInv /\ TypeOK /\ HandlersKnown /\ LeaseHonoured
    BY DEF LeaseInv, TypeInv
<1>1. ASSUME NEW w \in Worker, CreateTask(w) PROVE LeaseInv'
    <2>1. PICK t \in Task : /\ pc[w] = "db" /\ op[w] = "create" /\ status[t] = "absent"
                            /\ Commit(w, t, "open", None, Null) /\ UNCHANGED grants
        BY <1>1 DEF CreateTask
    <2>4. Null \in Int
        BY DEF Null
    <2>5. /\ status' \in [Task -> {"absent", "open", "claimed", "done"}]
          /\ claimedBy' \in [Task -> Principal \cup {None}] /\ expires' \in [Task -> Int]
          /\ \A u \in Task \ {t} : /\ status'[u] = status[u] /\ claimedBy'[u] = claimedBy[u]
                                   /\ expires'[u] = expires[u]
          /\ HandlersKnown'
          /\ pc' \in [Worker -> {"idle", "db", "announce"}]
          /\ FinitelyBusy'
          /\ task' \in [Worker -> Task \cup {None}]
          /\ made' \in [Event -> Nat] /\ crossed' \subseteq Task
          /\ UNCHANGED <<events, lost, clock, op, who, now, grants>>
        BY <1>0, <2>1, <2>4, CommitFacts
    <2>2. TypeInv'
        BY <1>0, <2>5 DEF TypeInv, TypeOK
    <2>3. LeaseHonoured'
        BY <1>0, <2>1, <2>5 DEF LeaseHonoured, TypeOK
    <2> QED
        BY <2>2, <2>3 DEF LeaseInv
<1>2. ASSUME NEW w \in Worker, ClaimTask(w) PROVE LeaseInv'
    <2> DEFINE t == task[w]
               until == now[w] + LeaseSeconds
               g0 == [task |-> t, who |-> who[w], until |-> until]
    <2>1. /\ pc[w] = "db" /\ Claimable(t, now[w]) /\ Commit(w, t, "claimed", who[w], until)
          /\ grants' = grants \cup {g0}
          /\ t \in Task /\ who[w] \in Principal /\ now[w] \in Nat /\ now[w] <= clock /\ until \in Int
        BY <1>0, <1>2, LeaseIsPositive DEF ClaimTask, HandlersKnown, TypeOK
    <2>2. TypeInv'
        BY <1>0, <2>1, CommitFacts DEF TypeInv, TypeOK
    <2>3. ASSUME NEW g \in grants', g.until >= clock'
          PROVE  status'[g.task] = "claimed" /\ claimedBy'[g.task] = g.who /\ expires'[g.task] = g.until
        <3>1. clock' = clock /\ clock \in Nat /\ expires \in [Task -> Int]
            BY <1>0, <2>1 DEF Commit, TypeOK
        <3>2. CASE g = g0
            BY <1>0, <2>1, <3>2, CommitFacts
        <3>3. CASE g # g0
            <4>1. /\ g \in grants /\ g.task \in Task /\ g.until \in Int
                  /\ status[g.task] = "claimed" /\ claimedBy[g.task] = g.who /\ expires[g.task] = g.until
                BY <1>0, <2>1, <2>3, <3>1, <3>3 DEF LeaseHonoured, TypeOK
            <4>2. g.task # t
                BY <2>1, <2>3, <3>1, <4>1 DEF Claimable, Null
            <4> QED
                BY <1>0, <2>1, <4>1, <4>2, CommitFacts
        <3> QED
            BY <3>2, <3>3
    <2> QED
        BY <2>2, <2>3 DEF LeaseInv, LeaseHonoured
<1>3. ASSUME NEW w \in Worker, DoneTask(w) \/ ReleaseTask(w) PROVE LeaseInv'
    <2> DEFINE t == task[w]
    <2>1. /\ pc[w] = "db" /\ HeldBy(t, who[w]) /\ t \in Task
          /\ grants' = grants \ Returned(t, who[w])
        BY <1>0, <1>3 DEF DoneTask, ReleaseTask, HandlersKnown
    <2>2. PICK s \in {"open", "done"}, p \in Principal \cup {None}, e \in Int :
             Commit(w, t, s, p, e)
        <3>1. Null \in Int /\ claimedBy[t] \in Principal \cup {None} /\ expires[t] \in Int
            BY <1>0, <2>1 DEF TypeOK, Null
        <3>2. Commit(w, t, "done", claimedBy[t], expires[t]) \/ Commit(w, t, "open", None, Null)
            BY <1>3 DEF DoneTask, ReleaseTask
        <3> QED
            BY <3>1, <3>2
    <2> HIDE DEF t
    <2>a. /\ status' \in [Task -> {"absent", "open", "claimed", "done"}]
          /\ claimedBy' \in [Task -> Principal \cup {None}] /\ expires' \in [Task -> Int]
          /\ \A u \in Task \ {t} : /\ status'[u] = status[u] /\ claimedBy'[u] = claimedBy[u]
                                   /\ expires'[u] = expires[u]
          /\ HandlersKnown'
          /\ pc' \in [Worker -> {"idle", "db", "announce"}]
          /\ FinitelyBusy'
          /\ task' \in [Worker -> Task \cup {None}]
          /\ made' \in [Event -> Nat] /\ crossed' \subseteq Task
          /\ UNCHANGED <<events, lost, clock, op, who, now>>
        BY <1>0, <2>1, <2>2, CommitFacts
    <2>3. TypeInv'
        <3>1. grants' \subseteq grants
            BY <2>1
        <3> QED
            BY <1>0, <2>a, <3>1 DEF TypeInv, TypeOK
    <2>4. ASSUME NEW g \in grants', g.until >= clock'
          PROVE  status'[g.task] = "claimed" /\ claimedBy'[g.task] = g.who /\ expires'[g.task] = g.until
        <3>1. g \in grants /\ g.task \in Task /\ clock' = clock /\ g \notin Returned(t, who[w])
            BY <1>0, <2>1, <2>2, <2>4 DEF TypeOK, Commit
        <3>2. status[g.task] = "claimed" /\ claimedBy[g.task] = g.who /\ expires[g.task] = g.until
            BY <1>0, <2>4, <3>1 DEF LeaseHonoured
        <3>3. g.task # t
            BY <2>1, <3>1, <3>2 DEF HeldBy, Returned
        <3>4. g.task \in Task \ {t}
            BY <3>1, <3>3
        <3> QED
            BY <2>a, <3>2, <3>4
    <2> QED
        BY <2>3, <2>4 DEF LeaseInv, LeaseHonoured
<1>4. ASSUME NEW w \in Worker, Refuse(w) PROVE LeaseInv'
    <2>1. TypeInv'
        BY <1>0, <1>4, IdleFacts DEF Refuse, rows, changes, TypeInv, TypeOK
    <2> QED
        BY <1>0, <1>4, <2>1 DEF Refuse, rows, LeaseInv, LeaseHonoured
<1>5. ASSUME NEW w \in Worker, Announce(w) PROVE LeaseInv'
    <2>1. Change(w) \in Event
        BY <1>0, <1>5, ChangeIsEvent DEF Announce, Announcing
    <2>2. events' \in Seq(Event)
        BY <1>0, <1>5, <2>1 DEF Announce, TypeOK
    <2>3. TypeInv'
        BY <1>0, <1>5, <2>2, IdleFacts DEF Announce, rows, changes, TypeInv, TypeOK
    <2> QED
        BY <1>0, <1>5, <2>3 DEF Announce, rows, LeaseInv, LeaseHonoured
<1>6. ASSUME NEW w \in Worker, NEW p \in Principal, NEW o \in Ops, NEW t \in Task \cup {None},
             Begin(w, p, o, t)
      PROVE  LeaseInv'
    <2>1. FinitelyBusy'
        <3>1. Busy' = Busy \cup {w}
            BY <1>0, <1>6 DEF Begin, Busy, TypeOK
        <3>2. IsFiniteSet(Busy)
            BY <1>0 DEF TypeInv, FinitelyBusy
        <3>3. IsFiniteSet(Busy \cup {w})
            BY <3>2, FS_AddElement
        <3> QED
            BY <3>1, <3>3 DEF FinitelyBusy
    <2>2. TypeInv'
        BY <1>0, <1>6, <2>1 DEF Begin, rows, changes, TypeInv, TypeOK, HandlersKnown, Ops
    <2> QED
        BY <1>0, <1>6, <2>2 DEF Begin, rows, LeaseInv, LeaseHonoured
<1>7. CASE Tick
    <2>1. TypeInv'
        BY <1>0, <1>7 DEF Tick, rows, changes, handlers, TypeInv, TypeOK, HandlersKnown, FinitelyBusy, Busy
    <2>2. LeaseHonoured'
        BY <1>0, <1>7 DEF Tick, rows, LeaseHonoured, TypeOK
    <2> QED
        BY <2>1, <2>2 DEF LeaseInv
<1>8. CASE Crash
    <2>0. lost' \in [Event -> Nat]
        <3>1. \A e \in Event : lost[e] \in Nat /\ Cardinality(HeldAs(e)) \in Nat
            BY <1>0, CountFacts DEF TypeOK
        <3>2. lost' = [e \in Event |-> lost[e] + Cardinality(HeldAs(e))]
            BY <1>8 DEF Crash, HeldAs
        <3> QED
            BY <3>1, <3>2
    <2>a. FinitelyBusy'
        <3>1. Busy' = {}
            BY <1>8 DEF Crash, Busy
        <3> QED
            BY <3>1, FS_EmptySet DEF FinitelyBusy
    <2>b. crossed' \subseteq Task
        BY <1>0, <1>8 DEF Crash, Announcing, HandlersKnown, TypeOK
    <2>1. TypeInv'
        BY <1>0, <1>8, <2>0, <2>a, <2>b DEF Crash, rows, TypeInv, TypeOK, HandlersKnown, Ops
    <2> QED
        BY <1>0, <1>8, <2>1 DEF Crash, rows, LeaseInv, LeaseHonoured
<1>9. CASE UNCHANGED vars
    BY <1>0, <1>9 DEF vars, rows, changes, handlers, LeaseInv, TypeInv, TypeOK, HandlersKnown,
                      FinitelyBusy, Busy, LeaseHonoured
<1> QED
    BY <1>1, <1>2, <1>3, <1>4, <1>5, <1>6, <1>7, <1>8, <1>9 DEF Next, Step

\* An acknowledged claim that was not given back stands until its lease has
\* run out, whatever other handlers and crashes do: claims exclude each other.
THEOREM LeaseIsHonoured == Spec => []LeaseHonoured
<1>1. LeaseInv => LeaseHonoured
    BY DEF LeaseInv
<1> QED
    BY InitLeaseInv, NextLeaseInv, <1>1, PTL DEF Spec

\* Type correctness of rows, events and handlers: a row is claimed or done by a
\* principal that exists, and no handler holds more than its operation.
THEOREM TypeCorrect == Spec => []TypeOK
<1>1. LeaseInv => TypeOK
    BY DEF LeaseInv, TypeInv
<1> QED
    BY InitLeaseInv, NextLeaseInv, <1>1, PTL DEF Spec

-----------------------------------------------------------------------------
(* Refinement *)

\* The initial rows are the initial lock.
LEMMA InitRefines == Init => Lock!LockInit
<1> SUFFICES ASSUME Init PROVE Lock!LockInit
    OBVIOUS
<1>1. [t \in Task |-> expires[t] >= clock] = [t \in Task |-> FALSE]
    <2>1. expires = [t \in Task |-> Null] /\ clock = 0 /\ ~(Null >= 0)
        BY DEF Init, Null
    <2>2. \A t \in Task : (expires[t] >= clock) = FALSE
        BY <2>1
    <2> QED
        BY <2>2
<1> QED
    BY <1>1 DEF Init, Lock!LockInit

\* A task that has yet to be created has no holder and no lease.
AbsentIsFree == \A t \in Task : status[t] = "absent" => claimedBy[t] = None /\ expires[t] = Null

\* Tasks that do not exist have no claim at first.
LEMMA InitAbsent == Init => AbsentIsFree
BY DEF Init, AbsentIsFree

\* A task without a row has no claimant and no lease, and none is given one.
LEMMA NextAbsent == LeaseInv /\ AbsentIsFree /\ [Next]_vars => AbsentIsFree'
<1> SUFFICES ASSUME LeaseInv, AbsentIsFree, [Next]_vars PROVE AbsentIsFree'
    OBVIOUS
<1>1. ASSUME NEW w \in Worker, NEW t, NEW s \in {"open", "claimed", "done"}, NEW p, NEW e,
             Commit(w, t, s, p, e)
      PROVE  AbsentIsFree'
    BY <1>1 DEF Commit, AbsentIsFree, LeaseInv, TypeInv, TypeOK
<1>2. ASSUME UNCHANGED rows PROVE AbsentIsFree'
    BY <1>2 DEF rows, AbsentIsFree
<1>3. ASSUME NEW w \in Worker, CreateTask(w) \/ ClaimTask(w) \/ DoneTask(w) \/ ReleaseTask(w)
      PROVE  AbsentIsFree'
    BY <1>1, <1>3 DEF CreateTask, ClaimTask, DoneTask, ReleaseTask
<1>4. CASE UNCHANGED vars
    BY <1>2, <1>4 DEF vars
<1>5. CASE \E w \in Worker : \/ Refuse(w) \/ Announce(w)
                             \/ \E p \in Principal, o \in Ops, t \in Task \cup {None} : Begin(w, p, o, t)
    BY <1>2, <1>5 DEF Refuse, Announce, Begin
<1>6. CASE Tick \/ Crash
    BY <1>2, <1>6 DEF Tick, Crash
<1> QED
    BY <1>3, <1>4, <1>5, <1>6 DEF Next, Step

\* A claim commits as Acquire or TakeOver, the other commands as themselves, a
\* tick as Lapse, and everything else leaves the lock alone.
LEMMA StepRefines == LeaseInv /\ AbsentIsFree /\ [Next]_vars => [Lock!LockNext]_(Lock!lockVars)
<1> SUFFICES ASSUME LeaseInv, AbsentIsFree, [Next]_vars PROVE [Lock!LockNext]_(Lock!lockVars)
    OBVIOUS
<1> DEFINE live == [t \in Task |-> expires[t] >= clock]
<1>0. /\ TypeInv /\ HandlersKnown /\ clock \in Nat
      /\ status \in [Task -> {"absent", "open", "claimed", "done"}]
      /\ claimedBy \in [Task -> Principal \cup {None}]
      /\ expires \in [Task -> Int] /\ Null \in Int /\ ~(Null >= clock)
      /\ live \in [Task -> BOOLEAN]
    BY DEF LeaseInv, TypeInv, TypeOK, Null
<1>1. ASSUME NEW w \in Worker, NEW t \in Task, NEW s, NEW p, NEW e \in Int,
             Commit(w, t, s, p, e)
      PROVE  /\ status' = [status EXCEPT ![t] = s] /\ claimedBy' = [claimedBy EXCEPT ![t] = p]
             /\ live' = [live EXCEPT ![t] = (e >= clock)]
    BY <1>0, <1>1 DEF Commit
<1> HIDE DEF live
<1>2. ASSUME NEW w \in Worker, CreateTask(w) PROVE Lock!LockNext
    <2>1. PICK t \in Task : status[t] = "absent" /\ Commit(w, t, "open", None, Null)
        BY <1>2 DEF CreateTask
    <2>2. claimedBy[t] = None /\ live[t] = FALSE
        BY <1>0, <2>1 DEF AbsentIsFree, live
    <2>3. /\ status' = [status EXCEPT ![t] = "open"] /\ claimedBy' = [claimedBy EXCEPT ![t] = None]
          /\ live' = [live EXCEPT ![t] = (Null >= clock)]
        BY <1>0, <1>1, <2>1
    <2>4. claimedBy' = claimedBy /\ live' = live
        BY <1>0, <2>2, <2>3
    <2> QED
        BY <2>1, <2>3, <2>4 DEF Lock!LockNext, Lock!Create, live
<1>3. ASSUME NEW w \in Worker, ClaimTask(w) PROVE Lock!LockNext
    <2>0. PICK t \in Task, p \in Principal : t = task[w] /\ p = who[w]
        BY <1>0, <1>3 DEF ClaimTask, HandlersKnown
    <2>1. /\ now[w] <= clock /\ now[w] \in Nat
          /\ now[w] + LeaseSeconds \in Int
          /\ Claimable(t, now[w]) /\ Commit(w, t, "claimed", p, now[w] + LeaseSeconds)
        BY <1>0, <1>3, <2>0, LeaseIsPositive DEF ClaimTask, HandlersKnown, TypeInv, TypeOK
    <2>2. /\ status' = [status EXCEPT ![t] = "claimed"] /\ claimedBy' = [claimedBy EXCEPT ![t] = p]
          /\ \E b \in BOOLEAN : live' = [live EXCEPT ![t] = b]
        <3>1. live' = [live EXCEPT ![t] = (now[w] + LeaseSeconds >= clock)]
            BY <1>1, <2>1
        <3>2. (now[w] + LeaseSeconds >= clock) = TRUE \/ (now[w] + LeaseSeconds >= clock) = FALSE
            OBVIOUS
        <3>3. \E b \in BOOLEAN : live' = [live EXCEPT ![t] = b]
            BY <3>1, <3>2, Zenon
        <3>4. status' = [status EXCEPT ![t] = "claimed"] /\ claimedBy' = [claimedBy EXCEPT ![t] = p]
            BY <1>1, <2>1
        <3> QED
            BY <3>3, <3>4, Zenon
    <2>3. Lock!Grant(t, p)
        BY <2>2 DEF Lock!Grant, live
    <2>4. status[t] = "open" \/ (status[t] = "claimed" /\ ~live[t])
        <3>1. live[t] = (expires[t] >= clock) /\ expires[t] \in Int
            BY <1>0, <2>1 DEF live
        <3>2. status[t] = "open" \/ (status[t] = "claimed" /\ (expires[t] = Null \/ expires[t] < now[w]))
            BY <2>1 DEF Claimable
        <3>3. expires[t] = Null \/ expires[t] < now[w] => ~(expires[t] >= clock)
            BY <1>0, <2>1, <3>1
        <3> QED
            BY <3>1, <3>2, <3>3
    <2>5. Lock!Acquire(t, p) \/ Lock!TakeOver(t, p)
        BY <2>1, <2>3, <2>4 DEF Lock!Acquire, Lock!TakeOver, live
    <2> QED
        BY <2>5 DEF Lock!LockNext
<1>4. ASSUME NEW w \in Worker, DoneTask(w) PROVE Lock!LockNext
    <2> DEFINE t == task[w]
    <2>1. /\ t \in Task /\ who[w] \in Principal /\ HeldBy(t, who[w]) /\ expires[t] \in Int
          /\ Commit(w, t, "done", claimedBy[t], expires[t])
        BY <1>0, <1>4 DEF DoneTask, HandlersKnown
    <2>2. live' = live /\ claimedBy' = claimedBy /\ status' = [status EXCEPT ![t] = "done"]
        <3>1. live[t] = (expires[t] >= clock)
            BY <2>1 DEF live
        <3> QED
            BY <1>0, <1>1, <2>1, <3>1
    <2> QED
        BY <2>1, <2>2 DEF Lock!LockNext, Lock!Finish, HeldBy, live
<1>5. ASSUME NEW w \in Worker, ReleaseTask(w) PROVE Lock!LockNext
    <2> DEFINE t == task[w]
    <2>1. /\ t \in Task /\ who[w] \in Principal /\ HeldBy(t, who[w])
          /\ Commit(w, t, "open", None, Null)
        BY <1>0, <1>5 DEF ReleaseTask, HandlersKnown
    <2>2. /\ status' = [status EXCEPT ![t] = "open"] /\ claimedBy' = [claimedBy EXCEPT ![t] = None]
          /\ live' = [live EXCEPT ![t] = FALSE]
        <3>1. (Null >= clock) = FALSE
            BY <1>0
        <3>2. live' = [live EXCEPT ![t] = (Null >= clock)]
            BY <1>0, <1>1, <2>1
        <3>3. live' = [live EXCEPT ![t] = FALSE]
            BY <3>1, <3>2, Zenon
        <3>4. status' = [status EXCEPT ![t] = "open"] /\ claimedBy' = [claimedBy EXCEPT ![t] = None]
            BY <1>0, <1>1, <2>1
        <3> QED
            BY <3>3, <3>4, Zenon
    <2> QED
        BY <2>1, <2>2 DEF Lock!LockNext, Lock!Release, HeldBy, live
<1>6. CASE Tick
    <2>1. /\ live' \in [Task -> BOOLEAN] /\ \A t \in Task : live'[t] => live[t]
          /\ UNCHANGED <<status, claimedBy>>
        <3>1. clock' = clock + 1 /\ UNCHANGED <<status, claimedBy, expires>>
            BY <1>6 DEF Tick, rows
        <3>2. \A t \in Task : expires[t] \in Int /\ (expires[t] >= clock + 1 => expires[t] >= clock)
            BY <1>0
        <3>3. live' = [t \in Task |-> expires[t] >= clock + 1]
            BY <3>1 DEF live
        <3>4. live' \in [Task -> BOOLEAN]
            BY <3>3
        <3>5. ASSUME NEW t \in Task, live'[t] PROVE live[t]
            BY <3>2, <3>3, <3>5 DEF live
        <3> QED
            BY <3>1, <3>4, <3>5
    <2> QED
        BY <2>1 DEF Lock!LockNext, Lock!Lapse, live
<1>7. ASSUME UNCHANGED <<rows, clock>> PROVE UNCHANGED Lock!lockVars
    BY <1>7 DEF rows, Lock!lockVars
<1>8. ASSUME NEW w \in Worker,
             \/ Refuse(w) \/ Announce(w)
             \/ \E p \in Principal, o \in Ops, t \in Task \cup {None} : Begin(w, p, o, t)
      PROVE  UNCHANGED Lock!lockVars
    BY <1>7, <1>8 DEF Refuse, Announce, Begin
<1>9. CASE Crash \/ UNCHANGED vars
    BY <1>7, <1>9 DEF Crash, vars
<1> QED
    BY <1>2, <1>3, <1>4, <1>5, <1>6, <1>8, <1>9 DEF Next, Step

\* The racing handlers implement the task lock: a task changes hands only by
\* release or after its lease lapsed, and only its holder finishes it.
THEOREM LeaseImplementsLock == Spec => LockRefined
<1>1. Init => LeaseInv /\ AbsentIsFree
    BY InitLeaseInv, InitAbsent
<1>2. LeaseInv /\ AbsentIsFree /\ [Next]_vars => (LeaseInv /\ AbsentIsFree)'
    BY NextLeaseInv, NextAbsent
<1> QED
    BY <1>1, <1>2, InitRefines, StepRefines, PTL DEF Spec, LockRefined, Lock!LockSpec

-----------------------------------------------------------------------------
(* What the channel is told *)

\* A change of a row is counted, and held by the handler that made it.
LEMMA CommitTold ==
    ASSUME TypeInv, ToldOnce, NEW w \in Worker, NEW t \in Task, NEW s, NEW p, NEW e, pc[w] = "db",
           Commit(w, t, s, p, e)
    PROVE  ToldOnce'
<1> DEFINE r == [action |-> op[w], task |-> t, actor |-> who[w]]
<1>1. /\ UNCHANGED <<events, lost>> /\ made' = [made EXCEPT ![r] = @ + 1]
      /\ w \notin Announcing /\ Announcing' = Announcing \cup {w} /\ Change(w)' = r
      /\ \A v \in Announcing : Change(v)' = Change(v)
    BY DEF Commit, Announcing, Change, TypeInv, TypeOK
<1>2. r \in Event /\ made \in [Event -> Nat] /\ lost \in [Event -> Nat]
    BY DEF TypeInv, TypeOK, HandlersKnown, Event
<1> HIDE DEF r
<1> SUFFICES ASSUME NEW x \in Event
             PROVE  made'[x] = Cardinality(LoggedAs(x)') + Cardinality(HeldAs(x)') + lost'[x]
    BY DEF ToldOnce, LoggedAs, HeldAs
<1>3. made[x] = Cardinality(LoggedAs(x)) + Cardinality(HeldAs(x)) + lost[x]
    BY DEF ToldOnce, LoggedAs, HeldAs
<1>4. LoggedAs(x)' = LoggedAs(x) /\ lost'[x] = lost[x]
    BY <1>1 DEF LoggedAs
<1>5. /\ IsFiniteSet(HeldAs(x)) /\ Cardinality(HeldAs(x)) \in Nat /\ Cardinality(LoggedAs(x)) \in Nat
      /\ lost[x] \in Nat
    BY <1>2, CountFacts
<1>6. CASE x = r
    <2>1. HeldAs(x)' = HeldAs(x) \cup {w} /\ w \notin HeldAs(x)
        BY <1>1, <1>6 DEF HeldAs
    <2>2. Cardinality(HeldAs(x)') = Cardinality(HeldAs(x)) + 1
        BY <1>5, <2>1, FS_AddElement
    <2>3. made'[x] = made[x] + 1
        BY <1>1, <1>2, <1>6
    <2> QED
        BY <1>3, <1>4, <1>5, <2>2, <2>3
<1>7. CASE x # r
    <2>1. HeldAs(x)' = HeldAs(x) /\ made'[x] = made[x]
        BY <1>1, <1>2, <1>7 DEF HeldAs
    <2> QED
        BY <1>3, <1>4, <2>1
<1> QED
    BY <1>6, <1>7

\* Handlers that start or are refused have nothing to tell, before and after.
LEMMA OthersAnnounceTheSame ==
    ASSUME TypeInv, NEW w \in Worker,
           Refuse(w) \/ \E p \in Principal, o \in Ops, t \in Task \cup {None} : Begin(w, p, o, t)
    PROVE  /\ Announcing' = Announcing
           /\ \A v \in Announcing : Change(v)' = Change(v) /\ task'[v] = task[v]
<1>1. pc[w] \in {"idle", "db"} /\ pc'[w] \in {"idle", "db"}
    BY DEF Refuse, Idle, Begin, TypeInv, TypeOK
<1>2. \A v \in Worker \ {w} : pc'[v] = pc[v] /\ op'[v] = op[v] /\ who'[v] = who[v] /\ task'[v] = task[v]
    BY DEF Refuse, Idle, Begin, TypeInv, TypeOK
<1> QED
    BY <1>1, <1>2 DEF Announcing, Change

\* An announcing handler has one change to tell, and appends it.
LEMMA AnnounceFacts ==
    ASSUME TypeInv, NEW w \in Worker, Announce(w)
    PROVE  /\ w \in Announcing /\ Announcing' = Announcing \ {w} /\ Change(w) \in Event
           /\ \A v \in Announcing \ {w} : Change(v)' = Change(v) /\ task'[v] = task[v]
           /\ Len(events) + 1 \notin DOMAIN events
           /\ DOMAIN events \subseteq Nat /\ \A i \in DOMAIN events : i <= Len(events) + 1
           /\ DOMAIN events' = DOMAIN events \cup {Len(events) + 1}
           /\ \A i \in DOMAIN events : events'[i] = events[i]
           /\ events'[Len(events) + 1] = Change(w)
           /\ UNCHANGED <<rows, lost, changes>>
<1>1. /\ w \in Announcing /\ Announcing' = Announcing \ {w} /\ events' = Append(events, Change(w))
      /\ \A v \in Announcing \ {w} : Change(v)' = Change(v) /\ task'[v] = task[v]
      /\ UNCHANGED <<rows, lost, changes>>
    BY DEF Announce, Idle, Announcing, Change, TypeInv, TypeOK
<1>2. Change(w) \in Event /\ events \in Seq(Event) /\ Len(events) \in Nat
    BY <1>1, ChangeIsEvent DEF TypeInv, TypeOK
<1>3. /\ DOMAIN events = 1..Len(events) /\ DOMAIN events' = 1..(Len(events) + 1)
      /\ \A i \in 1..Len(events) : events'[i] = events[i]
      /\ events'[Len(events) + 1] = Change(w)
    BY <1>1, <1>2
<1>4. 1..(Len(events) + 1) = (1..Len(events)) \cup {Len(events) + 1}
    BY <1>2
<1> QED
    BY <1>1, <1>2, <1>3, <1>4

\* What is held goes to the history, once, or is lost.
LEMMA RestTold ==
    ASSUME TypeInv, ToldOnce,
           \/ \E w \in Worker : \/ Refuse(w) \/ Announce(w)
                                \/ \E p \in Principal, o \in Ops, t \in Task \cup {None} : Begin(w, p, o, t)
           \/ Tick \/ Crash \/ UNCHANGED vars
    PROVE  ToldOnce'
<1> SUFFICES ASSUME NEW x \in Event
             PROVE  made'[x] = Cardinality(LoggedAs(x)') + Cardinality(HeldAs(x)') + lost'[x]
    BY DEF ToldOnce, LoggedAs, HeldAs
<1>1. made[x] = Cardinality(LoggedAs(x)) + Cardinality(HeldAs(x)) + lost[x]
    BY DEF ToldOnce, LoggedAs, HeldAs
<1>2. /\ IsFiniteSet(HeldAs(x)) /\ Cardinality(HeldAs(x)) \in Nat
      /\ IsFiniteSet(LoggedAs(x)) /\ Cardinality(LoggedAs(x)) \in Nat
      /\ lost[x] \in Nat
    BY CountFacts DEF TypeInv, TypeOK
<1>3. ASSUME NEW w \in Worker,
             Refuse(w) \/ \E p \in Principal, o \in Ops, t \in Task \cup {None} : Begin(w, p, o, t)
      PROVE  made'[x] = Cardinality(LoggedAs(x)') + Cardinality(HeldAs(x)') + lost'[x]
    <2>1. UNCHANGED <<events, lost, made>>
        BY <1>3 DEF Refuse, Begin, changes
    <2>2. HeldAs(x)' = HeldAs(x) /\ LoggedAs(x)' = LoggedAs(x)
        BY <1>3, <2>1, OthersAnnounceTheSame DEF HeldAs, LoggedAs
    <2> QED
        BY <1>1, <2>1, <2>2
<1>4. ASSUME NEW w \in Worker, Announce(w)
      PROVE  made'[x] = Cardinality(LoggedAs(x)') + Cardinality(HeldAs(x)') + lost'[x]
    <2> DEFINE n == Len(events) + 1
    <2>1. made'[x] = made[x] /\ lost'[x] = lost[x]
        BY <1>4, AnnounceFacts DEF changes
    <2>2. CASE x = Change(w)
        <3>1. HeldAs(x)' = HeldAs(x) \ {w} /\ w \in HeldAs(x)
            BY <1>4, <2>2, AnnounceFacts DEF HeldAs
        <3>2. LoggedAs(x)' = LoggedAs(x) \cup {n} /\ n \notin LoggedAs(x)
            BY <1>4, <2>2, AnnounceFacts DEF LoggedAs
        <3>3. Cardinality(HeldAs(x) \ {w}) = Cardinality(HeldAs(x)) - 1
            BY <1>2, <3>1, FS_RemoveElement
        <3> HIDE DEF n
        <3>4. Cardinality(LoggedAs(x) \cup {n}) = Cardinality(LoggedAs(x)) + 1
            BY <1>2, <3>2, FS_AddElement
        <3> QED
            BY <1>1, <1>2, <2>1, <3>1, <3>2, <3>3, <3>4
    <2>3. CASE x # Change(w)
        <3>1. HeldAs(x)' = HeldAs(x)
            BY <1>4, <2>3, AnnounceFacts DEF HeldAs
        <3>2. LoggedAs(x)' = LoggedAs(x)
            BY <1>4, <2>3, AnnounceFacts DEF LoggedAs
        <3> QED
            BY <1>1, <2>1, <3>1, <3>2
    <2> QED
        BY <2>2, <2>3
<1>5. CASE Crash
    <2>1. /\ LoggedAs(x)' = LoggedAs(x) /\ HeldAs(x)' = {} /\ made'[x] = made[x]
          /\ lost'[x] = lost[x] + Cardinality(HeldAs(x))
        BY <1>5 DEF Crash, LoggedAs, HeldAs, Announcing
    <2> QED
        BY <1>1, <1>2, <2>1, FS_EmptySet
<1>6. CASE Tick \/ UNCHANGED vars
    <2>1. UNCHANGED <<events, made, lost, pc, op, who, task>>
        BY <1>6 DEF Tick, vars, changes, handlers
    <2> QED
        BY <1>1, <2>1 DEF LoggedAs, HeldAs, Announcing, Change
<1> QED
    BY <1>3, <1>4, <1>5, <1>6

\* The row of a task and what is told of it: its only change in hand, or its last
\* event, shows the row, unless the last change crossed another one or was lost.
Untold(t) == \A i \in DOMAIN events : events[i].task # t
LastEvent(t, e) ==
    \E i \in DOMAIN events : /\ events[i] = e /\ e.task = t
                             /\ \A j \in DOMAIN events : events[j].task = t => j <= i
LastEventShows(t) ==
    IF Untold(t) THEN status[t] = "absent" ELSE \E e \in Event : LastEvent(t, e) /\ Shows(e)

Settled ==
    \A t \in Task \ crossed :
        /\ \A v, w \in InHand(t) : v = w
        /\ \A w \in InHand(t) : Shows(Change(w))
        /\ InHand(t) = {} => LastEventShows(t)

\* At first there is nothing to tell.
LEMMA InitTold == Init => ToldOnce /\ Settled
<1> SUFFICES ASSUME Init PROVE ToldOnce /\ Settled
    OBVIOUS
<1>1. events = <<>> /\ Announcing = {} /\ status = [t \in Task |-> "absent"]
    BY DEF Init, Announcing
<1>2. ToldOnce
    <2>1. \A e \in Event : {i \in DOMAIN events : events[i] = e} = {} /\ {w \in Announcing : Change(w) = e} = {}
        BY <1>1
    <2> QED
        <3>1. \A e \in Event : made[e] = 0 /\ lost[e] = 0
            BY DEF Init
        <3>2. Cardinality({}) = 0
            BY FS_EmptySet
        <3>3. \A e \in Event : /\ Cardinality({i \in DOMAIN events : events[i] = e}) = 0
                               /\ Cardinality({w \in Announcing : Change(w) = e}) = 0
            BY <2>1, <3>2
        <3> QED
            BY <3>1, <3>3 DEF ToldOnce
<1>3. Settled
    <2>1. \A t \in Task : InHand(t) = {} /\ Untold(t)
        BY <1>1 DEF InHand, Untold
    <2> QED
        BY <1>1, <2>1 DEF Settled, LastEventShows
<1> QED
    BY <1>2, <1>3

\* A change made while no other of its task is in hand is the one that shows the row.
LEMMA CommitSettled ==
    ASSUME TypeInv, Settled, NEW w \in Worker, NEW t \in Task,
           NEW s \in {"open", "claimed", "done"}, NEW p \in Principal \cup {None}, NEW e \in Int,
           pc[w] = "db", Commit(w, t, s, p, e),
           s = [create |-> "open", claim |-> "claimed", done |-> "done", release |-> "open"][op[w]],
           p = IF s = "open" THEN None ELSE who[w]
    PROVE  Settled'
<1>1. /\ UNCHANGED <<events, lost, op, who>>
      /\ crossed' = IF InHand(t) = {} THEN crossed \ {t} ELSE crossed \cup {t}
      /\ w \notin Announcing /\ Announcing' = Announcing \cup {w}
      /\ Change(w)' = [action |-> op[w], task |-> t, actor |-> who[w]] /\ task'[w] = t
      /\ \A v \in Announcing : Change(v)' = Change(v) /\ task'[v] = task[v]
    BY DEF Commit, Announcing, Change, TypeInv, TypeOK
<1>2. /\ status'[t] = s /\ claimedBy'[t] = p
      /\ \A u \in Task \ {t} : status'[u] = status[u] /\ claimedBy'[u] = claimedBy[u]
    BY CommitFacts
<1> SUFFICES ASSUME NEW u \in Task \ crossed'
             PROVE  /\ \A v, x \in InHand(u)' : v = x
                    /\ \A x \in InHand(u)' : Shows(Change(x))'
                    /\ InHand(u)' = {} => LastEventShows(u)'
    BY DEF Settled, InHand
<1>3. CASE u = t
    <2>1. InHand(t) = {} /\ InHand(t)' = {w}
        BY <1>1, <1>3 DEF InHand
    <2>2. Shows(Change(w))'
        BY <1>1, <1>2 DEF Shows
    <2> QED
        BY <1>3, <2>1, <2>2
<1>4. CASE u # t
    <2>1. u \notin crossed /\ InHand(u)' = InHand(u)
        BY <1>1, <1>4 DEF InHand
    <2>2. /\ \A v, x \in InHand(u) : v = x
          /\ \A x \in InHand(u) : Shows(Change(x))
          /\ InHand(u) = {} => LastEventShows(u)
        BY <2>1 DEF Settled
    <2>3. ASSUME NEW x \in InHand(u) PROVE Shows(Change(x))'
        <3>1. Change(x)' = Change(x) /\ Change(x).task = u
            BY <1>1, <2>3 DEF InHand, Change
        <3> QED
            BY <1>2, <1>4, <2>2, <3>1 DEF Shows
    <2>4. ASSUME InHand(u) = {} PROVE LastEventShows(u)'
        <3>1. LastEventShows(u)
            BY <2>2, <2>4
        <3>2. /\ Untold(u)' <=> Untold(u)
              /\ \A x \in Event : LastEvent(u, x)' <=> LastEvent(u, x)
            BY <1>1 DEF Untold, LastEvent
        <3>3. \A x \in Event : LastEvent(u, x) /\ Shows(x) => Shows(x)'
            BY <1>2, <1>4 DEF LastEvent, Shows
        <3> QED
            BY <1>2, <1>4, <3>1, <3>2, <3>3 DEF LastEventShows
    <2> QED
        BY <2>1, <2>2, <2>3, <2>4
<1> QED
    BY <1>3, <1>4

\* Telling the only change in hand puts what it shows last; a crash crosses what it loses.
LEMMA RestSettled ==
    ASSUME TypeInv, Settled,
           \/ \E w \in Worker : \/ Refuse(w) \/ Announce(w)
                                \/ \E p \in Principal, o \in Ops, t \in Task \cup {None} : Begin(w, p, o, t)
           \/ Tick \/ Crash \/ UNCHANGED vars
    PROVE  Settled'
<1> SUFFICES ASSUME NEW u \in Task \ crossed'
             PROVE  /\ \A v, x \in InHand(u)' : v = x
                    /\ \A x \in InHand(u)' : Shows(Change(x))'
                    /\ InHand(u)' = {} => LastEventShows(u)'
    BY DEF Settled, InHand
<1>1. UNCHANGED <<status, claimedBy>> /\ u \in Task /\ u \notin crossed
    BY DEF Refuse, Announce, Begin, Tick, Crash, vars, rows, changes
<1>2. /\ \A v, x \in InHand(u) : v = x
      /\ \A x \in InHand(u) : Shows(Change(x))
      /\ InHand(u) = {} => LastEventShows(u)
    BY <1>1 DEF Settled
<1>3. \A e : Shows(e) => Shows(e)'
    BY <1>1 DEF Shows
<1>4. ASSUME events' = events, InHand(u)' = InHand(u), \A x \in InHand(u) : Change(x)' = Change(x)
      PROVE  /\ \A v, x \in InHand(u)' : v = x
             /\ \A x \in InHand(u)' : Shows(Change(x))'
             /\ InHand(u)' = {} => LastEventShows(u)'
    <2>1. LastEventShows(u) => LastEventShows(u)'
        BY <1>1, <1>3, <1>4 DEF LastEventShows, Untold, LastEvent
    <2>2. \A x \in InHand(u) : Shows(Change(x))'
        BY <1>1, <1>2, <1>4 DEF Shows
    <2> QED
        BY <1>2, <1>4, <2>1, <2>2
<1>5. ASSUME NEW w \in Worker,
             Refuse(w) \/ \E p \in Principal, o \in Ops, t \in Task \cup {None} : Begin(w, p, o, t)
      PROVE  events' = events /\ InHand(u)' = InHand(u) /\ \A x \in InHand(u) : Change(x)' = Change(x)
    BY <1>5, OthersAnnounceTheSame DEF Refuse, Begin, InHand
<1>6. ASSUME NEW w \in Worker, Announce(w)
      PROVE  /\ \A v, x \in InHand(u)' : v = x
             /\ \A x \in InHand(u)' : Shows(Change(x))'
             /\ InHand(u)' = {} => LastEventShows(u)'
    <2>1. PICK n \in Nat, c \in Event :
             /\ w \in Announcing /\ Announcing' = Announcing \ {w} /\ c = Change(w) /\ c.task = task[w]
             /\ \A v \in Announcing \ {w} : Change(v)' = Change(v) /\ task'[v] = task[v]
             /\ \A i \in DOMAIN events : i \in Nat /\ i <= n /\ events'[i] = events[i]
             /\ DOMAIN events' = DOMAIN events \cup {n} /\ events'[n] = c
        <3>1. Len(events) + 1 \in Nat /\ Change(w).task = task[w]
            BY <1>6 DEF Change, TypeInv, TypeOK
        <3> QED
            BY <1>6, <3>1, AnnounceFacts
    <2>2. InHand(u)' = InHand(u) \ {w}
        BY <2>1 DEF InHand
    <2>3. CASE task[w] = u
        <3>1. w \in InHand(u) /\ InHand(u)' = {}
            BY <1>2, <2>1, <2>2, <2>3 DEF InHand
        <3>2. LastEvent(u, c)' /\ ~Untold(u)'
            BY <2>1, <2>3 DEF LastEvent, Untold
        <3>3. Shows(c)'
            BY <1>2, <1>3, <2>1, <3>1
        <3> QED
            BY <3>1, <3>2, <3>3 DEF LastEventShows
    <2>4. CASE task[w] # u
        <3>1. InHand(u)' = InHand(u)
            BY <2>2, <2>4 DEF InHand
        <3>2. Untold(u)' <=> Untold(u)
            BY <2>1, <2>4 DEF Untold
        <3>3. \A e \in Event : LastEvent(u, e) => LastEvent(u, e)'
            BY <2>1, <2>4 DEF LastEvent
        <3>4. LastEventShows(u) => LastEventShows(u)'
            BY <1>1, <1>3, <3>2, <3>3 DEF LastEventShows
        <3>5. \A x \in InHand(u) : Shows(Change(x))'
            BY <1>1, <1>2, <2>1, <2>4 DEF Shows, InHand
        <3> QED
            BY <1>2, <3>1, <3>4, <3>5
    <2> QED
        BY <2>3, <2>4
<1>7. CASE Crash
    <2>1. events' = events /\ InHand(u)' = {} /\ InHand(u) = {}
        BY <1>7 DEF Crash, InHand, Announcing
    <2> QED
        BY <1>4, <2>1
<1>8. CASE Tick \/ UNCHANGED vars
    <2>1. UNCHANGED <<events, pc, op, who, task>>
        BY <1>8 DEF Tick, vars, handlers
    <2> QED
        BY <1>4, <2>1 DEF InHand, Announcing, Change
<1> QED
    BY <1>4, <1>5, <1>6, <1>7, <1>8

\* A done row was finished by one change, of the claimant it names.
FinishedRow ==
    \A e \in Event : e.action = "done" /\ made[e] > 0 =>
        made[e] = 1 /\ status[e.task] = "done" /\ claimedBy[e.task] = e.actor

ChangeInv == LeaseInv /\ ToldOnce /\ Settled /\ FinishedRow

\* DONE finishes a row that is claimed, and no command changes a done row.
LEMMA CommitFinished ==
    ASSUME TypeInv, FinishedRow, NEW w \in Worker, NEW t \in Task,
           NEW s \in {"open", "claimed", "done"}, NEW p \in Principal \cup {None}, NEW e \in Int,
           pc[w] = "db", Commit(w, t, s, p, e),
           status[t] # "done", op[w] = "done" => s = "done" /\ p = who[w]
    PROVE  FinishedRow'
<1> DEFINE r == [action |-> op[w], task |-> t, actor |-> who[w]]
<1>1. made' = [made EXCEPT ![r] = @ + 1] /\ made \in [Event -> Nat] /\ r \in Event
    BY DEF Commit, TypeInv, TypeOK, HandlersKnown, Event
<1>2. /\ status'[t] = s /\ claimedBy'[t] = p
      /\ \A u \in Task \ {t} : status'[u] = status[u] /\ claimedBy'[u] = claimedBy[u]
    BY CommitFacts
<1>3. r.action = op[w] /\ r.task = t /\ r.actor = who[w]
    OBVIOUS
<1> HIDE DEF r
<1> SUFFICES ASSUME NEW x \in Event, x.action = "done", made'[x] > 0
             PROVE  made'[x] = 1 /\ status'[x.task] = "done" /\ claimedBy'[x.task] = x.actor
    BY DEF FinishedRow
<1>4. x.task \in Task /\ made[x] \in Nat /\ (x.task = t => made[x] = 0)
    BY <1>1 DEF FinishedRow, Event
<1>5. CASE x = r
    BY <1>1, <1>2, <1>3, <1>4, <1>5
<1>6. CASE x # r
    BY <1>1, <1>2, <1>4, <1>6 DEF FinishedRow
<1> QED
    BY <1>5, <1>6

\* Nothing is finished at first.
LEMMA InitChangeInv == Init => ChangeInv
<1>1. Init => FinishedRow
    BY DEF Init, FinishedRow
<1> QED
    BY <1>1, InitLeaseInv, InitTold DEF ChangeInv

\* A row, the changes counted and what is in hand move together.
LEMMA NextChangeInv == ChangeInv /\ [Next]_vars => ChangeInv'
<1> SUFFICES ASSUME LeaseInv, ToldOnce, Settled, FinishedRow, [Next]_vars
             PROVE  ToldOnce' /\ Settled' /\ FinishedRow'
    BY NextLeaseInv DEF ChangeInv
<1>0. TypeInv /\ TypeOK /\ HandlersKnown /\ Null \in Int /\ None \in Principal \cup {None}
    BY DEF LeaseInv, TypeInv, Null
<1>1. ASSUME NEW w \in Worker, NEW t \in Task, NEW s \in {"open", "claimed", "done"},
             NEW p \in Principal \cup {None}, NEW e \in Int, pc[w] = "db", Commit(w, t, s, p, e),
             status[t] # "done",
             s = [create |-> "open", claim |-> "claimed", done |-> "done", release |-> "open"][op[w]],
             p = IF s = "open" THEN None ELSE who[w]
      PROVE  ToldOnce' /\ Settled' /\ FinishedRow'
    <2>1. ToldOnce'
        BY <1>0, <1>1, CommitTold
    <2>2. Settled'
        BY <1>0, <1>1, CommitSettled
    <2>3. op[w] = "done" => s = "done" /\ p = who[w]
        BY <1>1
    <2>4. FinishedRow'
        BY <1>0, <1>1, <2>3, CommitFinished
    <2> QED
        BY <2>1, <2>2, <2>4
<1>2. ASSUME NEW w \in Worker, CreateTask(w) PROVE ToldOnce' /\ Settled' /\ FinishedRow'
    <2>1. PICK t \in Task : /\ pc[w] = "db" /\ op[w] = "create" /\ status[t] = "absent"
                            /\ Commit(w, t, "open", None, Null)
        BY <1>2 DEF CreateTask
    <2> QED
        BY <1>0, <1>1, <2>1
<1>3. ASSUME NEW w \in Worker, ClaimTask(w) PROVE ToldOnce' /\ Settled' /\ FinishedRow'
    <2>1. /\ task[w] \in Task /\ who[w] \in Principal /\ now[w] + LeaseSeconds \in Int
          /\ pc[w] = "db" /\ op[w] = "claim" /\ status[task[w]] \in {"open", "claimed"}
          /\ Commit(w, task[w], "claimed", who[w], now[w] + LeaseSeconds)
        BY <1>0, <1>3, LeaseIsPositive DEF ClaimTask, Claimable, HandlersKnown, TypeOK
    <2> QED
        BY <1>1, <2>1
<1>4. ASSUME NEW w \in Worker, DoneTask(w) PROVE ToldOnce' /\ Settled' /\ FinishedRow'
    <2>1. /\ task[w] \in Task /\ expires[task[w]] \in Int /\ claimedBy[task[w]] \in Principal \cup {None}
          /\ pc[w] = "db" /\ op[w] = "done" /\ status[task[w]] = "claimed" /\ claimedBy[task[w]] = who[w]
          /\ Commit(w, task[w], "done", claimedBy[task[w]], expires[task[w]])
        BY <1>0, <1>4 DEF DoneTask, HeldBy, HandlersKnown, TypeOK
    <2> QED
        BY <1>1, <2>1
<1>5. ASSUME NEW w \in Worker, ReleaseTask(w) PROVE ToldOnce' /\ Settled' /\ FinishedRow'
    <2>1. /\ task[w] \in Task
          /\ pc[w] = "db" /\ op[w] = "release" /\ status[task[w]] = "claimed"
          /\ Commit(w, task[w], "open", None, Null)
        BY <1>0, <1>5 DEF ReleaseTask, HeldBy, HandlersKnown, TypeOK
    <2> QED
        BY <1>0, <1>1, <2>1
<1>6. CASE \/ \E w \in Worker : \/ Refuse(w) \/ Announce(w)
                                \/ \E p \in Principal, o \in Ops, t \in Task \cup {None} : Begin(w, p, o, t)
           \/ Tick \/ Crash \/ UNCHANGED vars
    <2>1. UNCHANGED <<status, claimedBy, made>>
        BY <1>6 DEF Refuse, Announce, Begin, Tick, Crash, vars, rows, changes
    <2>2. FinishedRow'
        BY <2>1 DEF FinishedRow
    <2> QED
        BY <1>0, <1>6, <2>2, RestTold, RestSettled
<1> QED
    BY <1>2, <1>3, <1>4, <1>5, <1>6 DEF Next, Step

\* Every change of a row is told once, unless a crash comes between the row and the
\* event, and nothing is told that did not happen; the last event of a task shows its
\* row, unless its last change crossed another one (broadcast_task_event).
THEOREM ChangesAreTold == Spec => []ChangesTold
<1>1. ChangeInv => ChangesTold
    <2> SUFFICES ASSUME ChangeInv, NEW t \in Task \ crossed, InHand(t) = {}
                 PROVE  LET about == {i \in DOMAIN events : events[i].task = t}
                        IN  IF about = {} THEN status[t] = "absent"
                            ELSE \E i \in about : (\A j \in about : j <= i) /\ Shows(events[i])
        BY DEF ChangeInv, ChangesTold, LastTold
    <2>1. LastEventShows(t)
        BY DEF ChangeInv, Settled
    <2> QED
        BY <2>1 DEF LastEventShows, Untold, LastEvent
<1> QED
    BY <1>1, InitChangeInv, NextChangeInv, PTL DEF Spec

-----------------------------------------------------------------------------
(* A task is finished once *)

\* Finishes of one task are one change, and it was made once.
LEMMA FinishedOnce == ChangeInv => DoneOnce
<1> SUFFICES ASSUME ChangeInv, NEW t \in Task
             PROVE  LET finishes(e) == e.action = "done" /\ e.task = t
                        logged == {i \in DOMAIN events : finishes(events[i])}
                        coming == {w \in Announcing : finishes(Change(w))}
                        gone == {e \in Event : lost[e] > 0 /\ finishes(e)}
                    IN  /\ Cardinality(logged) + Cardinality(coming) + Cardinality(gone) <= 1
                        /\ \A i \in logged : events[i].actor = claimedBy[t]
                        /\ \A w \in coming : who[w] = claimedBy[t]
                        /\ \A e \in gone : lost[e] = 1 /\ e.actor = claimedBy[t]
    BY DEF DoneOnce
<1> DEFINE finishes(e) == e.action = "done" /\ e.task = t
           c == [action |-> "done", task |-> t, actor |-> claimedBy[t]]
           logged == {i \in DOMAIN events : finishes(events[i])}
           coming == {w \in Announcing : finishes(Change(w))}
           gone == {e \in Event : lost[e] > 0 /\ finishes(e)}
<1>0. /\ TypeInv /\ ToldOnce /\ FinishedRow /\ events \in Seq(Event)
      /\ made \in [Event -> Nat] /\ lost \in [Event -> Nat]
    BY DEF ChangeInv, LeaseInv, TypeInv, TypeOK
<1>1. ASSUME NEW e \in Event
      PROVE  /\ made[e] = Cardinality(LoggedAs(e)) + Cardinality(HeldAs(e)) + lost[e]
             /\ Cardinality(LoggedAs(e)) \in Nat /\ Cardinality(HeldAs(e)) \in Nat
             /\ lost[e] \in Nat /\ made[e] \in Nat
             /\ LoggedAs(e) # {} => Cardinality(LoggedAs(e)) > 0
             /\ HeldAs(e) # {} => Cardinality(HeldAs(e)) > 0
    BY <1>0, CountFacts DEF ToldOnce, LoggedAs, HeldAs
<1>2. ASSUME NEW e \in Event, finishes(e), LoggedAs(e) # {} \/ HeldAs(e) # {} \/ lost[e] > 0
      PROVE  e = c /\ made[e] = 1
    <2>1. made[e] > 0
        BY <1>1, <1>2
    <2> QED
        BY <1>0, <1>2, <2>1 DEF FinishedRow, Event
<1>3. ASSUME NEW i \in logged PROVE events[i] = c /\ c \in Event
    <2>1. events[i] \in Event /\ i \in LoggedAs(events[i])
        BY <1>0 DEF LoggedAs
    <2> QED
        BY <1>2, <2>1
<1>4. ASSUME NEW w \in coming PROVE Change(w) = c /\ c \in Event
    <2>1. Change(w) \in Event /\ w \in HeldAs(Change(w))
        BY <1>0, ChangeIsEvent DEF HeldAs
    <2> QED
        BY <1>2, <2>1
<1>5. ASSUME NEW e \in gone PROVE e = c /\ made[c] = 1
    BY <1>2
<1>6. finishes(c)
    OBVIOUS
<1>7. logged \subseteq LoggedAs(c) /\ coming \subseteq HeldAs(c) /\ gone \subseteq {c}
    BY <1>3, <1>4, <1>5 DEF LoggedAs, HeldAs
<1>8. Cardinality(logged) + Cardinality(coming) + Cardinality(gone) <= 1
    <2>1. CASE c \in Event /\ (LoggedAs(c) # {} \/ HeldAs(c) # {} \/ lost[c] > 0)
        <3>1. made[c] = 1
            BY <1>2, <1>6, <2>1
        <3>2. logged = LoggedAs(c) /\ coming = HeldAs(c)
            BY <1>6, <1>7 DEF LoggedAs, HeldAs
        <3>3. Cardinality(gone) <= lost[c] /\ Cardinality(gone) \in Nat
            <4>1. CASE gone = {}
                <5>1. Cardinality(gone) = 0
                    BY <4>1, FS_EmptySet
                <5> QED
                    BY <1>1, <2>1, <5>1
            <4>2. CASE gone # {}
                <5>1. gone = {c} /\ lost[c] > 0
                    BY <1>7, <4>2
                <5>2. Cardinality(gone) = 1
                    BY <5>1, FS_Singleton
                <5> QED
                    BY <1>1, <2>1, <5>1, <5>2
            <4> QED
                BY <4>1, <4>2
        <3> HIDE DEF logged, coming, gone
        <3> QED
            BY <1>1, <2>1, <3>1, <3>2, <3>3
    <2>2. CASE ~(c \in Event /\ (LoggedAs(c) # {} \/ HeldAs(c) # {} \/ lost[c] > 0))
        <3>1. logged = {} /\ coming = {} /\ gone = {}
            BY <1>3, <1>4, <1>5, <1>7, <2>2
        <3>2. Cardinality(logged) = 0 /\ Cardinality(coming) = 0 /\ Cardinality(gone) = 0
            BY <3>1, FS_EmptySet
        <3> HIDE DEF logged, coming, gone
        <3> QED
            BY <3>2
    <2> QED
        BY <2>1, <2>2
<1>9. ASSUME NEW e \in gone PROVE lost[e] = 1 /\ e.actor = claimedBy[t]
    BY <1>1, <1>5
<1>10. \A w \in coming : who[w] = claimedBy[t]
    BY <1>4 DEF Change
<1>11. \A i \in logged : events[i].actor = claimedBy[t]
    BY <1>3
<1> QED
    BY <1>8, <1>9, <1>10, <1>11

\* A task is finished once and by its claimant, however often DONE is sent, and
\* whichever handlers and crashes come in between.
THEOREM DoneAtMostOnce == Spec => []DoneOnce
BY InitChangeInv, NextChangeInv, FinishedOnce, PTL DEF Spec

=============================================================================
