------------------------------ MODULE TaskLock ------------------------------
(***************************************************************************)
(* What the task board of aircd promises: a task is created once, held by  *)
(* one principal at a time, passes to another one only by release or after *)
(* its lease has lapsed, and is finished at most once, by its holder.      *)
(* TaskLease implements this with rows, timestamps and racing handlers.    *)
(***************************************************************************)
CONSTANTS Principal, Task, None

VARIABLES phase,    \* of each task
          holder,   \* who claimed it last, None while it is open
          live      \* its lease has not lapsed
lockVars == <<phase, holder, live>>

LockInit == /\ phase = [t \in Task |-> "absent"]
            /\ holder = [t \in Task |-> None]
            /\ live = [t \in Task |-> FALSE]

Create(t) ==
    /\ phase[t] = "absent"
    /\ phase' = [phase EXCEPT ![t] = "open"]
    /\ UNCHANGED <<holder, live>>

\* A lease may be born lapsed: its start is read before the lock is taken
Grant(t, p) ==
    /\ phase' = [phase EXCEPT ![t] = "claimed"]
    /\ holder' = [holder EXCEPT ![t] = p]
    /\ \E b \in BOOLEAN : live' = [live EXCEPT ![t] = b]

Acquire(t, p)  == phase[t] = "open" /\ Grant(t, p)
TakeOver(t, p) == phase[t] = "claimed" /\ ~live[t] /\ Grant(t, p)

\* The holder keeps the right to release and to finish until somebody takes over
Release(t, p) ==
    /\ phase[t] = "claimed" /\ holder[t] = p
    /\ phase' = [phase EXCEPT ![t] = "open"]
    /\ holder' = [holder EXCEPT ![t] = None]
    /\ live' = [live EXCEPT ![t] = FALSE]

Finish(t, p) ==
    /\ phase[t] = "claimed" /\ holder[t] = p
    /\ phase' = [phase EXCEPT ![t] = "done"]
    /\ UNCHANGED <<holder, live>>

\* Time passes: any leases lapse, none revives
Lapse ==
    /\ live' \in [Task -> BOOLEAN]
    /\ \A t \in Task : live'[t] => live[t]
    /\ UNCHANGED <<phase, holder>>

LockNext ==
    \/ \E t \in Task : Create(t)
    \/ \E t \in Task, p \in Principal :
          Acquire(t, p) \/ TakeOver(t, p) \/ Release(t, p) \/ Finish(t, p)
    \/ Lapse

LockSpec == LockInit /\ [][LockNext]_lockVars
=============================================================================
