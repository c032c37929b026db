------------------------------- MODULE Mailbox -------------------------------
(***************************************************************************)
(* What the inbox of aircd-daemon promises for each message: it is taken   *)
(* in once, waits, and is handed over for good (on stdin) or lent (to      *)
(* check_messages). What is lent comes back only after its time is up, and *)
(* only until it is acknowledged. What was handed over, acknowledged or    *)
(* dropped never comes back, and a message is dropped only for a newer one *)
(* and when Limit of them wait.                                            *)
(* AgentInbox implements this with two threads, three queues and a process *)
(* that may die at any time.                                               *)
(***************************************************************************)
EXTENDS Integers, FiniteSets

CONSTANTS Message, Limit

VARIABLE phase  \* of each message

In(state) == {m \in Message : phase[m] = state}
Move(S, state) == phase' = [m \in Message |-> IF m \in S THEN state ELSE phase[m]]

MailboxInit == phase = [m \in Message |-> "new"]

TakeIn(m) == phase[m] = "new" /\ Move({m}, "waiting")

\* The newest one takes the place of one that waits
Displace(m, old) ==
    /\ phase[m] = "new" /\ phase[old] = "waiting"
    /\ Cardinality(In("waiting")) >= Limit
    /\ phase' = [phase EXCEPT ![m] = "waiting", ![old] = "dropped"]

HandOver(S) == S \subseteq In("waiting") /\ Move(S, "done")

\* What is due may be lent again without waiting in between
Lend(S) == S \subseteq In("waiting") \cup In("due") /\ Move(S, "lent")

Return(S) == S \subseteq In("due") /\ Move(S, "waiting")

Acknowledge(m) == phase[m] \in {"lent", "due"} /\ Move({m}, "done")

\* Its time is up
FallDue(m) == phase[m] = "lent" /\ Move({m}, "due")

MailboxNext ==
    \/ \E m \in Message : TakeIn(m) \/ Acknowledge(m) \/ FallDue(m)
    \/ \E m, old \in Message : Displace(m, old)
    \/ \E S \in SUBSET Message : HandOver(S) \/ Lend(S) \/ Return(S)

MailboxSpec == MailboxInit /\ [][MailboxNext]_phase
=============================================================================
