---------------------------- MODULE MCAgentInbox ----------------------------
(* A small instance of AgentInbox for TLC. *)
EXTENDS AgentInbox

CONSTANTS m1, m2, p1, p2

TwoMessages == {m1, m2}
TwoClaudes == {p1, p2}

=============================================================================
