---------------------------- MODULE MCDaemonLink ----------------------------
(* Small instances of DaemonLink for TLC. *)
EXTENDS DaemonLink, TLC

CONSTANTS m1, m2, o1

TwoMessages == {m1, m2}
OneMessage == {m1}
NoMessage == {}
OneOutbound == {o1}
NoOutbound == {}

=============================================================================
