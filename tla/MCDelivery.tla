----------------------------- MODULE MCDelivery -----------------------------
(* Small instances of Delivery for TLC. *)
EXTENDS Delivery, TLC

CONSTANTS a, b, s1, s2, c1

MCPrincipal == {a, b}
TwoSessions == {s1, s2}
OneChannel == {c1}

BothInC1 == {<<a, c1>>, <<b, c1>>}

\* Sessions are interchangeable, and so are the principals, who have the same rows
FullSymmetry == Permutations(Session) \cup Permutations(Principal)

=============================================================================
