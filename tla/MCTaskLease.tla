---------------------------- MODULE MCTaskLease -----------------------------
(* Small instances of TaskLease for TLC. *)
EXTENDS TaskLease, TLC

CONSTANTS a, b, t1, w1, w2, w3

MCPrincipal == {a, b}
OneTask == {t1}
ThreeWorkers == {w1, w2, w3}

Symmetry == Permutations(Principal) \cup Permutations(Task) \cup Permutations(Worker)

=============================================================================
