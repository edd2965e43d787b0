----------------------------- MODULE MCTeamState -----------------------------
(* An instance of TeamState for TLC. *)
EXTENDS TeamState, TLC

CONSTANTS p1, p2, t1, t2, t3

\* t1 and t2 belong to one configuration, t3 to another; t1 and t3 overlap.
HomeOf(t) == IF t = t3 THEN p2 ELSE p1
ScopesOf(t) == CASE t = t1 -> {"a"} [] t = t2 -> {"b"} [] t = t3 -> {"a", "c"}
MCHome == [t \in Task |-> HomeOf(t)]
MCManifest == [t \in Task |-> ScopesOf(t)]

\* Executions are interchangeable.
Interchangeable == Permutations(Exec)
=============================================================================
