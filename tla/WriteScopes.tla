----------------------------- MODULE WriteScopes -----------------------------
(***************************************************************************)
(* What the coordination ledger promises to everybody who edits one         *)
(* repository, without leases, queues or processes: an execution owns the   *)
(* scopes of its task from its admission until it gives them back, or for   *)
(* ever once its fate is unknown; owners never overlap; and only owners     *)
(* land work on main.                                                       *)
(***************************************************************************)
EXTENDS Sequences

CONSTANTS Exec, Manifest

VARIABLES
    owner,   \* "free", "held", "kept" (its fate is unknown) or "gone"
    work,    \* the task of an execution, of meaning once it is not free
    log      \* the executions that landed, in order

Owned == {e \in Exec : owner[e] \in {"held", "kept"}}

Apart(t, u) == Manifest[t] \cap Manifest[u] = {}

Init ==
    /\ owner = [e \in Exec |-> "free"]
    /\ log = <<>>

\* The executions of K are given up for lost; they keep their scopes.
After(K) == [e \in Exec |-> IF e \in K THEN "kept" ELSE owner[e]]

Keep(K) == owner' = After(K) /\ UNCHANGED log

Admit(e, K) ==
    /\ owner[e] = "free"
    /\ owner' = [After(K) EXCEPT ![e] = "held"]
    /\ \A f \in Owned : Apart(work[e], work[f])
    /\ UNCHANGED log

Give(e) ==
    /\ owner[e] = "held"
    /\ owner' = [owner EXCEPT ![e] = "gone"]
    /\ UNCHANGED log

Land(e) ==
    /\ e \in Owned
    /\ log' = Append(log, e)
    /\ UNCHANGED owner

Next ==
    /\ \A e \in Exec : owner[e] # "free" => work'[e] = work[e]
    /\ \/ \E K \in SUBSET Owned : Keep(K) \/ \E e \in Exec : Admit(e, K)
       \/ \E e \in Exec : Give(e) \/ Land(e)

Spec == Init /\ [][Next]_<<owner, work, log>>
=============================================================================
