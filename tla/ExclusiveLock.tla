---------------------------- MODULE ExclusiveLock ----------------------------
(***************************************************************************)
(* What lock.ts promises: at most one process holds the lock, and a holder *)
(* stops holding it by releasing it or by dying.                           *)
(***************************************************************************)
CONSTANT Proc
VARIABLE holders   \* the live processes that hold the lock

Init == holders = {}

Take(p) == holders = {} /\ holders' = {p}
Give(p) == p \in holders /\ holders' = holders \ {p}

Next == \E p \in Proc : Take(p) \/ Give(p)

Spec == Init /\ [][Next]_holders
=============================================================================
