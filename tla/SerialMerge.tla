----------------------------- MODULE SerialMerge -----------------------------
(***************************************************************************)
(* What the durable merge queue promises of main: executions enter the     *)
(* merge function one at a time, each lands there at most once, and what   *)
(* lands was verified on exactly the main it lands on.  Any of them may    *)
(* leave, or die, without landing.                                         *)
(***************************************************************************)
EXTENDS Naturals, Sequences

CONSTANT Exec
VARIABLES
    turn,   \* the executions in the merge function that have not landed
    main    \* what landed, with the length of the main it was verified on

Init == turn = {} /\ main = <<>>

Enter(e) == turn = {} /\ turn' = {e} /\ UNCHANGED main
Land(e) == /\ e \in turn /\ turn' = turn \ {e}
           /\ main' = Append(main, [by |-> e, gated |-> Len(main)])
Leave(e) == e \in turn /\ turn' = turn \ {e} /\ UNCHANGED main

Next == \E e \in Exec : Enter(e) \/ Land(e) \/ Leave(e)

Spec == Init /\ [][Next]_<<turn, main>>
=============================================================================
