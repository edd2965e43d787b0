--------------------------- MODULE MCControlStore ---------------------------
(* An instance of ControlStore for TLC. *)
EXTENDS ControlStore, TLC
=============================================================================
