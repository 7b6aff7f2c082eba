------------------------------- MODULE MCProc -------------------------------
(* Proc, instantiated for TLC. *)
EXTENDS Proc
=============================================================================
