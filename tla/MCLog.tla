------------------------------- MODULE MCLog --------------------------------
(* Log, instantiated for TLC. *)
EXTENDS Log
=============================================================================
