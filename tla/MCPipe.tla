------------------------------- MODULE MCPipe -------------------------------
(* Pipe, instantiated for TLC. *)
EXTENDS Pipe
=============================================================================
