------------------------------ MODULE MCPaging ------------------------------
(* Paging, instantiated for TLC. *)
EXTENDS Paging
=============================================================================
