------------------------------ MODULE MCBcache ------------------------------
(* Bcache, instantiated for TLC. *)
EXTENDS Bcache
=============================================================================
