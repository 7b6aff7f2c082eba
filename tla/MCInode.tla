------------------------------ MODULE MCInode ------------------------------
(* Inode for TLC: two processes, two names, and as many cache entries as   *)
(* inodes.                                                                 *)
EXTENDS Inode

CONSTANTS p1, p2, a, b

MCProc == {p1, p2}
MCName == {a, b}
MCSwapName == [p \in MCProc |-> IF p = p1 THEN a ELSE b]
=============================================================================
