----------------------------- MODULE MCFileData ----------------------------
(* FileData for TLC: two processes with a file each or one between them.   *)
EXTENDS FileData

CONSTANTS p1, p2

MCProc == {p1, p2}
MCMark == [p \in MCProc |-> IF p = p1 THEN 1 ELSE 2]
(* One struct file between them, two on one inode, two on two.             *)
MCOpens ==
  LET own == [p \in MCProc |-> IF p = p1 THEN 1 ELSE 2] IN
  {<<[f \in {1, 2} |-> f], [p \in MCProc |-> 1]>>,
   <<[f \in {1, 2} |-> 1], own>>, <<[f \in {1, 2} |-> f], own>>}
=============================================================================
