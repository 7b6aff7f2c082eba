------------------------------ MODULE BlockStore ------------------------------
(***************************************************************************)
(* What the buffer cache promises: one copy of every block, which one      *)
(* process at a time has and may change; and a process that gets a block   *)
(* finds what was put there last.                                          *)
(***************************************************************************)
CONSTANTS Block, Data, Proc, Nobody
VARIABLES value,   \* the contents of each block
          holder   \* the process that has it

Init == value \in [Block -> Data] /\ holder = [b \in Block |-> Nobody]

Get(p, b) == holder[b] = Nobody /\ holder' = [holder EXCEPT ![b] = p] /\ UNCHANGED value
Put(p, b, v) == holder[b] = p /\ value' = [value EXCEPT ![b] = v] /\ UNCHANGED holder
Release(p, b) == holder[b] = p /\ holder' = [holder EXCEPT ![b] = Nobody] /\ UNCHANGED value

Next == \E p \in Proc, b \in Block :
          Get(p, b) \/ Release(p, b) \/ \E v \in Data : Put(p, b, v)
Spec == Init /\ [][Next]_<<value, holder>>
=============================================================================
