-------------------------------- MODULE Fifo --------------------------------
(***************************************************************************)
(* What a pipe promises: bytes come out in the order they went in, each    *)
(* once, at most N of them are under way, and those still there when the   *)
(* pipe is given up are lost.                                              *)
(***************************************************************************)
EXTENDS Naturals, Sequences

CONSTANTS Byte, N
VARIABLES queue,  \* the bytes under way
          last    \* the byte that was read last

Init == queue = <<>> /\ last \in Byte
Write(b) == Len(queue) < N /\ queue' = Append(queue, b) /\ UNCHANGED last
Read == queue # <<>> /\ last' = Head(queue) /\ queue' = Tail(queue)
Discard == queue' = <<>> /\ UNCHANGED last

Next == (\E b \in Byte : Write(b)) \/ Read \/ Discard
Spec == Init /\ [][Next]_<<queue, last>>
=============================================================================
