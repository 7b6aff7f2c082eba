----------------------------- MODULE ByteFiles -----------------------------
(* What the file layer promises: every file is a sequence of bytes.  Bytes *)
(* are written in place or at the end, and a file goes as a whole.         *)
EXTENDS Integers, Sequences

CONSTANTS
  Inode, Byte,
  N            \* bytes that change in one step
VARIABLE content

(* s with the bytes of piece from position off on.                         *)
Overwritten(s, off, piece) ==
  [k \in 1 .. IF off + Len(piece) > Len(s) THEN off + Len(piece) ELSE Len(s) |->
     IF k \in off + 1 .. off + Len(piece) THEN piece[k - off] ELSE s[k]]

Init == \A i \in Inode : content[i] \in Seq(Byte)

(* One block's worth of a write, by one process.                           *)
Write(i) ==
  \E off \in 0 .. Len(content[i]), n \in 1 .. N, b \in Byte :
    content' = [content EXCEPT ![i] = Overwritten(@, off, [k \in 1 .. n |-> b])]

Remove(i) == content' = [content EXCEPT ![i] = <<>>]

Next == \E i \in Inode : Write(i) \/ Remove(i)
Spec == Init /\ [][Next]_content
=============================================================================
