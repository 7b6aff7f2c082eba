------------------------------ MODULE Terminal -----------------------------
(* What the console promises its readers: characters come in lines, which  *)
(* can be edited until they end, and each character of an ended line is    *)
(* read once, in the order typed.  It holds Size characters at most.       *)
EXTENDS Integers, Sequences

CONSTANTS Char, LineEnd, Size
VARIABLES edit, ready

Init == edit = <<>> /\ ready = <<>>

Typed(c) ==
  LET line == Append(edit, c) IN
  /\ Len(ready) + Len(line) <= Size
  /\ IF c \in LineEnd \/ Len(ready) + Len(line) = Size
     THEN ready' = ready \o line /\ edit' = <<>>
     ELSE edit' = line /\ UNCHANGED ready

Erase == edit # <<>> /\ edit' = SubSeq(edit, 1, Len(edit) - 1) /\ UNCHANGED ready
KillLine == edit' = <<>> /\ UNCHANGED ready
Take == ready # <<>> /\ ready' = Tail(ready) /\ UNCHANGED edit

Next == (\E c \in Char : Typed(c)) \/ Erase \/ KillLine \/ Take
Spec == Init /\ [][Next]_<<edit, ready>>
=============================================================================
