----------------------------- MODULE UserMemory -----------------------------
(***************************************************************************)
(* What the kernel promises a program about its memory: a page holds what  *)
(* was last stored in it, new pages are zero, and nothing else changes.    *)
(* There is no swapping here; Paging is shown to implement this module.    *)
(***************************************************************************)
EXTENDS Integers

CONSTANTS Page, Data, Zero

VARIABLES
  size,   \* pages of the process; 0 while exec replaces the image
  mem     \* contents of the pages below size, Zero above

umvars == <<size, mem>>

Contents == Data \cup {Zero}

Init ==
  /\ size \in Nat \ {0}
  /\ mem \in [Page -> Contents]
  /\ \A a \in Page : a >= size => mem[a] = Zero

Store(d) ==
  /\ UNCHANGED size
  /\ mem' \in {[mem EXCEPT ![a] = d] : a \in 0 .. size - 1}

(* sbrk with a positive argument: the new pages read as zero. *)
Grow == size # 0 /\ size' > size /\ UNCHANGED mem

(* sbrk with a negative argument: the pages given up are gone. *)
Shrink ==
  /\ 0 < size' /\ size' < size
  /\ mem' = [a \in Page |-> IF a < size' THEN mem[a] ELSE Zero]

(* exec gives the old image up and then loads a new one. *)
DropImage == size' = 0 /\ mem' = [a \in Page |-> Zero]
LoadImage ==
  /\ size = 0 /\ size' # 0
  /\ mem' \in [Page -> Contents]
  /\ \A a \in Page : a >= size' => mem'[a] = Zero

Next ==
  \/ Grow \/ Shrink \/ DropImage \/ LoadImage
  \/ \E d \in Data : Store(d)

Spec == Init /\ [][Next]_umvars
=============================================================================
