----------------------------- MODULE AtomicDisk -----------------------------
(***************************************************************************)
(* What the log promises the file system: the updates of operations become *)
(* durable all together, at a moment when no operation is in progress, and *)
(* a crash loses exactly what is not durable yet.  Log is shown to         *)
(* implement this module.                                                  *)
(***************************************************************************)
CONSTANTS Block, Value, Op

VARIABLES
  stable,    \* the contents a crash leaves
  current,   \* the contents the operations see
  active     \* the operations in progress

advars == <<stable, current, active>>

Init == stable \in [Block -> Value] /\ current = stable /\ active = {}

Begin(o) == o \notin active /\ active' = active \cup {o} /\ UNCHANGED <<stable, current>>
End(o) == o \in active /\ active' = active \ {o} /\ UNCHANGED <<stable, current>>

Write(b, v) ==
  /\ active # {}
  /\ current' = [current EXCEPT ![b] = v]
  /\ UNCHANGED <<stable, active>>

Commit == active = {} /\ stable' = current /\ UNCHANGED <<current, active>>

Crash == current' = stable /\ active' = {} /\ UNCHANGED stable

Next ==
  \/ \E o \in Op : Begin(o) \/ End(o)
  \/ \E b \in Block, v \in Value : Write(b, v)
  \/ Commit \/ Crash

Spec == Init /\ [][Next]_advars
=============================================================================
