-------------------------------- MODULE Pipe --------------------------------
(***************************************************************************)
(* A pipe (pipe.c) with the open files (file.c) and the file descriptors   *)
(* (sysfile.c, fork and exit of proc.c) that lead to it.  There is memory  *)
(* for one pipe at a time; once it is gone another can be made.            *)
(*                                                                         *)
(* pipe.lock is explicit: it is held over several steps of a reader or     *)
(* writer.  A critical section of ftable.lock is one step.  kill takes     *)
(* neither lock, so it can come between any two steps.                     *)
(***************************************************************************)
EXTENDS Integers, FiniteSets, FiniteSetsExt

CONSTANTS
  Proc, Proc0,  \* processes, and the one there is at first
  Nobody,
  NFile,        \* NFILE
  NOFile,       \* NOFILE
  PipeSize,     \* PIPESIZE
  Width,        \* width of nread and nwrite (32 in the code)
  Byte,
  MaxN          \* bound: the most bytes of one read or write

ASSUME PipeAssumption ==
  /\ Proc0 \in Proc /\ Nobody \notin Proc /\ NFile \in Nat \ {0} /\ NOFile \in Nat \ {0}
  /\ PipeSize \in Nat \ {0} /\ Width \in Nat \ {0} /\ MaxN \in Nat
  /\ 2 ^ Width \in Nat /\ 2 ^ Width % PipeSize = 0 /\ 2 ^ Width > PipeSize
  /\ Byte # {}

File == 1 .. NFile
FD == 1 .. NOFile
None == 0        \* no file
End == {"r", "w"}

VARIABLES
  ref, type,          \* struct file: a count, and an end of the pipe or "none"
  ofile,              \* proc.ofile
  killed,
  pc, todo,           \* progress of the system call; bytes it has still to move
  live,               \* whether the pipe is allocated
  open,               \* readopen and writeopen, by end
  nread, nwrite, data,
  lock,               \* holder of pipe.lock
  last                \* the byte a reader got last

table == <<ref, type, ofile>>
pipe == <<live, open, nread, nwrite, data>>
vars == <<ref, type, ofile, killed, pc, todo,
          live, open, nread, nwrite, data, lock, last>>

(* The counters wrap around; and counters whose range PIPESIZE does not    *)
(* divide.                                                                 *)
PlusShort(n, k) == (n + k) % (2 ^ Width - 1)
Plus(n, k) == (n + k) % 2 ^ Width

Init ==
  /\ ref = [f \in File |-> 0] /\ type = [f \in File |-> "none"]
  /\ ofile = [p \in Proc |-> [d \in FD |-> None]]
  /\ killed = [p \in Proc |-> FALSE]
  /\ pc = [p \in Proc |-> IF p = Proc0 THEN "user" ELSE "unused"]
  /\ todo = [p \in Proc |-> 0]
  /\ live = FALSE /\ open = [e \in End |-> FALSE]
  /\ nread = 0 /\ nwrite = 0
  /\ last \in Byte /\ data = [i \in 0 .. PipeSize - 1 |-> last]
  /\ lock = Nobody

-----------------------------------------------------------------------------
Goto(p, l) == pc' = [pc EXCEPT ![p] = l]
Calling(p) == pc[p] = "user" /\ ~killed[p]
Closing(e) == IF e = "r" THEN "rclose" ELSE "wclose"
Holds(p, e) == \E d \in FD : ofile[p][d] # None /\ type[ofile[p][d]] = e

(* wakeup(&p->nread) and wakeup(&p->nwrite): the sleepers must take the    *)
(* lock again.                                                             *)
WakeupRead(pcs) == [p \in Proc |-> IF pcs[p] = "rasleep" THEN "rwoken" ELSE pcs[p]]
WakeupWrite(pcs) == [p \in Proc |-> IF pcs[p] = "wasleep" THEN "wwoken" ELSE pcs[p]]

(* The file filealloc takes when the counts are r, and the descriptor      *)
(* fdalloc takes of a table o.                                             *)
filealloc(r) == Min({f \in File : r[f] = 0})
fdalloc(o) == Min({d \in FD : o[d] = None})

(* pipealloc, to the files f0 and f1.                                      *)
pipealloc(f0, f1) ==
  /\ ref' = [ref EXCEPT ![f0] = 1, ![f1] = 1]
  /\ type' = [type EXCEPT ![f0] = "r", ![f1] = "w"]
  /\ live' = TRUE /\ open' = [e \in End |-> TRUE] /\ nread' = 0 /\ nwrite' = 0

(* sys_pipe: two files, a frame and two descriptors.  If one of them is    *)
(* not to be had the others are given back and nothing is changed.         *)
sys_pipe(p) ==
  LET f0 == filealloc(ref)
      f1 == filealloc([ref EXCEPT ![f0] = 1])
      d0 == fdalloc(ofile[p])
      d1 == fdalloc([ofile[p] EXCEPT ![d0] = f0])
  IN
  /\ Calling(p) /\ ~live
  /\ Cardinality({f \in File : ref[f] = 0}) >= 2
  /\ Cardinality({d \in FD : ofile[p][d] = None}) >= 2
  /\ pipealloc(f0, f1)
  /\ ofile' = [ofile EXCEPT ![p][d0] = f0, ![p][d1] = f1]
  /\ UNCHANGED <<killed, pc, todo, data, lock, last>>

(* sys_dup: fdalloc, filedup *)
sys_dup(p, d) ==
  /\ Calling(p) /\ ofile[p][d] # None /\ \E e \in FD : ofile[p][e] = None
  /\ ofile' = [ofile EXCEPT ![p][fdalloc(ofile[p])] = ofile[p][d]]
  /\ ref' = [ref EXCEPT ![ofile[p][d]] = @ + 1]
  /\ UNCHANGED <<type, killed, pc, todo, pipe, lock, last>>

(* fork: the child holds what the parent holds; and one that does not      *)
(* count it.                                                               *)
Uncounted(p) == ref
Duplicated(p) == [f \in File |-> ref[f] + Cardinality({d \in FD : ofile[p][d] = f})]

Fork(p, q) ==
  /\ Calling(p) /\ pc[q] = "unused"
  /\ Goto(q, "user")
  /\ ofile' = [ofile EXCEPT ![q] = ofile[p]]
  /\ ref' = Duplicated(p)
  /\ UNCHANGED <<type, killed, todo, pipe, lock, last>>

-----------------------------------------------------------------------------
(* sys_close, and the loop of exit.  fileclose: the last reference frees   *)
(* the file, and then closes the end of the pipe.                          *)
fileclose(p, d) ==
  LET f == ofile[p][d] IN
  /\ pc[p] = "user" /\ f # None
  /\ ofile' = [ofile EXCEPT ![p][d] = None]
  /\ ref' = [ref EXCEPT ![f] = @ - 1]
  /\ IF ref[f] > 1 THEN UNCHANGED <<type, pc>>
     ELSE type' = [type EXCEPT ![f] = "none"] /\ Goto(p, Closing(type[f]))
  /\ UNCHANGED <<killed, todo, pipe, lock, last>>

(* pipeclose wakes the other side.  It frees the pipe when both ends are   *)
(* closed; or, wrongly, when its own is.                                   *)
FreedEarly(o) == TRUE
Freed(o) == \A e \in End : ~o[e]

NotTold(pcs, e) == pcs
Told(pcs, e) == IF e = "w" THEN WakeupRead(pcs) ELSE WakeupWrite(pcs)

pipeclose(p, e) ==
  /\ pc[p] = Closing(e) /\ lock = Nobody
  /\ open' = [open EXCEPT ![e] = FALSE]
  /\ pc' = [Told(pc, e) EXCEPT ![p] = "user"]
  /\ live' = ~Freed(open')
  /\ UNCHANGED <<table, killed, todo, nread, nwrite, data, lock, last>>

-----------------------------------------------------------------------------
Full == nwrite = Plus(nread, PipeSize)
Empty == nread = nwrite

(* i < n *)
More(p) == todo[p] > 0

Acquire(p, l) == lock = Nobody /\ lock' = p /\ Goto(p, l)

(* A woken sleeper takes the lock again. *)
Reacquire(p) ==
  /\ pc[p] \in {"rwoken", "wwoken"}
  /\ Acquire(p, IF pc[p] = "rwoken" THEN "read" ELSE "write")
  /\ UNCHANGED <<table, killed, todo, pipe, last>>

(* sleep: the lock is released once a wakeup can be seen. *)
Sleep(p) ==
  /\ pc[p] \in {"rsleep", "wsleep"}
  /\ lock' = Nobody /\ Goto(p, IF pc[p] = "rsleep" THEN "rasleep" ELSE "wasleep")
  /\ UNCHANGED <<table, killed, todo, pipe, last>>

-----------------------------------------------------------------------------
(* pipewrite *)
pipewrite(p, n) ==
  /\ Calling(p) /\ Holds(p, "w") /\ Acquire(p, "write")
  /\ todo' = [todo EXCEPT ![p] = n]
  /\ UNCHANGED <<table, killed, pipe, last>>

WriteByte(p, b) ==
  /\ pc[p] = "write" /\ More(p) /\ ~Full
  /\ data' = [data EXCEPT ![nwrite % PipeSize] = b]
  /\ nwrite' = Plus(nwrite, 1)
  /\ todo' = [todo EXCEPT ![p] = @ - 1]
  /\ UNCHANGED <<table, killed, pc, live, open, nread, lock, last>>

(* The pipe is full: wake the readers and sleep, or give up. *)
WriteFull(p) ==
  /\ pc[p] = "write" /\ More(p) /\ Full
  /\ IF ~open["r"] \/ killed[p]
     THEN lock' = Nobody /\ Goto(p, "user") /\ todo' = [todo EXCEPT ![p] = 0]
     ELSE /\ pc' = [WakeupRead(pc) EXCEPT ![p] = "wsleep"]
          /\ UNCHANGED <<lock, todo>>
  /\ UNCHANGED <<table, killed, pipe, last>>

WriteDone(p) ==
  /\ pc[p] = "write" /\ ~More(p)
  /\ lock' = Nobody /\ pc' = [WakeupRead(pc) EXCEPT ![p] = "user"]
  /\ UNCHANGED <<table, killed, todo, pipe, last>>

-----------------------------------------------------------------------------
(* piperead *)
piperead(p, n) ==
  /\ Calling(p) /\ Holds(p, "r") /\ Acquire(p, "read")
  /\ todo' = [todo EXCEPT ![p] = n]
  /\ UNCHANGED <<table, killed, pipe, last>>

(* A reader waits while the pipe is empty and may still be written to.     *)
MustWait == Empty /\ open["w"]

ReadWait(p) ==
  /\ pc[p] = "read"
  /\ IF ~MustWait THEN Goto(p, "rcopy") /\ UNCHANGED <<lock, todo>>
     ELSE IF killed[p]
     THEN lock' = Nobody /\ Goto(p, "user") /\ todo' = [todo EXCEPT ![p] = 0]
     ELSE Goto(p, "rsleep") /\ UNCHANGED <<lock, todo>>
  /\ UNCHANGED <<table, killed, pipe, last>>

ReadByte(p) ==
  /\ pc[p] = "rcopy" /\ More(p) /\ ~Empty
  /\ last' = data[nread % PipeSize]
  /\ nread' = Plus(nread, 1)
  /\ todo' = [todo EXCEPT ![p] = @ - 1]
  /\ UNCHANGED <<table, killed, pc, live, open, nwrite, data, lock>>

WritersNotWoken(pcs) == pcs
WritersWoken(pcs) == WakeupWrite(pcs)

ReadDone(p) ==
  /\ pc[p] = "rcopy" /\ (~More(p) \/ Empty)
  /\ lock' = Nobody /\ todo' = [todo EXCEPT ![p] = 0]
  /\ pc' = [WritersWoken(pc) EXCEPT ![p] = "user"]
  /\ UNCHANGED <<table, killed, pipe, last>>

-----------------------------------------------------------------------------
(* kill: a sleeper becomes runnable and finds out when it has the lock.    *)
Kill(p) ==
  /\ pc[p] # "unused" /\ ~killed[p] /\ p # Proc0
  /\ killed' = [killed EXCEPT ![p] = TRUE]
  /\ pc' = [pc EXCEPT ![p] = CASE @ = "rasleep" -> "rwoken" [] @ = "wasleep" -> "wwoken"
                               [] OTHER -> @]
  /\ UNCHANGED <<table, todo, pipe, lock, last>>

(* exit: when everything is closed the process is gone.                    *)
Exit(p) ==
  /\ pc[p] = "user" /\ p # Proc0 /\ \A d \in FD : ofile[p][d] = None
  /\ killed' = [killed EXCEPT ![p] = FALSE] /\ Goto(p, "unused")
  /\ UNCHANGED <<table, todo, pipe, lock, last>>

-----------------------------------------------------------------------------
(* What the kernel does for p once it has been called. *)
Kernel(p) ==
  \/ \E e \in End : pipeclose(p, e)
  \/ Reacquire(p) \/ Sleep(p)
  \/ (\E b \in Byte : WriteByte(p, b)) \/ WriteFull(p) \/ WriteDone(p)
  \/ ReadWait(p) \/ ReadByte(p) \/ ReadDone(p)

Program(p) ==
  \/ sys_pipe(p) \/ Exit(p)
  \/ \E d \in FD : sys_dup(p, d) \/ fileclose(p, d)
  \/ \E q \in Proc : Fork(p, q)
  \/ \E n \in 1 .. MaxN : pipewrite(p, n) \/ piperead(p, n)

Next == \E p \in Proc : Kernel(p) \/ Program(p) \/ Kill(p)

(* A process in the kernel that can again and again go on does.  Nothing   *)
(* is assumed of the programs.                                             *)
Spec == Init /\ [][Next]_vars /\ \A p \in Proc : SF_vars(Kernel(p))

-----------------------------------------------------------------------------
TypeOK ==
  /\ ref \in [File -> Nat] /\ type \in [File -> End \cup {"none"}]
  /\ ofile \in [Proc -> [FD -> File \cup {None}]]
  /\ killed \in [Proc -> BOOLEAN]
  /\ pc \in [Proc -> {"unused", "user", "rclose", "wclose", "write", "wsleep", "wasleep", "wwoken",
                      "read", "rsleep", "rasleep", "rwoken", "rcopy"}]
  /\ todo \in [Proc -> 0 .. MaxN]
  /\ live \in BOOLEAN /\ open \in [End -> BOOLEAN]
  /\ nread \in 0 .. 2 ^ Width - 1 /\ nwrite \in 0 .. 2 ^ Width - 1
  /\ data \in [0 .. PipeSize - 1 -> Byte] /\ last \in Byte
  /\ lock \in Proc \cup {Nobody}

Reading(p) == pc[p] \in {"read", "rsleep", "rasleep", "rwoken", "rcopy"}
Writing(p) == pc[p] \in {"write", "wsleep", "wasleep", "wwoken"}

(* filedup and fileclose count exactly the descriptors that lead to a file.*)
RefExact ==
  \A f \in File :
    ref[f] = Cardinality({x \in Proc \X FD : ofile[x[1]][x[2]] = f})

(* The frame of a pipe is freed by pipeclose when nobody can come to it    *)
(* any more: who is in pipe.c has a live pipe, and its end is open.        *)
NoUseAfterFree ==
  /\ \A p \in Proc : /\ Reading(p) \/ pc[p] = "rclose" => live /\ open["r"]
                     /\ Writing(p) \/ pc[p] = "wclose" => live /\ open["w"]
  /\ \A f \in File : type[f] # "none" => live /\ open[type[f]]

(* The file table and the pipe agree at every step of dup, close, fork and *)
(* exit.                                                                   *)
FilesSound == TypeOK /\ RefExact /\ NoUseAfterFree

(* While the lock is free, a sleeping reader has a writer that may yet     *)
(* come; a sleeping writer has no room, and a reader that may yet come.    *)
NoLostWakeup ==
  lock = Nobody => \A p \in Proc : /\ pc[p] = "rasleep" => open["w"]
                                   /\ pc[p] = "wasleep" => Full /\ open["r"]

(* The pipe is a queue of bytes.  The counters run freely and wrap around. *)
InPipe == IF live THEN (nwrite - nread) % 2 ^ Width ELSE 0
Queue == INSTANCE Fifo WITH
  N <- PipeSize,
  queue <- [i \in 1 .. InPipe |-> data[Plus(nread, i - 1) % PipeSize]]
PipeIsFifo == Queue!Spec

(* When the last writer has closed, every reader comes back, with what is  *)
(* left or the end of the file; when the last reader has closed, every     *)
(* writer does.                                                            *)
OtherEndClosed ==
  \A p \in Proc :
    (Reading(p) /\ ~open["w"]) \/ (Writing(p) /\ ~open["r"]) ~> ~(Reading(p) \/ Writing(p))
=============================================================================
