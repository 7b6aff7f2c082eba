-------------------------------- MODULE Log ---------------------------------
(***************************************************************************)
(* The write-ahead log of the file system (log.c): operations that run     *)
(* concurrently, the commit that the last of them makes, crashes at any    *)
(* moment, and recovery.                                                   *)
(*                                                                         *)
(* A disk write (bwrite) is synchronous and atomic, so a commit is a       *)
(* sequence of single block writes with a possible crash between any two.  *)
(* What is done under log.lock is one step.  log_write is two: it looks at *)
(* the size of the log before it takes the lock.                           *)
(***************************************************************************)
EXTENDS Integers, FiniteSets, SequencesExt

CONSTANTS
  Proc, Block, Value,
  MaxOp,      \* MAXOPBLOCKS, blocks one operation may write
  LogSize,    \* LOGSIZE
  NLog,       \* sb.nlog, blocks of the log on disk, its header included
  Nest,       \* begin_op calls one process may have open (exec opens two)
  MayCrash,   \* whether the machine may stop at any moment
  NoBlock

ASSUME LogAssumption ==
  /\ MaxOp \in Nat \ {0} /\ LogSize \in Nat /\ NLog \in Nat \ {0} /\ Nest \in Nat \ {0}
  /\ IsFiniteSet(Proc) /\ NoBlock \notin Block

VARIABLES
  outstanding, committing, lh,   \* struct log; lh is the list of block numbers
  cache,                         \* contents of the blocks as bread returns them
  disk, head, logd,              \* on disk: home blocks, log header, log blocks
  st,                            \* what each process is doing
  depth,                         \* operations each process has open
  held,                          \* the buffer it has modified and not yet logged
  wrote,                         \* the blocks its operation has written
  mode,                          \* "run", "recover" after a crash, "panic", "overrun"
  phase, tail                    \* progress of commit, or of recovery

memory == <<outstanding, committing, lh, cache, st, depth, held, wrote>>
vars == <<outstanding, committing, lh, cache, disk, head, logd,
          st, depth, held, wrote, mode, phase, tail>>

(* The data blocks of the log on disk. *)
LogIndex == 1 .. NLog - 1

(* The buffers of the log writes that are under way: each is locked.       *)
Held == {held[p] : p \in Proc} \ {NoBlock}
(* The open operations: the k-th of process p.                             *)
OpenOps == {o \in Proc \X (1 .. Nest) : o[2] <= depth[o[1]]}

(* The home blocks once a log with this header is installed.               *)
Installed(d, h, l) ==
  [b \in Block |-> IF \E i \in DOMAIN h : h[i] = b
                   THEN l[CHOOSE i \in DOMAIN h : h[i] = b] ELSE d[b]]

Wakeup(s) == [p \in Proc |-> IF s[p] = "sleep" THEN "try" ELSE s[p]]

Init ==
  /\ outstanding = 0 /\ committing = FALSE /\ lh = <<>>
  /\ disk \in [Block -> Value] /\ cache = disk
  /\ head = <<>> /\ logd \in [LogIndex -> Value]
  /\ st = [p \in Proc |-> "out"] /\ depth = [p \in Proc |-> 0]
  /\ held = [p \in Proc |-> NoBlock] /\ wrote = [p \in Proc |-> {}]
  /\ mode = "run" /\ phase = "none" /\ tail = 0

-----------------------------------------------------------------------------
(* begin_op.  The condition under which it must wait; and faulty ones that *)
(* forget about the commit, or do not reserve for the new operation.       *)
MustWaitBlind == Len(lh) + (outstanding + 1) * MaxOp > LogSize
MustWaitLess == committing \/ Len(lh) + outstanding * MaxOp > LogSize
MustWait == committing \/ Len(lh) + (outstanding + 1) * MaxOp > LogSize

begin_op(p) ==
  /\ mode = "run" /\ st[p] \in {"out", "try", "in"}
  /\ depth[p] < Nest
  /\ IF MustWait
     THEN st' = [st EXCEPT ![p] = "sleep"] /\ UNCHANGED <<outstanding, depth, wrote>>
     ELSE /\ outstanding' = outstanding + 1
          /\ depth' = [depth EXCEPT ![p] = @ + 1]
          /\ wrote' = [wrote EXCEPT ![p] = IF depth[p] = 0 THEN {} ELSE @]
          /\ st' = [st EXCEPT ![p] = "in"]
  /\ UNCHANGED <<committing, lh, cache, disk, head, logd, held, mode, phase, tail>>

(* An operation modifies a buffer that it has locked and calls log_write,  *)
(* which first compares the size of the log with its limits.  Bound: an    *)
(* operation modifies a block once.                                        *)
LogFull == Len(lh) >= LogSize \/ Len(lh) >= NLog - 1

Modify(p, b, v) ==
  /\ mode = "run" /\ st[p] = "in"
  /\ b \notin Held /\ b \notin wrote[p] /\ Cardinality(wrote[p]) < MaxOp
  /\ cache' = [cache EXCEPT ![b] = v]
  /\ IF LogFull THEN mode' = "panic" /\ UNCHANGED <<st, held, wrote>>
     ELSE /\ st' = [st EXCEPT ![p] = "log"]
          /\ held' = [held EXCEPT ![p] = b]
          /\ wrote' = [wrote EXCEPT ![p] = @ \cup {b}]
          /\ UNCHANGED mode
  /\ UNCHANGED <<outstanding, committing, lh, disk, head, logd, depth, phase, tail>>

(* ... and then, under the lock, adds the block unless it is there already.*)
Absorbed(b) == IF b \in ToSet(lh) THEN lh ELSE Append(lh, b)

log_write(p) ==
  /\ mode = "run" /\ st[p] = "log"
  /\ lh' = Absorbed(held[p])
  /\ held' = [held EXCEPT ![p] = NoBlock]
  /\ st' = [st EXCEPT ![p] = "in"]
  /\ UNCHANGED <<outstanding, committing, cache, disk, head, logd,
                 depth, wrote, mode, phase, tail>>

-----------------------------------------------------------------------------
(* end_op: the last operation commits; the others wake those who wait.     *)
EndPanics == committing

end_op(p) ==
  /\ mode = "run" /\ st[p] = "in"
  /\ outstanding' = outstanding - 1
  /\ depth' = [depth EXCEPT ![p] = @ - 1]
  /\ LET next == IF depth[p] = 1 THEN "out" ELSE "in" IN
     IF EndPanics
     THEN mode' = "panic" /\ UNCHANGED <<committing, st, phase, tail>>
     ELSE IF outstanding = 1
     THEN /\ committing' = TRUE
          /\ st' = [st EXCEPT ![p] = "commit"]
          /\ phase' = IF lh = <<>> THEN "done" ELSE "write_log"
          /\ tail' = 0 /\ UNCHANGED mode
     ELSE /\ st' = Wakeup([st EXCEPT ![p] = next])
          /\ UNCHANGED <<committing, phase, tail, mode>>
  /\ UNCHANGED <<lh, cache, disk, head, logd, held, wrote>>

-----------------------------------------------------------------------------
(* commit, one disk write at a time.  A list longer than the log on disk   *)
(* would be written over the blocks that follow it; the model stops there. *)
write_log ==
  /\ mode = "run" /\ phase = "write_log" /\ tail < Len(lh)
  /\ IF tail + 1 \in LogIndex
     THEN /\ logd' = [logd EXCEPT ![tail + 1] = cache[lh[tail + 1]]]
          /\ tail' = tail + 1 /\ UNCHANGED mode
     ELSE mode' = "overrun" /\ UNCHANGED <<logd, tail>>
  /\ UNCHANGED <<memory, disk, head, phase>>

(* When the log blocks are on disk, the header is written: the commit.     *)
HeadEarly == tail + 1 >= Len(lh)
HeadDue == tail = Len(lh)

write_head ==
  /\ mode = "run" /\ phase = "write_log" /\ HeadDue
  /\ head' = lh /\ phase' = "install" /\ tail' = 0
  /\ UNCHANGED <<memory, disk, logd, mode>>

(* install_trans, in commit and in recovery.                               *)
install_trans ==
  /\ mode \in {"run", "recover"} /\ phase = "install" /\ tail < Len(lh)
  /\ disk' = [disk EXCEPT ![lh[tail + 1]] = logd[tail + 1]]
  /\ cache' = [cache EXCEPT ![lh[tail + 1]] = logd[tail + 1]]
  /\ tail' = tail + 1
  /\ UNCHANGED <<outstanding, committing, lh, head, logd,
                 st, depth, held, wrote, mode, phase>>

(* The transaction is erased once all of it is installed.                  *)
EraseDue == tail = Len(lh)

erase ==
  /\ mode \in {"run", "recover"} /\ phase = "install" /\ EraseDue
  /\ lh' = <<>> /\ head' = <<>> /\ tail' = 0
  /\ phase' = IF mode = "run" THEN "done" ELSE "none"
  /\ mode' = "run"
  /\ UNCHANGED <<outstanding, committing, cache, disk, logd, st, depth, held, wrote>>

(* The end of end_op: the waiters may go on.                               *)
NotWoken(s) == s
WokenAfterCommit(s) == Wakeup(s)

end_commit(p) ==
  /\ mode = "run" /\ st[p] = "commit" /\ phase = "done"
  /\ committing' = FALSE /\ phase' = "none" /\ tail' = 0
  /\ st' = WokenAfterCommit([st EXCEPT ![p] = IF depth[p] = 0 THEN "out" ELSE "in"])
  /\ UNCHANGED <<outstanding, lh, cache, disk, head, logd, depth, held, wrote, mode>>

-----------------------------------------------------------------------------
(* A crash loses what is in memory; initlog reads the header back.         *)
Crash ==
  /\ MayCrash /\ mode # "overrun"
  /\ outstanding' = 0 /\ committing' = FALSE /\ lh' = head /\ cache' = disk
  /\ st' = [p \in Proc |-> "out"] /\ depth' = [p \in Proc |-> 0]
  /\ held' = [p \in Proc |-> NoBlock] /\ wrote' = [p \in Proc |-> {}]
  /\ mode' = "recover" /\ phase' = "install" /\ tail' = 0
  /\ UNCHANGED <<disk, head, logd>>

Stopped == mode \in {"panic", "overrun"} /\ UNCHANGED vars

Commit == write_log \/ write_head \/ install_trans \/ erase

Step(p) ==
  \/ st[p] = "try" /\ begin_op(p)
  \/ log_write(p) \/ end_op(p) \/ end_commit(p)

Next ==
  \/ \E p \in Proc : begin_op(p) \/ log_write(p) \/ end_op(p) \/ end_commit(p)
  \/ \E p \in Proc, b \in Block, v \in Value : Modify(p, b, v)
  \/ Commit
  \/ Crash \/ Stopped

(* The scheduler runs every runnable process again and again, and every    *)
(* file system operation comes to its end_op.                              *)
Spec == Init /\ [][Next]_vars /\ WF_vars(Commit) /\ \A p \in Proc : WF_vars(Step(p))

-----------------------------------------------------------------------------
Disk == INSTANCE AtomicDisk WITH
  stable  <- Installed(disk, head, logd),
  current <- IF mode = "recover" THEN Installed(disk, head, logd) ELSE cache,
  active  <- OpenOps,
  Op      <- Proc \X (1 .. Nest)

(* A crash at any moment, in commit and in recovery too, leaves the disk   *)
(* with the updates of whole operations only: all of those that had ended  *)
(* at some moment when none was in progress, and of no other.              *)
CrashAtomic == Disk!Spec

(* The logging system only commits when no operation is active, so the     *)
(* blocks a commit copies do not change under it.                          *)
CommitQuiescent == committing => OpenOps = {} /\ Held = {}

(* The transaction fits the log on disk, so that write_log stays inside    *)
(* it, and operations that keep to MAXOPBLOCKS never make log_write panic. *)
LogFits == Len(lh) <= NLog - 1 /\ mode # "panic"

(* Whoever sleeps in begin_op is woken again.                              *)
SleepersWoken == \A p \in Proc : st[p] = "sleep" ~> st[p] # "sleep"
=============================================================================
