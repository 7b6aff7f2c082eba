------------------------------- MODULE Bcache -------------------------------
(***************************************************************************)
(* The buffer cache (bio.c) with the sleeplocks of its buffers             *)
(* (sleeplock.c) and the disk driver (ide.c).                              *)
(*                                                                         *)
(* A critical section of bcache.lock, of a sleeplock's spinlock or of      *)
(* idelock is one step; sleep gives such a lock up at its end.  The disk   *)
(* is external: it carries out the command it was given, then interrupts.  *)
(* A process has one buffer at a time, and what it has changed it hands to *)
(* log_write or bwrite before it gives the buffer back, as all of fs.c     *)
(* and log.c do.                                                           *)
(***************************************************************************)
EXTENDS Integers, Sequences, FiniteSets, SequencesExt

CONSTANTS
  Proc, Nobody,
  Block, NoBlock,
  Data,
  NBuf,        \* NBUF
  MaxPinned    \* bound: buffers that the log keeps with B_DIRTY

ASSUME BcacheAssumption ==
  /\ Nobody \notin Proc /\ NoBlock \notin Block /\ NBuf \in Nat \ {0} /\ MaxPinned \in Nat
  /\ IsFiniteSet(Proc)

Buf == 1 .. NBuf

VARIABLES
  blockno, valid, dirty, refcnt, data,   \* struct buf
  locked,      \* holder of its sleeplock
  mru,         \* the list from bcache.head, most recently used first
  idequeue,
  cmd,         \* the command the disk has: "none", "read", "write" or "done"
  disk,
  pc, cur,     \* progress of each process; its buffer, or 0
  panic

bufs == <<blockno, valid, dirty, refcnt, data, locked>>
vars == <<blockno, valid, dirty, refcnt, data, locked, mru, idequeue, cmd, disk, pc, cur, panic>>

Init ==
  /\ blockno = [i \in Buf |-> NoBlock]
  /\ valid = [i \in Buf |-> FALSE] /\ dirty = [i \in Buf |-> FALSE]
  /\ refcnt = [i \in Buf |-> 0] /\ locked = [i \in Buf |-> Nobody]
  /\ disk \in [Block -> Data]
  /\ data \in {[i \in Buf |-> v] : v \in Data}
  /\ mru = [i \in Buf |-> NBuf + 1 - i]
  /\ idequeue = <<>> /\ cmd = "none"
  /\ pc = [p \in Proc |-> "user"] /\ cur = [p \in Proc |-> 0] /\ panic = "no"

-----------------------------------------------------------------------------
Goto(p, l) == pc' = [pc EXCEPT ![p] = l]

(* wakeup of those who sleep at place l for buffer i: they look again. *)
Woken(pcs, l, m, i) == [p \in Proc |-> IF pcs[p] = l /\ cur[p] = i THEN m ELSE pcs[p]]

(* bget: the buffer of b, or the least recently used one that is free.  It *)
(* must find a buffer that is still being read, leave alone one that the   *)
(* log has pinned, and count itself.                                       *)
Cached(b) == {i \in Buf : blockno[i] = b}

FreeIfUnused(i) == refcnt[i] = 0
Free(i) == refcnt[i] = 0 /\ ~dirty[i]

Uncounted(i) == refcnt
Counted(i) == [refcnt EXCEPT ![i] = @ + 1]

bget(p, b) ==
  LET hit  == Cached(b)
      free == {k \in 1 .. NBuf : Free(mru[k])}
  IN
  /\ pc[p] = "user" /\ panic = "no"
  /\ IF hit # {}
     THEN \E i \in hit :
            /\ refcnt' = Counted(i)
            /\ cur' = [cur EXCEPT ![p] = i] /\ Goto(p, "acquire")
            /\ UNCHANGED <<blockno, valid, dirty, panic>>
     ELSE IF free # {}
     THEN LET i == mru[Max(free)] IN
          /\ blockno' = [blockno EXCEPT ![i] = b] /\ refcnt' = [refcnt EXCEPT ![i] = 1]
          /\ valid' = [valid EXCEPT ![i] = FALSE] /\ dirty' = [dirty EXCEPT ![i] = FALSE]
          /\ cur' = [cur EXCEPT ![p] = i] /\ Goto(p, "acquire")
          /\ UNCHANGED panic
     ELSE panic' = "bget" /\ UNCHANGED <<blockno, valid, dirty, refcnt, cur, pc>>
  /\ UNCHANGED <<data, locked, mru, idequeue, cmd, disk>>

(* acquiresleep, and the test of B_VALID in bread, which must come after.  *)
ReadIfInvalid(i) == IF valid[i] THEN "have" ELSE "rw"

acquiresleep(p) ==
  LET i == cur[p] IN
  /\ pc[p] = "acquire" /\ panic = "no"
  /\ IF locked[i] # Nobody
     THEN Goto(p, "lsleep") /\ UNCHANGED locked
     ELSE /\ locked' = [locked EXCEPT ![i] = p]
          /\ Goto(p, ReadIfInvalid(i))
  /\ UNCHANGED <<blockno, valid, dirty, refcnt, data, mru, idequeue, cmd, disk, cur, panic>>

-----------------------------------------------------------------------------
(* The caller changes the buffer; then log_write or bwrite. *)
Modify(p, v) ==
  /\ pc[p] = "have" /\ panic = "no"
  /\ data' = [data EXCEPT ![cur[p]] = v] /\ Goto(p, "changed")
  /\ UNCHANGED <<blockno, valid, dirty, refcnt, locked, mru, idequeue, cmd, disk, cur, panic>>

Pinned == {i \in Buf : dirty[i]}

log_write(p) ==
  /\ pc[p] = "changed" /\ panic = "no"
  /\ Cardinality(Pinned \cup {cur[p]}) <= MaxPinned
  /\ dirty' = [dirty EXCEPT ![cur[p]] = TRUE] /\ Goto(p, "have")
  /\ UNCHANGED <<blockno, valid, refcnt, data, locked, mru, idequeue, cmd, disk, cur, panic>>

bwrite(p) ==
  /\ pc[p] \in {"have", "changed"} /\ panic = "no"
  /\ dirty' = [dirty EXCEPT ![cur[p]] = TRUE] /\ Goto(p, "rw")
  /\ UNCHANGED <<blockno, valid, refcnt, data, locked, mru, idequeue, cmd, disk, cur, panic>>

(* brelse: releasesleep, then the count and the list. *)
releasesleep(p) ==
  LET i == cur[p] IN
  /\ pc[p] = "have" /\ panic = "no"
  /\ locked' = [locked EXCEPT ![i] = Nobody]
  /\ pc' = [Woken(pc, "lsleep", "acquire", i) EXCEPT ![p] = "release"]
  /\ UNCHANGED <<blockno, valid, dirty, refcnt, data, mru, idequeue, cmd, disk, cur, panic>>

brelse(p) ==
  LET i == cur[p] IN
  /\ pc[p] = "release" /\ panic = "no"
  /\ refcnt' = [refcnt EXCEPT ![i] = @ - 1]
  /\ mru' = IF refcnt[i] = 1 THEN <<i>> \o Remove(mru, i) ELSE mru
  /\ Goto(p, "user") /\ cur' = [cur EXCEPT ![p] = 0]
  /\ UNCHANGED <<blockno, valid, dirty, data, locked, idequeue, cmd, disk, panic>>

-----------------------------------------------------------------------------
(* idestart: B_DIRTY tells a write from a read.                            *)
idestart(i) == cmd' = IF dirty[i] THEN "write" ELSE "read"

(* iderw: queue the buffer, start the disk if it is idle, and sleep; and   *)
(* an iderw that leaves the start to the next interrupt.                   *)
NeverIdle(q) == FALSE
Idle(q) == q = <<>>

Synced(i) == valid[i] /\ ~dirty[i]

iderw(p) ==
  LET i == cur[p] IN
  /\ pc[p] = "rw" /\ panic = "no"
  /\ IF Synced(i) THEN panic' = "iderw" /\ UNCHANGED <<idequeue, cmd, pc>>
     ELSE /\ idequeue' = Append(idequeue, i)
          /\ IF Idle(idequeue) THEN idestart(i) ELSE UNCHANGED cmd
          /\ Goto(p, "dsleep") /\ UNCHANGED panic
  /\ UNCHANGED <<bufs, mru, disk, cur>>

(* Awake again, in the loop of iderw.                                      *)
iderw_wait(p) ==
  /\ pc[p] = "dwait" /\ panic = "no"
  /\ Goto(p, IF Synced(cur[p]) THEN "have" ELSE "dsleep")
  /\ UNCHANGED <<bufs, mru, idequeue, cmd, disk, cur, panic>>

(* The disk carries out its command on the block of the first buffer.      *)
Disk ==
  /\ cmd \in {"read", "write"} /\ panic = "no"
  /\ disk' = IF cmd = "write" THEN [disk EXCEPT ![blockno[Head(idequeue)]] = data[Head(idequeue)]]
             ELSE disk
  /\ cmd' = "done"
  /\ UNCHANGED <<bufs, mru, idequeue, pc, cur, panic>>

(* ideintr; and one that does not start the disk on the next buffer.       *)
Stopped(q) == cmd' = "none"
Restarted(q) == IF q # <<>> THEN idestart(Head(q)) ELSE cmd' = "none"

Unread(i) == data
ReadIn(i) == IF dirty[i] THEN data ELSE [data EXCEPT ![i] = disk[blockno[i]]]

ideintr ==
  LET i == Head(idequeue) IN
  /\ cmd = "done" /\ panic = "no"
  /\ idequeue' = Tail(idequeue)
  /\ data' = ReadIn(i)
  /\ valid' = [valid EXCEPT ![i] = TRUE] /\ dirty' = [dirty EXCEPT ![i] = FALSE]
  /\ pc' = Woken(pc, "dsleep", "dwait", i)
  /\ Restarted(idequeue')
  /\ UNCHANGED <<blockno, refcnt, locked, mru, disk, cur, panic>>

(* kill makes a sleeper runnable; it looks again and finds nothing new.    *)
Kill(p) ==
  /\ pc[p] \in {"lsleep", "dsleep"} /\ panic = "no"
  /\ Goto(p, IF pc[p] = "lsleep" THEN "acquire" ELSE "dwait")
  /\ UNCHANGED <<bufs, mru, idequeue, cmd, disk, cur, panic>>

-----------------------------------------------------------------------------
Kernel(p) ==
  \/ acquiresleep(p) \/ releasesleep(p) \/ brelse(p) \/ iderw(p) \/ iderw_wait(p)
Caller(p) ==
  \/ \E b \in Block : bget(p, b)
  \/ \E v \in Data : Modify(p, v)
  \/ log_write(p) \/ bwrite(p)

Next == Disk \/ ideintr \/ \E p \in Proc : Kernel(p) \/ Caller(p) \/ Kill(p)

Spec == Init /\ [][Next]_vars

(* The disk answers, its interrupt is served, and processes in the kernel  *)
(* go on.                                                                  *)
FairSpec ==
  /\ Spec /\ WF_vars(Disk) /\ WF_vars(ideintr)
  /\ \A p \in Proc : WF_vars(Kernel(p))

-----------------------------------------------------------------------------
TypeOK ==
  /\ blockno \in [Buf -> Block \cup {NoBlock}]
  /\ valid \in [Buf -> BOOLEAN] /\ dirty \in [Buf -> BOOLEAN]
  /\ refcnt \in [Buf -> 0 .. Cardinality(Proc)] /\ data \in [Buf -> Data]
  /\ locked \in [Buf -> Proc \cup {Nobody}]
  /\ Len(mru) = NBuf /\ ToSet(mru) = Buf
  /\ idequeue \in Seq(Buf) /\ cmd \in {"none", "read", "write", "done"}
  /\ disk \in [Block -> Data]
  /\ pc \in [Proc -> {"user", "acquire", "lsleep", "have", "changed", "release", "rw", "dwait",
                      "dsleep"}]
  /\ cur \in [Proc -> Buf \cup {0}] /\ panic \in {"no", "bget", "iderw"}

(* iderw never finds a buffer with nothing to do, and bget runs out of     *)
(* buffers only if the log has not left one for every process.             *)
NoPanic ==
  /\ panic # "iderw"
  /\ panic = "bget" => Cardinality(Pinned) > NBuf - Cardinality(Proc)

(* A block has one buffer at most, its count is the number of processes    *)
(* that are on it, and who works on a buffer has its sleeplock.            *)
OneBuffer ==
  /\ \A i, j \in Buf : blockno[i] = blockno[j] /\ blockno[i] # NoBlock => i = j
  /\ \A i \in Buf : refcnt[i] = Cardinality({p \in Proc : cur[p] = i})
  /\ \A p \in Proc : pc[p] \in {"have", "changed", "rw", "dwait", "dsleep"} => locked[cur[p]] = p

(* A buffer that is valid and clean, and not being changed, is what is on  *)
(* the disk: bget may give it to another block.                            *)
CleanIsOnDisk ==
  \A i \in Buf : Synced(i) /\ ~(\E p \in Proc : cur[p] = i /\ pc[p] = "changed")
                   => data[i] = disk[blockno[i]]

(* The buffers are sound: bget and iderw panic only where the log pinned   *)
(* too much, a block has one buffer, and what bget may recycle is on disk. *)
BuffersSound == TypeOK /\ NoPanic /\ OneBuffer /\ CleanIsOnDisk

(* Who sleeps will be woken: the sleeplock of the one is held, the buffer  *)
(* of the other is queued, and the disk works on the head of the queue.    *)
NoLostWakeup ==
  /\ \A p \in Proc : /\ pc[p] = "lsleep" => locked[cur[p]] # Nobody
                     /\ pc[p] = "dsleep" => cur[p] \in ToSet(idequeue)
  /\ cmd = "none" <=> idequeue = <<>>

(* The cache is a store of blocks.  A block is what its buffer says, if it *)
(* has one that was filled, and else what the disk says.                   *)
Filled(b) == {i \in Buf : blockno[i] = b /\ valid[i]}
Store == INSTANCE BlockStore WITH
  value <- [b \in Block |-> IF Filled(b) # {} THEN data[CHOOSE i \in Filled(b) : TRUE] ELSE disk[b]],
  holder <- [b \in Block |-> IF Filled(b) # {} THEN locked[CHOOSE i \in Filled(b) : TRUE] ELSE Nobody]
CacheIsStore == Store!Spec

(* A transfer that has been asked for comes to its end, unless the kernel  *)
(* panics.                                                                 *)
TransferEnds ==
  \A p \in Proc : pc[p] \in {"rw", "dwait", "dsleep"} ~> pc[p] = "have" \/ panic # "no"
=============================================================================
