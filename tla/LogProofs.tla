------------------------------ MODULE LogProofs ------------------------------
(***************************************************************************)
(* Theorems about Log, for any number of processes, blocks and values and  *)
(* any sizes of the log: commits happen only when no operation is active,  *)
(* and Log implements AtomicDisk.                                          *)
(***************************************************************************)
EXTENDS Log, FiniteSetTheorems, TLAPS

-----------------------------------------------------------------------------
(* Open operations and the counter. *)

Process ==
  /\ st \in [Proc -> {"out", "try", "sleep", "in", "log", "commit"}]
  /\ depth \in [Proc -> 0 .. Nest]
  /\ held \in [Proc -> Block \cup {NoBlock}]
  /\ \A p \in Proc : st[p] \in {"in", "log"} => depth[p] # 0
  /\ \A p \in Proc : IF st[p] = "log" THEN held[p] \in Block ELSE held[p] = NoBlock

Counted == IsFiniteSet(OpenOps) /\ outstanding = Cardinality(OpenOps)

(* Where a commit, or recovery, is. *)
Position ==
  /\ mode \in {"run", "recover", "panic", "overrun"}
  /\ phase \in {"none", "write_log", "install", "done"}
  /\ committing \in BOOLEAN
  /\ committing => OpenOps = {} /\ phase # "none" /\ mode \in {"run", "overrun"}
  /\ phase # "none" /\ mode # "recover" => committing
  /\ mode = "recover" => phase = "install" /\ OpenOps = {}

CountInv == Process /\ Counted /\ Position

LEMMA OpenOpsFinite == IsFiniteSet(Proc \X (1 .. Nest))
<1>1. IsFiniteSet(1 .. Nest)
  BY LogAssumption, FS_Interval
<1>. QED BY <1>1, LogAssumption, FS_Product

(* A process inside an operation is seen in OpenOps. *)
LEMMA InsideOpen ==
  ASSUME Process, NEW p \in Proc, depth[p] # 0
  PROVE  <<p, depth[p]>> \in OpenOps
BY LogAssumption DEF Process, OpenOps

LEMMA InitCount == Init => CountInv
<1>. SUFFICES ASSUME Init PROVE CountInv
  OBVIOUS
<1>1. OpenOps = {}
  BY LogAssumption DEF Init, OpenOps
<1>2. Process
  BY LogAssumption DEF Init, Process
<1>3. Counted
  BY <1>1, FS_EmptySet DEF Counted, Init
<1>4. Position
  BY DEF Position, Init
<1>. QED BY <1>2, <1>3, <1>4 DEF CountInv

LEMMA BeginCount == ASSUME CountInv, NEW p \in Proc, begin_op(p) PROVE CountInv'
<1>1. CASE MustWait
  <2>1. /\ st' = [st EXCEPT ![p] = "sleep"]
        /\ UNCHANGED <<outstanding, depth, held, committing, mode, phase>>
        /\ st[p] # "log"
    BY <1>1 DEF begin_op, CountInv, Process
  <2>2. OpenOps' = OpenOps
    BY <2>1 DEF OpenOps
  <2>3. Process'
    BY <2>1 DEF CountInv, Process
  <2>. QED BY <2>1, <2>2, <2>3 DEF CountInv, Counted, Position
<1>2. CASE ~MustWait
  <2>1. /\ outstanding' = outstanding + 1
        /\ depth' = [depth EXCEPT ![p] = depth[p] + 1]
        /\ st' = [st EXCEPT ![p] = "in"]
        /\ depth[p] < Nest /\ mode = "run" /\ st[p] # "log"
        /\ UNCHANGED <<held, committing, mode, phase>>
    BY <1>2 DEF begin_op, CountInv, Process
  <2>2. ~committing /\ phase = "none"
    BY <1>2, <2>1 DEF MustWait, CountInv, Position
  <2>3. OpenOps' = OpenOps \cup {<<p, depth[p] + 1>>} /\ <<p, depth[p] + 1>> \notin OpenOps
    BY <2>1, LogAssumption DEF OpenOps, CountInv, Process
  <2>4. Counted'
    BY <2>1, <2>3, FS_AddElement DEF CountInv, Counted
  <2>5. Process'
    BY <2>1, LogAssumption DEF CountInv, Process
  <2>6. Position'
    BY <2>1, <2>2 DEF CountInv, Position
  <2>. QED BY <2>4, <2>5, <2>6 DEF CountInv
<1>. QED BY <1>1, <1>2

(* Inside an operation there is no commit, and phase is "none". *)
LEMMA InsideQuiet ==
  ASSUME CountInv, NEW p \in Proc, st[p] \in {"in", "log"}, mode = "run"
  PROVE  ~committing /\ phase = "none" /\ <<p, depth[p]>> \in OpenOps
BY InsideOpen DEF CountInv, Process, Position

LEMMA ModifyCount ==
  ASSUME CountInv, NEW p \in Proc, NEW b \in Block, NEW v \in Value, Modify(p, b, v)
  PROVE  CountInv'
<1>1. st[p] = "in" /\ mode = "run" /\ UNCHANGED <<outstanding, depth, committing, phase>>
  BY DEF Modify
<1>2. ~committing /\ phase = "none"
  BY <1>1, InsideQuiet
<1>3. \/ mode' = "panic" /\ UNCHANGED <<st, held>>
      \/ mode' = mode /\ st' = [st EXCEPT ![p] = "log"] /\ held' = [held EXCEPT ![p] = b]
  BY DEF Modify
<1>4. OpenOps' = OpenOps
  BY <1>1 DEF OpenOps
<1>5. Process'
  BY <1>1, <1>3 DEF CountInv, Process
<1>. QED BY <1>1, <1>2, <1>3, <1>4, <1>5 DEF CountInv, Counted, Position

LEMMA LogWriteCount == ASSUME CountInv, NEW p \in Proc, log_write(p) PROVE CountInv'
<1>1. /\ st' = [st EXCEPT ![p] = "in"] /\ held' = [held EXCEPT ![p] = NoBlock]
      /\ st[p] = "log" /\ UNCHANGED <<outstanding, depth, committing, mode, phase>>
  BY DEF log_write
<1>2. OpenOps' = OpenOps
  BY <1>1 DEF OpenOps
<1>3. Process'
  BY <1>1 DEF CountInv, Process
<1>. QED BY <1>1, <1>2, <1>3 DEF CountInv, Counted, Position

LEMMA EndCount == ASSUME CountInv, NEW p \in Proc, end_op(p) PROVE CountInv'
<1>1. /\ st[p] = "in" /\ mode = "run" /\ outstanding' = outstanding - 1
      /\ depth' = [depth EXCEPT ![p] = depth[p] - 1] /\ UNCHANGED held
  BY DEF end_op
<1>2. ~committing /\ phase = "none" /\ <<p, depth[p]>> \in OpenOps
  BY <1>1, InsideQuiet
<1>3. OpenOps' = OpenOps \ {<<p, depth[p]>>}
  BY <1>1, LogAssumption DEF OpenOps, CountInv, Process
<1>4. Counted'
  BY <1>1, <1>2, <1>3, FS_RemoveElement DEF CountInv, Counted
<1>5. CASE outstanding = 1
  <2>1. /\ committing' = TRUE /\ st' = [st EXCEPT ![p] = "commit"]
        /\ phase' \in {"done", "write_log"} /\ mode' = mode
    BY <1>2, <1>5 DEF end_op, EndPanics
  <2>2. OpenOps' = {}
    BY <1>1, <1>4, <1>5, FS_EmptySet DEF Counted
  <2>3. Process'
    BY <1>1, <2>1, LogAssumption DEF CountInv, Process
  <2>4. Position'
    BY <1>1, <2>1, <2>2 DEF CountInv, Position
  <2>. QED BY <1>4, <2>3, <2>4 DEF CountInv
<1>6. CASE outstanding # 1
  <2>1. /\ st' = Wakeup([st EXCEPT ![p] = IF depth[p] = 1 THEN "out" ELSE "in"])
        /\ UNCHANGED <<committing, phase, mode>>
    BY <1>2, <1>6 DEF end_op, EndPanics
  <2>2. Process'
    BY <1>1, <2>1, LogAssumption DEF CountInv, Process, Wakeup
  <2>3. Position'
    BY <1>1, <1>2, <2>1 DEF CountInv, Position
  <2>. QED BY <1>4, <2>2, <2>3 DEF CountInv
<1>. QED BY <1>5, <1>6

LEMMA CommitCount == ASSUME CountInv, Commit PROVE CountInv'
<1>1. UNCHANGED <<outstanding, depth, st, held, committing>>
  BY DEF Commit, write_log, write_head, install_trans, erase, memory
<1>2. OpenOps' = OpenOps /\ Process' /\ Counted'
  BY <1>1 DEF OpenOps, CountInv, Process, Counted
<1>3. CASE write_log
  BY <1>1, <1>2, <1>3 DEF write_log, CountInv, Position
<1>4. CASE write_head
  BY <1>1, <1>2, <1>4 DEF write_head, CountInv, Position
<1>5. CASE install_trans
  BY <1>1, <1>2, <1>5 DEF install_trans, CountInv, Position
<1>6. CASE erase
  BY <1>1, <1>2, <1>6 DEF erase, CountInv, Position
<1>. QED BY <1>3, <1>4, <1>5, <1>6 DEF Commit

LEMMA EndCommitCount == ASSUME CountInv, NEW p \in Proc, end_commit(p) PROVE CountInv'
<1>1. /\ st[p] = "commit" /\ mode = "run" /\ phase = "done"
      /\ committing' = FALSE /\ phase' = "none"
      /\ st' = Wakeup([st EXCEPT ![p] = IF depth[p] = 0 THEN "out" ELSE "in"])
      /\ UNCHANGED <<outstanding, depth, held, mode>>
  BY DEF end_commit, WokenAfterCommit
<1>2. OpenOps' = OpenOps /\ Counted'
  BY <1>1 DEF OpenOps, CountInv, Counted
<1>3. Process'
  BY <1>1 DEF CountInv, Process, Wakeup
<1>. QED BY <1>1, <1>2, <1>3 DEF CountInv, Position

LEMMA CrashCount == ASSUME CountInv, Crash PROVE CountInv'
<1>1. OpenOps' = {}
  BY LogAssumption DEF Crash, OpenOps
<1>2. Process'
  BY LogAssumption DEF Crash, Process
<1>3. Counted'
  BY <1>1, FS_EmptySet DEF Counted, Crash
<1>4. Position'
  BY <1>1 DEF Position, Crash
<1>. QED BY <1>2, <1>3, <1>4 DEF CountInv

LEMMA NextCount == ASSUME CountInv, [Next]_vars PROVE CountInv'
<1>1. CASE UNCHANGED vars
  BY <1>1 DEF vars, CountInv, Process, Counted, Position, OpenOps
<1>. QED BY <1>1, BeginCount, ModifyCount, LogWriteCount, EndCount, CommitCount,
            EndCommitCount, CrashCount DEF Next, Stopped

(* A process that is in log_write has its operation open. *)
LEMMA NothingHeld == Process /\ OpenOps = {} => Held = {}
<1>1. SUFFICES ASSUME Process, OpenOps = {} PROVE Held = {}
  OBVIOUS
<1>2. \A p \in Proc : depth[p] = 0
  BY <1>1, InsideOpen
<1>. QED BY <1>1, <1>2 DEF Process, Held

(* A commit runs only when no operation is active and no buffer is between *)
(* its modification and its log_write, for any number of processes.        *)
THEOREM CommitsQuiescent == Spec => []CommitQuiescent
<1>1. CountInv => CommitQuiescent
  BY NothingHeld DEF CountInv, Position, CommitQuiescent
<1>2. CountInv /\ [Next]_vars => CountInv'
  BY NextCount
<1>. QED BY <1>1, <1>2, InitCount, PTL DEF Spec

-----------------------------------------------------------------------------
(* The contents: what is where at each point of a commit or of recovery.   *)
Listed(b) == \E i \in 1 .. Len(lh) : lh[i] = b
OutsideClean == \A b \in Block : ~Listed(b) => cache[b] = disk[b]

DataTypeOK ==
  /\ lh \in Seq(Block) /\ head \in Seq(Block) /\ IsInjective(lh) /\ IsInjective(head)
  /\ cache \in [Block -> Value] /\ disk \in [Block -> Value]
  /\ logd \in [LogIndex -> Value]
  /\ tail \in Nat

DataInv ==
  /\ DataTypeOK
  /\ phase = "none" => head = <<>>
  /\ phase = "none" /\ mode = "run" =>
       \A b \in Block : ~Listed(b) /\ b \notin Held => cache[b] = disk[b]
  /\ phase = "write_log" =>
       /\ head = <<>> /\ OutsideClean /\ tail <= Len(lh)
       /\ \A i \in 1 .. tail : i \in LogIndex /\ logd[i] = cache[lh[i]]
  /\ phase = "install" =>
       /\ lh = head /\ tail <= Len(lh)
       /\ \A i \in 1 .. Len(lh) : i \in LogIndex
       /\ \A i \in 1 .. tail : disk[lh[i]] = logd[i]
  /\ phase = "install" /\ mode # "recover" =>
       OutsideClean /\ \A i \in 1 .. Len(lh) : logd[i] = cache[lh[i]]
  /\ phase = "done" => head = <<>> /\ lh = <<>> /\ cache = disk
  /\ mode = "recover" => cache = disk

Inv == CountInv /\ DataInv

LEMMA InitData == Init => DataInv
<1>. SUFFICES ASSUME Init PROVE DataInv
  OBVIOUS
<1>1. DataTypeOK
  BY DEF Init, DataTypeOK, IsInjective
<1>. QED BY <1>1 DEF Init, DataInv

(* Installing an empty list changes nothing; the blocks of a list without  *)
(* repetitions get the log's contents, the others keep theirs.             *)
LEMMA InstallEmpty ==
  ASSUME NEW d \in [Block -> Value], NEW l PROVE Installed(d, <<>>, l) = d
BY DEF Installed

LEMMA InstallList ==
  ASSUME NEW d, NEW l, NEW h \in Seq(Block), IsInjective(h)
  PROVE  /\ \A i \in 1 .. Len(h) : Installed(d, h, l)[h[i]] = l[i]
         /\ \A b \in Block : (\A i \in 1 .. Len(h) : h[i] # b) => Installed(d, h, l)[b] = d[b]
         /\ Installed(d, h, l) = [b \in Block |-> Installed(d, h, l)[b]]
<1>1. DOMAIN h = 1 .. Len(h)
  OBVIOUS
<1>2. ASSUME NEW i \in 1 .. Len(h) PROVE Installed(d, h, l)[h[i]] = l[i]
  <2>1. h[i] \in Block
    OBVIOUS
  <2>2. (CHOOSE j \in DOMAIN h : h[j] = h[i]) = i
    BY <1>1 DEF IsInjective
  <2>. QED BY <1>1, <2>1, <2>2 DEF Installed
<1>3. \A b \in Block : (\A i \in 1 .. Len(h) : h[i] # b) => Installed(d, h, l)[b] = d[b]
  BY <1>1 DEF Installed
<1>4. Installed(d, h, l) = [b \in Block |-> Installed(d, h, l)[b]]
  BY DEF Installed
<1>. QED BY <1>2, <1>3, <1>4

(* Two contents that agree on the listed blocks and outside are the same.  *)
LEMMA InstallIs ==
  ASSUME NEW d, NEW l, NEW h \in Seq(Block), IsInjective(h), NEW c \in [Block -> Value],
         \A i \in 1 .. Len(h) : c[h[i]] = l[i],
         \A b \in Block : (\A i \in 1 .. Len(h) : h[i] # b) => c[b] = d[b]
  PROVE  Installed(d, h, l) = c
<1>1. ASSUME NEW b \in Block PROVE Installed(d, h, l)[b] = c[b]
  <2>1. CASE \E i \in 1 .. Len(h) : h[i] = b
    BY <2>1, InstallList
  <2>2. CASE ~\E i \in 1 .. Len(h) : h[i] = b
    BY <2>2, InstallList
  <2>. QED BY <2>1, <2>2
<1>. QED BY <1>1, InstallList

LEMMA Updated ==
  ASSUME NEW D, NEW V, NEW f \in [D -> V], NEW x, NEW v \in V
  PROVE  [f EXCEPT ![x] = v] \in [D -> V]
OBVIOUS

LEMMA BeginData == ASSUME Inv, NEW p \in Proc, begin_op(p) PROVE DataInv'
<1>1. UNCHANGED <<lh, cache, disk, head, logd, held, mode, phase, tail>>
  BY DEF begin_op
<1>2. DataTypeOK'
  BY <1>1 DEF Inv, DataInv, DataTypeOK
<1>. QED BY <1>1, <1>2 DEF Inv, DataInv, Listed, OutsideClean, Held

LEMMA ModifyData ==
  ASSUME Inv, NEW p \in Proc, NEW b \in Block, NEW v \in Value, Modify(p, b, v)
  PROVE  DataInv'
<1>1. /\ st[p] = "in" /\ mode = "run" /\ cache' = [cache EXCEPT ![b] = v]
      /\ UNCHANGED <<lh, disk, head, logd, phase, tail>>
  BY DEF Modify
<1>2. phase = "none"
  BY <1>1, InsideQuiet DEF Inv
<1>3. DataTypeOK'
  BY <1>1 DEF Inv, DataInv, DataTypeOK
<1>4. ASSUME mode' = "run" PROVE \A c \in Block : ~Listed(c)' /\ c \notin Held' => cache'[c] = disk'[c]
  <2>1. held' = [held EXCEPT ![p] = b]
    BY <1>4, <1>1 DEF Modify
  <2>2. held[p] = NoBlock /\ held \in [Proc -> Block \cup {NoBlock}]
    BY <1>1 DEF Inv, CountInv, Process
  <2>3. b \in Held' /\ \A c \in Block : c \notin Held' => c \notin Held /\ c # b
    BY <2>1, <2>2, LogAssumption DEF Held
  <2>4. \A c \in Block : Listed(c)' <=> Listed(c)
    BY <1>1 DEF Listed
  <2>5. \A c \in Block : c # b => cache'[c] = cache[c]
    BY <1>1 DEF Inv, DataInv, DataTypeOK
  <2>. QED BY <1>1, <1>2, <2>3, <2>4, <2>5 DEF Inv, DataInv
<1>5. mode' # "recover"
  BY <1>1 DEF Modify
<1>. QED BY <1>1, <1>2, <1>3, <1>4, <1>5 DEF Inv, DataInv

LEMMA AbsorbedList ==
  ASSUME DataTypeOK, NEW b \in Block, lh' = Absorbed(b)
  PROVE  /\ lh' \in Seq(Block) /\ IsInjective(lh')
         /\ \A c : Listed(c)' <=> Listed(c) \/ c = b
<1>1. CASE b \in ToSet(lh)
  <2>1. lh' = lh /\ Listed(b)
    BY <1>1 DEF Absorbed, ToSet, Listed, DataTypeOK
  <2>. QED BY <2>1 DEF Listed, DataTypeOK
<1>2. CASE b \notin ToSet(lh)
  <2>1. lh' = Append(lh, b) /\ lh \in Seq(Block) /\ IsInjective(lh)
    BY <1>2 DEF Absorbed, DataTypeOK
  <2>2. /\ lh' \in Seq(Block) /\ Len(lh') = Len(lh) + 1 /\ Len(lh) \in Nat
        /\ \A i \in 1 .. Len(lh) : lh'[i] = lh[i]
        /\ lh'[Len(lh) + 1] = b
    BY <2>1
  <2>3. \A i \in 1 .. Len(lh) : lh[i] # b
    BY <1>2, <2>1 DEF ToSet
  <2>4. ASSUME NEW i \in 1 .. Len(lh'), NEW j \in 1 .. Len(lh'), lh'[i] = lh'[j] PROVE i = j
    <3>1. CASE i = Len(lh) + 1 /\ j # Len(lh) + 1
      BY <2>2, <2>3, <2>4, <3>1
    <3>2. CASE i # Len(lh) + 1 /\ j = Len(lh) + 1
      BY <2>2, <2>3, <2>4, <3>2
    <3>3. CASE i # Len(lh) + 1 /\ j # Len(lh) + 1
      <4>1. i \in 1 .. Len(lh) /\ j \in 1 .. Len(lh)
        BY <2>2, <3>3
      <4>. QED BY <2>1, <2>2, <2>4, <4>1 DEF IsInjective
    <3>. QED BY <3>1, <3>2, <3>3
  <2>5. IsInjective(lh')
    <3>1. DOMAIN lh' = 1 .. Len(lh')
      BY <2>2
    <3>. QED BY <2>4, <3>1 DEF IsInjective
  <2>6. \A c : Listed(c)' <=> Listed(c) \/ c = b
    BY <2>2 DEF Listed
  <2>. QED BY <2>2, <2>5, <2>6
<1>. QED BY <1>1, <1>2

LEMMA LogWriteData == ASSUME Inv, NEW p \in Proc, log_write(p) PROVE DataInv'
<1>1. /\ st[p] = "log" /\ mode = "run" /\ lh' = Absorbed(held[p])
      /\ held' = [held EXCEPT ![p] = NoBlock]
      /\ UNCHANGED <<cache, disk, head, logd, mode, phase, tail>>
  BY DEF log_write
<1>2. phase = "none" /\ head = <<>>
  BY <1>1, InsideQuiet DEF Inv, DataInv
<1>3. held[p] \in Block
  BY <1>1 DEF Inv, CountInv, Process
<1>. QED
  <2>1. /\ lh' \in Seq(Block) /\ IsInjective(lh')
        /\ \A c : Listed(c)' <=> Listed(c) \/ c = held[p]
    BY <1>1, <1>3, AbsorbedList DEF Inv, DataInv
  <2>2. DataTypeOK'
    BY <1>1, <2>1 DEF Inv, DataInv, DataTypeOK
  <2>3. \A c \in Block : c \notin Held' /\ c # held[p] => c \notin Held
    BY <1>1 DEF Held, Inv, CountInv, Process
  <2>4. \A c \in Block : ~Listed(c)' /\ c \notin Held' => cache'[c] = disk'[c]
    BY <1>1, <1>2, <2>1, <2>3 DEF Inv, DataInv
  <2>. QED BY <1>1, <1>2, <2>2, <2>4 DEF DataInv

LEMMA EndData == ASSUME Inv, NEW p \in Proc, end_op(p) PROVE DataInv'
<1>1. /\ st[p] = "in" /\ mode = "run" /\ UNCHANGED <<lh, cache, disk, head, logd, held>>
  BY DEF end_op
<1>2. ~committing /\ phase = "none"
  BY <1>1, InsideQuiet DEF Inv
<1>3. CountInv'
  BY EndCount DEF Inv
<1>4. mode' = mode
  BY <1>2 DEF end_op, EndPanics
<1>5. tail' \in Nat
  BY DEF end_op, Inv, DataInv, DataTypeOK
<1>6. DataTypeOK'
  BY <1>1, <1>5 DEF Inv, DataInv, DataTypeOK
<1>7. \A b \in Block : ~Listed(b) /\ b \notin Held => cache[b] = disk[b]
  BY <1>1, <1>2 DEF Inv, DataInv
<1>8. CASE outstanding = 1
  <2>1. /\ committing' /\ tail' = 0
        /\ phase' = IF lh = <<>> THEN "done" ELSE "write_log"
    BY <1>2, <1>8 DEF end_op, EndPanics
  <2>2. Held' = {}
    <3>1. (Process /\ OpenOps = {} => Held = {})'
      BY NothingHeld, PTL
    <3>. QED BY <1>3, <2>1, <3>1 DEF CountInv, Position
  <2>3. Held = {}
    BY <1>1, <2>2 DEF Held
  <2>4. OutsideClean /\ OutsideClean'
    BY <1>1, <1>7, <2>3 DEF OutsideClean, Listed
  <2>5. lh = <<>> => cache = disk
    <3>1. ASSUME lh = <<>> PROVE \A b \in Block : cache[b] = disk[b]
      BY <2>4, <3>1 DEF OutsideClean, Listed
    <3>. QED BY <3>1 DEF Inv, DataInv, DataTypeOK
  <2>6. head = <<>> /\ 0 <= Len(lh)
    BY <1>2 DEF Inv, DataInv, DataTypeOK
  <2>7. CASE lh = <<>>
    BY <1>1, <1>4, <1>6, <2>1, <2>5, <2>6, <2>7 DEF DataInv
  <2>8. CASE lh # <<>>
    BY <1>1, <1>4, <1>6, <2>1, <2>4, <2>6, <2>8 DEF DataInv
  <2>. QED BY <2>7, <2>8
<1>9. CASE outstanding # 1
  <2>1. UNCHANGED <<phase, tail>>
    BY <1>2, <1>9 DEF end_op, EndPanics
  <2>. QED BY <1>1, <1>2, <1>4, <1>6, <2>1 DEF Inv, DataInv, Listed, OutsideClean, Held
<1>. QED BY <1>8, <1>9

LEMMA WriteLogData == ASSUME Inv, write_log PROVE DataInv'
<1>1. /\ mode = "run" /\ phase = "write_log" /\ tail < Len(lh)
      /\ UNCHANGED <<lh, cache, disk, head, phase>>
  BY DEF write_log, memory
<1>2. DataTypeOK /\ OutsideClean /\ head = <<>>
      /\ \A i \in 1 .. tail : i \in LogIndex /\ logd[i] = cache[lh[i]]
  BY <1>1 DEF Inv, DataInv
<1>3. OutsideClean'
  BY <1>1, <1>2 DEF OutsideClean, Listed
<1>4. CASE tail + 1 \in LogIndex
  <2>1. /\ logd' = [logd EXCEPT ![tail + 1] = cache[lh[tail + 1]]]
        /\ tail' = tail + 1 /\ mode' = mode
    BY <1>4 DEF write_log
  <2>2. lh[tail + 1] \in Block
    BY <1>1, <1>2 DEF DataTypeOK
  <2>3. DataTypeOK'
    <3>1. cache[lh[tail + 1]] \in Value
      BY <1>2, <2>2 DEF DataTypeOK
    <3>2. logd' \in [LogIndex -> Value]
      <4>1. logd \in [LogIndex -> Value]
        BY <1>2 DEF DataTypeOK
      <4>. QED BY <2>1, <3>1, <4>1, Updated
    <3>3. tail' \in Nat
      BY <1>2, <2>1 DEF DataTypeOK
    <3>. QED BY <1>1, <1>2, <3>2, <3>3 DEF DataTypeOK
  <2>4. tail' <= Len(lh)
    BY <1>1, <1>2, <2>1 DEF DataTypeOK
  <2>5. ASSUME NEW i \in 1 .. tail' PROVE i \in LogIndex /\ logd'[i] = cache[lh[i]]
    <3>1. CASE i = tail + 1
      BY <1>2, <1>4, <2>1, <3>1 DEF DataTypeOK
    <3>2. CASE i # tail + 1
      <4>1. i \in 1 .. tail
        BY <1>2, <2>1, <3>2 DEF DataTypeOK
      <4>. QED BY <1>2, <2>1, <3>2, <4>1 DEF DataTypeOK
    <3>. QED BY <3>1, <3>2
  <2>. QED BY <1>1, <1>2, <1>3, <2>1, <2>3, <2>4, <2>5 DEF DataInv
<1>5. CASE tail + 1 \notin LogIndex
  <2>1. UNCHANGED <<logd, tail>> /\ mode' = "overrun"
    BY <1>5 DEF write_log
  <2>2. DataTypeOK'
    BY <1>1, <1>2, <2>1 DEF DataTypeOK
  <2>. QED BY <1>1, <1>2, <1>3, <2>1, <2>2 DEF Inv, DataInv
<1>. QED BY <1>4, <1>5

LEMMA WriteHeadData == ASSUME Inv, write_head PROVE DataInv'
<1>1. /\ mode = "run" /\ phase = "write_log" /\ tail = Len(lh)
      /\ head' = lh /\ phase' = "install" /\ tail' = 0
      /\ UNCHANGED <<lh, cache, disk, logd, mode>>
  BY DEF write_head, memory, HeadDue
<1>2. DataTypeOK /\ OutsideClean
      /\ \A i \in 1 .. Len(lh) : i \in LogIndex /\ logd[i] = cache[lh[i]]
  BY <1>1 DEF Inv, DataInv
<1>3. DataTypeOK' /\ 0 <= Len(lh)
  BY <1>1, <1>2 DEF DataTypeOK
<1>4. OutsideClean'
  BY <1>1, <1>2 DEF OutsideClean, Listed
<1>. QED BY <1>1, <1>2, <1>3, <1>4 DEF DataInv

(* Installing a block again, or for the first time, gives it the logged    *)
(* contents; those that were installed before keep theirs.                 *)
LEMMA InstallData == ASSUME Inv, install_trans PROVE DataInv'
<1>. DEFINE b == lh[tail + 1]
            d == logd[tail + 1]
<1>1. /\ mode \in {"run", "recover"} /\ phase = "install" /\ tail < Len(lh)
      /\ disk' = [disk EXCEPT ![b] = d] /\ cache' = [cache EXCEPT ![b] = d]
      /\ tail' = tail + 1 /\ UNCHANGED <<lh, head, logd, mode, phase>>
  BY DEF install_trans
<1>2. DataTypeOK /\ lh = head /\ (\A i \in 1 .. Len(lh) : i \in LogIndex)
      /\ \A i \in 1 .. tail : disk[lh[i]] = logd[i]
  BY <1>1 DEF Inv, DataInv
<1>3. tail + 1 \in 1 .. Len(lh) /\ tail + 1 \in LogIndex
  BY <1>1, <1>2 DEF DataTypeOK
<1>4. b \in Block /\ d \in Value
  BY <1>2, <1>3 DEF DataTypeOK
<1>. HIDE DEF b, d
<1>5. DataTypeOK'
  BY <1>1, <1>2, <1>4 DEF DataTypeOK
<1>6. ASSUME NEW i \in 1 .. tail' PROVE disk'[lh[i]] = logd[i]
  <2>1. CASE i = tail + 1
    BY <1>1, <1>2, <1>4, <2>1 DEF DataTypeOK, b, d
  <2>2. CASE i # tail + 1
    <3>1. i \in 1 .. tail /\ i \in 1 .. Len(lh)
      BY <1>1, <1>2, <2>2 DEF DataTypeOK
    <3>2. disk[lh[i]] = logd[i] /\ lh[i] \in Block
      BY <1>2, <3>1 DEF DataTypeOK
    <3>3. lh[i] # b
      BY <1>2, <1>3, <2>2, <3>1 DEF DataTypeOK, IsInjective, b
    <3>. QED BY <1>1, <1>2, <3>2, <3>3 DEF DataTypeOK
  <2>. QED BY <2>1, <2>2
<1>7. tail' <= Len(lh)
  BY <1>1, <1>2 DEF DataTypeOK
<1>8. ASSUME mode # "recover" PROVE OutsideClean' /\ \A i \in 1 .. Len(lh) : logd[i] = cache'[lh[i]]
  <2>1. OutsideClean /\ \A i \in 1 .. Len(lh) : logd[i] = cache[lh[i]]
    BY <1>1, <1>8 DEF Inv, DataInv
  <2>2. cache' = cache
    BY <1>1, <1>2, <1>3, <1>4, <2>1 DEF DataTypeOK, b, d
  <2>3. Listed(b)
    BY <1>3 DEF Listed, b
  <2>4. OutsideClean'
    BY <1>1, <1>2, <1>4, <2>1, <2>2, <2>3 DEF OutsideClean, Listed, DataTypeOK
  <2>. QED BY <2>1, <2>2, <2>4
<1>9. mode = "recover" => cache' = disk'
  BY <1>1 DEF Inv, DataInv
<1>. QED BY <1>1, <1>2, <1>5, <1>6, <1>7, <1>8, <1>9 DEF DataInv

(* When the whole list is installed, memory and disk agree.                *)
LEMMA AllInstalled ==
  ASSUME Inv, phase = "install", tail = Len(lh)
  PROVE  cache = disk /\ Installed(disk, head, logd) = disk
<1>1. DataTypeOK /\ lh = head /\ \A i \in 1 .. Len(lh) : disk[lh[i]] = logd[i]
  BY DEF Inv, DataInv
<1>2. mode = "recover" => cache = disk
  BY DEF Inv, DataInv
<1>3. ASSUME mode # "recover" PROVE cache = disk
  <2>1. OutsideClean /\ \A i \in 1 .. Len(lh) : logd[i] = cache[lh[i]]
    BY <1>3 DEF Inv, DataInv
  <2>2. \A b \in Block : cache[b] = disk[b]
    BY <1>1, <2>1 DEF OutsideClean, Listed
  <2>. QED BY <1>1, <2>2 DEF DataTypeOK
<1>4. Installed(disk, head, logd) = disk
  BY <1>1, InstallIs DEF DataTypeOK
<1>. QED BY <1>2, <1>3, <1>4

LEMMA EraseData == ASSUME Inv, erase PROVE DataInv'
<1>1. /\ phase = "install" /\ tail = Len(lh) /\ lh' = <<>> /\ head' = <<>> /\ tail' = 0
      /\ phase' \in {"done", "none"} /\ mode' = "run" /\ UNCHANGED <<cache, disk, logd>>
  BY DEF erase, EraseDue
<1>2. cache = disk
  BY <1>1, AllInstalled
<1>3. DataTypeOK'
  BY <1>1 DEF Inv, DataInv, DataTypeOK, IsInjective
<1>. QED BY <1>1, <1>2, <1>3 DEF DataInv

LEMMA EndCommitData == ASSUME Inv, NEW p \in Proc, end_commit(p) PROVE DataInv'
<1>1. /\ phase = "done" /\ mode = "run" /\ phase' = "none" /\ tail' = 0
      /\ UNCHANGED <<lh, cache, disk, head, logd, mode>>
  BY DEF end_commit
<1>2. head = <<>> /\ lh = <<>> /\ cache = disk
  BY <1>1 DEF Inv, DataInv
<1>3. DataTypeOK'
  BY <1>1 DEF Inv, DataInv, DataTypeOK
<1>. QED BY <1>1, <1>2, <1>3 DEF DataInv

LEMMA CrashData == ASSUME Inv, Crash PROVE DataInv'
<1>1. /\ lh' = head /\ cache' = disk /\ mode' = "recover" /\ phase' = "install" /\ tail' = 0
      /\ UNCHANGED <<disk, head, logd>>
  BY DEF Crash
<1>2. DataTypeOK'
  BY <1>1 DEF Inv, DataInv, DataTypeOK
<1>3. 0 <= Len(head)
  BY DEF Inv, DataInv, DataTypeOK
<1>4. \A i \in 1 .. Len(head) : i \in LogIndex
  BY DEF Inv, DataInv, CountInv, Position
<1>. QED BY <1>1, <1>2, <1>3, <1>4 DEF DataInv

LEMMA NextInv == ASSUME Inv, [Next]_vars PROVE Inv'
<1>1. CountInv'
  BY NextCount DEF Inv
<1>2. CASE UNCHANGED vars
  <2>1. DataTypeOK'
    BY <1>2 DEF vars, Inv, DataInv, DataTypeOK
  <2>. QED BY <1>1, <1>2, <2>1 DEF vars, Inv, DataInv, OutsideClean, Listed, Held
<1>3. CASE Commit
  BY <1>1, <1>3, WriteLogData, WriteHeadData, InstallData, EraseData DEF Commit, Inv
<1>. QED BY <1>1, <1>2, <1>3, BeginData, ModifyData, LogWriteData, EndData, EndCommitData,
            CrashData DEF Next, Stopped, Inv

-----------------------------------------------------------------------------
(* Every step of Log is a step of AtomicDisk or leaves its state alone.    *)
Stable == Installed(disk, head, logd)
Current == IF mode = "recover" THEN Stable ELSE cache

LEMMA StableIsDisk == Inv /\ head = <<>> => Stable = disk
BY InstallEmpty DEF Inv, DataInv, DataTypeOK, Stable

LEMMA InitRefines == Init => Disk!Init
<1>. SUFFICES ASSUME Init PROVE Disk!Init
  OBVIOUS
<1>1. Stable = disk
  BY InstallEmpty DEF Init, Stable
<1>2. OpenOps = {}
  BY LogAssumption DEF Init, OpenOps
<1>. QED BY <1>1, <1>2 DEF Disk!Init, Init, Stable

(* A step that leaves these alone is no step of AtomicDisk.                *)
LEMMA Invisible ==
  ASSUME Stable' = Stable, Current' = Current, OpenOps' = OpenOps
  PROVE  UNCHANGED Disk!advars
BY DEF Disk!advars, Stable, Current

LEMMA OpRefines ==
  ASSUME Inv, NEW p \in Proc, begin_op(p) \/ log_write(p) \/ end_op(p) \/ end_commit(p)
  PROVE  [Disk!Next]_Disk!advars
<1>1. Stable' = Stable /\ mode = "run" /\ cache' = cache
  BY DEF begin_op, log_write, end_op, end_commit, Stable
<1>2. mode' # "recover"
  BY DEF begin_op, log_write, end_op, end_commit
<1>3. Current' = Current
  BY <1>1, <1>2 DEF Current
<1>4. ASSUME depth' = depth PROVE [Disk!Next]_Disk!advars
  <2>1. OpenOps' = OpenOps
    BY <1>4 DEF OpenOps
  <2>. QED BY <1>1, <1>3, <2>1, Invisible
<1>5. ASSUME begin_op(p), depth' # depth PROVE Disk!Next
  <2>1. depth' = [depth EXCEPT ![p] = depth[p] + 1] /\ depth[p] < Nest
    BY <1>5 DEF begin_op
  <2>. DEFINE o == <<p, depth[p] + 1>>
  <2>2. OpenOps' = OpenOps \cup {o} /\ o \notin OpenOps /\ o \in Proc \X (1 .. Nest)
    BY <2>1, LogAssumption DEF OpenOps, Inv, CountInv, Process
  <2>3. Disk!Begin(o)
    BY <1>1, <1>3, <2>2 DEF Disk!Begin, Stable, Current
  <2>. QED BY <2>2, <2>3 DEF Disk!Next
<1>6. ASSUME end_op(p) PROVE Disk!Next
  <2>1. depth' = [depth EXCEPT ![p] = depth[p] - 1] /\ st[p] = "in"
    BY <1>6 DEF end_op
  <2>. DEFINE o == <<p, depth[p]>>
  <2>2. o \in OpenOps
    BY <1>1, <2>1, InsideQuiet DEF Inv
  <2>3. OpenOps' = OpenOps \ {o} /\ o \in Proc \X (1 .. Nest)
    BY <2>1, <2>2, LogAssumption DEF OpenOps, Inv, CountInv, Process
  <2>4. Disk!End(o)
    BY <1>1, <1>3, <2>2, <2>3 DEF Disk!End, Stable, Current
  <2>. QED BY <2>3, <2>4 DEF Disk!Next
<1>7. log_write(p) \/ end_commit(p) => depth' = depth
  BY DEF log_write, end_commit
<1>. QED BY <1>4, <1>5, <1>6, <1>7

LEMMA ModifyRefines ==
  ASSUME Inv, NEW p \in Proc, NEW b \in Block, NEW v \in Value, Modify(p, b, v)
  PROVE  Disk!Next
<1>1. /\ st[p] = "in" /\ mode = "run" /\ cache' = [cache EXCEPT ![b] = v]
      /\ UNCHANGED <<disk, head, logd, depth>> /\ mode' # "recover"
  BY DEF Modify
<1>2. OpenOps # {}
  BY <1>1, InsideQuiet DEF Inv
<1>3. OpenOps' = OpenOps /\ Stable' = Stable /\ Current = cache /\ Current' = cache'
  BY <1>1 DEF OpenOps, Stable, Current
<1>4. Disk!Write(b, v)
  BY <1>1, <1>2, <1>3 DEF Disk!Write, Stable, Current
<1>. QED BY <1>4 DEF Disk!Next

(* The header write is the commit: with it, all of the list is stable.     *)
LEMMA CommitRefines == ASSUME Inv, Commit PROVE [Disk!Next]_Disk!advars
<1>1. OpenOps' = OpenOps
  BY DEF Commit, write_log, write_head, install_trans, erase, memory, OpenOps
<1>2. CASE write_log
  <2>1. UNCHANGED <<disk, head, cache>> /\ phase = "write_log" /\ mode # "recover" /\ mode' # "recover"
    BY <1>2 DEF write_log, memory
  <2>2. head = <<>>
    BY <2>1 DEF Inv, DataInv
  <2>3. Stable = disk /\ Stable' = disk
    BY <2>1, <2>2, InstallEmpty DEF Inv, DataInv, DataTypeOK, Stable
  <2>4. Current' = Current
    BY <2>1 DEF Current
  <2>. QED BY <1>1, <2>3, <2>4, Invisible
<1>3. CASE write_head
  <2>1. /\ phase = "write_log" /\ mode = "run" /\ mode' = "run" /\ tail = Len(lh)
        /\ head' = lh /\ UNCHANGED <<disk, logd, cache>>
    BY <1>3 DEF write_head, memory, HeadDue
  <2>2. DataTypeOK /\ OutsideClean /\ \A i \in 1 .. Len(lh) : logd[i] = cache[lh[i]]
    BY <2>1 DEF Inv, DataInv
  <2>3. Installed(disk, lh, logd) = cache
    <3>1. \A i \in 1 .. Len(lh) : cache[lh[i]] = logd[i]
      BY <2>2
    <3>2. \A b \in Block : (\A i \in 1 .. Len(lh) : lh[i] # b) => cache[b] = disk[b]
      BY <2>2 DEF OutsideClean, Listed
    <3>3. lh \in Seq(Block) /\ IsInjective(lh) /\ cache \in [Block -> Value]
      BY <2>2 DEF DataTypeOK
    <3>. QED BY <3>1, <3>2, <3>3, InstallIs
  <2>4. Stable' = Current /\ Current' = Current
    BY <2>1, <2>3 DEF Stable, Current
  <2>5. OpenOps = {}
    BY <2>1 DEF Inv, CountInv, Position
  <2>6. Disk!Commit
    BY <1>1, <2>4, <2>5 DEF Disk!Commit, Stable, Current
  <2>. QED BY <2>6 DEF Disk!Next
<1>4. CASE install_trans
  <2>1. /\ phase = "install" /\ tail < Len(lh) /\ mode' = mode
        /\ disk' = [disk EXCEPT ![lh[tail + 1]] = logd[tail + 1]]
        /\ cache' = [cache EXCEPT ![lh[tail + 1]] = logd[tail + 1]]
        /\ UNCHANGED <<head, logd>>
    BY <1>4 DEF install_trans
  <2>2. DataTypeOK /\ lh = head /\ tail + 1 \in 1 .. Len(lh)
        /\ \A i \in 1 .. Len(lh) : i \in LogIndex
    BY <2>1 DEF Inv, DataInv, DataTypeOK
  <2>3. Stable' = Stable
    <3>1. ASSUME NEW c \in Block PROVE Installed(disk', head, logd)[c] = Installed(disk, head, logd)[c]
      <4>1. CASE \E i \in 1 .. Len(head) : head[i] = c
        BY <2>2, <4>1, InstallList DEF DataTypeOK
      <4>2. CASE ~\E i \in 1 .. Len(head) : head[i] = c
        <5>1. disk'[c] = disk[c]
          BY <2>1, <2>2, <4>2 DEF DataTypeOK
        <5>. QED BY <2>2, <4>2, <5>1, InstallList DEF DataTypeOK
      <4>. QED BY <4>1, <4>2
    <3>2. Installed(disk', head, logd) = Installed(disk, head, logd)
      BY <2>2, <3>1, InstallList DEF DataTypeOK
    <3>. QED BY <2>1, <3>2 DEF Stable
  <2>4. mode # "recover" => cache' = cache
    BY <2>1, <2>2 DEF Inv, DataInv, DataTypeOK
  <2>5. Current' = Current
    BY <2>1, <2>3, <2>4 DEF Current
  <2>. QED BY <1>1, <2>3, <2>5, Invisible
<1>5. CASE erase
  <2>1. /\ phase = "install" /\ tail = Len(lh) /\ head' = <<>> /\ mode' = "run"
        /\ UNCHANGED <<cache, disk, logd>>
    BY <1>5 DEF erase, EraseDue
  <2>2. cache = disk /\ Stable = disk
    BY <2>1, AllInstalled DEF Stable
  <2>3. Stable' = disk
    BY <2>1, InstallEmpty DEF Inv, DataInv, DataTypeOK, Stable
  <2>4. Current' = Current
    BY <2>1, <2>2 DEF Current
  <2>. QED BY <1>1, <2>2, <2>3, <2>4, Invisible
<1>. QED BY <1>2, <1>3, <1>4, <1>5 DEF Commit

LEMMA CrashRefines == ASSUME Inv, Crash PROVE Disk!Next
<1>1. Stable' = Stable /\ Current' = Stable'
  BY DEF Crash, Stable, Current
<1>2. OpenOps' = {}
  BY LogAssumption DEF Crash, OpenOps
<1>3. Disk!Crash
  BY <1>1, <1>2 DEF Disk!Crash, Stable, Current
<1>. QED BY <1>3 DEF Disk!Next

LEMMA StepRefines == Inv /\ [Next]_vars => [Disk!Next]_Disk!advars
<1>. SUFFICES ASSUME Inv, [Next]_vars PROVE [Disk!Next]_Disk!advars
  OBVIOUS
<1>1. CASE UNCHANGED vars
  <2>1. Stable' = Stable /\ Current' = Current /\ OpenOps' = OpenOps
    BY <1>1 DEF vars, Stable, Current, OpenOps
  <2>. QED BY <2>1, Invisible
<1>. QED BY <1>1, OpRefines, ModifyRefines, CommitRefines, CrashRefines DEF Next, Stopped

(* The log implements the atomic disk: a crash at any point of any         *)
(* operation, commit or recovery leaves the updates of whole operations.   *)
THEOREM LogIsAtomic == Spec => CrashAtomic
<1>1. Inv /\ [Next]_vars => Inv'
  BY NextInv
<1>2. Init => Inv
  BY InitCount, InitData DEF Inv
<1>. QED BY <1>1, <1>2, InitRefines, StepRefines, PTL DEF Spec, CrashAtomic, Disk!Spec
=============================================================================
