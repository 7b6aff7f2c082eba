----------------------------- MODULE FileData ------------------------------
(***************************************************************************)
(* The contents of files: the free bitmap (balloc, bfree), the block map   *)
(* of an inode (bmap, itrunc), readi and writei of fs.c, and fileread and  *)
(* filewrite of file.c, with which the swap files are read and written     *)
(* too.  It starts from a disk that mkfs made.                             *)
(*                                                                         *)
(* A cell of a block holds a byte, or a block number in an indirect block. *)
(* filewrite takes a step for each transaction it opens and for each block *)
(* writei visits, since other processes allocate blocks in between.  All   *)
(* inodes are in one block, and all bits in another (sb.size < BPB).       *)
(***************************************************************************)
EXTENDS Integers, Sequences, FiniteSets, FiniteSetsExt

CONSTANTS
  Proc, Nobody, Inode, File,
  BSIZE, NDIRECT,
  NBlocks,      \* sb.size
  MAXOPBLOCKS,
  Sizes,        \* byte counts the programs write
  Made,         \* sizes of the files mkfs makes
  Mark,         \* the byte each process writes
  Opens,        \* <<ino, fp>>: the file table, and the file of each process
  MaxCalls      \* bound: reads, writes and removals

ASSUME FileDataAssumption ==
  /\ BSIZE \in Nat \ {0} /\ NDIRECT \in Nat \ {0} /\ MAXOPBLOCKS \in Nat
  /\ Nobody \notin Proc /\ Sizes \subseteq Nat \ {0} /\ Made \subseteq Nat
  /\ Mark \in [Proc -> Nat \ {0}]
  /\ Opens \subseteq [File -> Inode] \X [Proc -> File] /\ MaxCalls \in Nat

InodeBlock == 1
BitmapBlock == 2
nmeta == 3
Block == 0 .. NBlocks - 1
MAXFILE == NDIRECT + BSIZE       \* NINDIRECT = BSIZE: an address takes one cell
Zeroes == [k \in 0 .. BSIZE - 1 |-> 0]

VARIABLES
  fs,        \* used: the bitmap; data: the blocks; addrs and size of the inodes
  lock,      \* ip->lock
  ino, off,  \* struct file
  pc,        \* where filewrite is: "user", "chunk" between two transactions, "write"
  fp, todo,  \* its file, and the bytes still to be written
  left, at,  \* of the chunk in writei: bytes left, and the offset of the next
  logged,    \* blocks the open transaction has given to log_write
  calls,     \* of them so far
  panic

vars == <<fs, lock, ino, off, pc, fp, todo, left, at, logged, calls, panic>>

-----------------------------------------------------------------------------
(* Allocation, as a function of the file system s; s.log collects what     *)
(* log_write is called with, s.addr is the block found, 0 if there is none.*)

(* balloc: the first free block, marked in use and zeroed; and one that    *)
(* leaves in it what the last file had there.                              *)
NotZeroed(s) ==
  LET b == Min(Block \ s.used) IN
  IF Block \ s.used = {} THEN [s EXCEPT !.addr = 0]
  ELSE [s EXCEPT !.used = @ \cup {b}, !.log = @ \cup {BitmapBlock, b}, !.addr = b]

balloc(s) ==
  LET b == Min(Block \ s.used) IN
  IF Block \ s.used = {} THEN [s EXCEPT !.addr = 0]
  ELSE [s EXCEPT !.used = @ \cup {b}, !.data[b] = Zeroes,
                 !.log = @ \cup {BitmapBlock, b}, !.addr = b]

(* mkfs: freeblock++, on an image of zeroes.                               *)
freeblock(s) == LET b == Min(Block \ s.used) IN [s EXCEPT !.used = @ \cup {b}, !.addr = b]

(* addrs[k] of inode i, allocated if it is not there.                      *)
Listed(s, i, k, Alloc(_)) ==
  IF s.addrs[i][k] # 0 THEN [s EXCEPT !.addr = s.addrs[i][k]]
  ELSE LET t == Alloc(s) IN [t EXCEPT !.addrs[i][k] = t.addr]

(* Cell k of the indirect block, likewise.                                 *)
Indirect(s, k, Alloc(_)) ==
  LET a == s.addr IN
  IF a = 0 \/ s.data[a][k] # 0 THEN [s EXCEPT !.addr = IF a = 0 THEN 0 ELSE s.data[a][k]]
  ELSE LET t == Alloc(s) IN
       IF t.addr = 0 THEN t ELSE [t EXCEPT !.data[a][k] = t.addr, !.log = @ \cup {a}]

MapBlock(s, i, bn, Alloc(_)) ==
  IF bn < NDIRECT THEN Listed(s, i, bn, Alloc)
  ELSE Indirect(Listed(s, i, NDIRECT, Alloc), bn - NDIRECT, Alloc)

bmap(s, i, bn) == MapBlock(s, i, bn, balloc)

(* memmove of m bytes to the block found, from offset o of the file on.    *)
Stored(s, o, m, byte) ==
  [s EXCEPT !.data[s.addr] = [k \in 0 .. BSIZE - 1 |->
                                IF k - (o % BSIZE) \in 0 .. m - 1 THEN byte ELSE @[k]],
            !.log = @ \cup {s.addr}]

(* Bytes of a write of n at offset o that go to the first block; and that  *)
(* number for a write which is taken to start with the block.              *)
Unaligned(o, n) == Min({n, BSIZE})
Piece(o, n) == Min({n, BSIZE - (o % BSIZE)})

-----------------------------------------------------------------------------
(* mkfs: the files are appended one after the other, a block at a time;    *)
(* the bitmap then says that all blocks below freeblock are in use.        *)
iappend(s, i, n) ==
  LET upto[b \in 0 .. MAXFILE] ==
        IF b = 0 THEN s
        ELSE LET o == (b - 1) * BSIZE IN
             IF o >= n THEN upto[b - 1]
             ELSE Stored(MapBlock(upto[b - 1], i, b - 1, freeblock), o, Piece(o, n - o), 0)
  IN  [upto[MAXFILE] EXCEPT !.size[i] = n]

Image(sizes) ==
  FoldSet(LAMBDA i, s : iappend(s, i, sizes[i]),
          [used |-> 0 .. nmeta - 1, data |-> [b \in Block |-> Zeroes],
           addrs |-> [i \in Inode |-> [k \in 0 .. NDIRECT |-> 0]],
           size |-> [i \in Inode |-> 0], log |-> {}, addr |-> 0], Inode)

(* s without the notes of the call that made it.                           *)
Kept(s) == [s EXCEPT !.log = {}, !.addr = 0]

Init ==
  /\ \E sizes \in [Inode -> Made] : fs = Kept(Image(sizes))
  /\ lock = [i \in Inode |-> Nobody]
  /\ \E o \in Opens : ino = o[1] /\ fp = o[2]
  /\ off = [f \in File |-> 0] /\ calls = 0
  /\ pc = [p \in Proc |-> "user"]
  /\ todo = [p \in Proc |-> 0] /\ left = [p \in Proc |-> 0] /\ at = [p \in Proc |-> 0]
  /\ logged = [p \in Proc |-> {}] /\ panic = "no"

-----------------------------------------------------------------------------
(* filewrite: bytes one transaction may take; and a bound that forgets     *)
(* that each block may need others written.                                *)
WholeOp == MAXOPBLOCKS * BSIZE
max == ((MAXOPBLOCKS - 1 - 1 - 2) \div 2) * BSIZE

filewrite(p, n) ==
  /\ pc[p] = "user" /\ panic = "no" /\ calls < MaxCalls /\ calls' = calls + 1
  /\ pc' = [pc EXCEPT ![p] = "chunk"] /\ todo' = [todo EXCEPT ![p] = n]
  /\ UNCHANGED <<fs, lock, ino, fp, left, at, logged, panic>>

sys_write(p, n) == filewrite(p, n) /\ UNCHANGED off

(* A swap file is open in its process only, so its offset may be set       *)
(* without the lock.                                                       *)
SwapFile(p) == \A q \in Proc \ {p} : ino[fp[q]] # ino[fp[p]]

writeToSwapFile(p, n, place) ==
  /\ SwapFile(p) /\ filewrite(p, n)
  /\ off' = [off EXCEPT ![fp[p]] = place]

Returned(p) ==
  /\ pc' = [pc EXCEPT ![p] = "user"] /\ todo' = [todo EXCEPT ![p] = 0]
  /\ left' = [left EXCEPT ![p] = 0] /\ at' = [at EXCEPT ![p] = 0]
  /\ logged' = [logged EXCEPT ![p] = {}]

(* begin_op, ilock and the tests of writei.                                *)
writei(p) ==
  LET i == ino[fp[p]]
      o == off[fp[p]]
      n == Min({todo[p], max})
  IN
  /\ pc[p] = "chunk" /\ panic = "no" /\ lock[i] = Nobody
  /\ IF o > fs.size[i] \/ o + n > MAXFILE * BSIZE
     THEN Returned(p) /\ UNCHANGED lock
     ELSE /\ lock' = [lock EXCEPT ![i] = p] /\ pc' = [pc EXCEPT ![p] = "write"]
          /\ left' = [left EXCEPT ![p] = n] /\ at' = [at EXCEPT ![p] = o]
          /\ UNCHANGED <<todo, logged>>
  /\ UNCHANGED <<fs, ino, off, fp, calls, panic>>

(* One turn of writei's loop.                                              *)
writei_block(p) ==
  LET m == Piece(at[p], left[p])
      s == bmap(fs, ino[fp[p]], at[p] \div BSIZE)
      t == Stored(s, at[p], m, Mark[p])
  IN
  /\ pc[p] = "write" /\ panic = "no" /\ left[p] > 0
  /\ IF s.addr = 0
     THEN panic' = "balloc" /\ UNCHANGED <<fs, left, at, logged>>
     ELSE /\ fs' = Kept(t) /\ logged' = [logged EXCEPT ![p] = @ \cup t.log]
          /\ at' = [at EXCEPT ![p] = @ + m] /\ left' = [left EXCEPT ![p] = @ - m]
          /\ UNCHANGED panic
  /\ UNCHANGED <<lock, ino, off, pc, fp, todo, calls>>

(* The end of writei at offset o: a file that has grown is updated.        *)
Grown(i, o) == [fs EXCEPT !.size[i] = Max({@, o})]

(* The return of writei, f->off, iunlock and end_op; then the next chunk.  *)
writei_done(p) ==
  LET i == ino[fp[p]]
      n == at[p] - off[fp[p]]
  IN
  /\ pc[p] = "write" /\ panic = "no" /\ left[p] = 0
  /\ fs' = Grown(i, at[p])
  /\ off' = [off EXCEPT ![fp[p]] = at[p]] /\ lock' = [lock EXCEPT ![i] = Nobody]
  /\ IF todo[p] = n THEN Returned(p)
     ELSE /\ pc' = [pc EXCEPT ![p] = "chunk"] /\ todo' = [todo EXCEPT ![p] = @ - n]
          /\ left' = [left EXCEPT ![p] = 0] /\ at' = [at EXCEPT ![p] = 0]
          /\ logged' = [logged EXCEPT ![p] = {}]
  /\ UNCHANGED <<ino, fp, calls, panic>>

(* fileread, from offset o: f->off moves over what readi finds.            *)
Read(p, o, n) ==
  LET i == ino[fp[p]] IN
  /\ pc[p] = "user" /\ panic = "no" /\ lock[i] = Nobody
  /\ calls < MaxCalls /\ calls' = calls + 1
  /\ off' = [off EXCEPT ![fp[p]] = IF o > fs.size[i] THEN o ELSE Min({o + n, fs.size[i]})]
  /\ UNCHANGED <<fs, lock, ino, pc, fp, todo, left, at, logged, panic>>

fileread(p, n) == Read(p, off[fp[p]], n)
readFromSwapFile(p, n, place) == SwapFile(p) /\ Read(p, place, n)

-----------------------------------------------------------------------------
(* The places of inode i that hold a block number: <<k, BSIZE>> is         *)
(* addrs[k], <<NDIRECT, j>> is cell j of the indirect block.               *)
Places(i) ==
  {x \in (0 .. NDIRECT) \X (0 .. BSIZE) :
     LET a == fs.addrs[i][x[1]] IN
     /\ a # 0
     /\ x[2] = BSIZE \/ (x[1] = NDIRECT /\ fs.data[a][x[2]] # 0)}
BlockAt(i, x) == LET a == fs.addrs[i][x[1]] IN IF x[2] = BSIZE THEN a ELSE fs.data[a][x[2]]

(* bfree; -1 for panic("freeing free block").                              *)
bfree(s, b) == [s EXCEPT !.used = @ \ {b}, !.addr = IF b \in s.used THEN @ ELSE -1]

itrunc(i) ==
  LET s == FoldSet(LAMBDA x, t : bfree(t, BlockAt(i, x)), fs, Places(i))
  IN  [s EXCEPT !.size[i] = 0, !.addrs[i] = [k \in 0 .. NDIRECT |-> 0]]

(* The last reference to inode i goes, and another file comes to have it.  *)
Recreate(i) ==
  /\ panic = "no" /\ calls < MaxCalls /\ calls' = calls + 1
  /\ \A p \in Proc : ino[fp[p]] = i => pc[p] = "user"
  /\ fs' = Kept(itrunc(i))
  /\ panic' = IF itrunc(i).addr = -1 THEN "bfree" ELSE "no"
  /\ off' = [f \in File |-> IF ino[f] = i THEN 0 ELSE off[f]]
  /\ UNCHANGED <<lock, ino, pc, fp, todo, left, at, logged>>

Next ==
  \/ \E p \in Proc, n \in Sizes :
       \/ sys_write(p, n) \/ fileread(p, n)
       \/ \E place \in Sizes \cup {0} : writeToSwapFile(p, n, place) \/ readFromSwapFile(p, n, place)
  \/ \E p \in Proc : writei(p) \/ writei_block(p) \/ writei_done(p)
  \/ \E i \in Inode : Recreate(i)

Spec == Init /\ [][Next]_vars

-----------------------------------------------------------------------------
(* Every block in use is a block of the file system's own, or belongs to   *)
(* exactly one place of one inode: balloc gives no block twice, also to    *)
(* two files that grow at the same time, and bfree gives all of them back. *)
BlocksExact ==
  /\ fs.used = 0 .. nmeta - 1 \cup UNION {{BlockAt(i, x) : x \in Places(i)} : i \in Inode}
  /\ \A i, j \in Inode : \A x \in Places(i), y \in Places(j) :
       BlockAt(i, x) = BlockAt(j, y) => i = j /\ x = y
  /\ panic # "bfree"

(* What readi finds at position k of inode i, and where a file ends: the   *)
(* process that writes it sees its own bytes.                              *)
ByteAt(i, k) ==
  LET bn == k \div BSIZE
      a  == IF bn < NDIRECT THEN fs.addrs[i][bn]
            ELSE fs.data[fs.addrs[i][NDIRECT]][bn - NDIRECT]
  IN  fs.data[a][k % BSIZE]
EndOf(i) == Max({fs.size[i]} \cup {at[p] : p \in {q \in Proc : ino[fp[q]] = i}})

Bytes == INSTANCE ByteFiles WITH
  N <- BSIZE,
  Byte <- {0} \cup {Mark[p] : p \in Proc},
  content <- [i \in Inode |-> [k \in 1 .. EndOf(i) |-> ByteAt(i, k - 1)]]

(* A file is a sequence of bytes: a write changes what it says and nothing *)
(* else of this or of another file, through direct and indirect blocks and *)
(* however blocks are allocated, freed and allocated again.                *)
FilesAreBytes == Bytes!Spec

(* A transaction of filewrite logs at most MAXOPBLOCKS blocks: data,       *)
(* bitmap, indirect block and inode, for a write that is not aligned too.  *)
ChunkFits ==
  \A p \in Proc : Cardinality(logged[p] \cup (IF left[p] = 0 THEN {InodeBlock} ELSE {})) <= MAXOPBLOCKS
=============================================================================
