------------------------------- MODULE Inode -------------------------------
(***************************************************************************)
(* Inodes, the inode cache and the names of files: iget, ilock, iput,      *)
(* ialloc and the directory operations of fs.c, and open, create, link,    *)
(* unlink and close of sysfile.c and file.c.  All names are in the root    *)
(* directory, as those of the swap files are.                              *)
(*                                                                         *)
(* A system call takes one step for every stretch of code between two      *)
(* points where another process can come in.  Sleeplocks are explicit;     *)
(* Bcache shows how they are waited for.  The blocks of a file are left    *)
(* out: of an inode there remain whether it is allocated (type), and nlink.*)
(***************************************************************************)
EXTENDS Integers, FiniteSets, FiniteSetsExt

CONSTANTS
  Proc, Nobody,
  Name,
  SwapName,   \* the name of each process's swap file
  NInum,      \* sb.ninodes: inodes on the disk
  NInode      \* NINODE: entries of the cache

ASSUME InodeAssumption ==
  /\ Nobody \notin Proc /\ NInum \in Nat \ {0} /\ NInode \in Nat \ {0}
  /\ IsFiniteSet(Proc) /\ IsFiniteSet(Name) /\ SwapName \in [Proc -> Name]

Inum == 1 .. NInum
Entry == 1 .. NInode
None == 0
Swap == -1

VARIABLES
  dtype, dnlink,    \* struct dinode: whether allocated, and the link count
  dir,              \* the root directory
  root,             \* holder of its lock
  inum, ref, valid, type, nlink,   \* struct inode
  holder,           \* of the inode's sleeplock
  file,             \* the open file of each process: an entry of the cache, or Swap
                    \* while createSwapFile makes it
  pc, name, num,    \* progress of the call; name and inode number still to be used
  ip, held,         \* the inode it is at; the one it will come back to
  panic

disk == <<dtype, dnlink, dir>>
cache == <<inum, ref, valid, type, nlink, holder>>
vars == <<dtype, dnlink, dir, root, inum, ref, valid, type, nlink, holder,
          file, pc, name, num, ip, held, panic>>

Init ==
  /\ dtype = [i \in Inum |-> FALSE] /\ dnlink = [i \in Inum |-> 0]
  /\ dir = [n \in Name |-> None] /\ root = Nobody
  /\ inum = [e \in Entry |-> None] /\ ref = [e \in Entry |-> 0]
  /\ valid = [e \in Entry |-> FALSE] /\ type = [e \in Entry |-> FALSE]
  /\ nlink = [e \in Entry |-> 0] /\ holder = [e \in Entry |-> Nobody]
  /\ file = [p \in Proc |-> None] /\ pc = [p \in Proc |-> "user"]
  /\ name = [p \in Proc |-> None] /\ num = [p \in Proc |-> None]
  /\ ip = [p \in Proc |-> None] /\ held = [p \in Proc |-> None] /\ panic = "no"

-----------------------------------------------------------------------------
Goto(p, l) == pc' = [pc EXCEPT ![p] = l]
Calling(p) == pc[p] = "user" /\ panic = "no"
At(p, l) == pc[p] = l /\ panic = "no"

(* iget: the entry in use for inode i, or the first free one.              *)
InUse(i) == {e \in Entry : ref[e] > 0 /\ inum[e] = i}

iget(p, i, l) ==
  LET free == {e \in Entry : ref[e] = 0}
      e    == IF InUse(i) # {} THEN Min(InUse(i)) ELSE Min(free)
  IN
  /\ IF InUse(i) = {} /\ free = {}
     THEN panic' = "iget" /\ UNCHANGED <<inum, ref, valid, ip, pc>>
     ELSE /\ ref' = [ref EXCEPT ![e] = @ + 1]
          /\ inum' = [inum EXCEPT ![e] = i]
          /\ valid' = [valid EXCEPT ![e] = @ /\ ref[e] > 0]
          /\ ip' = [ip EXCEPT ![p] = e] /\ Goto(p, l) /\ UNCHANGED panic
  /\ UNCHANGED <<type, nlink, holder>>

(* iupdate, after an assignment to nlink; and an inode that is not written *)
(* through.                                                                *)
NotUpdated(e, n) == dnlink
Updated(e, n) == [dnlink EXCEPT ![inum[e]] = n]

SetNlink(e, n) == nlink' = [nlink EXCEPT ![e] = n] /\ dnlink' = Updated(e, n)

(* ilock, in each of the places it is called from.                         *)
Locking == [lockopen |-> "open", locklink |-> "link", lockunlink |-> "unlink",
            locknew |-> "new", lockbad |-> "drop"]

ilock(p) ==
  LET e == ip[p] IN
  /\ panic = "no" /\ pc[p] \in DOMAIN Locking /\ holder[e] = Nobody
  /\ holder' = [holder EXCEPT ![e] = p]
  /\ IF valid[e] THEN UNCHANGED <<valid, type, nlink, panic>>
     ELSE /\ valid' = [valid EXCEPT ![e] = TRUE]
          /\ type' = [type EXCEPT ![e] = dtype[inum[e]]]
          /\ nlink' = [nlink EXCEPT ![e] = dnlink[inum[e]]]
          /\ panic' = IF dtype[inum[e]] THEN "no" ELSE "ilock"
  /\ Goto(p, Locking[pc[p]])
  /\ UNCHANGED <<disk, root, inum, ref, file, name, num, ip, held>>

-----------------------------------------------------------------------------
(* The root directory: dirlookup of a name, and dirlink of a name that is  *)
(* not there.                                                              *)
dirlookup(n) == dir[n]
Entered(n, i) == [dir EXCEPT ![n] = i]

(* sys_open without O_CREATE: namei.                                       *)
sys_open(p, n) ==
  /\ Calling(p) /\ file[p] = None /\ root = Nobody /\ dirlookup(n) # None
  /\ iget(p, dirlookup(n), "lockopen")
  /\ UNCHANGED <<disk, root, file, name, num, held>>

(* The end of sys_open: the file, or no file is to be had.  The latter is  *)
(* a panic in createSwapFile.                                              *)
Opened(p) ==
  /\ At(p, "open")
  /\ holder' = [holder EXCEPT ![ip[p]] = Nobody]
  /\ \/ /\ file' = [file EXCEPT ![p] = ip[p]]
        /\ ip' = [ip EXCEPT ![p] = None] /\ Goto(p, "user")
        /\ UNCHANGED panic
     \/ /\ IF file[p] = Swap THEN panic' = "file" /\ UNCHANGED pc
           ELSE Goto(p, "put") /\ UNCHANGED panic
        /\ UNCHANGED <<file, ip>>
  /\ UNCHANGED <<disk, root, inum, ref, valid, type, nlink, name, num, held>>

(* create: an inode that is there, or a new one.                           *)
create(p, n, f) ==
  /\ Calling(p) /\ file[p] = None /\ root = Nobody /\ file' = [file EXCEPT ![p] = f]
  /\ IF dirlookup(n) # None
     THEN iget(p, dirlookup(n), "lockopen") /\ UNCHANGED <<root, name>>
     ELSE /\ root' = p /\ name' = [name EXCEPT ![p] = n] /\ Goto(p, "ialloc")
          /\ UNCHANGED <<cache, ip, panic>>
  /\ UNCHANGED <<disk, num, held>>

ialloc(p) ==
  LET free == {i \in Inum : ~dtype[i]} IN
  /\ At(p, "ialloc")
  /\ IF free = {}
     THEN panic' = "ialloc" /\ UNCHANGED <<dtype, dnlink, num, pc>>
     ELSE /\ dtype' = [dtype EXCEPT ![Min(free)] = TRUE]
          /\ dnlink' = [dnlink EXCEPT ![Min(free)] = 0]
          /\ num' = [num EXCEPT ![p] = Min(free)] /\ Goto(p, "iget") /\ UNCHANGED panic
  /\ UNCHANGED <<dir, root, cache, file, name, ip, held>>

ialloc_iget(p) ==
  /\ At(p, "iget") /\ iget(p, num[p], "locknew")
  /\ num' = [num EXCEPT ![p] = None]
  /\ UNCHANGED <<disk, root, file, name, held>>

(* nlink = 1, iupdate and dirlink, with both locks; then the root goes.    *)
create_link(p) ==
  /\ At(p, "new") /\ SetNlink(ip[p], 1)
  /\ dir' = Entered(name[p], inum[ip[p]])
  /\ root' = Nobody /\ name' = [name EXCEPT ![p] = None] /\ Goto(p, "open")
  /\ UNCHANGED <<dtype, inum, ref, valid, type, holder, file, num, ip, held, panic>>

-----------------------------------------------------------------------------
(* sys_unlink, to the call of ilock; the root stays locked.                *)
sys_unlink(p, n) ==
  /\ Calling(p) /\ root = Nobody /\ dirlookup(n) # None
  /\ iget(p, dirlookup(n), "lockunlink")
  /\ root' = p /\ name' = [name EXCEPT ![p] = n]
  /\ UNCHANGED <<disk, file, num, held>>

(* The name goes, and then the root is let go of.                          *)
Unlinked(p) ==
  /\ At(p, "unlink")
  /\ IF nlink[ip[p]] < 1
     THEN panic' = "unlink" /\ UNCHANGED <<dir, root, name, pc>>
     ELSE /\ dir' = [dir EXCEPT ![name[p]] = None] /\ name' = [name EXCEPT ![p] = None]
          /\ root' = Nobody /\ Goto(p, "drop") /\ UNCHANGED panic
  /\ UNCHANGED <<dtype, dnlink, cache, file, num, ip, held>>

(* ip->nlink--, iupdate and iunlockput: in sys_unlink, and where sys_link  *)
(* gives up.                                                               *)
Dropped(p) ==
  /\ At(p, "drop")
  /\ SetNlink(ip[p], nlink[ip[p]] - 1)
  /\ holder' = [holder EXCEPT ![ip[p]] = Nobody] /\ Goto(p, "put")
  /\ UNCHANGED <<dtype, dir, root, inum, ref, valid, type, file, name, num, ip, held, panic>>

(* sys_link: the old name is looked up, ...                                *)
sys_link(p, old, new) ==
  /\ Calling(p) /\ root = Nobody /\ dirlookup(old) # None
  /\ iget(p, dirlookup(old), "locklink")
  /\ name' = [name EXCEPT ![p] = new]
  /\ UNCHANGED <<disk, root, file, num, held>>

(* A faulty sys_link that keeps the inode locked.                          *)
CountedLocked(p) ==
  /\ At(p, "link")
  /\ SetNlink(ip[p], nlink[ip[p]] + 1) /\ Goto(p, "dirlink")
  /\ UNCHANGED <<dtype, dir, root, inum, ref, valid, type, holder, file, name, num, ip, held, panic>>

(* ... the link is counted, ...                                            *)
Counted(p) ==
  /\ At(p, "link")
  /\ SetNlink(ip[p], nlink[ip[p]] + 1)
  /\ holder' = [holder EXCEPT ![ip[p]] = Nobody] /\ Goto(p, "dirlink")
  /\ UNCHANGED <<dtype, dir, root, inum, ref, valid, type, file, name, num, ip, held, panic>>

(* ... and the new name is entered.  If it is there already dirlink drops  *)
(* the inode it found, with the root locked, before sys_link gives up.     *)
link_dirlink(p) ==
  LET n == name[p] IN
  /\ At(p, "dirlink") /\ root = Nobody
  /\ IF dirlookup(n) = None
     THEN /\ dir' = Entered(n, inum[ip[p]]) /\ Goto(p, "put")
          /\ UNCHANGED <<root, cache, ip, held, panic>>
     ELSE /\ iget(p, dirlookup(n), "put")
          /\ root' = p /\ held' = [held EXCEPT ![p] = ip[p]] /\ UNCHANGED dir
  /\ name' = [name EXCEPT ![p] = None]
  /\ UNCHANGED <<dtype, dnlink, file, num>>

(* The last fileclose of a struct file, by sys_close or by exit.           *)
fileclose(p, n) ==
  /\ Calling(p) /\ file[p] # None
  /\ ip' = [ip EXCEPT ![p] = file[p]] /\ file' = [file EXCEPT ![p] = None]
  /\ name' = [name EXCEPT ![p] = n] /\ Goto(p, "put")
  /\ UNCHANGED <<disk, root, cache, num, held, panic>>

sys_close(p) == fileclose(p, None)

(* createSwapFile, as fork calls it for a child that has no swap file yet: *)
(* an ordinary file.                                                       *)
createSwapFile(p) == create(p, SwapName[p], Swap)

(* removeSwapFile: fileclose, and once that has returned the code of       *)
(* sys_unlink over again.                                                  *)
removeSwapFile(p) == fileclose(p, SwapName[p])

removeSwapFile_unlink(p) ==
  LET n == name[p] IN
  /\ At(p, "rm") /\ root = Nobody
  /\ IF dirlookup(n) = None
     THEN name' = [name EXCEPT ![p] = None] /\ Goto(p, "user")
          /\ UNCHANGED <<root, cache, ip, panic>>
     ELSE iget(p, dirlookup(n), "lockunlink") /\ root' = p /\ UNCHANGED name
  /\ UNCHANGED <<disk, file, num, held>>

-----------------------------------------------------------------------------
(* What iput frees, and a faulty iput that does not look at ref.           *)
UnlinkedOnly(e) == valid[e] /\ nlink[e] = 0
LastUnlinked(e) == valid[e] /\ nlink[e] = 0 /\ ref[e] = 1

(* iput, to the reading of ref; the sleeplock is kept if the inode is to   *)
(* be freed.                                                               *)
iput(p) ==
  LET e == ip[p] IN
  /\ At(p, "put") /\ holder[e] = Nobody
  /\ IF LastUnlinked(e)
     THEN holder' = [holder EXCEPT ![e] = p] /\ Goto(p, "free")
     ELSE Goto(p, "deref") /\ UNCHANGED holder
  /\ UNCHANGED <<disk, root, inum, ref, valid, type, nlink, file, name, num, ip, held, panic>>

(* itrunc, type = 0, iupdate.                                              *)
iput_free(p) ==
  LET e == ip[p] IN
  /\ At(p, "free")
  /\ type' = [type EXCEPT ![e] = FALSE]
  /\ dtype' = [dtype EXCEPT ![inum[e]] = FALSE]
  /\ dnlink' = Updated(e, nlink[e])
  /\ Goto(p, "invalid")
  /\ UNCHANGED <<dir, root, inum, ref, valid, nlink, holder, file, name, num, ip, held, panic>>

(* valid = 0, releasesleep; and one that leaves the entry valid.           *)
StillValid(e) == valid
Invalid(e) == [valid EXCEPT ![e] = FALSE]

iput_invalid(p) ==
  LET e == ip[p] IN
  /\ At(p, "invalid")
  /\ valid' = Invalid(e)
  /\ holder' = [holder EXCEPT ![e] = Nobody] /\ Goto(p, "deref")
  /\ UNCHANGED <<disk, root, inum, ref, type, nlink, file, name, num, ip, held, panic>>

(* ref--, and the return to user mode, to removeSwapFile, or from dirlink  *)
(* to sys_link.  What a free entry holds is not read again, and forgotten. *)
iput_deref(p) ==
  LET e == ip[p]
      Forget(f, v) == [f EXCEPT ![e] = IF ref[e] = 1 THEN v ELSE @]
  IN
  /\ At(p, "deref")
  /\ ref' = [ref EXCEPT ![e] = @ - 1]
  /\ inum' = Forget(inum, None) /\ valid' = Forget(valid, FALSE)
  /\ type' = Forget(type, FALSE) /\ nlink' = Forget(nlink, 0)
  /\ ip' = [ip EXCEPT ![p] = held[p]] /\ held' = [held EXCEPT ![p] = None]
  /\ IF held[p] = None
     THEN Goto(p, IF name[p] = None THEN "user" ELSE "rm") /\ UNCHANGED root
     ELSE Goto(p, "lockbad") /\ root' = Nobody
  /\ UNCHANGED <<disk, holder, file, name, num, panic>>

-----------------------------------------------------------------------------
(* The steps of a call that has begun.                                     *)
Kernel(p) ==
  \/ ilock(p) \/ Opened(p) \/ ialloc(p) \/ ialloc_iget(p) \/ create_link(p)
  \/ Unlinked(p) \/ Dropped(p) \/ Counted(p) \/ link_dirlink(p)
  \/ removeSwapFile_unlink(p) \/ iput(p) \/ iput_free(p) \/ iput_invalid(p) \/ iput_deref(p)

User(p) ==
  \/ sys_close(p)
  \/ createSwapFile(p) \/ removeSwapFile(p)
  \/ \E n \in Name : sys_open(p, n) \/ create(p, n, None) \/ sys_unlink(p, n)
  \/ \E o, n \in Name : sys_link(p, o, n)

Next == \E p \in Proc : User(p) \/ Kernel(p)

Spec == Init /\ [][Next]_vars
FairSpec == Spec /\ \A p \in Proc : SF_vars(Kernel(p))

-----------------------------------------------------------------------------
Locations == {"user", "lockopen", "locklink", "lockunlink", "locknew", "lockbad",
              "open", "link", "unlink", "new", "drop", "ialloc", "iget", "dirlink",
              "rm", "put", "free", "invalid", "deref"}

(* The type of every variable; ref and nlink are never negative, although  *)
(* they are decremented without a test in iput, sys_unlink and sys_link.   *)
TypeOK ==
  /\ dtype \in [Inum -> BOOLEAN] /\ dnlink \in [Inum -> Nat]
  /\ dir \in [Name -> Inum \cup {None}] /\ root \in Proc \cup {Nobody}
  /\ inum \in [Entry -> Inum \cup {None}] /\ ref \in [Entry -> Nat]
  /\ valid \in [Entry -> BOOLEAN] /\ type \in [Entry -> BOOLEAN]
  /\ nlink \in [Entry -> Nat] /\ holder \in [Entry -> Proc \cup {Nobody}]
  /\ file \in [Proc -> Entry \cup {None, Swap}] /\ pc \in [Proc -> Locations]
  /\ name \in [Proc -> Name \cup {None}] /\ num \in [Proc -> Inum \cup {None}]
  /\ ip \in [Proc -> Entry \cup {None}] /\ held \in [Proc -> Entry \cup {None}]
  /\ panic \in {"no", "iget", "ilock", "ialloc", "file", "unlink"}

(* Pointers to an entry: open files, and the local variables of calls.     *)
Pointers(e) == Cardinality({p \in Proc : file[p] = e})
             + Cardinality({p \in Proc : ip[p] = e}) + Cardinality({p \in Proc : held[p] = e})

(* ip->ref is the number of in-memory pointers to the entry, at every step *)
(* of every call: iget in dirlookup, the transfer to struct file in        *)
(* sys_open and the iput of each error path balance.                       *)
RefExact == \A e \in Entry : ref[e] = Pointers(e)

(* An inode is cached once: iget under icache.lock finds the entry of a    *)
(* process that is still using it.                                         *)
OneEntry == \A i \in Inum : Cardinality(InUse(i)) <= 1

(* Calls that have changed only one of a directory entry and nlink: nlink  *)
(* goes first when sys_link adds a name, last when one is removed.         *)
Owed(i) == Cardinality({p \in Proc :
  \/ pc[p] \in {"dirlink", "lockbad", "drop"} /\ inum[ip[p]] = i
  \/ held[p] # None /\ inum[held[p]] = i})

(* The link count on disk is the number of names of the inode, plus one    *)
(* for each sys_link or sys_unlink that is between its two writes:         *)
(* it is never below the number of names, so no named inode is freed.      *)
LinksExact == \A i \in Inum : dnlink[i] = Cardinality({n \in Name : dir[n] = i}) + Owed(i)

(* Both counts are exact at every step of every call.                      *)
CountsExact == TypeOK /\ RefExact /\ LinksExact

(* A name, an open file and a call past ilock refer to an inode that is    *)
(* allocated on disk: iput frees an inode only when nothing is left that   *)
(* leads to it.  So no call panics with "ilock: no type", nor with         *)
(* "unlink: nlink < 1"; ialloc, iget, filealloc panic when a table is full.*)
NothingDangles ==
  /\ panic \notin {"ilock", "unlink"}
  /\ \A n \in Name : dir[n] # None => dtype[dir[n]]
  /\ \A p \in Proc : file[p] \in Entry => dtype[inum[file[p]]]
  /\ \A p \in Proc : pc[p] \in {"open", "link", "unlink", "new", "drop", "dirlink"}
       => dtype[inum[ip[p]]]

(* The inode cache is write-through: a valid entry nobody has locked is    *)
(* equal to the inode on disk, also when ialloc has taken the inode again  *)
(* while the process that freed it still refers to the entry.              *)
WriteThrough ==
  \A e \in Entry : ref[e] > 0 /\ valid[e] /\ holder[e] = Nobody =>
    type[e] = dtype[inum[e]] /\ nlink[e] = dnlink[inum[e]]

(* The cache has one entry for an inode, and it is the inode.              *)
CacheCoherent == OneEntry /\ WriteThrough

(* Every call returns, unless the kernel panics: the root and the inode    *)
(* locks are taken in one order, also by dirlink's iput under the root.    *)
CallsReturn == \A p \in Proc : pc[p] # "user" ~> pc[p] = "user" \/ panic # "no"
=============================================================================
