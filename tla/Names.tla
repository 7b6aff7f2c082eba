------------------------------- MODULE Names -------------------------------
(***************************************************************************)
(* Paths and names of files: the string functions of string.c, the entries *)
(* of directories, and the walk along a path (fs.c).  A string is the      *)
(* sequence of its characters before the 0; a buffer may have one in it.   *)
(***************************************************************************)
EXTENDS Integers, Sequences, SequencesExt

CONSTANTS
  DIRSIZ,    \* bytes for a name in a directory
  ROOTINO    \* the root's inode; no inode has number 0

Nul == "nul"
Chr(s, k) == IF k \in DOMAIN s THEN s[k] ELSE Nul

(* The first position from k on where the character is in set, or is not.  *)
First(s, k, set) == Min({j \in k .. Len(s) : s[j] \in set} \cup {Len(s) + 1})
FirstNot(s, k, set) == Min({j \in k .. Len(s) : s[j] \notin set} \cup {Len(s) + 1})

strlen(s) == First(s, 1, {Nul}) - 1

(* memmove within mem, byte by byte.                                       *)
memmove(mem, dst, src, n) ==
  LET down == src < dst /\ src + n > dst
      order == [i \in 1 .. n |-> IF down THEN n - i ELSE i - 1]
  IN  FoldLeft(LAMBDA m, k : [m EXCEPT ![dst + k] = m[src + k]], mem, order)

(* Whether strncmp returns 0.                                              *)
strncmp(p, q, n) ==
  LET stop == {k \in 1 .. n : Chr(p, k) = Nul \/ Chr(p, k) # Chr(q, k)}
  IN  stop = {} \/ Chr(p, Min(stop)) = Chr(q, Min(stop))

strncpy(s, t, n) ==
  [k \in DOMAIN s |-> IF k > n THEN s[k] ELSE IF k <= strlen(t) THEN t[k] ELSE Nul]

(* The 0 after the loop comes behind the one of t if that was copied.      *)
safestrcpy(s, t, n) ==
  LET copied == Min({n - 1, strlen(t) + 1})
  IN  IF n <= 0 THEN s
      ELSE [k \in DOMAIN s |-> IF k <= copied THEN Chr(t, k)
                               ELSE IF k = copied + 1 THEN Nul ELSE s[k]]

(* exec: the name it gives a process, in a buffer s.                       *)
ProcName(s, path) ==
  LET slash == {k \in DOMAIN path : path[k] = "/"}
      last  == IF slash = {} THEN 1 ELSE Max(slash) + 1
  IN  safestrcpy(s, SubSeq(path, last, Len(path)), Len(s))

(* The digits of a pid in the name of its swap file.                       *)
RECURSIVE itoa(_)
itoa(i) == IF i < 10 THEN <<i>> ELSE Append(itoa(i \div 10), i % 10)

-----------------------------------------------------------------------------
namecmp(s, t) == strncmp(s, t, DIRSIZ)

(* A directory is the sequence of its entries.  dirlookup: the inode of    *)
(* the first entry with the name, or 0.                                    *)
dirlookup(dir, name) ==
  LET found == {k \in DOMAIN dir : dir[k].inum # 0 /\ namecmp(name, dir[k].name)}
  IN  IF found = {} THEN 0 ELSE dir[Min(found)].inum

Blank == [k \in 1 .. DIRSIZ |-> "?"]
dirlink(dir, name, inum) ==
  LET off == Min({k \in DOMAIN dir : dir[k].inum = 0} \cup {Len(dir) + 1})
      de  == [inum |-> inum, name |-> strncpy(Blank, name, DIRSIZ)]
  IN  IF dirlookup(dir, name) # 0 THEN dir
      ELSE IF off > Len(dir) THEN Append(dir, de) ELSE [dir EXCEPT ![off] = de]

(* What skipelem leaves of path, and the buffer after it: a name of DIRSIZ *)
(* bytes has no 0, and behind a shorter one is what was there before.      *)
(* KeepsTail is without the 0.                                             *)
NoPath == <<Nul>>
KeepsTail(path, name) ==
  LET s   == FirstNot(path, 1, {"/"})
      end == First(path, s, {"/"})
  IN  IF s > Len(path) THEN [path |-> NoPath, name |-> name]
      ELSE [path |-> SubSeq(path, FirstNot(path, end, {"/"}), Len(path)),
            name |-> [k \in DOMAIN name |-> IF k <= end - s THEN path[s + k - 1] ELSE name[k]]]
skipelem(path, name) ==
  LET s   == FirstNot(path, 1, {"/"})
      end == First(path, s, {"/"})
      len == end - s
  IN  IF s > Len(path) THEN [path |-> NoPath, name |-> name]
      ELSE [path |-> SubSeq(path, FirstNot(path, end, {"/"}), Len(path)),
            name |-> [k \in DOMAIN name |-> IF k <= len THEN path[s + k - 1]
                                            ELSE IF k = len + 1 THEN Nul ELSE name[k]]]

(* namex over the directories dirs: the inode or 0, the name buffer, and   *)
(* how many references it has taken to each inode in the end: iget and     *)
(* idup take one, iput drops one.                                          *)
Held(ref, ip) == [ref EXCEPT ![ip] = @ + 1]
Dropped(ref, ip) == [ref EXCEPT ![ip] = @ - 1]

RECURSIVE Walk(_, _, _, _, _, _)
Walk(dirs, parent, ip, path, name, ref) ==
  LET e    == skipelem(path, name)
      next == dirlookup(dirs[ip], e.name)
      Fail(buf) == [ip |-> 0, name |-> buf, ref |-> Dropped(ref, ip)]
  IN  IF e.path = NoPath THEN IF parent THEN Fail(name) ELSE [ip |-> ip, name |-> name, ref |-> ref]
      ELSE IF ip \notin DOMAIN dirs THEN Fail(e.name)
      ELSE IF parent /\ e.path = <<>> THEN [ip |-> ip, name |-> e.name, ref |-> ref]
      ELSE IF next = 0 THEN Fail(e.name)
      ELSE Walk(dirs, parent, next, e.path, e.name, Dropped(Held(ref, next), ip))

namex(dirs, cwd, path, parent, ref) ==
  LET ip == IF Chr(path, 1) = "/" THEN ROOTINO ELSE cwd
  IN  Walk(dirs, parent, ip, path, Blank, Held(ref, ip))

-----------------------------------------------------------------------------
(* What a path means: the names between its slashes, cut to DIRSIZ, and    *)
(* the inode that links, a relation of directory, name and inode, lead to. *)
Cut(s) == SubSeq(s, 1, Min({DIRSIZ, Len(s)}))
Elements(path) ==
  LET starts == {k \in DOMAIN path : path[k] # "/" /\ (k = 1 \/ path[k - 1] = "/")}
      End(k) == CHOOSE e \in k .. Len(path) :
                  /\ \A j \in k .. e : path[j] # "/"
                  /\ e = Len(path) \/ path[e + 1] = "/"
  IN  [i \in 1 .. Cardinality(starts) |->
         LET k == CHOOSE x \in starts : Cardinality({y \in starts : y < x}) = i - 1
         IN  Cut(SubSeq(path, k, End(k)))]

Leads(links, ip, names) ==
  FoldLeft(LAMBDA at, n : IF \E l \in links : l[1] = at /\ l[2] = n
                          THEN (CHOOSE l \in links : l[1] = at /\ l[2] = n)[3] ELSE 0,
           ip, names)
=============================================================================
