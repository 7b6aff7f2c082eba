---------------------------- MODULE MCAlgorithms ---------------------------
(***************************************************************************)
(* The sequential code, each piece against a definition of what it should  *)
(* compute, for all inputs up to a bound: page replacement (vm.c), the     *)
(* tests on user addresses (syscall.c), copyout and loaduvm, the arguments *)
(* of exec, strings and paths (string.c, fs.c), the shell's parser and its *)
(* pipes (sh.c), grep, and the user-level allocator.  All but the          *)
(* allocator are done in the initial state.                                *)
(***************************************************************************)
EXTENDS PageSelect, SequencesExt

CONSTANTS
  NPages, MaxTicks,                          \* page replacement
  Bits, IntSize, PGSIZE,                     \* user memory
  MAXARG, ArgPage, MaxString,                \* exec: a page of its stack
  DIRSIZ, MaxPath, MaxName, MaxPid,          \* names
  MAXARGS, MaxTokens,                        \* shell
  MaxRe, MaxText, BufSize, MaxFile,          \* grep
  HeaderSize, MinCore, HeapMax, Requests     \* malloc

U == INSTANCE UserAccess
X == INSTANCE UserAccess WITH PGSIZE <- ArgPage, NPages <- 3, Bits <- 8
N == INSTANCE Names WITH ROOTINO <- 1
S == INSTANCE Shell
G == INSTANCE Grep
M == INSTANCE Malloc

VARIABLE case

Page == 0 .. NPages - 1
Queues == UNION {{q \in [1 .. n -> Page] : IsInjective(q)} : n \in 1 .. NPages}
Histories == [1 .. MaxTicks -> BOOLEAN]
Frames == {f \in [Page -> Page \cup {U!NoFrame}] :
             \A i, j \in Page : f[i] = f[j] => i = j \/ f[i] = U!NoFrame}
UserBytes == 0 .. NPages * PGSIZE - 1
Letters == {"a", "b"}

(* exec's page of text, its guard page and the page of its stack.          *)
ExecPages == [pn \in 0 .. 2 |-> IF pn = 1 THEN X!NoFrame ELSE pn]
ExecTop == 3 * ArgPage
Strings == BoundedSeq({1}, MaxString)

(* A tree of the root, a directory in it and a file in that, named x and   *)
(* y, and the links in it.                                                 *)
Root == 1
Sub == 2
File == 3
FileNames == {[k \in 1 .. n |-> IF k = 1 THEN "a" ELSE "b"] : n \in 1 .. MaxName}
PathChars == Letters \cup {"/", "."}
Dirs(x, y) ==
  LET empty(self, up) == N!dirlink(N!dirlink(<<>>, <<".">>, self), <<".", ".">>, up) IN
  [d \in {Root, Sub} |->
     IF d = Root THEN N!dirlink(Append(empty(Root, Root), [inum |-> 0, name |-> N!Blank]), x, Sub)
     ELSE N!dirlink(empty(Sub, Root), y, File)]
Links(x, y) ==
  {<<Root, <<".">>, Root>>, <<Root, <<".", ".">>, Root>>, <<Root, N!Cut(x), Sub>>,
   <<Sub, <<".">>, Sub>>, <<Sub, <<".", ".">>, Root>>, <<Sub, N!Cut(y), File>>}

Init ==
  \/ \E q \in Queues, a \in [Page -> BOOLEAN] : case = [kind |-> "queue", queue |-> q, accessed |-> a]
  \/ \E f, s \in Histories : case = [kind |-> "ages", first |-> f, second |-> s]
  \/ \E i \in U!Uint, n \in U!Int32, sz \in U!Sz : case = [kind |-> "pointer", i |-> i, size |-> n, sz |-> sz]
  \/ \E f \in Frames, va \in UserBytes : \E n \in 0 .. NPages * PGSIZE - va :
       case = [kind |-> "copyout", pgdir |-> f, va |-> va, len |-> n]
  \/ \E f \in Frames, pn \in Page, n \in UserBytes, len \in UserBytes :
       /\ \A i \in Page : f[i] # U!NoFrame
       /\ pn * PGSIZE + n <= NPages * PGSIZE
       /\ case = [kind |-> "load", pgdir |-> f, va |-> pn * PGSIZE, sz |-> n, len |-> len]
  \/ \E mem \in [UserBytes -> {0, 1}], va \in UserBytes, sz \in UserBytes :
       case = [kind |-> "string", mem |-> mem, va |-> va, sz |-> sz]
  \/ \E t \in BoundedSeq(S!Token, MaxTokens) : case = [kind |-> "line", line |-> t]
  \/ \E re \in BoundedSeq(Letters \cup G!Special, MaxRe), t \in BoundedSeq(Letters, MaxText) :
       case = [kind |-> "re", re |-> re, text |-> t]
  \/ \E f \in BoundedSeq({"a", G!NL}, MaxFile) : case = [kind |-> "file", text |-> f]
  \/ \E args \in BoundedSeq(Strings, MAXARG) : case = [kind |-> "args", args |-> args]
  \/ \E p \in BoundedSeq(PathChars, MaxPath), x, y \in FileNames, cwd \in {Root, Sub} :
       case = [kind |-> "path", path |-> p, x |-> x, y |-> y, cwd |-> cwd]
  \/ \E dst, src \in UserBytes : \E n \in 0 .. NPages * PGSIZE - Max({dst, src}) :
       case = [kind |-> "move", dst |-> dst, src |-> src, len |-> n]
  \/ \E pid \in 1 .. MaxPid : case = [kind |-> "pid", pid |-> pid]
  \/ case = [kind |-> "heap", heap |-> M!EmptyHeap]

Next ==
  \/ case.kind = "heap" /\ \E h \in M!Steps(case.heap) : case' = [case EXCEPT !.heap = h]
  \/ case.kind # "heap" /\ UNCHANGED case

Spec == Init /\ [][Next]_case

-----------------------------------------------------------------------------
(* SCFIFO (the loop of select_page_to_back) takes the first page that was  *)
(* not accessed, or the oldest if all were; the pages before it go behind  *)
(* the others in their order, and they and no others lose their bit.       *)
SecondChanceRight(queue, accessed) ==
  LET r     == SecondChance(queue, accessed)
      idle  == {i \in DOMAIN queue : ~accessed[queue[i]]}
      turns == IF idle = {} THEN Len(queue) ELSE Min(idle) - 1
  IN  /\ <<r.victim>> \o r.queue
           = SubSeq(queue, turns + 1, Len(queue)) \o SubSeq(queue, 1, turns)
      /\ r.cleared = {queue[i] : i \in 1 .. turns}

(* The aging counter of age_process_pages orders pages by their accesses   *)
(* at the last AgeBits ticks, the newest tick first, and forgets older     *)
(* ones: what NFUA means by the least recently used page.                  *)
AgeAfter(h) == FoldRight(LAMBDA bit, age : Shifted(age, bit), h, 0)
AgeIsRecency(first, second) ==
  AgeAfter(first) < AgeAfter(second)
    <=> \E i \in 1 .. AgeBits : /\ ~first[i] /\ second[i]
                               /\ \A j \in 1 .. i - 1 : first[j] = second[j]

(* With two pages in memory, one in the swap file and a blank slot, NFUA   *)
(* takes the page that was used less recently, the first if there is no    *)
(* difference; neither NFUA nor LAPA takes a page that is not in memory.   *)
VictimRight(first, second) ==
  LET age(s) == CASE s = 1 -> AgeAfter(first) [] s = 2 -> AgeAfter(second) [] OTHER -> 0
      table == [s \in Slot |-> [exists |-> s # 3, vaddr |-> s, in_back |-> s = 0,
                                offset |-> 0, age |-> age(s)]]
      later == {i \in 1 .. AgeBits : first[i] # second[i]}
  IN  /\ NFUASlot(table) = IF later # {} /\ first[Min(later)] THEN 2 ELSE 1
      /\ LAPASlot(table) \in {1, 2}

(* The AQ pass keeps all pages, and changes the order only of an accessed  *)
(* page and one behind it that was not accessed, when the last page of the *)
(* queue was not accessed (if it was, the code goes on behind it).         *)
SwitchRight(queue, accessed) ==
  LET new == SwitchAccessed(queue, accessed)
      at(q, p) == CHOOSE i \in DOMAIN q : q[i] = p
  IN  ~accessed[queue[Len(queue)]] =>
        /\ ToSet(new) = ToSet(queue)
        /\ \A i, j \in DOMAIN queue : i < j /\ (accessed[queue[i]] => accessed[queue[j]])
             => at(new, queue[i]) < at(new, queue[j])

(* The replacement code of vm.c does what its policies are named for.      *)
ReplacementRight ==
  /\ case.kind = "queue" => /\ SecondChanceRight(case.queue, case.accessed)
                            /\ SwitchRight(case.queue, case.accessed)
  /\ case.kind = "ages" => /\ AgeIsRecency(case.first, case.second)
                           /\ VictimRight(case.first, case.second)

(* Addresses that fetchint and argptr accept lie in the process, whatever  *)
(* the sums do at the width of uint, and a buffer in the process is        *)
(* accepted; fetchstr finds the string that ends in the process; copyout   *)
(* and loaduvm write page by page what one copy would, up to the first     *)
(* page that is not there, or to the end of the file; and a program that   *)
(* exec starts finds argc and the strings it was given, as sys_exec itself *)
(* would read them, if they fit on a page of stack, and only then.         *)
UserAccessRight ==
  /\ case.kind = "args" =>
       LET argc == Len(case.args)
           r == X!UserStack([a \in 0 .. ExecTop - 1 |-> 0], ExecPages, case.args, ExecTop)
           need == IntSize * (4 + argc)
                     + FoldLeft(LAMBDA n, s : n + IntSize * (Len(s) \div IntSize + 1), 0, case.args)
       IN  IF need > ArgPage THEN r.ret = -1
           ELSE /\ r.ret = 0 /\ r.sp % IntSize = 0 /\ r.mem[r.sp + IntSize] = argc
                /\ X!sys_exec(r.mem, r.mem[r.sp + 2 * IntSize], ExecTop, <<>>)
                     = IF argc < MAXARG THEN case.args ELSE X!NoArgs
  /\ case.kind = "pointer" =>
       /\ U!argptr(case.i, case.size, case.sz)
            <=> case.size >= 0 /\ case.i < case.sz /\ case.i + case.size <= case.sz
       /\ U!fetchint(case.i, case.sz) <=> case.i + IntSize <= case.sz
  /\ case.kind = "string" =>
       LET n == U!fetchstr(case.mem, case.va, case.sz)
           ends == {k \in case.va .. case.sz - 1 : case.mem[k] = 0}
       IN  IF ends = {} THEN n = -1 ELSE n = Min(ends) - case.va
  /\ case.kind = "copyout" =>
       LET Place(k) == U!uva2ka(case.pgdir, case.va + k - 1) + ((case.va + k - 1) % PGSIZE)
           gone == {k \in 1 .. case.len : U!uva2ka(case.pgdir, case.va + k - 1) = U!NoFrame}
           done == IF gone = {} THEN case.len ELSE Min(gone) - 1
       IN  U!copyout([a \in UserBytes |-> 0], case.pgdir, case.va, [k \in 1 .. case.len |-> k])
             = [mem |-> [a \in UserBytes |->
                           IF \E k \in 1 .. done : Place(k) = a THEN CHOOSE k \in 1 .. done : Place(k) = a ELSE 0],
                ret |-> IF gone = {} THEN 0 ELSE -1]
  /\ case.kind = "load" =>
       LET Place(k) == U!uva2ka(case.pgdir, case.va + k - 1) + ((case.va + k - 1) % PGSIZE)
           r == U!loaduvm([a \in UserBytes |-> 0], case.pgdir, case.va, [k \in 1 .. case.len |-> k], case.sz)
           done == Min({case.sz, case.len})
       IN  /\ r.ret = IF case.len >= case.sz THEN 0 ELSE -1
           /\ \A k \in 1 .. done : r.mem[Place(k)] = k
           /\ \A a \in UserBytes \ {Place(k) : k \in 1 .. done} : r.mem[a] = 0

(* namex leads where the names between the slashes lead, each cut to       *)
(* DIRSIZ, whatever the buffer had from the name before; nameiparent to    *)
(* the directory and the last name.  A walk ends with one reference, to    *)
(* the inode it found, or with none.  A process gets the last name of      *)
(* exec's path; memmove copies as if at once where its regions overlap;    *)
(* and itoa writes the pid, so that no two swap files have one name.       *)
NamesRight ==
  /\ case.kind = "path" =>
       LET none  == [ip \in {Root, Sub, File} |-> 0]
           held(ip) == IF ip = 0 THEN none ELSE [none EXCEPT ![ip] = 1]
           from  == IF N!Chr(case.path, 1) = "/" THEN Root ELSE case.cwd
           names == N!Elements(case.path)
           links == Links(case.x, case.y)
           dir   == IF names = <<>> THEN 0 ELSE N!Leads(links, from, Front(names))
           i == N!namex(Dirs(case.x, case.y), case.cwd, case.path, FALSE, none)
           p == N!namex(Dirs(case.x, case.y), case.cwd, case.path, TRUE, none)
           name == N!ProcName([k \in 1 .. DIRSIZ + 1 |-> "?"], case.path)
           full == IF case.path = <<>> \/ Last(case.path) = "/" THEN <<>> ELSE Last(names)
       IN  /\ i.ip = N!Leads(links, from, names) /\ i.ref = held(i.ip)
           /\ p.ip = (IF dir = File THEN 0 ELSE dir) /\ p.ref = held(p.ip)
           /\ p.ip # 0 => SubSeq(p.name, 1, N!strlen(p.name)) = Last(names)
           /\ SubSeq(name, 1, N!strlen(name)) = full
  /\ case.kind = "move" =>
       N!memmove([a \in UserBytes |-> a], case.dst, case.src, case.len)
         = [a \in UserBytes |-> IF a \in case.dst .. case.dst + case.len - 1
                                THEN case.src + a - case.dst ELSE a]
  /\ case.kind = "pid" =>
       LET digits == N!itoa(case.pid)
       IN  digits[1] # 0 /\ FoldLeft(LAMBDA v, d : 10 * v + d, 0, digits) = case.pid

(* parsecmd accepts the lines of the grammar and gives them the tree that  *)
(* the operators' precedence asks for; nulterminate then reaches every     *)
(* word of the line.  Every program of the line runs with the input and    *)
(* output it was meant to have, and with no other descriptor open: a       *)
(* reader of a pipe that kept a writing end would never see its end.       *)
ShellRight ==
  case.kind = "line" =>
    LET p == S!parsecmd(case.line)
        c == S!Line(case.line, 1)
        shell == [k \in 0 .. 6 |-> IF k <= 2 THEN "console" ELSE S!Closed]
    IN  IF S!HasWrong(c) THEN p.at = 0
        ELSE /\ p.at # 0 /\ p.cmd = c
             /\ S!nulterminate(p.cmd) = {k \in DOMAIN case.line : case.line[k] = "a"}
             /\ S!runcmd(p.cmd, shell, <<>>)
                  = {<<x[1], [shell EXCEPT ![0] = x[2], ![1] = x[3]]>> :
                       x \in S!Meant(p.cmd, "console", "console", <<>>)}

(* match finds what the expression means, with stars, dots and anchors in  *)
(* any place, and grep writes the lines of a file that match, and no       *)
(* others, wherever its buffer cuts them, if every line fits its buffer.   *)
MatchRight ==
  /\ case.kind = "re" => (G!match(case.re, case.text) <=> G!Means(case.re, case.text))
  /\ case.kind = "file" =>
       LET ends == {k \in DOMAIN case.text : case.text[k] = G!NL}
           start(e) == Max({k \in ends : k < e} \cup {0}) + 1
           wanted == {e \in ends : e > start(e)}
       IN  (\A e \in ends : e - start(e) + 1 < BufSize) =>
             G!grep(<<"a">>, case.text, <<>>, <<>>)
               = [i \in 1 .. Cardinality(wanted) |->
                    LET e == CHOOSE x \in wanted : Cardinality({y \in wanted : y < x}) = i - 1
                    IN  SubSeq(case.text, start(e), e - 1)]

(* After any calls of malloc, free and sbrk the blocks of the program and  *)
(* the free ones cover the heap without overlapping; the free list is in   *)
(* the order of addresses, and neighbours in it are joined.                *)
HeapSound ==
  case.kind = "heap" =>
    LET h == case.heap
        blocks == h.live \cup (M!FreeBlocks(h) \ {M!base})
    IN  /\ \A a, b \in blocks : a # b => M!Units(h, a) \cap M!Units(h, b) = {}
        /\ UNION {M!Units(h, a) : a \in blocks} = (1 .. h.brk - 1) \ h.own
        /\ \A a \in M!FreeBlocks(h) : h.ptr[a] > a + h.size[a] \/ h.ptr[a] = M!base
=============================================================================
