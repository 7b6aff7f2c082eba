---------------------------- MODULE UserAccess -----------------------------
(***************************************************************************)
(* How the kernel gets at user memory: the tests of syscall.c on addresses *)
(* a program passes, in 32-bit arithmetic (Bits here), copyout and loaduvm *)
(* of vm.c, which go from page to page, and the arguments of exec.         *)
(***************************************************************************)
EXTENDS Integers, Sequences, FiniteSetsExt

CONSTANTS
  Bits,      \* width of uint and int
  IntSize,   \* sizeof(int)
  PGSIZE, NPages,
  MAXARG     \* of exec

Uint == 0 .. 2 ^ Bits - 1
Int32 == - 2 ^ (Bits - 1) .. 2 ^ (Bits - 1) - 1
Sz == 0 .. 2 ^ (Bits - 1)      \* proc->sz is at most KERNBASE
Add(a, b) == (a + b) % 2 ^ Bits

(* Whether fetchint reads the int at addr, and argptr accepts the buffer   *)
(* of size bytes at i; and one without the test of i alone.                *)
fetchint(addr, sz) == addr < sz /\ Add(addr, IntSize) <= sz
EndOnly(i, size, sz) == size >= 0 /\ Add(i, size) <= sz
argptr(i, size, sz) == size >= 0 /\ i < sz /\ Add(i, size) <= sz

(* fetchstr: the length of the string at addr, -1 if it does not end.      *)
RECURSIVE Scan(_, _, _)
Scan(mem, s, ep) == IF s >= ep THEN -1 ELSE IF mem[s] = 0 THEN s ELSE Scan(mem, s + 1, ep)
fetchstr(mem, addr, sz) ==
  LET s == Scan(mem, addr, sz) IN IF addr >= sz \/ s = -1 THEN -1 ELSE s - addr

(* uva2ka: the frame of the page at va, if it is present and the user's.   *)
(* The page has an entry in the page table.                                *)
NoFrame == -1
PGROUNDDOWN(va) == va - (va % PGSIZE)
uva2ka(pgdir, va) ==
  LET pn == va \div PGSIZE IN
  IF pgdir[pn] = NoFrame THEN NoFrame ELSE pgdir[pn] * PGSIZE

(* memmove of the first n bytes of p to at.                                *)
Copied(mem, at, p, n) ==
  [a \in DOMAIN mem |-> IF a \in at .. at + n - 1 THEN p[a - at + 1] ELSE mem[a]]

(* copyout: the memory after it, and its value.                            *)
RECURSIVE copyout(_, _, _, _)
copyout(mem, pgdir, va, p) ==
  LET va0 == PGROUNDDOWN(va)
      pa0 == uva2ka(pgdir, va0)
      n   == Min({PGSIZE - (va - va0), Len(p)})
      at  == pa0 + va - va0
  IN  IF p = <<>> THEN [mem |-> mem, ret |-> 0]
      ELSE IF pa0 = NoFrame THEN [mem |-> mem, ret |-> -1]
      ELSE copyout(Copied(mem, at, p, n), pgdir, va0 + PGSIZE, SubSeq(p, n + 1, Len(p)))

(* loaduvm of sz bytes to the page at addr on, from a file of which the    *)
(* bytes p are left at the offset: readi finds no more than those.         *)
RECURSIVE loaduvm(_, _, _, _, _)
loaduvm(mem, pgdir, addr, p, sz) ==
  LET n    == Min({PGSIZE, sz})
      got  == Min({n, Len(p)})
      next == Copied(mem, pgdir[addr \div PGSIZE] * PGSIZE, p, got)
  IN  IF sz = 0 THEN [mem |-> mem, ret |-> 0]
      ELSE IF got # n THEN [mem |-> next, ret |-> -1]
      ELSE loaduvm(next, pgdir, addr + PGSIZE, SubSeq(p, n + 1, Len(p)), sz - n)

-----------------------------------------------------------------------------
(* The arguments of exec.  An int takes up IntSize bytes, of which the     *)
(* first has its value and the others are no character.                    *)
FakePC == -1
Words(s) == [k \in 1 .. IntSize * Len(s) |->
               IF k % IntSize = 1 THEN s[k \div IntSize + 1] ELSE -2]
Aligned(a) == a - (a % IntSize)

(* The pushing of the strings, from argument argc + 1 on; ustack has the   *)
(* addresses of the ones before.                                           *)
RECURSIVE Push(_, _, _, _, _, _)
Push(mem, pgdir, argv, argc, sp, ustack) ==
  LET str == Append(argv[argc + 1], 0)
      at  == Aligned(sp - Len(str))
      out == copyout(mem, pgdir, at, str)
  IN  IF argc = Len(argv) THEN [mem |-> mem, sp |-> sp, ustack |-> ustack, ret |-> 0]
      ELSE IF argc >= MAXARG THEN [mem |-> mem, sp |-> sp, ustack |-> ustack, ret |-> -1]
      ELSE IF out.ret < 0 THEN [mem |-> out.mem, sp |-> at, ustack |-> ustack, ret |-> -1]
      ELSE Push(out.mem, pgdir, argv, argc + 1, at, Append(ustack, at))

(* The stack that exec makes below sz: the strings, and below them the     *)
(* fake return address, argc, argv and the vector argv points to, with a   *)
(* 0 at its end.                                                           *)
UserStack(mem, pgdir, argv, sz) ==
  LET p    == Push(mem, pgdir, argv, 0, sz, <<>>)
      argc == Len(argv)
      sp   == p.sp - (3 + argc + 1) * IntSize
      ustack == <<FakePC, argc, p.sp - (argc + 1) * IntSize>> \o p.ustack \o <<0>>
      out  == copyout(p.mem, pgdir, sp, Words(ustack))
  IN  IF p.ret < 0 THEN p ELSE [mem |-> out.mem, sp |-> sp, ustack |-> ustack, ret |-> out.ret]

(* The vector of strings that sys_exec reads at uargv, or NoArgs.          *)
NoArgs == <<<<-1>>>>
RECURSIVE sys_exec(_, _, _, _)
sys_exec(mem, uargv, sz, argv) ==
  LET at   == Add(uargv, IntSize * Len(argv))
      uarg == mem[at]
      len  == fetchstr(mem, uarg, sz)
  IN  IF Len(argv) >= MAXARG \/ ~fetchint(at, sz) THEN NoArgs
      ELSE IF uarg = 0 THEN argv
      ELSE IF len < 0 THEN NoArgs
      ELSE sys_exec(mem, uargv, sz, Append(argv, [k \in 1 .. len |-> mem[uarg + k - 1]]))
=============================================================================
