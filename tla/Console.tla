------------------------------ MODULE Console ------------------------------
(***************************************************************************)
(* The console and the spinlocks: consoleintr, consoleread and             *)
(* consolewrite of console.c, on CPUs whose interrupts acquire and release *)
(* of spinlock.c turn off and on.  Characters arrive in an interrupt, on   *)
(* one CPU, at any point at which that CPU takes interrupts.               *)
(*                                                                         *)
(* Of the scheduler there is what sleep and wakeup need: ptable.lock, and  *)
(* the change of process on a CPU.  A process in user mode takes no CPU    *)
(* here until it calls.  The lock of the console's inode is left out.      *)
(***************************************************************************)
EXTENDS Integers, Sequences, FiniteSets

CONSTANTS
  Cpu, Cpu0, NoCpu,    \* interrupts of keyboard and serial line go to Cpu0
  Proc, NoProc,
  INPUT_BUF, Width,    \* input.r, input.w and input.e have Width bits
  Key,                 \* keys with no meaning of their own
  MaxN                 \* bytes asked for by a read

ASSUME ConsoleAssumption ==
  /\ Cpu0 \in Cpu /\ NoCpu \notin Cpu /\ NoProc \notin Proc
  /\ INPUT_BUF \in Nat \ {0} /\ Width \in Nat /\ (2 ^ Width) % INPUT_BUF = 0
  /\ MaxN \in Nat \ {0}

LineEnd == {"newline", "^D"}
Char == Key \cup LineEnd

VARIABLES
  buf, r, w, e,      \* input
  lock,              \* cpu that has cons.lock, and ptable.lock
  cpu,               \* IF of the flags register, ncli and intena
  cur,               \* process in the kernel on each CPU
  irq,               \* where consoleintr is on Cpu0: "none" when it does not run
  pc, target, n,     \* the call of each process, and its byte counts
  killed,
  panic

input == <<buf, r, w, e>>
calls == <<target, n>>
vars == <<buf, r, w, e, lock, cpu, cur, irq, pc, target, n, killed, panic>>

(* Arithmetic of uint.                                                     *)
Plus(a, k) == (a + k) % 2 ^ Width

Init ==
  /\ buf = [k \in 0 .. INPUT_BUF - 1 |-> "newline"] /\ r = 0 /\ w = 0 /\ e = 0
  /\ lock = [cons |-> NoCpu, ptable |-> NoCpu]
  /\ cpu = [c \in Cpu |-> [if |-> TRUE, ncli |-> 0, intena |-> FALSE]]
  /\ cur = [c \in Cpu |-> NoProc] /\ irq = "none"
  /\ pc = [p \in Proc |-> "user"] /\ target = [p \in Proc |-> 0] /\ n = [p \in Proc |-> 0]
  /\ killed = [p \in Proc |-> FALSE] /\ panic = "no"

-----------------------------------------------------------------------------
(* pushcli on the flags f of a CPU, and one that leaves interrupts on.     *)
push_nocli(f) == [f EXCEPT !.ncli = @ + 1, !.intena = IF f.ncli = 0 THEN f.if ELSE @]
pushcli(f) == [if |-> FALSE, ncli |-> f.ncli + 1, intena |-> IF f.ncli = 0 THEN f.if ELSE f.intena]

popcli(f) == [f EXCEPT !.ncli = @ - 1, !.if = f.ncli = 1 /\ f.intena]
PopPanics(f, k) == f.if \/ f.ncli < k

(* acquire, up to the loop around xchg, with the flags f.                  *)
Acquiring(c, l, f) ==
  /\ cpu' = [cpu EXCEPT ![c] = pushcli(f)]
  /\ panic' = IF lock[l] = c THEN "acquire" ELSE "no"

(* The xchg that finds the lock free.                                      *)
Acquired(c, l) == lock[l] = NoCpu /\ lock' = [lock EXCEPT ![l] = c]

(* release of the locks ls, which leaves the flags f.                      *)
Released(c, ls, f) ==
  /\ lock' = [l \in DOMAIN lock |-> IF l \in ls THEN NoCpu ELSE lock[l]]
  /\ cpu' = [cpu EXCEPT ![c] = f]
  /\ panic' = IF \E l \in ls : lock[l] # c THEN "release"
              ELSE IF PopPanics(cpu[c], Cardinality(ls)) THEN "popcli" ELSE "no"

-----------------------------------------------------------------------------
(* consoleintr on Cpu0, which the gate entered with interrupts off.        *)
consoleintr ==
  /\ panic = "no" /\ irq = "none" /\ cpu[Cpu0].if
  /\ irq' = "acquire" /\ Acquiring(Cpu0, "cons", [cpu[Cpu0] EXCEPT !.if = FALSE])
  /\ UNCHANGED <<input, lock, cur, pc, calls, killed>>

intr_acquire ==
  /\ panic = "no" /\ irq = "acquire" /\ Acquired(Cpu0, "cons") /\ irq' = "keys"
  /\ UNCHANGED <<input, cpu, cur, pc, calls, killed, panic>>

(* C('U') and C('H'); C('P') changes nothing here.                         *)
kill_line ==
  /\ panic = "no" /\ irq = "keys"
  /\ e' = LET keep == {k \in 0 .. INPUT_BUF : LET i == Plus(w, k) IN
                         /\ k <= (e - w) % 2 ^ Width
                         /\ k = 0 \/ buf[Plus(i, -1) % INPUT_BUF] = "newline"}
          IN  Plus(w, CHOOSE k \in keep : \A j \in keep : j <= k)
  /\ UNCHANGED <<buf, r, w, lock, cpu, cur, irq, pc, calls, killed, panic>>

backspace ==
  /\ panic = "no" /\ irq = "keys" /\ e # w /\ e' = Plus(e, -1)
  /\ UNCHANGED <<buf, r, w, lock, cpu, cur, irq, pc, calls, killed, panic>>

(* Whether a character is taken; and a test with room for one too many.    *)
RoomForMore == (e - r) % 2 ^ Width <= INPUT_BUF
Room == (e - r) % 2 ^ Width < INPUT_BUF

(* The default of the switch, up to the call of wakeup.                    *)
character(c) ==
  /\ panic = "no" /\ irq = "keys" /\ Room
  /\ buf' = [buf EXCEPT ![e % INPUT_BUF] = c] /\ e' = Plus(e, 1)
  /\ IF c \in LineEnd \/ Plus(e, 1) = Plus(r, INPUT_BUF)
     THEN w' = Plus(e, 1) /\ irq' = "wakeup" /\ Acquiring(Cpu0, "ptable", cpu[Cpu0])
     ELSE UNCHANGED <<w, irq, cpu, panic>>
  /\ UNCHANGED <<r, lock, cur, pc, calls, killed>>

(* wakeup(&input.r): all that sleep; and one that wakes a single process.  *)
WokenOne == LET asleep == {p \in Proc : pc[p] = "asleep"} IN
  IF asleep = {} THEN {} ELSE {CHOOSE p \in asleep : TRUE}
Woken == {p \in Proc : pc[p] = "asleep"}

wakeup ==
  /\ panic = "no" /\ irq = "wakeup" /\ Acquired(Cpu0, "ptable") /\ irq' = "wakeup1"
  /\ UNCHANGED <<input, cpu, cur, pc, calls, killed, panic>>

wakeup1 ==
  /\ panic = "no" /\ irq = "wakeup1"
  /\ pc' = [p \in Proc |-> IF p \in Woken THEN "runnable" ELSE pc[p]]
  /\ Released(Cpu0, {"ptable"}, popcli(cpu[Cpu0])) /\ irq' = "keys"
  /\ UNCHANGED <<input, cur, calls, killed>>

(* getc returns -1: release, and iret, which restores IF.                  *)
intr_return ==
  /\ panic = "no" /\ irq = "keys" /\ irq' = "none"
  /\ Released(Cpu0, {"cons"}, [popcli(cpu[Cpu0]) EXCEPT !.if = TRUE])
  /\ UNCHANGED <<input, cur, pc, calls, killed>>

-----------------------------------------------------------------------------
(* Process p runs in the kernel on CPU c, and is not interrupted there.    *)
Runs(c, p) == panic = "no" /\ cur[c] = p /\ (c = Cpu0 => irq = "none")

(* consoleread or consolewrite of k bytes, up to acquire.                  *)
Call(c, p, call, k) ==
  /\ Runs(c, NoProc) /\ pc[p] = "user"
  /\ cur' = [cur EXCEPT ![c] = p] /\ pc' = [pc EXCEPT ![p] = call]
  /\ target' = [target EXCEPT ![p] = k] /\ n' = [n EXCEPT ![p] = k]
  /\ Acquiring(c, "cons", cpu[c])
  /\ UNCHANGED <<input, lock, irq, killed>>

consoleread(c, p, k) == Call(c, p, "lockread", k)
consolewrite(c, p) == Call(c, p, "lockwrite", 0)

acquire(c, p) ==
  /\ Runs(c, p) /\ pc[p] \in {"lockread", "lockwrite"} /\ Acquired(c, "cons")
  /\ pc' = [pc EXCEPT ![p] = IF @ = "lockread" THEN "read" ELSE "write"]
  /\ UNCHANGED <<input, cpu, cur, irq, calls, killed, panic>>

(* release and return.  A killed process does not come to call again:      *)
(* another one does.                                                       *)
Return(c, p) ==
  /\ Released(c, {"cons"}, popcli(cpu[c])) /\ cur' = [cur EXCEPT ![c] = NoProc]
  /\ pc' = [pc EXCEPT ![p] = "user"] /\ killed' = [killed EXCEPT ![p] = FALSE]
  /\ target' = [target EXCEPT ![p] = 0] /\ n' = [n EXCEPT ![p] = 0]

write_release(c, p) ==
  Runs(c, p) /\ pc[p] = "write" /\ Return(c, p) /\ UNCHANGED <<input, irq>>

(* A turn of consoleread's loop.                                           *)
read_char(c, p) ==
  LET ch == buf[r % INPUT_BUF] IN
  /\ Runs(c, p) /\ pc[p] = "read" /\ r # w
  /\ r' = IF ch = "^D" /\ n[p] < target[p] THEN r ELSE Plus(r, 1)
  /\ IF ch \in LineEnd \/ n[p] = 1 THEN Return(c, p)
     ELSE n' = [n EXCEPT ![p] = @ - 1] /\ UNCHANGED <<lock, cpu, cur, pc, target, killed, panic>>
  /\ UNCHANGED <<buf, w, e, irq>>

(* The call of sleep, up to acquire of ptable.lock.                        *)
read_sleep(c, p) ==
  /\ Runs(c, p) /\ pc[p] = "read" /\ r = w /\ ~killed[p]
  /\ pc' = [pc EXCEPT ![p] = "sleep"] /\ Acquiring(c, "ptable", cpu[c])
  /\ UNCHANGED <<input, lock, cur, irq, calls, killed>>

read_killed(c, p) ==
  Runs(c, p) /\ pc[p] = "read" /\ r = w /\ killed[p] /\ Return(c, p) /\ UNCHANGED <<input, irq>>

sleep_acquire(c, p) ==
  /\ Runs(c, p) /\ pc[p] = "sleep" /\ Acquired(c, "ptable")
  /\ pc' = [pc EXCEPT ![p] = "sched"]
  /\ UNCHANGED <<input, cpu, cur, irq, calls, killed, panic>>

(* release(&cons.lock), SLEEPING and sched; the scheduler of the CPU then  *)
(* gives ptable.lock back.                                                 *)
sleep(c, p) ==
  /\ Runs(c, p) /\ pc[p] = "sched"
  /\ Released(c, {"cons", "ptable"}, popcli(popcli(cpu[c])))
  /\ pc' = [pc EXCEPT ![p] = "asleep"] /\ cur' = [cur EXCEPT ![c] = NoProc]
  /\ UNCHANGED <<input, irq, calls, killed>>

(* The scheduler of CPU c takes p, and sleep takes the console's lock      *)
(* again.                                                                  *)
scheduler(c, p) ==
  /\ Runs(c, NoProc) /\ pc[p] = "runnable" /\ lock.ptable = NoCpu
  /\ cur' = [cur EXCEPT ![c] = p] /\ pc' = [pc EXCEPT ![p] = "lockread"]
  /\ Acquiring(c, "cons", cpu[c])
  /\ UNCHANGED <<input, lock, irq, calls, killed>>

kill(p) ==
  /\ panic = "no" /\ pc[p] # "user" /\ lock.ptable = NoCpu
  /\ killed' = [killed EXCEPT ![p] = TRUE]
  /\ pc' = [pc EXCEPT ![p] = IF @ = "asleep" THEN "runnable" ELSE @]
  /\ UNCHANGED <<input, lock, cpu, cur, irq, calls, panic>>

-----------------------------------------------------------------------------
Handler == intr_acquire \/ wakeup \/ wakeup1 \/ intr_return \/ kill_line \/ backspace \/ \E c \in Char : character(c)
Kernel(c, p) == acquire(c, p) \/ write_release(c, p) \/ read_char(c, p)
             \/ read_sleep(c, p) \/ read_killed(c, p) \/ sleep_acquire(c, p) \/ sleep(c, p)

Next ==
  \/ consoleintr \/ Handler
  \/ \E p \in Proc : kill(p)
  \/ \E c \in Cpu, p \in Proc :
       \/ Kernel(c, p) \/ scheduler(c, p) \/ consolewrite(c, p)
       \/ \E k \in 1 .. MaxN : consoleread(c, p, k)

Spec == Init /\ [][Next]_vars

-----------------------------------------------------------------------------
(* acquire and release nest: on every CPU interrupts are off exactly while *)
(* a spinlock is held or waited for, or an interrupt is handled; none of   *)
(* the panics of spinlock.c happens, so the handler never waits for a lock *)
(* of the process it interrupted.                                          *)
InterruptsMasked ==
  /\ panic = "no"
  /\ \A c \in Cpu :
       /\ cpu[c].if <=> cpu[c].ncli = 0 /\ (c = Cpu0 => irq = "none")
       /\ (c \in {lock.cons, lock.ptable} \/ cur[c] # NoProc) => ~cpu[c].if
       /\ cpu[c].ncli = 0 => cur[c] = NoProc /\ c \notin {lock.cons, lock.ptable}

(* The characters from index i on to index j.                              *)
Between(i, j) == [k \in 1 .. (j - i) % 2 ^ Width |-> buf[Plus(i, k - 1) % INPUT_BUF]]

Line == INSTANCE Terminal WITH Size <- INPUT_BUF, edit <- Between(w, e), ready <- Between(r, w)

(* input is a terminal: nothing typed is lost, read twice or read before   *)
(* its line has ended, by several readers and when r, w and e wrap around. *)
ConsoleIsTerminal == Line!Spec

(* No process sleeps in consoleread while there is input to be read,       *)
(* unless consoleintr is about to wake it: what sleep and wakeup do under  *)
(* their two locks leaves no gap, on one CPU or between two, and every     *)
(* sleeper is woken for a line of which the others may leave something.    *)
NoLostWakeup == \A p \in Proc : pc[p] = "asleep" => r = w \/ irq \in {"wakeup", "wakeup1"}
=============================================================================
