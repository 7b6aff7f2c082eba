-------------------------------- MODULE Proc --------------------------------
(***************************************************************************)
(* The process table (proc.c): fork, exit, wait, kill, sleep and wakeup,   *)
(* the scheduler of every CPU, and the clock interrupt with the sleep      *)
(* system call (trap.c, sysproc.c).                                        *)
(*                                                                         *)
(* Each CPU runs its scheduler or the process it has picked.  ptable.lock  *)
(* is explicit, because it is passed from one context to another across    *)
(* swtch: a process takes it, changes its state and switches to the        *)
(* scheduler, which lets it go; the scheduler takes it, picks a process    *)
(* and switches, and that process lets it go.  A critical section without  *)
(* a switch is one step, taken when the lock is free.  Interrupts are off  *)
(* on a CPU that holds a lock or is in the handler of an interrupt.        *)
(***************************************************************************)
EXTENDS Integers, FiniteSets, FiniteSetsExt

CONSTANTS
  NProc,      \* NPROC
  Cpu, Cpu0,  \* the CPUs, and the one that counts the ticks
  NoCpu,
  MaxSleep,   \* bound: the longest sleep, in ticks
  MemoryTight \* whether fork may fail for want of memory

ASSUME ProcAssumption ==
  /\ NProc \in Nat \ {0} /\ MaxSleep \in Nat
  /\ Cpu0 \in Cpu /\ NoCpu \notin Cpu /\ MemoryTight \in BOOLEAN

Slot == 1 .. NProc
initproc == 1
None == 0
Ticks == NProc + 1     \* the channel &ticks; a process in wait sleeps on itself

VARIABLES
  state, parent, killed, chan, pid,  \* struct proc; pid is whether it is not 0
  kpc,       \* where each process is in its system call
  np,        \* fork's new process
  left,      \* sys_sleep: ticks still to wait, n - (ticks - ticks0) if positive
  lock, tlock,     \* the CPU that holds ptable.lock, and tickslock
  proc,      \* cpu.proc
  cpc,       \* "idle", "scan" in the scheduler; "arrive", "run", "leave" in a process
  idx,       \* the scheduler's position in the table
  ipc        \* progress of the clock interrupt

procs == <<state, parent, killed, chan, pid, kpc, np, left>>
cpus == <<proc, cpc, idx, ipc>>
vars == <<state, parent, killed, chan, pid, kpc, np, left,
          lock, tlock, proc, cpc, idx, ipc>>

Init ==
  /\ state = [p \in Slot |-> IF p = initproc THEN "RUNNABLE" ELSE "UNUSED"]
  /\ parent = [p \in Slot |-> None] /\ killed = [p \in Slot |-> FALSE]
  /\ chan = [p \in Slot |-> None] /\ pid = [p \in Slot |-> p = initproc]
  /\ kpc = [p \in Slot |-> "user"]
  /\ np = [p \in Slot |-> None] /\ left = [p \in Slot |-> 0]
  /\ lock = NoCpu /\ tlock = NoCpu
  /\ proc = [c \in Cpu |-> None] /\ cpc = [c \in Cpu |-> "idle"]
  /\ idx = [c \in Cpu |-> 1] /\ ipc = [c \in Cpu |-> "none"]

-----------------------------------------------------------------------------
(* wakeup1 *)
Woken(st, ch) ==
  [p \in Slot |-> IF st[p] = "SLEEPING" /\ chan[p] = ch THEN "RUNNABLE" ELSE st[p]]

(* CPU c executes the code of process p, at place k. *)
At(c, p, k) == cpc[c] = "run" /\ ipc[c] = "none" /\ proc[c] = p /\ kpc[p] = k

Goto(p, k) == kpc' = [kpc EXCEPT ![p] = k]

(* sched: the process has set its state and holds the lock; next, swtch.   *)
(* And a sched that lets the lock go first.                                *)
SchedUnlocked(c) == lock' = NoCpu /\ cpc' = [cpc EXCEPT ![c] = "leave"]
Sched(c) == lock' = c /\ cpc' = [cpc EXCEPT ![c] = "leave"]

-----------------------------------------------------------------------------
(* scheduler *)
SchedAcquire(c) ==
  /\ cpc[c] = "idle" /\ ipc[c] = "none" /\ lock = NoCpu
  /\ lock' = c
  /\ cpc' = [cpc EXCEPT ![c] = "scan"] /\ idx' = [idx EXCEPT ![c] = 1]
  /\ UNCHANGED <<procs, tlock, proc, ipc>>

SchedScan(c) ==
  /\ cpc[c] = "scan"
  /\ IF idx[c] > NProc
     THEN /\ lock' = NoCpu /\ cpc' = [cpc EXCEPT ![c] = "idle"]
          /\ UNCHANGED <<state, proc, idx>>
     ELSE IF state[idx[c]] # "RUNNABLE"
     THEN idx' = [idx EXCEPT ![c] = @ + 1] /\ UNCHANGED <<state, lock, proc, cpc>>
     ELSE /\ state' = [state EXCEPT ![idx[c]] = "RUNNING"]
          /\ proc' = [proc EXCEPT ![c] = idx[c]]
          /\ cpc' = [cpc EXCEPT ![c] = "arrive"]
          /\ UNCHANGED <<lock, idx>>
  /\ UNCHANGED <<parent, killed, chan, pid, kpc, np, left, tlock, ipc>>

(* swtch into a process: after yield, in forkret and at the end of sleep   *)
(* the lock is released; sleep in wait keeps it.                           *)
Arrive(c) ==
  LET p == proc[c] IN
  /\ cpc[c] = "arrive"
  /\ cpc' = [cpc EXCEPT ![c] = "run"]
  /\ lock' = IF kpc[p] = "wait" THEN lock ELSE NoCpu
  /\ chan' = [chan EXCEPT ![p] = None]
  /\ UNCHANGED <<state, parent, killed, pid, kpc, np, left, tlock, proc, idx, ipc>>

(* swtch back to the scheduler. *)
Leave(c) ==
  /\ cpc[c] = "leave"
  /\ cpc' = [cpc EXCEPT ![c] = "scan"]
  /\ proc' = [proc EXCEPT ![c] = None]
  /\ idx' = [idx EXCEPT ![c] = @ + 1]
  /\ UNCHANGED <<procs, lock, tlock, ipc>>

-----------------------------------------------------------------------------
(* A program calls the kernel; a killed one is stopped at the entry.  That *)
(* test and the call's first critical section are one step.                *)
Calling(c, p) == At(c, p, "user") /\ ~killed[p]

(* fork: allocproc, then the copying, then the child is made runnable.     *)
ForkAlloc(c, p) ==
  LET free == {q \in Slot : state[q] = "UNUSED"} IN
  /\ Calling(c, p) /\ lock = NoCpu /\ free # {}
  /\ state' = [state EXCEPT ![Min(free)] = "EMBRYO"]
  /\ pid' = [pid EXCEPT ![Min(free)] = TRUE]
  /\ np' = [np EXCEPT ![p] = Min(free)]
  /\ Goto(p, "fork")
  /\ UNCHANGED <<parent, killed, chan, left, lock, tlock, cpus>>

ForkFail(c, p) ==
  /\ MemoryTight /\ At(c, p, "fork")
  /\ state' = [state EXCEPT ![np[p]] = "UNUSED"]
  /\ np' = [np EXCEPT ![p] = None]
  /\ Goto(p, "user")
  /\ UNCHANGED <<parent, killed, chan, pid, left, lock, tlock, cpus>>

ForkCopy(c, p) ==
  /\ At(c, p, "fork")
  /\ parent' = [parent EXCEPT ![np[p]] = p]
  /\ Goto(p, "forked")
  /\ UNCHANGED <<state, killed, chan, pid, np, left, lock, tlock, cpus>>

ForkRun(c, p) ==
  /\ At(c, p, "forked") /\ lock = NoCpu
  /\ state' = [state EXCEPT ![np[p]] = "RUNNABLE"]
  /\ kpc' = [kpc EXCEPT ![p] = "user", ![np[p]] = "user"]
  /\ np' = [np EXCEPT ![p] = None]
  /\ UNCHANGED <<parent, killed, chan, pid, left, lock, tlock, cpus>>

-----------------------------------------------------------------------------
(* exit, called by the program or by trap for a killed one.  Up to the     *)
(* lock it closes files, which may take long.                              *)
ExitStart(c, p) ==
  /\ At(c, p, "user") /\ p # initproc
  /\ Goto(p, "exit")
  /\ UNCHANGED <<state, parent, killed, chan, pid, np, left, lock, tlock, cpus>>

(* The parent is woken, children go to init, which is woken for a zombie.  *)
Orphaned(p) == parent
Adopted(p) == [q \in Slot |-> IF parent[q] = p THEN initproc ELSE parent[q]]

ParentWoken(p) == Woken(state, parent[p])
NobodyWoken(p) == state
ExitWoken(p) ==
  IF \E q \in Slot : parent[q] = p /\ state[q] = "ZOMBIE"
  THEN Woken(ParentWoken(p), initproc) ELSE ParentWoken(p)

Exit(c, p) ==
  /\ At(c, p, "exit") /\ lock = NoCpu
  /\ parent' = Adopted(p)
  /\ state' = [ExitWoken(p) EXCEPT ![p] = "ZOMBIE"]
  /\ Sched(c)
  /\ UNCHANGED <<killed, chan, pid, kpc, np, left, tlock, proc, idx, ipc>>

-----------------------------------------------------------------------------
(* wait: from the call with the lock free, or after sleep with it held.    *)
Wait(c, p) ==
  LET kids == {q \in Slot : parent[q] = p}
      dead == {q \in kids : state[q] = "ZOMBIE"}
      q    == Min(dead)
  IN
  /\ \/ Calling(c, p) /\ lock = NoCpu
     \/ At(c, p, "wait") /\ lock = c
  /\ IF dead # {}
     THEN /\ pid' = [pid EXCEPT ![q] = FALSE]
          /\ parent' = [parent EXCEPT ![q] = None]
          /\ killed' = [killed EXCEPT ![q] = FALSE]
          /\ state' = [state EXCEPT ![q] = "UNUSED"]
          /\ lock' = NoCpu /\ Goto(p, "user")
          /\ UNCHANGED <<chan, cpc>>
     ELSE IF kids = {} \/ killed[p]
     THEN /\ lock' = NoCpu /\ Goto(p, "user")
          /\ UNCHANGED <<state, parent, killed, chan, pid, cpc>>
     ELSE /\ chan' = [chan EXCEPT ![p] = p]
          /\ state' = [state EXCEPT ![p] = "SLEEPING"]
          /\ Sched(c) /\ Goto(p, "wait")
          /\ UNCHANGED <<parent, killed, pid>>
  /\ UNCHANGED <<np, left, tlock, proc, idx, ipc>>

-----------------------------------------------------------------------------
(* kill, which wakes the victim; a program does not kill init.             *)
LeftAsleep(q) == state
Roused(q) == [state EXCEPT ![q] = IF @ = "SLEEPING" THEN "RUNNABLE" ELSE @]

Kill(c, p, q) ==
  /\ Calling(c, p) /\ lock = NoCpu /\ pid[q] /\ q # initproc
  /\ killed' = [killed EXCEPT ![q] = TRUE]
  /\ state' = Roused(q)
  /\ UNCHANGED <<parent, chan, pid, kpc, np, left, lock, tlock, cpus>>

-----------------------------------------------------------------------------
(* sys_sleep.  sleep takes ptable.lock before it releases tickslock; and a *)
(* sleep that does not.                                                    *)
ReleasedFirst(c) == NoCpu
StillHeld(c) == c

SleepStart(c, p, n) ==
  /\ Calling(c, p) /\ tlock = NoCpu
  /\ left' = [left EXCEPT ![p] = n]
  /\ Goto(p, "dosleep") /\ tlock' = StillHeld(c)
  /\ UNCHANGED <<state, parent, killed, chan, pid, np, lock, cpus>>

(* Awake again, with tickslock: done, killed, or back to sleep.            *)
SleepCheck(c, p) ==
  /\ At(c, p, "sleep") /\ tlock = NoCpu
  /\ IF left[p] = 0 \/ killed[p]
     THEN Goto(p, "user") /\ left' = [left EXCEPT ![p] = 0] /\ UNCHANGED tlock
     ELSE Goto(p, "dosleep") /\ tlock' = StillHeld(c) /\ UNCHANGED left
  /\ UNCHANGED <<state, parent, killed, chan, pid, np, lock, cpus>>

(* sleep(&ticks, &tickslock) *)
Sleep(c, p) ==
  /\ At(c, p, "dosleep") /\ lock = NoCpu
  /\ tlock' = IF tlock = c THEN NoCpu ELSE tlock
  /\ chan' = [chan EXCEPT ![p] = Ticks]
  /\ state' = [state EXCEPT ![p] = "SLEEPING"]
  /\ Sched(c) /\ Goto(p, "sleep")
  /\ UNCHANGED <<parent, killed, pid, np, left, proc, idx, ipc>>

-----------------------------------------------------------------------------
(* The clock interrupt.  On Cpu0 it counts the tick and wakes those who    *)
(* sleep on it; then, on any CPU, the process that was running yields.     *)
ClockIntr(c) ==
  /\ ipc[c] = "none" /\ cpc[c] \in {"idle", "run"} /\ lock # c /\ tlock # c
  /\ ipc' = [ipc EXCEPT ![c] = IF c = Cpu0 THEN "tick" ELSE "preempt"]
  /\ UNCHANGED <<procs, lock, tlock, proc, cpc, idx>>

(* ticks++, as seen by a sleeper: it counts no further than its time.      *)
Counted(n) == IF n = 0 THEN 0 ELSE n - 1

Tick(c) ==
  /\ ipc[c] = "tick" /\ tlock = NoCpu
  /\ tlock' = c
  /\ left' = [p \in Slot |-> Counted(left[p])]
  /\ ipc' = [ipc EXCEPT ![c] = "wakeup"]
  /\ UNCHANGED <<state, parent, killed, chan, pid, kpc, np, lock, proc, cpc, idx>>

TickWoken == Woken(state, Ticks)

TickWakeup(c) ==
  /\ ipc[c] = "wakeup" /\ lock = NoCpu
  /\ state' = TickWoken
  /\ tlock' = NoCpu
  /\ ipc' = [ipc EXCEPT ![c] = "preempt"]
  /\ UNCHANGED <<parent, killed, chan, pid, kpc, np, left, lock, proc, cpc, idx>>

(* yield *)
Preempt(c) ==
  LET p == proc[c] IN
  /\ ipc[c] = "preempt"
  /\ ipc' = [ipc EXCEPT ![c] = "none"]
  /\ IF p = None \/ (kpc[p] = "user" /\ killed[p]) \/ state[p] # "RUNNING"
     THEN UNCHANGED <<state, lock, cpc>>
     ELSE /\ lock = NoCpu
          /\ state' = [state EXCEPT ![p] = "RUNNABLE"]
          /\ Sched(c)
  /\ UNCHANGED <<parent, killed, chan, pid, kpc, np, left, tlock, proc, idx>>

-----------------------------------------------------------------------------
Scheduler(c) == SchedAcquire(c) \/ SchedScan(c) \/ Arrive(c) \/ Leave(c)

Handler(c) == Tick(c) \/ TickWakeup(c) \/ Preempt(c)

(* What the kernel does for a process without the program's say.           *)
Kernel(c, p) ==
  \/ ForkFail(c, p) \/ ForkCopy(c, p) \/ ForkRun(c, p)
  \/ killed[p] /\ ExitStart(c, p)
  \/ Exit(c, p)
  \/ kpc[p] = "wait" /\ Wait(c, p)
  \/ SleepCheck(c, p) \/ Sleep(c, p)

Program(c, p) ==
  \/ ForkAlloc(c, p) \/ ExitStart(c, p) \/ Wait(c, p)
  \/ \E q \in Slot : Kill(c, p, q)
  \/ \E n \in 1 .. MaxSleep : SleepStart(c, p, n)

Next == \E c \in Cpu :
  \/ Scheduler(c) \/ ClockIntr(c) \/ Handler(c)
  \/ \E p \in Slot : Program(c, p) \/ Kernel(c, p)

(* The clock keeps ticking, but a clock interrupt is rare: a CPU that can  *)
(* again and again take a step of the scheduler or of a process in the     *)
(* kernel does so.  Nothing is assumed of the programs.                    *)
Fairness ==
  /\ \A c \in Cpu : /\ SF_vars(ClockIntr(c)) /\ WF_vars(Handler(c))
                    /\ SF_vars(Scheduler(c))
                    /\ \A p \in Slot : SF_vars(Kernel(c, p))

Spec == Init /\ [][Next]_vars

-----------------------------------------------------------------------------
TypeOK ==
  /\ state \in [Slot -> {"UNUSED", "EMBRYO", "SLEEPING", "RUNNABLE", "RUNNING", "ZOMBIE"}]
  /\ parent \in [Slot -> Slot \cup {None}] /\ killed \in [Slot -> BOOLEAN]
  /\ chan \in [Slot -> Slot \cup {None, Ticks}] /\ pid \in [Slot -> BOOLEAN]
  /\ kpc \in [Slot -> {"user", "fork", "forked", "exit", "wait", "sleep", "dosleep"}]
  /\ np \in [Slot -> Slot \cup {None}]
  /\ left \in [Slot -> 0 .. MaxSleep]
  /\ lock \in Cpu \cup {NoCpu} /\ tlock \in Cpu \cup {NoCpu}
  /\ proc \in [Cpu -> Slot \cup {None}]
  /\ cpc \in [Cpu -> {"idle", "scan", "arrive", "run", "leave"}]
  /\ idx \in [Cpu -> 1 .. NProc + 1]
  /\ ipc \in [Cpu -> {"none", "tick", "wakeup", "preempt"}]

(* No process runs on two CPUs: ptable.lock is held from the moment a      *)
(* process is made RUNNABLE or SLEEPING until its CPU has left its stack.  *)
OneCpu ==
  /\ \A c, d \in Cpu : proc[c] = proc[d] /\ proc[c] # None => c = d
  /\ \A p \in Slot : state[p] = "RUNNING" => \E c \in Cpu : proc[c] = p
  /\ \A c \in Cpu : proc[c] # None /\ lock # c => state[proc[c]] = "RUNNING"

(* A sleeper is never left behind: who sleeps in wait has no zombie child, *)
(* and who sleeps in sys_sleep has time left while no tick is under way.   *)
NoLostWakeup ==
  \A p \in Slot : state[p] = "SLEEPING" =>
    /\ chan[p] = p => ~\E q \in Slot : parent[q] = p /\ state[q] = "ZOMBIE"
    /\ chan[p] = Ticks /\ (\A c \in Cpu : ipc[c] # "wakeup") => left[p] > 0

(* Every zombie has somebody to wait for it: the parent of a process that  *)
(* has one is alive, since exit passes the children of the dead to init.   *)
Family ==
  \A p \in Slot : parent[p] # None =>
    /\ state[p] # "UNUSED"
    /\ state[parent[p]] \notin {"UNUSED", "EMBRYO", "ZOMBIE"}

(* A killed process comes to its exit.                                     *)
KilledExits ==
  \A p \in Slot : killed[p] /\ state[p] \notin {"UNUSED", "ZOMBIE"}
                    ~> state[p] \in {"UNUSED", "ZOMBIE"}

(* wait returns when there is a child to be reaped, however it came to be  *)
(* the caller's: by fork, or by the exit of its parent; and sys_sleep ends.*)
CallsReturn ==
  \A p \in Slot :
    /\ kpc[p] = "wait" /\ (\E q \in Slot : parent[q] = p /\ state[q] = "ZOMBIE")
         ~> kpc[p] # "wait"
    /\ kpc[p] = "sleep" ~> kpc[p] # "sleep" /\ kpc[p] # "dosleep"

-----------------------------------------------------------------------------
(* Why these hold.  ptable.lock is with a CPU exactly while that CPU is in *)
(* the scan, on the way into or out of a process, or in wait.              *)
LockInv ==
  \A c \in Cpu :
    lock = c <=> \/ cpc[c] \in {"scan", "arrive", "leave"}
                 \/ cpc[c] = "run" /\ kpc[proc[c]] = "wait"

(* A process that is RUNNING is on one CPU, and one that a CPU is leaving  *)
(* is not RUNNING; an interrupt finds its CPU without ptable.lock.         *)
CpuInv ==
  /\ \A c \in Cpu :
       /\ cpc[c] \in {"idle", "scan"} <=> proc[c] = None
       /\ proc[c] # None => idx[c] = proc[c]
       /\ cpc[c] \in {"arrive", "run"} => state[proc[c]] = "RUNNING"
       /\ cpc[c] = "leave" => state[proc[c]] # "RUNNING"
       /\ ipc[c] # "none" => cpc[c] \in {"idle", "run"} /\ lock # c
       /\ ipc[c] = "wakeup" => tlock = c
  /\ \A c, d \in Cpu : proc[c] = proc[d] /\ proc[c] # None => c = d
  /\ \A p \in Slot : state[p] = "RUNNING" =>
       \E c \in Cpu : proc[c] = p /\ cpc[c] \in {"arrive", "run"}

(* The slot that fork has taken is its own until the child is RUNNABLE.    *)
Forking(p) == kpc[p] \in {"fork", "forked"}
ForkInv ==
  \A p \in Slot :
    /\ parent[p] # p
    /\ Forking(p) =>
         /\ state[p] \in {"RUNNING", "RUNNABLE"}
         /\ np[p] \in Slot /\ state[np[p]] = "EMBRYO"
         /\ kpc[p] = "fork" => parent[np[p]] = None
         /\ \A q \in Slot : Forking(q) /\ np[q] = np[p] => q = p

InitInv ==
  /\ state[initproc] \notin {"UNUSED", "EMBRYO", "ZOMBIE"}
  /\ kpc[initproc] # "exit" /\ parent[initproc] = None

(* Between its look at the clock and its sleep a process has tickslock.    *)
TickInv ==
  \A p \in Slot : kpc[p] = "dosleep" =>
    left[p] > 0 /\ \E c \in Cpu : proc[c] = p /\ cpc[c] = "run" /\ ipc[c] = "none" /\ tlock = c

(* Together with the properties it supports it is inductive.               *)
ProcInv == LockInv /\ CpuInv /\ ForkInv /\ InitInv /\ TickInv

FairSpec == Spec /\ Fairness
=============================================================================
