----------------------------- MODULE ProcProofs -----------------------------
(***************************************************************************)
(* Theorems about Proc, for every number of processes and of CPUs.         *)
(***************************************************************************)
EXTENDS Proc, MinTheorems, TLAPS

Safe == NoLostWakeup /\ Family
IInv == TypeOK /\ ProcInv /\ Safe

LEMMA SlotFacts ==
  /\ initproc \in Slot /\ None \notin Slot /\ Ticks \notin Slot /\ Slot \subseteq Nat
  /\ \A c \in Cpu : c # NoCpu
  /\ Ticks # None
BY ProcAssumption DEF Slot, initproc, None, Ticks

LEMMA InitOK == Init => IInv
<1>. SUFFICES ASSUME Init PROVE IInv
  OBVIOUS
<1>. USE ProcAssumption, SlotFacts DEF Init
<1>1. TypeOK
  <2>1. 0 \in 0 .. MaxSleep /\ 1 \in 1 .. NProc + 1
    OBVIOUS
  <2>2. pid \in [Slot -> BOOLEAN] /\ killed \in [Slot -> BOOLEAN]
    BY Zenon
  <2>. QED BY <2>1, <2>2 DEF TypeOK
<1>2. ProcInv
  <2>1. LockInv
    BY DEF LockInv
  <2>2. CpuInv
    BY DEF CpuInv
  <2>3. ForkInv /\ InitInv /\ TickInv
    BY DEF ForkInv, InitInv, TickInv, Forking
  <2>. QED BY <2>1, <2>2, <2>3 DEF ProcInv
<1>3. Safe
  BY DEF Safe, NoLostWakeup, Family
<1>. QED BY <1>1, <1>2, <1>3 DEF IInv

(* Each action preserves the invariant, conjunct by conjunct.              *)
LEMMA SchedAcquireStep ==
  ASSUME IInv, NEW c \in Cpu, SchedAcquire(c)
  PROVE  IInv'
<1>. USE SlotFacts, ProcAssumption DEF SchedAcquire, procs
<1>1. TypeOK'
  BY DEF IInv, TypeOK
<1>2. LockInv'
  BY DEF IInv, ProcInv, TypeOK, LockInv, CpuInv
<1>3. CpuInv'
  BY DEF IInv, ProcInv, TypeOK, LockInv, CpuInv
<1>4. ForkInv'
  BY DEF IInv, ProcInv, Safe, TypeOK, CpuInv, ForkInv, Forking, Family
<1>5. InitInv'
  BY DEF IInv, ProcInv, TypeOK, ForkInv, Forking, InitInv
<1>6. TickInv'
  BY DEF IInv, ProcInv, TypeOK, CpuInv, TickInv
<1>7. NoLostWakeup'
  BY DEF IInv, ProcInv, Safe, TypeOK, CpuInv, ForkInv, Forking, TickInv, NoLostWakeup
<1>8. Family'
  BY DEF IInv, ProcInv, Safe, TypeOK, CpuInv, ForkInv, Forking, InitInv, Family
<1>. QED BY <1>1, <1>2, <1>3, <1>4, <1>5, <1>6, <1>7, <1>8 DEF IInv, ProcInv, Safe

LEMMA SchedScanStep ==
  ASSUME IInv, NEW c \in Cpu, SchedScan(c)
  PROVE  IInv'
<1>. USE SlotFacts, ProcAssumption
<1>a. CASE idx[c] > NProc
  <2>. USE <1>a DEF SchedScan
  <2>1. TypeOK'
    BY DEF IInv, TypeOK
  <2>2. LockInv' /\ CpuInv'
    BY DEF IInv, ProcInv, TypeOK, LockInv, CpuInv
  <2>3. ForkInv' /\ InitInv' /\ Family' /\ NoLostWakeup'
    BY DEF IInv, ProcInv, Safe, ForkInv, Forking, InitInv, Family, NoLostWakeup
  <2>4. TickInv'
    BY DEF IInv, ProcInv, TypeOK, CpuInv, TickInv
  <2>. QED BY <2>1, <2>2, <2>3, <2>4 DEF IInv, ProcInv, Safe
<1>b. CASE ~(idx[c] > NProc) /\ state[idx[c]] # "RUNNABLE"
  <2>. USE <1>b DEF SchedScan
  <2>1. TypeOK'
    <3>1. idx[c] + 1 \in 1 .. NProc + 1
      BY DEF IInv, TypeOK
    <3>. QED BY <3>1 DEF IInv, TypeOK
  <2>2. LockInv'
    BY DEF IInv, ProcInv, TypeOK, LockInv
  <2>3. CpuInv'
    BY DEF IInv, ProcInv, TypeOK, CpuInv
  <2>4. ForkInv' /\ InitInv' /\ TickInv' /\ Family' /\ NoLostWakeup'
    BY DEF IInv, ProcInv, Safe, ForkInv, Forking, InitInv, TickInv, Family, NoLostWakeup
  <2>. QED BY <2>1, <2>2, <2>3, <2>4 DEF IInv, ProcInv, Safe
<1>c. CASE ~(idx[c] > NProc) /\ state[idx[c]] = "RUNNABLE"
  <2>. DEFINE i == idx[c]
  <2>1. i \in Slot
    BY <1>c DEF IInv, TypeOK, Slot
  <2>2. /\ cpc[c] = "scan" /\ state[i] = "RUNNABLE"
        /\ state' = [state EXCEPT ![i] = "RUNNING"]
        /\ proc' = [proc EXCEPT ![c] = i]
        /\ cpc' = [cpc EXCEPT ![c] = "arrive"]
        /\ UNCHANGED <<lock, idx, parent, killed, chan, pid, kpc, np, left, tlock, ipc>>
    BY <1>c DEF SchedScan
  <2>3. i = idx[c]
    OBVIOUS
  <2>. HIDE DEF i
  <2>4. TypeOK'
    BY <2>1, <2>2 DEF IInv, TypeOK
  <2>5. LockInv'
    BY <2>1, <2>2 DEF IInv, ProcInv, TypeOK, LockInv
  <2>6. CpuInv'
    BY <2>1, <2>2, <2>3 DEF IInv, ProcInv, TypeOK, LockInv, CpuInv
  <2>7. ForkInv' /\ InitInv'
    BY <2>1, <2>2 DEF IInv, ProcInv, TypeOK, ForkInv, Forking, InitInv
  <2>8. TickInv'
    BY <2>1, <2>2 DEF IInv, ProcInv, TypeOK, CpuInv, TickInv
  <2>9. Family' /\ NoLostWakeup'
    BY <2>1, <2>2 DEF IInv, Safe, TypeOK, Family, NoLostWakeup
  <2>. QED BY <2>4, <2>5, <2>6, <2>7, <2>8, <2>9 DEF IInv, ProcInv, Safe
<1>. QED BY <1>a, <1>b, <1>c

LEMMA ArriveStep ==
  ASSUME IInv, NEW c \in Cpu, Arrive(c)
  PROVE  IInv'
<1>. USE SlotFacts, ProcAssumption DEF Arrive
<1>1. TypeOK'
  BY DEF IInv, TypeOK
<1>2. LockInv'
  BY DEF IInv, ProcInv, TypeOK, LockInv, CpuInv
<1>3. CpuInv'
  BY DEF IInv, ProcInv, TypeOK, LockInv, CpuInv
<1>4. ForkInv'
  BY DEF IInv, ProcInv, Safe, TypeOK, CpuInv, ForkInv, Forking, Family
<1>5. InitInv'
  BY DEF IInv, ProcInv, TypeOK, ForkInv, Forking, InitInv
<1>6. TickInv'
  BY DEF IInv, ProcInv, TypeOK, CpuInv, TickInv
<1>7. NoLostWakeup'
  BY DEF IInv, ProcInv, Safe, TypeOK, CpuInv, ForkInv, Forking, TickInv, NoLostWakeup
<1>8. Family'
  BY DEF IInv, ProcInv, Safe, TypeOK, CpuInv, ForkInv, Forking, InitInv, Family
<1>. QED BY <1>1, <1>2, <1>3, <1>4, <1>5, <1>6, <1>7, <1>8 DEF IInv, ProcInv, Safe

LEMMA LeaveStep ==
  ASSUME IInv, NEW c \in Cpu, Leave(c)
  PROVE  IInv'
<1>. USE SlotFacts, ProcAssumption DEF Leave, procs
<1>1. TypeOK'
  <2>1. idx[c] + 1 \in 1 .. NProc + 1
    <3>1. proc[c] # None /\ idx[c] = proc[c] /\ proc[c] \in Slot
      BY DEF IInv, ProcInv, TypeOK, CpuInv
    <3>. QED BY <3>1 DEF Slot
  <2>. QED BY <2>1 DEF IInv, TypeOK
<1>2. LockInv'
  BY DEF IInv, ProcInv, TypeOK, LockInv, CpuInv
<1>3. CpuInv'
  BY DEF IInv, ProcInv, TypeOK, LockInv, CpuInv
<1>4. ForkInv'
  BY DEF IInv, ProcInv, Safe, TypeOK, CpuInv, ForkInv, Forking, Family
<1>5. InitInv'
  BY DEF IInv, ProcInv, TypeOK, ForkInv, Forking, InitInv
<1>6. TickInv'
  BY DEF IInv, ProcInv, TypeOK, CpuInv, TickInv
<1>7. NoLostWakeup'
  BY DEF IInv, ProcInv, Safe, TypeOK, CpuInv, ForkInv, Forking, TickInv, NoLostWakeup
<1>8. Family'
  BY DEF IInv, ProcInv, Safe, TypeOK, CpuInv, ForkInv, Forking, InitInv, Family
<1>. QED BY <1>1, <1>2, <1>3, <1>4, <1>5, <1>6, <1>7, <1>8 DEF IInv, ProcInv, Safe

LEMMA ForkAllocStep ==
  ASSUME IInv, NEW c \in Cpu, NEW p \in Slot, ForkAlloc(c, p)
  PROVE  IInv'
<1>. USE SlotFacts
<1>. DEFINE f == Min({q \in Slot : state[q] = "UNUSED"})
<1>a. /\ At(c, p, "user") /\ f \in {q \in Slot : state[q] = "UNUSED"}
      /\ state' = [state EXCEPT ![f] = "EMBRYO"]
      /\ pid' = [pid EXCEPT ![f] = TRUE]
      /\ np' = [np EXCEPT ![p] = f]
      /\ kpc' = [kpc EXCEPT ![p] = "fork"]
      /\ UNCHANGED <<parent, killed, chan, left, lock, tlock, proc, cpc, idx, ipc>>
  BY MinIsLeast DEF ForkAlloc, Calling, Goto, cpus
<1>. HIDE DEF f
<1>b. f \in Slot /\ state[f] = "UNUSED"
  BY <1>a
<1>c. state[p] = "RUNNING" /\ p # f /\ parent[f] = None /\ kpc[p] = "user" /\ proc[c] = p
  BY <1>a, <1>b DEF IInv, ProcInv, Safe, CpuInv, TypeOK, At, Family
<1>1. TypeOK'
  <2>1. pid' \in [Slot -> BOOLEAN]
    BY <1>a, <1>b, Zenon DEF IInv, TypeOK
  <2>. QED BY <1>a, <1>b, <2>1 DEF IInv, TypeOK
<1>2. LockInv'
  BY <1>a, <1>b, <1>c DEF IInv, ProcInv, TypeOK, LockInv, CpuInv
<1>3. CpuInv'
  <2>1. \A q \in Slot : state'[q] = "RUNNING" <=> state[q] = "RUNNING"
    BY <1>a, <1>b DEF IInv, TypeOK
  <2>. QED BY <1>a, <2>1 DEF IInv, ProcInv, TypeOK, CpuInv
<1>4. ForkInv'
  BY <1>a, <1>b, <1>c DEF IInv, ProcInv, TypeOK, ForkInv, Forking
<1>5. InitInv'
  BY <1>a, <1>b DEF IInv, ProcInv, TypeOK, InitInv
<1>6. TickInv'
  BY <1>a, <1>b DEF IInv, ProcInv, TypeOK, TickInv
<1>7. NoLostWakeup'
  BY <1>a, <1>b DEF IInv, Safe, TypeOK, NoLostWakeup
<1>8. Family'
  BY <1>a, <1>b, <1>c DEF IInv, Safe, TypeOK, Family
<1>. QED BY <1>1, <1>2, <1>3, <1>4, <1>5, <1>6, <1>7, <1>8 DEF IInv, ProcInv, Safe

LEMMA ForkFailStep ==
  ASSUME IInv, NEW c \in Cpu, NEW p \in Slot, ForkFail(c, p)
  PROVE  IInv'
<1>. USE SlotFacts, ProcAssumption DEF ForkFail, At, Goto, cpus
<1>1. TypeOK'
  BY DEF IInv, TypeOK
<1>2. LockInv'
  BY DEF IInv, ProcInv, TypeOK, LockInv, CpuInv
<1>3. CpuInv'
  <2>1. \A q \in Slot : state'[q] = "RUNNING" <=> state[q] = "RUNNING"
    BY DEF IInv, ProcInv, TypeOK, ForkInv, Forking
  <2>2. UNCHANGED <<proc, cpc, idx, ipc, lock, tlock>>
    OBVIOUS
  <2>. QED BY <2>1, <2>2 DEF IInv, ProcInv, TypeOK, CpuInv
<1>4. ForkInv'
  BY DEF IInv, ProcInv, Safe, TypeOK, CpuInv, ForkInv, Forking, Family
<1>5. InitInv'
  BY DEF IInv, ProcInv, TypeOK, ForkInv, Forking, InitInv
<1>6. TickInv'
  BY DEF IInv, ProcInv, TypeOK, CpuInv, TickInv
<1>7. NoLostWakeup'
  BY DEF IInv, ProcInv, Safe, TypeOK, CpuInv, ForkInv, Forking, TickInv, NoLostWakeup
<1>8. Family'
  BY DEF IInv, ProcInv, Safe, TypeOK, CpuInv, ForkInv, Forking, InitInv, Family
<1>. QED BY <1>1, <1>2, <1>3, <1>4, <1>5, <1>6, <1>7, <1>8 DEF IInv, ProcInv, Safe

LEMMA ForkCopyStep ==
  ASSUME IInv, NEW c \in Cpu, NEW p \in Slot, ForkCopy(c, p)
  PROVE  IInv'
<1>. USE SlotFacts, ProcAssumption DEF ForkCopy, At, Goto, cpus
<1>1. TypeOK'
  BY DEF IInv, TypeOK
<1>2. LockInv'
  BY DEF IInv, ProcInv, TypeOK, LockInv, CpuInv
<1>3. CpuInv'
  BY DEF IInv, ProcInv, TypeOK, LockInv, CpuInv
<1>4. ForkInv'
  BY DEF IInv, ProcInv, Safe, TypeOK, CpuInv, ForkInv, Forking, Family
<1>5. InitInv'
  BY DEF IInv, ProcInv, TypeOK, ForkInv, Forking, InitInv
<1>6. TickInv'
  BY DEF IInv, ProcInv, TypeOK, CpuInv, TickInv
<1>7. NoLostWakeup'
  BY DEF IInv, ProcInv, Safe, TypeOK, CpuInv, ForkInv, Forking, TickInv, NoLostWakeup
<1>8. Family'
  BY DEF IInv, ProcInv, Safe, TypeOK, CpuInv, ForkInv, Forking, InitInv, Family
<1>. QED BY <1>1, <1>2, <1>3, <1>4, <1>5, <1>6, <1>7, <1>8 DEF IInv, ProcInv, Safe

LEMMA ForkRunStep ==
  ASSUME IInv, NEW c \in Cpu, NEW p \in Slot, ForkRun(c, p)
  PROVE  IInv'
<1>. USE SlotFacts, ProcAssumption DEF ForkRun, At, cpus
<1>1. TypeOK'
  BY DEF IInv, TypeOK
<1>2. LockInv'
  BY DEF IInv, ProcInv, TypeOK, LockInv, CpuInv
<1>3. CpuInv'
  <2>1. \A q \in Slot : state'[q] = "RUNNING" <=> state[q] = "RUNNING"
    BY DEF IInv, ProcInv, TypeOK, ForkInv, Forking
  <2>2. UNCHANGED <<proc, cpc, idx, ipc, lock, tlock>>
    OBVIOUS
  <2>. QED BY <2>1, <2>2 DEF IInv, ProcInv, TypeOK, CpuInv
<1>4. ForkInv'
  BY DEF IInv, ProcInv, Safe, TypeOK, CpuInv, ForkInv, Forking, Family
<1>5. InitInv'
  BY DEF IInv, ProcInv, TypeOK, ForkInv, Forking, InitInv
<1>6. TickInv'
  BY DEF IInv, ProcInv, TypeOK, CpuInv, TickInv
<1>7. NoLostWakeup'
  BY DEF IInv, ProcInv, Safe, TypeOK, CpuInv, ForkInv, Forking, TickInv, NoLostWakeup
<1>8. Family'
  BY DEF IInv, ProcInv, Safe, TypeOK, CpuInv, ForkInv, Forking, InitInv, Family
<1>. QED BY <1>1, <1>2, <1>3, <1>4, <1>5, <1>6, <1>7, <1>8 DEF IInv, ProcInv, Safe

LEMMA ExitStartStep ==
  ASSUME IInv, NEW c \in Cpu, NEW p \in Slot, ExitStart(c, p)
  PROVE  IInv'
<1>. USE SlotFacts, ProcAssumption DEF ExitStart, At, Goto, cpus
<1>1. TypeOK'
  BY DEF IInv, TypeOK
<1>2. LockInv'
  BY DEF IInv, ProcInv, TypeOK, LockInv, CpuInv
<1>3. CpuInv'
  BY DEF IInv, ProcInv, TypeOK, LockInv, CpuInv
<1>4. ForkInv'
  BY DEF IInv, ProcInv, Safe, TypeOK, CpuInv, ForkInv, Forking, Family
<1>5. InitInv'
  BY DEF IInv, ProcInv, TypeOK, ForkInv, Forking, InitInv
<1>6. TickInv'
  BY DEF IInv, ProcInv, TypeOK, CpuInv, TickInv
<1>7. NoLostWakeup'
  BY DEF IInv, ProcInv, Safe, TypeOK, CpuInv, ForkInv, Forking, TickInv, NoLostWakeup
<1>8. Family'
  BY DEF IInv, ProcInv, Safe, TypeOK, CpuInv, ForkInv, Forking, InitInv, Family
<1>. QED BY <1>1, <1>2, <1>3, <1>4, <1>5, <1>6, <1>7, <1>8 DEF IInv, ProcInv, Safe

LEMMA ExitStep ==
  ASSUME IInv, NEW c \in Cpu, NEW p \in Slot, Exit(c, p)
  PROVE  IInv'
<1>. USE SlotFacts, ProcAssumption DEF Exit, At, Adopted, ExitWoken, ParentWoken, Woken, Sched
<1>1. TypeOK'
  BY DEF IInv, TypeOK
<1>2. LockInv'
  BY DEF IInv, ProcInv, TypeOK, LockInv, CpuInv
<1>3. CpuInv'
  BY DEF IInv, ProcInv, TypeOK, LockInv, CpuInv
<1>a. /\ p # initproc /\ state[p] = "RUNNING" /\ kpc[p] = "exit" /\ state'[p] = "ZOMBIE"
      /\ UNCHANGED <<kpc, np, chan, left, ipc>>
  BY DEF IInv, ProcInv, TypeOK, CpuInv, InitInv
<1>b. \A q \in Slot : q # p =>
        state'[q] = state[q] \/ (state[q] = "SLEEPING" /\ state'[q] = "RUNNABLE")
  BY DEF IInv, TypeOK
<1>c. \A q \in Slot : parent'[q] = IF parent[q] = p THEN initproc ELSE parent[q]
  OBVIOUS
<1>d. \A r \in Slot : state'[r] = "SLEEPING" =>
        /\ r # p /\ state[r] = "SLEEPING" /\ chan[r] # parent[p]
        /\ (\E q \in Slot : parent[q] = p /\ state[q] = "ZOMBIE") => chan[r] # initproc
  BY <1>a DEF IInv, TypeOK
<1>6. TickInv'
  BY DEF IInv, ProcInv, TypeOK, CpuInv, TickInv
<1>. HIDE DEF Exit, At, Adopted, ExitWoken, ParentWoken, Woken, Sched
<1>4. ForkInv'
  <2>. SUFFICES ASSUME NEW q \in Slot
                PROVE  /\ parent'[q] # q
                       /\ Forking(q) =>
                          /\ state'[q] \in {"RUNNING", "RUNNABLE"}
                          /\ np[q] \in Slot /\ state'[np[q]] = "EMBRYO"
                          /\ kpc[q] = "fork" => parent'[np[q]] = None
                          /\ \A r \in Slot : Forking(r) /\ np[r] = np[q] => r = q
    BY <1>a DEF ForkInv, Forking
  <2>1. parent'[q] # q
    BY <1>c DEF IInv, ProcInv, ForkInv, InitInv
  <2>2. ASSUME Forking(q)
        PROVE  /\ state'[q] \in {"RUNNING", "RUNNABLE"}
               /\ np[q] \in Slot /\ state'[np[q]] = "EMBRYO"
               /\ kpc[q] = "fork" => parent'[np[q]] = None
    <3>1. /\ q # p /\ state[q] \in {"RUNNING", "RUNNABLE"}
          /\ np[q] \in Slot /\ state[np[q]] = "EMBRYO" /\ np[q] # p
          /\ kpc[q] = "fork" => parent[np[q]] = None
      BY <1>a, <2>2 DEF IInv, ProcInv, ForkInv, Forking
    <3>. QED BY <1>b, <1>c, <3>1
  <2>3. \A r \in Slot : Forking(q) /\ Forking(r) /\ np[r] = np[q] => r = q
    BY DEF IInv, ProcInv, ForkInv
  <2>. QED BY <2>1, <2>2, <2>3
<1>5. InitInv'
  BY <1>a, <1>b, <1>c DEF IInv, ProcInv, InitInv
<1>7. NoLostWakeup'
  <2>. SUFFICES ASSUME NEW r \in Slot, state'[r] = "SLEEPING"
                PROVE  /\ chan[r] = r => ~\E q \in Slot : parent'[q] = r /\ state'[q] = "ZOMBIE"
                       /\ chan[r] = Ticks /\ (\A d \in Cpu : ipc[d] # "wakeup") => left[r] > 0
    BY <1>a DEF NoLostWakeup
  <2>1. /\ r # p /\ state[r] = "SLEEPING" /\ chan[r] # parent[p]
        /\ (\E q \in Slot : parent[q] = p /\ state[q] = "ZOMBIE") => chan[r] # initproc
    BY <1>d
  <2>3. ASSUME chan[r] = r, NEW q \in Slot, parent'[q] = r, state'[q] = "ZOMBIE" PROVE FALSE
    <3>1. q # p
      BY <1>c, <2>1, <2>3 DEF IInv, ProcInv, ForkInv
    <3>2. state[q] = "ZOMBIE"
      BY <1>b, <2>3, <3>1
    <3>. QED BY <1>c, <2>1, <2>3, <3>2 DEF IInv, Safe, NoLostWakeup
  <2>. QED BY <2>1, <2>3 DEF IInv, Safe, NoLostWakeup
<1>8. Family'
  <2>. SUFFICES ASSUME NEW q \in Slot, parent'[q] # None
                PROVE  /\ state'[q] # "UNUSED"
                       /\ state'[parent'[q]] \notin {"UNUSED", "EMBRYO", "ZOMBIE"}
    BY DEF Family
  <2>1. parent[q] \in Slot /\ state[q] # "UNUSED"
    BY <1>c DEF IInv, Safe, TypeOK, Family
  <2>2. state'[q] # "UNUSED"
    BY <1>a, <1>b, <2>1
  <2>3. CASE parent[q] = p
    BY <1>a, <1>b, <1>c, <2>2, <2>3 DEF IInv, ProcInv, InitInv
  <2>4. CASE parent[q] # p
    BY <1>b, <1>c, <2>1, <2>2, <2>4 DEF IInv, Safe, Family
  <2>. QED BY <2>3, <2>4
<1>. QED BY <1>1, <1>2, <1>3, <1>4, <1>5, <1>6, <1>7, <1>8 DEF IInv, ProcInv, Safe

LEMMA WaitStep ==
  ASSUME IInv, NEW c \in Cpu, NEW p \in Slot, Wait(c, p)
  PROVE  IInv'
<1>. USE SlotFacts
<1>. DEFINE kids == {q \in Slot : parent[q] = p}
            dead == {q \in kids : state[q] = "ZOMBIE"}
            q == Min(dead)
<1>a. /\ \/ At(c, p, "user") /\ lock = NoCpu
         \/ At(c, p, "wait") /\ lock = c
      /\ UNCHANGED <<np, left, tlock, proc, idx, ipc>>
  BY DEF Wait, Calling
<1>b. /\ state[p] = "RUNNING" /\ proc[c] = p /\ cpc[c] = "run" /\ ipc[c] = "none"
      /\ kpc[p] \in {"user", "wait"}
      /\ \A d \in Cpu : d # c => lock # d /\ proc[d] # p
  BY <1>a DEF At, IInv, ProcInv, TypeOK, CpuInv
<1>1. CASE dead # {}
  <2>1. q \in dead
    BY <1>1, MinIsLeast
  <2>2. /\ pid' = [pid EXCEPT ![q] = FALSE]
        /\ parent' = [parent EXCEPT ![q] = None]
        /\ killed' = [killed EXCEPT ![q] = FALSE]
        /\ state' = [state EXCEPT ![q] = "UNUSED"]
        /\ lock' = NoCpu /\ kpc' = [kpc EXCEPT ![p] = "user"]
        /\ UNCHANGED <<chan, cpc>>
    BY <1>1 DEF Wait, Goto
  <2>3. q \in Slot /\ state[q] = "ZOMBIE" /\ parent[q] = p
    BY <2>1
  <2>. HIDE DEF q, dead, kids
  <2>4. TypeOK'
    <3>1. pid' \in [Slot -> BOOLEAN] /\ killed' \in [Slot -> BOOLEAN]
      BY <2>2, <2>3, Zenon DEF IInv, TypeOK
    <3>. QED BY <1>a, <2>2, <2>3, <3>1 DEF IInv, TypeOK
  <2>5. LockInv'
    BY <1>a, <1>b, <2>2, <2>3 DEF IInv, ProcInv, TypeOK, LockInv, CpuInv
  <2>6. CpuInv'
    <3>1. \A r \in Slot : state'[r] = "RUNNING" <=> state[r] = "RUNNING"
      BY <2>2, <2>3 DEF IInv, TypeOK
    <3>. QED BY <1>a, <1>b, <2>2, <3>1 DEF IInv, ProcInv, TypeOK, CpuInv
  <2>7. ForkInv' /\ InitInv'
    BY <1>a, <1>b, <2>2, <2>3 DEF IInv, ProcInv, TypeOK, ForkInv, Forking, InitInv
  <2>8. TickInv'
    BY <1>a, <1>b, <2>2 DEF IInv, ProcInv, TypeOK, TickInv
  <2>9. NoLostWakeup' /\ Family'
    BY <1>a, <1>b, <2>2, <2>3 DEF IInv, Safe, TypeOK, NoLostWakeup, Family
  <2>. QED BY <2>4, <2>5, <2>6, <2>7, <2>8, <2>9 DEF IInv, ProcInv, Safe
<1>2. CASE dead = {} /\ (kids = {} \/ killed[p])
  <2>1. /\ lock' = NoCpu /\ kpc' = [kpc EXCEPT ![p] = "user"]
        /\ UNCHANGED <<state, parent, killed, chan, pid, cpc>>
    BY <1>2 DEF Wait, Goto
  <2>. HIDE DEF q, dead, kids
  <2>2. TypeOK'
    BY <1>a, <2>1 DEF IInv, TypeOK
  <2>3. LockInv' /\ CpuInv'
    BY <1>a, <1>b, <2>1 DEF IInv, ProcInv, TypeOK, LockInv, CpuInv
  <2>4. ForkInv' /\ InitInv' /\ TickInv'
    BY <1>a, <1>b, <2>1 DEF IInv, ProcInv, TypeOK, ForkInv, Forking, InitInv, TickInv
  <2>5. NoLostWakeup' /\ Family'
    BY <1>a, <2>1 DEF IInv, Safe, NoLostWakeup, Family
  <2>. QED BY <2>2, <2>3, <2>4, <2>5 DEF IInv, ProcInv, Safe
<1>3. CASE dead = {} /\ ~(kids = {} \/ killed[p])
  <2>1. /\ chan' = [chan EXCEPT ![p] = p] /\ state' = [state EXCEPT ![p] = "SLEEPING"]
        /\ lock' = c /\ cpc' = [cpc EXCEPT ![c] = "leave"]
        /\ kpc' = [kpc EXCEPT ![p] = "wait"]
        /\ UNCHANGED <<parent, killed, pid>>
    BY <1>3 DEF Wait, Goto, Sched
  <2>2. \A r \in Slot : parent[r] = p => state[r] # "ZOMBIE"
    BY <1>3
  <2>. HIDE DEF q, dead, kids
  <2>3. TypeOK'
    BY <1>a, <2>1 DEF IInv, TypeOK
  <2>4. LockInv' /\ CpuInv'
    BY <1>a, <1>b, <2>1 DEF IInv, ProcInv, TypeOK, LockInv, CpuInv
  <2>5. ForkInv' /\ InitInv' /\ TickInv'
    BY <1>a, <1>b, <2>1 DEF IInv, ProcInv, TypeOK, ForkInv, Forking, InitInv, TickInv
  <2>6. NoLostWakeup' /\ Family'
    BY <1>a, <1>b, <2>1, <2>2 DEF IInv, Safe, TypeOK, NoLostWakeup, Family
  <2>. QED BY <2>3, <2>4, <2>5, <2>6 DEF IInv, ProcInv, Safe
<1>. QED BY <1>1, <1>2, <1>3

LEMMA SleepStartStep ==
  ASSUME IInv, NEW c \in Cpu, NEW p \in Slot, NEW n \in 1 .. MaxSleep, SleepStart(c, p, n)
  PROVE  IInv'
<1>. USE SlotFacts, ProcAssumption DEF SleepStart, Calling, At, Goto, StillHeld, cpus
<1>1. TypeOK'
  BY DEF IInv, TypeOK
<1>2. LockInv'
  BY DEF IInv, ProcInv, TypeOK, LockInv, CpuInv
<1>3. CpuInv'
  BY DEF IInv, ProcInv, TypeOK, LockInv, CpuInv
<1>4. ForkInv'
  BY DEF IInv, ProcInv, Safe, TypeOK, CpuInv, ForkInv, Forking, Family
<1>5. InitInv'
  BY DEF IInv, ProcInv, TypeOK, ForkInv, Forking, InitInv
<1>6. TickInv'
  BY DEF IInv, ProcInv, TypeOK, CpuInv, TickInv
<1>7. NoLostWakeup'
  BY DEF IInv, ProcInv, Safe, TypeOK, CpuInv, ForkInv, Forking, TickInv, NoLostWakeup
<1>8. Family'
  BY DEF IInv, ProcInv, Safe, TypeOK, CpuInv, ForkInv, Forking, InitInv, Family
<1>. QED BY <1>1, <1>2, <1>3, <1>4, <1>5, <1>6, <1>7, <1>8 DEF IInv, ProcInv, Safe

LEMMA SleepCheckStep ==
  ASSUME IInv, NEW c \in Cpu, NEW p \in Slot, SleepCheck(c, p)
  PROVE  IInv'
<1>. USE SlotFacts, ProcAssumption DEF SleepCheck, At, Goto, StillHeld, cpus
<1>1. TypeOK'
  BY DEF IInv, TypeOK
<1>2. LockInv'
  BY DEF IInv, ProcInv, TypeOK, LockInv, CpuInv
<1>3. CpuInv'
  BY DEF IInv, ProcInv, TypeOK, LockInv, CpuInv
<1>4. ForkInv'
  BY DEF IInv, ProcInv, Safe, TypeOK, CpuInv, ForkInv, Forking, Family
<1>5. InitInv'
  BY DEF IInv, ProcInv, TypeOK, ForkInv, Forking, InitInv
<1>6. TickInv'
  BY DEF IInv, ProcInv, TypeOK, CpuInv, TickInv
<1>7. NoLostWakeup'
  BY DEF IInv, ProcInv, Safe, TypeOK, CpuInv, ForkInv, Forking, TickInv, NoLostWakeup
<1>8. Family'
  BY DEF IInv, ProcInv, Safe, TypeOK, CpuInv, ForkInv, Forking, InitInv, Family
<1>. QED BY <1>1, <1>2, <1>3, <1>4, <1>5, <1>6, <1>7, <1>8 DEF IInv, ProcInv, Safe

LEMMA SleepStep ==
  ASSUME IInv, NEW c \in Cpu, NEW p \in Slot, Sleep(c, p)
  PROVE  IInv'
<1>. USE SlotFacts, ProcAssumption DEF Sleep, At, Goto, Sched
<1>1. TypeOK'
  BY DEF IInv, TypeOK
<1>2. LockInv'
  BY DEF IInv, ProcInv, TypeOK, LockInv, CpuInv
<1>3. CpuInv'
  BY DEF IInv, ProcInv, TypeOK, LockInv, CpuInv
<1>4. ForkInv'
  BY DEF IInv, ProcInv, Safe, TypeOK, CpuInv, ForkInv, Forking, Family
<1>5. InitInv'
  BY DEF IInv, ProcInv, TypeOK, ForkInv, Forking, InitInv
<1>6. TickInv'
  BY DEF IInv, ProcInv, TypeOK, CpuInv, TickInv
<1>7. NoLostWakeup'
  BY DEF IInv, ProcInv, Safe, TypeOK, CpuInv, ForkInv, Forking, TickInv, NoLostWakeup
<1>8. Family'
  BY DEF IInv, ProcInv, Safe, TypeOK, CpuInv, ForkInv, Forking, InitInv, Family
<1>. QED BY <1>1, <1>2, <1>3, <1>4, <1>5, <1>6, <1>7, <1>8 DEF IInv, ProcInv, Safe

LEMMA ClockIntrStep ==
  ASSUME IInv, NEW c \in Cpu, ClockIntr(c)
  PROVE  IInv'
<1>. USE SlotFacts, ProcAssumption DEF ClockIntr, procs
<1>1. TypeOK'
  BY DEF IInv, TypeOK
<1>2. LockInv'
  BY DEF IInv, ProcInv, TypeOK, LockInv, CpuInv
<1>3. CpuInv'
  BY DEF IInv, ProcInv, TypeOK, LockInv, CpuInv
<1>4. ForkInv'
  BY DEF IInv, ProcInv, Safe, TypeOK, CpuInv, ForkInv, Forking, Family
<1>5. InitInv'
  BY DEF IInv, ProcInv, TypeOK, ForkInv, Forking, InitInv
<1>6. TickInv'
  BY DEF IInv, ProcInv, TypeOK, CpuInv, TickInv
<1>7. NoLostWakeup'
  BY DEF IInv, ProcInv, Safe, TypeOK, CpuInv, ForkInv, Forking, TickInv, NoLostWakeup
<1>8. Family'
  BY DEF IInv, ProcInv, Safe, TypeOK, CpuInv, ForkInv, Forking, InitInv, Family
<1>. QED BY <1>1, <1>2, <1>3, <1>4, <1>5, <1>6, <1>7, <1>8 DEF IInv, ProcInv, Safe

LEMMA TickStep ==
  ASSUME IInv, NEW c \in Cpu, Tick(c)
  PROVE  IInv'
<1>. USE SlotFacts, ProcAssumption DEF Tick, Counted
<1>1. TypeOK'
  BY DEF IInv, TypeOK
<1>2. LockInv'
  BY DEF IInv, ProcInv, TypeOK, LockInv, CpuInv
<1>3. CpuInv'
  BY DEF IInv, ProcInv, TypeOK, LockInv, CpuInv
<1>4. ForkInv'
  BY DEF IInv, ProcInv, Safe, TypeOK, CpuInv, ForkInv, Forking, Family
<1>5. InitInv'
  BY DEF IInv, ProcInv, TypeOK, ForkInv, Forking, InitInv
<1>6. TickInv'
  BY DEF IInv, ProcInv, TypeOK, CpuInv, TickInv
<1>7. NoLostWakeup'
  BY DEF IInv, ProcInv, Safe, TypeOK, CpuInv, ForkInv, Forking, TickInv, NoLostWakeup
<1>8. Family'
  BY DEF IInv, ProcInv, Safe, TypeOK, CpuInv, ForkInv, Forking, InitInv, Family
<1>. QED BY <1>1, <1>2, <1>3, <1>4, <1>5, <1>6, <1>7, <1>8 DEF IInv, ProcInv, Safe

LEMMA TickWakeupStep ==
  ASSUME IInv, NEW c \in Cpu, TickWakeup(c)
  PROVE  IInv'
<1>. USE SlotFacts, ProcAssumption DEF TickWakeup, TickWoken, Woken
<1>1. TypeOK'
  BY DEF IInv, TypeOK
<1>2. LockInv'
  BY DEF IInv, ProcInv, TypeOK, LockInv, CpuInv
<1>3. CpuInv'
  BY DEF IInv, ProcInv, TypeOK, LockInv, CpuInv
<1>4. ForkInv'
  BY DEF IInv, ProcInv, Safe, TypeOK, CpuInv, ForkInv, Forking, Family
<1>5. InitInv'
  BY DEF IInv, ProcInv, TypeOK, ForkInv, Forking, InitInv
<1>6. TickInv'
  BY DEF IInv, ProcInv, TypeOK, CpuInv, TickInv
<1>7. NoLostWakeup'
  BY DEF IInv, ProcInv, Safe, TypeOK, CpuInv, ForkInv, Forking, TickInv, NoLostWakeup
<1>8. Family'
  BY DEF IInv, ProcInv, Safe, TypeOK, CpuInv, ForkInv, Forking, InitInv, Family
<1>. QED BY <1>1, <1>2, <1>3, <1>4, <1>5, <1>6, <1>7, <1>8 DEF IInv, ProcInv, Safe

LEMMA PreemptStep ==
  ASSUME IInv, NEW c \in Cpu, Preempt(c)
  PROVE  IInv'
<1>. USE SlotFacts
<1>. DEFINE p == proc[c]
            stays == p = None \/ (kpc[p] = "user" /\ killed[p]) \/ state[p] # "RUNNING"
<1>a. /\ ipc[c] = "preempt" /\ ipc' = [ipc EXCEPT ![c] = "none"]
      /\ UNCHANGED <<parent, killed, chan, pid, kpc, np, left, tlock, proc, idx>>
  BY DEF Preempt
<1>1. CASE stays
  <2>1. UNCHANGED <<state, lock, cpc>>
    BY <1>1 DEF Preempt
  <2>. HIDE DEF stays, p
  <2>2. TypeOK'
    BY <1>a, <2>1 DEF IInv, TypeOK
  <2>3. ProcInv'
    <3>1. LockInv' /\ CpuInv'
      BY <1>a, <2>1 DEF IInv, ProcInv, TypeOK, LockInv, CpuInv
    <3>2. ForkInv' /\ InitInv' /\ TickInv'
      BY <1>a, <2>1 DEF IInv, ProcInv, TypeOK, ForkInv, Forking, InitInv, TickInv
    <3>. QED BY <3>1, <3>2 DEF ProcInv
  <2>4. NoLostWakeup' /\ Family'
    BY <1>a, <2>1 DEF IInv, Safe, TypeOK, NoLostWakeup, Family
  <2>. QED BY <2>2, <2>3, <2>4 DEF IInv, Safe
<1>2. CASE ~stays
  <2>1. /\ lock = NoCpu /\ state' = [state EXCEPT ![p] = "RUNNABLE"]
        /\ lock' = c /\ cpc' = [cpc EXCEPT ![c] = "leave"]
    BY <1>2 DEF Preempt, Sched
  <2>2. p \in Slot /\ state[p] = "RUNNING" /\ p = proc[c]
    BY <1>2 DEF IInv, TypeOK
  <2>. HIDE DEF stays, p
  <2>3. TypeOK'
    BY <1>a, <2>1, <2>2 DEF IInv, TypeOK
  <2>4. LockInv' /\ CpuInv'
    BY <1>a, <2>1, <2>2 DEF IInv, ProcInv, TypeOK, LockInv, CpuInv
  <2>5. ForkInv'
    BY <1>a, <2>1, <2>2 DEF IInv, ProcInv, TypeOK, ForkInv, Forking
  <2>6. InitInv' /\ TickInv'
    BY <1>a, <2>1, <2>2 DEF IInv, ProcInv, TypeOK, CpuInv, InitInv, TickInv
  <2>7. NoLostWakeup' /\ Family'
    BY <1>a, <2>1, <2>2 DEF IInv, Safe, TypeOK, NoLostWakeup, Family
  <2>. QED BY <2>3, <2>4, <2>5, <2>6, <2>7 DEF IInv, ProcInv, Safe
<1>. QED BY <1>1, <1>2

LEMMA KillStep ==
  ASSUME IInv, NEW c \in Cpu, NEW p \in Slot, NEW q \in Slot, Kill(c, p, q)
  PROVE  IInv'
<1>. USE SlotFacts
<1>a. /\ killed' = [killed EXCEPT ![q] = TRUE]
      /\ state' = [state EXCEPT ![q] = IF @ = "SLEEPING" THEN "RUNNABLE" ELSE @]
      /\ UNCHANGED <<parent, chan, pid, kpc, np, left, lock, tlock, proc, cpc, idx, ipc>>
  BY DEF Kill, Roused, cpus
<1>1. TypeOK'
  <2>1. killed' \in [Slot -> BOOLEAN]
    BY <1>a, Zenon DEF IInv, TypeOK
  <2>. QED BY <1>a, <2>1 DEF IInv, TypeOK
<1>2. LockInv' /\ TickInv'
  <2>1. LockInv'
    BY <1>a DEF IInv, ProcInv, LockInv
  <2>2. TickInv'
    BY <1>a DEF IInv, ProcInv, TickInv
  <2>. QED BY <2>1, <2>2
<1>3. CpuInv'
  <2>1. \A r \in Slot : state'[r] = "RUNNING" <=> state[r] = "RUNNING"
    BY <1>a DEF IInv, TypeOK
  <2>. QED BY <1>a, <2>1 DEF IInv, ProcInv, TypeOK, CpuInv
<1>4. ForkInv' /\ InitInv'
  BY <1>a DEF IInv, ProcInv, TypeOK, ForkInv, Forking, InitInv
<1>5. NoLostWakeup' /\ Family'
  BY <1>a DEF IInv, Safe, TypeOK, NoLostWakeup, Family
<1>. QED BY <1>1, <1>2, <1>3, <1>4, <1>5 DEF IInv, ProcInv, Safe

LEMMA NextStep == IInv /\ [Next]_vars => IInv'
<1>. SUFFICES ASSUME IInv, [Next]_vars PROVE IInv'
  OBVIOUS
<1>1. CASE UNCHANGED vars
  <2>. USE <1>1 DEF vars
  <2>1. TypeOK'
    BY DEF IInv, TypeOK
  <2>2. LockInv'
    BY DEF IInv, ProcInv, LockInv
  <2>3. CpuInv'
    BY DEF IInv, ProcInv, CpuInv
  <2>4. ForkInv' /\ InitInv'
    BY DEF IInv, ProcInv, ForkInv, Forking, InitInv
  <2>5. TickInv'
    BY DEF IInv, ProcInv, TickInv
  <2>6. NoLostWakeup' /\ Family'
    BY DEF IInv, Safe, NoLostWakeup, Family
  <2>. QED BY <2>1, <2>2, <2>3, <2>4, <2>5, <2>6 DEF IInv, ProcInv, Safe
<1>2. CASE Next
  <2>1. PICK c \in Cpu :
          \/ Scheduler(c) \/ ClockIntr(c) \/ Handler(c)
          \/ \E p \in Slot : Program(c, p) \/ Kernel(c, p)
    BY <1>2 DEF Next
  <2>2. CASE Scheduler(c)
    BY <2>2, SchedAcquireStep, SchedScanStep, ArriveStep, LeaveStep DEF Scheduler
  <2>3. CASE ClockIntr(c) \/ Handler(c)
    BY <2>3, ClockIntrStep, TickStep, TickWakeupStep, PreemptStep DEF Handler
  <2>4. ASSUME NEW p \in Slot, Program(c, p) PROVE IInv'
    BY <2>4, ForkAllocStep, ExitStartStep, WaitStep, KillStep, SleepStartStep DEF Program
  <2>5. ASSUME NEW p \in Slot, Kernel(c, p) PROVE IInv'
    BY <2>5, ForkFailStep, ForkCopyStep, ForkRunStep, ExitStartStep, ExitStep, WaitStep,
       SleepCheckStep, SleepStep DEF Kernel
  <2>. QED BY <2>1, <2>2, <2>3, <2>4, <2>5
<1>. QED BY <1>1, <1>2

LEMMA Invariance == Spec => []IInv
BY InitOK, NextStep, PTL DEF Spec

(* The process table keeps its types: no scheduler leaves the table, and   *)
(* no sleeper counts past its time.                                        *)
THEOREM TableTyped == Spec => []TypeOK
<1>1. IInv => TypeOK
  BY DEF IInv
<1>. QED BY <1>1, Invariance, PTL

(* However many CPUs there are, no process runs on two of them, because    *)
(* sched hands ptable.lock over to the scheduler.                          *)
THEOREM RunsOnce == Spec => []OneCpu
<1>1. IInv => OneCpu
  <2>. SUFFICES ASSUME IInv PROVE OneCpu
    OBVIOUS
  <2>1. \A c \in Cpu : proc[c] # None /\ lock # c => state[proc[c]] = "RUNNING"
    BY DEF IInv, ProcInv, TypeOK, LockInv, CpuInv
  <2>. QED BY <2>1 DEF IInv, ProcInv, CpuInv, OneCpu
<1>. QED BY <1>1, Invariance, PTL

(* Neither exit, with or without orphans, nor the clock misses a sleeper.  *)
THEOREM WakeupsArrive == Spec => []NoLostWakeup
<1>1. IInv => NoLostWakeup
  BY DEF IInv, Safe
<1>. QED BY <1>1, Invariance, PTL

(* Every child has a parent that is alive, whoever exits or fails to fork. *)
THEOREM ParentsAlive == Spec => []Family
<1>1. IInv => Family
  BY DEF IInv, Safe
<1>. QED BY <1>1, Invariance, PTL
=============================================================================
