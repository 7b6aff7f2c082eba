------------------------------- MODULE Paging -------------------------------
(***************************************************************************)
(* Demand paging of one user process (pid > 2): its page table, its paging *)
(* metadata (struct p_meta), its swap file, and every kernel path that     *)
(* changes them: the page fault, sbrk, fork, exec and the clock tick.      *)
(*                                                                         *)
(* Addresses are page numbers and sizes are counted in pages.  A page's    *)
(* contents are one value.  The kernel works for a process only while the  *)
(* process is in the kernel, so between two steps of one handler the only  *)
(* things that can happen to this state are a clock tick and what other    *)
(* processes do to the free memory; a handler is cut where these matter,   *)
(* between freeing a frame in pageOut and asking for one with kalloc, and  *)
(* between the pages of allocuvm.                                          *)
(***************************************************************************)
EXTENDS PageSelect, SequencesExt

CONSTANTS
  MaxPsyc,      \* MAX_PSYC_PAGES, pages of one process in memory
  NPages,       \* bound: pages of the address space
  MaxGrow,      \* bound: pages added by one sbrk
  StorePages,   \* bound: pages the program stores to (it reads them all)
  Images,       \* sizes, stack and guard page included, of the programs exec loads
  Data,         \* what a program stores in a page
  Zero, Junk,   \* a page after memset(0), and after kfree filled it
  Calls,        \* the system calls the program makes
  MemoryTight,  \* whether kalloc may return 0
  ExecMayFail   \* whether exec may take an error exit after reset_paging_meta

ASSUME PagingAssumption ==
  /\ MaxPsyc \in Nat \ {0} /\ MaxPsyc <= MaxTotal
  /\ NPages \in Nat /\ MaxGrow \in Nat
  /\ StorePages \subseteq 0 .. NPages - 1
  /\ Images \subseteq 3 .. NPages /\ Images # {}
  /\ Zero \notin Data /\ Junk \notin Data /\ Zero # Junk
  /\ Calls \subseteq {"grow", "shrink", "fork", "exec"}
  /\ MemoryTight \in BOOLEAN /\ ExecMayFail \in BOOLEAN

VARIABLES
  sz,        \* proc.sz
  base,      \* size of the loaded image: the stack is page base-1, the guard base-2
  pte,       \* page table entries: present, paged out, accessed, user
  ram,       \* contents of the frame a present page is mapped to
  pages, queue, offsets,   \* p_meta: the table, pq, and the taken offsets
  swap,      \* contents of the swap file, by page-sized offset
  pc,        \* where the kernel is
  cur, end   \* the faulting page, or allocuvm's next page and its limit

meta == <<pages, queue, offsets>>
vars == <<sz, base, pte, ram, pages, queue, offsets, swap, pc, cur, end>>

Page == 0 .. NPages - 1
Offset == 0 .. MaxTotal - 1
Value == Data \cup {Zero, Junk}
Entry == [P : BOOLEAN, PG : BOOLEAN, A : BOOLEAN, U : BOOLEAN]
SlotRec == [exists : BOOLEAN, vaddr : Page, in_back : BOOLEAN,
            offset : Offset, age : Nat]

NoEntry == [P |-> FALSE, PG |-> FALSE, A |-> FALSE, U |-> FALSE]
(* What mappages writes for a user page. *)
Mapped == [P |-> TRUE, PG |-> FALSE, A |-> FALSE, U |-> TRUE]
(* ... and what clearpteu leaves of it. *)
GuardEntry == [P |-> TRUE, PG |-> FALSE, A |-> FALSE, U |-> FALSE]
(* An entry with its accessed bit set or cleared, and one paged out. *)
Touched(e) == [P |-> e.P, PG |-> e.PG, A |-> TRUE, U |-> e.U]
Idle(e) == [P |-> e.P, PG |-> e.PG, A |-> FALSE, U |-> e.U]
OutEntry(e) == [P |-> FALSE, PG |-> TRUE, A |-> TRUE, U |-> e.U]
(* What copyuvm makes of the entry of a page that is out. *)
ForkedEntry == [P |-> FALSE, PG |-> TRUE, A |-> FALSE, U |-> TRUE]
BlankSlot == [exists |-> FALSE, vaddr |-> 0, in_back |-> FALSE, offset |-> 0, age |-> 0]
NewSlot(a) == [exists |-> TRUE, vaddr |-> a, in_back |-> FALSE, offset |-> 0,
               age |-> FreshAge]
(* What deallocuvm leaves of a slot; and without the reset of vaddr. *)
FreedKeepsAddress(r) == [exists |-> FALSE, vaddr |-> r.vaddr, in_back |-> FALSE,
                         offset |-> 0, age |-> FreshAge]
FreedSlot(r) == [exists |-> FALSE, vaddr |-> 0, in_back |-> FALSE, offset |-> 0,
                 age |-> FreshAge]

(* What page_out_meta, page_in_meta and the aging make of a slot. *)
OutSlot(r, o) == [exists |-> r.exists, vaddr |-> r.vaddr, in_back |-> TRUE,
                  offset |-> o, age |-> r.age]
InSlot(r) == [exists |-> r.exists, vaddr |-> r.vaddr, in_back |-> FALSE,
              offset |-> r.offset, age |-> FreshAge]
AgedSlot(r, accessed) == [exists |-> r.exists, vaddr |-> r.vaddr, in_back |-> r.in_back,
                          offset |-> r.offset, age |-> Shifted(r.age, accessed)]

Accessed == [a \in Page |-> pte[a].A]
Tracking(a) == {s \in Slot : pages[s].exists /\ pages[s].vaddr = a}

(* Back to the program; cur and end are the kernel's local variables. *)
Return == pc' = "user" /\ cur' = 0 /\ end' = 0
(* A kernel that panics stops; nothing else about it matters any more. *)
Panic == pc' = "panic" /\ UNCHANGED <<sz, base, pte, ram, meta, swap, cur, end>>

-----------------------------------------------------------------------------
(* Small decisions of the paging code, most with a faulty variant that the *)
(* properties below are tested against.                                    *)

(* numOfPagedIn(p) == MAX_PSYC_PAGES: a page must go before one comes in.  *)
RamFullLate == numOfPagedIn(pages) = MaxPsyc + 1
RamFull == numOfPagedIn(pages) = MaxPsyc

(* getFreePageOffset: the first offset that is not taken.                  *)
FirstOffsetAlways == 0
getFreePageOffset == Min(Offset \ offsets)

(* page_in_meta gives the slot's offset back.                              *)
OffsetKept(s) == offsets
OffsetFreed(s) == offsets \ {pages[s].offset}

(* The slot page_out_meta updates: the first that tracks the page.         *)
FirstSlotOf(a) == Min(Tracking(a))

(* allocuvm clears the frame of a new page: memset(mem, 0, PGSIZE).        *)
Uncleared == Junk
Cleared == Zero

(* enqueue of a page that has just come into memory.                       *)
NotEnqueued(a) == queue
Enqueued(a) == Append(queue, a)

-----------------------------------------------------------------------------
(* pageOut of the page the policy selects, up to the new pc.  The page is  *)
(* written at the first free offset and its first slot is marked; a full   *)
(* swap file is panic("page_out").  A victim without a frame makes the     *)
(* kernel fault while it reads the page, which is panic("trap").           *)
PageOut(next) ==
  LET sel  == select_page_to_back(pages, queue, Accessed)
      v    == sel.victim
      free == Offset \ offsets
  IN  IF free = {} \/ ~pte[v].P THEN Panic
      ELSE LET o == getFreePageOffset IN
           /\ swap' = [swap EXCEPT ![o] = ram[v]]
           /\ IF Tracking(v) = {} THEN UNCHANGED <<pages, offsets>>
              ELSE /\ pages' = [pages EXCEPT ![FirstSlotOf(v)] = OutSlot(@, o)]
                   /\ offsets' = offsets \cup {o}
           /\ pte' = [a \in Page |->
                        IF a = v THEN OutEntry(pte[a])
                        ELSE IF a \in sel.cleared THEN Idle(pte[a])
                        ELSE pte[a]]
           /\ ram' = [ram EXCEPT ![v] = Junk]
           /\ queue' = sel.queue
           /\ pc' = next
           /\ UNCHANGED <<sz, base, cur, end>>

(* free_from_queue, for each of a set of pages.                            *)
FreeFromQueue(q, S) == FoldSet(LAMBDA a, r : RemoveFirst(r, a), q, S)

(* deallocuvm(pgdir, old, new) on the process's own page table: only       *)
(* present pages are given up, with their slots and their queue entry.     *)
Dealloc(old, new) ==
  LET gone == {a \in Page : new <= a /\ a < old /\ pte[a].P}
  IN  /\ pte' = [a \in Page |-> IF a \in gone THEN NoEntry ELSE pte[a]]
      /\ ram' = [a \in Page |-> IF a \in gone THEN Junk ELSE ram[a]]
      /\ pages' = [s \in Slot |->
                     IF pages[s].exists /\ pages[s].vaddr \in gone
                     THEN FreedSlot(pages[s]) ELSE pages[s]]
      /\ queue' = FreeFromQueue(queue, gone)

-----------------------------------------------------------------------------
(* A program image: text and data, an inaccessible guard page, the stack.  *)
ImageEntry(a, n) == IF a >= n THEN NoEntry
                    ELSE IF a = n - 2 THEN GuardEntry ELSE Mapped

ImageData(a, n, d) == IF a >= n THEN Junk ELSE IF a = n - 2 THEN Zero ELSE d

Init ==
  \E n \in Images, d \in Data :
    /\ n <= MaxPsyc
    /\ sz = n /\ base = n
    /\ pte = [a \in Page |-> ImageEntry(a, n)]
    /\ ram = [a \in Page |-> ImageData(a, n, d)]
    /\ pages = [s \in Slot |-> IF s < n THEN NewSlot(s) ELSE BlankSlot]
    /\ queue = [i \in 1 .. n |-> i - 1]
    /\ offsets = {}
    /\ swap = [o \in Offset |-> Zero]
    /\ pc = "user" /\ cur = 0 /\ end = 0

-----------------------------------------------------------------------------
(* The program. *)

(* A load or a store to a mapped page; the processor sets the accessed bit.*)
Load(a) ==
  /\ pc = "user" /\ pte[a].P /\ pte[a].U
  /\ pte' = [pte EXCEPT ![a] = Touched(@)]
  /\ UNCHANGED <<sz, base, ram, meta, swap, pc, cur, end>>

Store(a, d) ==
  /\ pc = "user" /\ pte[a].P /\ pte[a].U
  /\ pte' = [pte EXCEPT ![a] = Touched(@)]
  /\ ram' = [ram EXCEPT ![a] = d]
  /\ UNCHANGED <<sz, base, meta, swap, pc, cur, end>>

(* trap, T_PGFLT: a page that is paged out is brought in, any other fault  *)
(* kills the process.                                                      *)
PageFault(a) ==
  /\ pc = "user" /\ ~(pte[a].P /\ pte[a].U)
  /\ IF ~pte[a].P /\ pte[a].PG
     THEN pc' = "fault" /\ cur' = a
     ELSE pc' = "dead" /\ UNCHANGED cur
  /\ UNCHANGED <<sz, base, pte, ram, meta, swap, end>>

-----------------------------------------------------------------------------
(* safe_page_in: make room first when the process has MAX_PSYC_PAGES in    *)
(* memory, then pageIn.                                                    *)
FaultPageOut == pc = "fault" /\ RamFull /\ PageOut("pagein")

(* pageIn.  The result of kalloc is not checked: with no free frame the    *)
(* page is mapped to an address without memory behind it.  A page without  *)
(* a record in the back is left mapped to the fresh frame.  page_in_meta   *)
(* takes the first slot with this address, whether it exists or not.       *)
PageIn ==
  LET a     == cur
      back  == {s \in Tracking(a) : pages[s].in_back}
      slot  == Min({s \in Slot : pages[s].vaddr = a})
  IN
  /\ \/ pc = "pagein"
     \/ pc = "fault" /\ ~RamFull
  /\ \E frame \in IF MemoryTight THEN BOOLEAN ELSE {TRUE} :
       IF back = {}
       THEN /\ pte' = [pte EXCEPT ![a] = Mapped]
            /\ ram' = [ram EXCEPT ![a] = Junk]
            /\ Return
            /\ UNCHANGED <<sz, base, meta, swap>>
       ELSE IF Len(queue) = MaxTotal THEN Panic
       ELSE /\ pte' = [pte EXCEPT ![a] = Touched(Mapped)]
            /\ ram' = [ram EXCEPT ![a] =
                         IF frame THEN swap[pages[Min(back)].offset] ELSE Junk]
            /\ pages' = [pages EXCEPT ![slot] = InSlot(@)]
            /\ offsets' = OffsetFreed(slot)
            /\ queue' = Enqueued(a)
            /\ Return
            /\ UNCHANGED <<sz, base, swap>>

-----------------------------------------------------------------------------
(* allocuvm, from growproc and from exec. *)

FreeSlots == {s \in Slot : ~pages[s].exists}

(* add_new_page scans up to the first free slot: a slot that already holds *)
(* the address on the way, or a full queue, is a panic; with no free slot  *)
(* it returns 0, which allocuvm ignores.                                   *)
AddPanics(a) ==
  \/ \E d \in Tracking(a) : \A f \in FreeSlots : d < f
  \/ FreeSlots # {} /\ Len(queue) = MaxTotal

AddNewPage(a) ==
  IF FreeSlots = {} THEN UNCHANGED <<pages, queue>>
  ELSE /\ pages' = [pages EXCEPT ![Min(FreeSlots)] = NewSlot(a)]
       /\ queue' = Enqueued(a)

(* sbrk(n), n > 0. *)
Grow(n) ==
  /\ "grow" \in Calls /\ pc = "user" /\ sz + n <= NPages
  /\ pc' = "grow" /\ cur' = sz /\ end' = sz + n
  /\ UNCHANGED <<sz, base, pte, ram, meta, swap>>

GrowPageOut == pc = "grow" /\ RamFull /\ PageOut("growmap")

GrowMap ==
  /\ \/ pc = "growmap"
     \/ pc = "grow" /\ ~RamFull
  /\ IF pte[cur].P \/ AddPanics(cur) THEN Panic
     ELSE /\ pte' = [pte EXCEPT ![cur] = Mapped]
          /\ ram' = [ram EXCEPT ![cur] = Cleared]
          /\ AddNewPage(cur)
          /\ IF cur + 1 = end THEN Return /\ sz' = end
             ELSE pc' = "grow" /\ cur' = cur + 1 /\ UNCHANGED <<sz, end>>
          /\ UNCHANGED <<base, offsets, swap>>

(* kalloc returns 0: the pages of this call are deallocated again. *)
GrowFail ==
  /\ MemoryTight
  /\ \/ pc = "growmap"
     \/ pc = "grow" /\ ~RamFull
  /\ Dealloc(end, sz)
  /\ Return
  /\ UNCHANGED <<sz, base, offsets, swap>>

(* sbrk(-n); a program does not give up its stack. *)
Shrink(n) ==
  /\ "shrink" \in Calls /\ pc = "user" /\ sz - n >= base
  /\ Dealloc(sz, sz - n)
  /\ sz' = sz - n
  /\ UNCHANGED <<base, offsets, swap, pc, cur, end>>

(* copyuvm over the first n pages: it rewrites the parent's entry of every *)
(* page that is out.                                                       *)
copyuvm(n) == [a \in Page |-> IF a < n /\ pte[a].PG THEN ForkedEntry ELSE pte[a]]

(* fork; n is less than sz when copyuvm finds no free frame.  The child    *)
(* gets the contents of the parent's frames, the same entries, and copies  *)
(* of the swap file and of the metadata, so what is true of the parent     *)
(* after fork is true of the child.                                        *)
Fork ==
  /\ "fork" \in Calls /\ pc = "user"
  /\ \E n \in IF MemoryTight THEN 0 .. sz ELSE {sz} :
       IF \E a \in 0 .. n - 1 : ~pte[a].P /\ ~pte[a].PG THEN Panic
       ELSE /\ pte' = copyuvm(n)
            /\ UNCHANGED <<sz, base, ram, meta, swap, pc, cur, end>>

-----------------------------------------------------------------------------
(* exec: the metadata is reset, the new image is allocated in a page table *)
(* of its own (pages 0 .. cur-1 so far), then it replaces the old one.     *)
(* While it is built, pageOut still works on the old page table.           *)
Exec(n) ==
  /\ "exec" \in Calls /\ pc = "user" /\ n \in Images
  /\ pages' = [s \in Slot |-> BlankSlot] /\ queue' = <<>> /\ offsets' = {}
  /\ pc' = "exec" /\ cur' = 0 /\ end' = n
  /\ UNCHANGED <<sz, base, pte, ram, swap>>

ExecPageOut == pc = "exec" /\ RamFull /\ PageOut("execmap")

ExecMap ==
  /\ \/ pc = "execmap"
     \/ pc = "exec" /\ ~RamFull
  /\ IF AddPanics(cur) THEN Panic
     ELSE /\ AddNewPage(cur)
          /\ cur' = cur + 1
          /\ pc' = IF cur + 1 = end THEN "commit" ELSE "exec"
          /\ UNCHANGED <<sz, base, pte, ram, offsets, swap, end>>

ExecCommit(d) ==
  /\ pc = "commit"
  /\ pte' = [a \in Page |-> ImageEntry(a, end)]
  /\ ram' = [a \in Page |-> ImageData(a, end, d)]
  /\ sz' = end /\ base' = end
  /\ Return
  /\ UNCHANGED <<meta, swap>>

(* bad: the new page table is freed; the old image goes on. *)
ExecBad ==
  /\ ExecMayFail /\ pc \in {"exec", "execmap", "commit"}
  /\ Return
  /\ UNCHANGED <<sz, base, pte, ram, meta, swap>>

-----------------------------------------------------------------------------
(* The clock interrupt of a running process, in user or in kernel mode:    *)
(* age_process_pages.  Every page in memory is aged and its accessed bit   *)
(* cleared; under AQ the queue is then passed over with the bits as they   *)
(* are after that.                                                         *)
Tick ==
  LET aged    == {pages[s].vaddr : s \in PagedIn(pages)}
      after   == [a \in Page |-> pte[a].A /\ a \notin aged]
      cleaned == aged \cup (IF Policy = "AQ" THEN ToSet(queue) ELSE {})
  IN
  /\ pc \notin {"dead", "panic"}
  /\ pages' = [s \in Slot |->
                 IF s \in PagedIn(pages) /\ Policy \in {"NFUA", "LAPA"}
                 THEN AgedSlot(pages[s], pte[pages[s].vaddr].A)
                 ELSE pages[s]]
  /\ queue' = IF Policy = "AQ" THEN SwitchAccessed(queue, after) ELSE queue
  /\ pte' = [a \in Page |-> IF a \in cleaned THEN Idle(pte[a])
                            ELSE pte[a]]
  /\ UNCHANGED <<sz, base, ram, offsets, swap, pc, cur, end>>

(* A process that was killed, or a kernel that panicked, does nothing more.*)
Stopped == pc \in {"dead", "panic"} /\ UNCHANGED vars

Kernel ==
  \/ FaultPageOut \/ PageIn
  \/ GrowPageOut \/ GrowMap \/ GrowFail
  \/ ExecPageOut \/ ExecMap \/ (\E d \in Data : ExecCommit(d)) \/ ExecBad

Program ==
  \/ \E a \in Page : Load(a) \/ PageFault(a)
  \/ \E a \in StorePages, d \in Data : Store(a, d)
  \/ \E n \in 1 .. MaxGrow : Grow(n) \/ Shrink(n)
  \/ Fork
  \/ \E n \in Images : Exec(n)

Next == Program \/ Kernel \/ Tick \/ Stopped

Spec == Init /\ [][Next]_vars

-----------------------------------------------------------------------------
(* The page table, the metadata table and the kernel's position. *)
TableTypeOK ==
  /\ sz \in 1 .. NPages /\ base \in 1 .. NPages /\ base <= sz
  /\ pte \in [Page -> Entry]
  /\ pages \in [Slot -> SlotRec]
  /\ offsets \subseteq Offset
  /\ pc \in {"user", "fault", "pagein", "grow", "growmap", "exec", "execmap",
             "commit", "dead", "panic"}
  /\ cur \in 0 .. NPages /\ end \in 0 .. NPages

TypeOK ==
  /\ TableTypeOK
  /\ ram \in [Page -> Value]
  /\ swap \in [Offset -> Value]
  /\ queue \in Seq(Page)

-----------------------------------------------------------------------------
Back == {s \in Slot : pages[s].exists /\ pages[s].in_back}
InExec == pc \in {"exec", "execmap", "commit"}

(* What the program would read at a page below sz. *)
Contents(a) ==
  LET back == {s \in Tracking(a) : pages[s].in_back}
  IN  IF pte[a].P THEN ram[a]
      ELSE IF pte[a].PG /\ back # {} THEN swap[pages[Min(back)].offset]
      ELSE Junk

Memory == INSTANCE UserMemory WITH
  size <- IF InExec THEN 0 ELSE sz,
  mem  <- [a \in Page |-> IF InExec \/ a >= sz THEN Zero ELSE Contents(a)]

(* The program's memory survives swapping: whatever pageOut, pageIn, the   *)
(* aging and fork do, every page below sz reads as it was last stored, and *)
(* the pages of allocuvm read as zero.                                     *)
MemoryPreserved == Memory!Spec

(* meta->offsets marks exactly the offsets of the pages in the swap file,  *)
(* and no two of these pages share one: page_out_meta takes what           *)
(* page_in_meta gives back.                                                *)
OffsetsExact ==
  /\ offsets = {pages[s].offset : s \in Back}
  /\ \A s, t \in Back : pages[s].offset = pages[t].offset => s = t

(* A page is never both mapped and marked paged out: PTE_P and PTE_PG of   *)
(* an entry are never set together, which isPagedOut and copyuvm rely on.  *)
EntryInv == pte \in [Page -> Entry] /\ \A a \in Page : ~(pte[a].P /\ pte[a].PG)

(* Swap offsets are never shared: a page in the swap file owns a taken     *)
(* offset that no other page's record names, so pageOut cannot overwrite a *)
(* page that is still there.                                               *)
SwapExclusive ==
  /\ \A s \in Back : pages[s].offset \in offsets
  /\ \A s, t \in Back : pages[s].offset = pages[t].offset => s = t

(* Why offsets stay exclusive: page_in_meta frees the offset of the first  *)
(* slot with the address, so that slot must be the one in the swap file.   *)
(* It is, because the slot of page 0 is never preceded by a blank one      *)
(* (whose address also reads 0), and because a page that is out has its    *)
(* first slot marked, the stale slots sbrk leaves behind coming later.     *)
Tracks(s, a) == pages[s].exists /\ pages[s].vaddr = a
First(s, a) == Tracks(s, a) /\ \A u \in Slot : u < s => ~Tracks(u, a)

SlotInv ==
  /\ \A s \in Slot : ~pages[s].exists => pages[s].vaddr = 0
  /\ \A s \in Slot : Tracks(s, 0) => s = 0
  /\ \A a \in Page : \A s, t \in Slot :
       First(s, a) /\ Tracks(t, a) /\ pages[t].in_back /\ ~pte[a].P
         => pages[s].in_back

LoopInv ==
  /\ pc \in {"fault", "pagein"} => cur \in Page /\ ~pte[cur].P
  /\ pc \in {"grow", "growmap"} => sz <= cur /\ cur < end
  /\ pc \in {"exec", "execmap"} => cur < end
  /\ InExec => /\ \A s \in Slot : pages[s].exists => pages[s].vaddr < cur
               /\ \A a \in Page : \A s, t \in Slot : Tracks(s, a) /\ Tracks(t, a) => s = t
               /\ 3 <= end
  /\ pc = "commit" => cur = end

SwapInv == SwapExclusive /\ SlotInv /\ LoopInv

(* The invariant that is proved inductive, with the types: a slot, its     *)
(* page table entry and the offset it names tell the same story at every   *)
(* step of a page fault, sbrk, fork and exec, failed ones included.        *)
PagingInv == TypeOK /\ EntryInv /\ SwapInv

(* The queue SCFIFO and AQ choose from holds every page in memory, once:   *)
(* no page escapes replacement and none is chosen that is already out.     *)
QueueIsResident ==
  pc = "user" => /\ ToSet(queue) = {a \in Page : pte[a].P}
                 /\ Len(queue) = Cardinality(ToSet(queue))

(* A page accessed since the last tick leaves memory only if every page in *)
(* memory was accessed: the second chance of SCFIFO, and what "the page    *)
(* with the earliest last visit" says of NFUA.                             *)
IdleFirst ==
  [][\A a, b \in Page :
       /\ pte[a].P /\ ~pte'[a].P /\ pte'[a].PG
       /\ pte[b].P /\ pte[a].A
       => pte[b].A]_vars

(* The limits are kept: when the program runs it has at most               *)
(* MAX_PSYC_PAGES pages in memory, because allocuvm and safe_page_in make  *)
(* room first, and the table, the queue and the swap file never overflow   *)
(* into a panic.                                                           *)
LimitsKept ==
  /\ pc # "panic"
  /\ pc = "user" => Cardinality({a \in Page : pte[a].P}) <= MaxPsyc
=============================================================================
