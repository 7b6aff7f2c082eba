---------------------------- MODULE PagingProofs ----------------------------
(***************************************************************************)
(* Theorems about Paging, for every policy, every size of the tables and   *)
(* of the address space, and every mix of system calls.                    *)
(***************************************************************************)
EXTENDS Paging, MinTheorems, TLAPS

IInv == TableTypeOK /\ SwapInv

LEMMA InitInv == Init => IInv
<1>. SUFFICES ASSUME Init PROVE IInv
  OBVIOUS
<1>1. PICK n \in Images : 
        /\ n <= MaxPsyc
        /\ sz = n /\ base = n
        /\ pte = [a \in Page |-> ImageEntry(a, n)]
        /\ pages = [s \in Slot |-> IF s < n THEN NewSlot(s) ELSE BlankSlot]
        /\ offsets = {} /\ pc = "user" /\ cur = 0 /\ end = 0
  BY DEF Init
<1>2. n \in 3 .. NPages /\ NPages \in Nat /\ MaxTotal \in Nat \ {0}
  BY PagingAssumption, SelectAssumption
<1>3. FreshAge \in Nat
  BY AgeAssumption DEF FreshAge
<1>4. pages \in [Slot -> SlotRec]
  BY <1>1, <1>2, <1>3 DEF Slot, SlotRec, NewSlot, BlankSlot, Page, Offset
<1>5. pte \in [Page -> Entry]
  BY <1>1, <1>2 DEF Page, Entry, ImageEntry, NoEntry, Mapped, GuardEntry
<1>6. TableTypeOK
  BY <1>1, <1>2, <1>4, <1>5 DEF TableTypeOK
<1>7. \A s \in Slot : ~pages[s].in_back /\ (~pages[s].exists => pages[s].vaddr = 0)
                      /\ (pages[s].exists => pages[s].vaddr = s)
  BY <1>1, <1>2 DEF Slot, NewSlot, BlankSlot
<1>8. SwapInv
  BY <1>1, <1>7 DEF SwapInv, SwapExclusive, SlotInv, LoopInv, InExec, Back, Tracks, First
<1>. QED BY <1>6, <1>8 DEF IInv

(* The fields of an updated entry and of an updated slot. *)
LEMMA EntryFields ==
  ASSUME NEW e \in Entry
  PROVE  /\ Touched(e) \in Entry /\ Touched(e).P = e.P
         /\ Idle(e) \in Entry /\ Idle(e).P = e.P
         /\ OutEntry(e) \in Entry /\ OutEntry(e).P = FALSE
BY DEF Entry, Touched, Idle, OutEntry

LEMMA OutSlotFields ==
  ASSUME NEW r \in SlotRec, NEW o \in Offset
  PROVE  /\ OutSlot(r, o) \in SlotRec
         /\ OutSlot(r, o).exists = r.exists /\ OutSlot(r, o).vaddr = r.vaddr
         /\ OutSlot(r, o).in_back /\ OutSlot(r, o).offset = o
BY DEF OutSlot, SlotRec

(* The kernel stops. *)
LEMMA PanicInv == ASSUME IInv, Panic PROVE IInv'
BY DEF IInv, Panic, meta, TableTypeOK, SwapInv, SwapExclusive, SlotInv, LoopInv,
       InExec, Back, Tracks, First

(* pageOut keeps the invariant: it takes an offset that is free, and marks *)
(* the first slot of the page it takes the frame from.                     *)
LEMMA PageOutInv ==
  ASSUME IInv, NEW next, PageOut(next),
         \/ pc = "fault" /\ next = "pagein"
         \/ pc = "grow" /\ next = "growmap"
         \/ pc = "exec" /\ next = "execmap"
  PROVE  IInv'
<1>. DEFINE sel == select_page_to_back(pages, queue, Accessed)
            v == sel.victim
            o == getFreePageOffset
            m == FirstSlotOf(v)
<1>0. CASE Panic
  BY <1>0, PanicInv
<1>1. CASE ~Panic
  <2>1. /\ Offset \ offsets # {}
        /\ IF Tracking(v) = {} THEN pages' = pages /\ offsets' = offsets
           ELSE /\ pages' = [pages EXCEPT ![m] = OutSlot(pages[m], o)]
                /\ offsets' = offsets \cup {o}
        /\ pte' = [a \in Page |->
                     IF a = v THEN OutEntry(pte[a])
                     ELSE IF a \in sel.cleared THEN Idle(pte[a])
                     ELSE pte[a]]
        /\ pc' = next
        /\ UNCHANGED <<sz, base, cur, end>>
    BY <1>1 DEF PageOut
  <2>. HIDE DEF v, o, m, sel
  <2>2. o \in Offset \ offsets
    <3>1. Offset \ offsets \subseteq Nat
      BY SelectAssumption DEF Offset
    <3>. QED BY <2>1, <3>1, MinIsLeast DEF o, getFreePageOffset
  <2>3. Tracking(v) # {} => First(m, v) /\ m \in Slot
    <3>1. Tracking(v) \subseteq Slot /\ Slot \subseteq Nat
      BY SelectAssumption DEF Tracking, Slot
    <3>2. Tracking(v) # {} => m \in Tracking(v) /\ \A y \in Tracking(v) : m <= y
      BY <3>1, MinIsLeast DEF m, FirstSlotOf
    <3>3. \A u \in Slot : Tracks(u, v) <=> u \in Tracking(v)
      BY DEF Tracks, Tracking
    <3>4. ASSUME Tracking(v) # {}, NEW u \in Slot, u < m PROVE ~Tracks(u, v)
      <4>1. m \in Nat /\ u \in Nat
        BY <3>1, <3>2, <3>4
      <4>2. u \in Tracking(v) => m <= u
        BY <3>2, <3>4
      <4>. QED BY <3>3, <3>4, <4>1, <4>2
    <3>. QED BY <3>1, <3>2, <3>3, <3>4 DEF First
  <2>4. pte' \in [Page -> Entry] /\ \A a \in Page : pte'[a].P = (IF a = v THEN FALSE ELSE pte[a].P)
    BY <2>1, EntryFields DEF IInv, TableTypeOK
  <2>5. /\ pages' \in [Slot -> SlotRec] /\ offsets' \subseteq Offset
        /\ \A s \in Slot : /\ pages'[s].exists = pages[s].exists
                           /\ pages'[s].vaddr = pages[s].vaddr
                           /\ s # m \/ Tracking(v) = {} => pages'[s] = pages[s]
                           /\ s = m /\ Tracking(v) # {} =>
                                pages'[s].in_back /\ pages'[s].offset = o
    <3>1. CASE Tracking(v) = {}
      BY <2>1, <3>1 DEF IInv, TableTypeOK
    <3>2. CASE Tracking(v) # {}
      BY <2>1, <2>2, <2>3, <3>2, OutSlotFields DEF IInv, TableTypeOK
    <3>. QED BY <3>1, <3>2
  <2>6. TableTypeOK'
    BY <2>1, <2>4, <2>5 DEF IInv, TableTypeOK
  <2>7. SwapExclusive'
    <3>1. CASE Tracking(v) = {}
      BY <2>1, <3>1, <2>5 DEF IInv, SwapInv, SwapExclusive, Back
    <3>2. CASE Tracking(v) # {}
      BY <2>1, <2>2, <2>5, <3>2 DEF IInv, SwapInv, SwapExclusive, Back
    <3>. QED BY <3>1, <3>2
  <2>8. \A a : \A s \in Slot : /\ Tracks(s, a)' <=> Tracks(s, a)
                               /\ First(s, a)' <=> First(s, a)
    BY <2>5 DEF Tracks, First
  <2>9. SlotInv'
    <3>1. ASSUME NEW a \in Page, NEW s \in Slot, NEW t \in Slot,
                 First(s, a)', Tracks(t, a)', pages'[t].in_back, ~pte'[a].P
          PROVE  pages'[s].in_back
      <4>1. CASE a = v
        <5>1. Tracking(v) # {}
          BY <2>8, <3>1, <4>1 DEF Tracking, Tracks
        <5>2. s = m
          BY <2>3, <2>8, <3>1, <4>1, <5>1, SelectAssumption DEF First, Slot
        <5>. QED BY <2>5, <5>1, <5>2
      <4>2. CASE a # v
        <5>1. ~pte[a].P /\ First(s, a) /\ Tracks(t, a)
          BY <2>4, <2>8, <3>1, <4>2
        <5>2. Tracking(v) = {} \/ (s # m /\ t # m)
          BY <2>3, <4>2, <5>1 DEF First, Tracks
        <5>3. pages'[s] = pages[s] /\ pages'[t] = pages[t]
          BY <2>5, <5>2
        <5>. QED BY <3>1, <5>1, <5>3 DEF IInv, SwapInv, SlotInv
      <4>. QED BY <4>1, <4>2
    <3>. QED BY <2>5, <2>8, <3>1 DEF IInv, SwapInv, SlotInv
  <2>10. LoopInv'
    BY <2>1, <2>4, <2>5, <2>8 DEF IInv, SwapInv, LoopInv, InExec, TableTypeOK
  <2>. QED BY <2>6, <2>7, <2>9, <2>10 DEF IInv, SwapInv
<1>. QED BY <1>0, <1>1

LEMMA InSlotFields ==
  ASSUME NEW r \in SlotRec
  PROVE  /\ InSlot(r) \in SlotRec
         /\ InSlot(r).exists = r.exists /\ InSlot(r).vaddr = r.vaddr
         /\ ~InSlot(r).in_back
BY AgeAssumption DEF InSlot, SlotRec, FreshAge

LEMMA AgedSlotFields ==
  ASSUME NEW r \in SlotRec, NEW b \in BOOLEAN
  PROVE  /\ AgedSlot(r, b) \in SlotRec
         /\ AgedSlot(r, b).exists = r.exists /\ AgedSlot(r, b).vaddr = r.vaddr
         /\ AgedSlot(r, b).in_back = r.in_back /\ AgedSlot(r, b).offset = r.offset
<1>1. Shifted(r.age, b) \in Nat
  BY AgeAssumption DEF SlotRec, Shifted
<1>. QED BY <1>1 DEF AgedSlot, SlotRec

(* pageIn keeps the invariant: the slot page_in_meta finds is the one that *)
(* is in the swap file, so the offset it frees is that slot's own.         *)
LEMMA PageInInv == ASSUME IInv, PageIn PROVE IInv'
<1>. DEFINE a == cur
            back == {s \in Tracking(a) : pages[s].in_back}
            slot == Min({s \in Slot : pages[s].vaddr = a})
<1>1. pc \in {"fault", "pagein"} /\ a \in Page /\ ~pte[a].P
  BY DEF PageIn, IInv, SwapInv, LoopInv
<1>2. CASE back = {}
  <2>1. /\ pte' = [pte EXCEPT ![a] = Mapped] /\ pc' = "user"
        /\ cur' = 0 /\ end' = 0
        /\ UNCHANGED <<sz, base, pages, offsets>>
    BY <1>2 DEF PageIn, Return, meta
  <2>2. pte' \in [Page -> Entry] /\ \A b \in Page : pte'[b].P = (b = a \/ pte[b].P)
    BY <1>1, <2>1 DEF IInv, TableTypeOK, Entry, Mapped
  <2>3. TableTypeOK'
    BY <2>1, <2>2, PagingAssumption DEF IInv, TableTypeOK
  <2>4. SwapExclusive'
    BY <2>1 DEF IInv, SwapInv, SwapExclusive, Back
  <2>5. SlotInv'
    BY <2>1, <2>2 DEF IInv, SwapInv, SlotInv, Tracks, First
  <2>6. LoopInv'
    BY <2>1 DEF LoopInv, InExec
  <2>. QED BY <2>3, <2>4, <2>5, <2>6 DEF IInv, SwapInv
<1>3. CASE back # {} /\ Panic
  BY <1>3, PanicInv
<1>4. CASE back # {} /\ ~Panic
  <2>1. /\ pte' = [pte EXCEPT ![a] = Touched(Mapped)] /\ pc' = "user"
        /\ cur' = 0 /\ end' = 0
        /\ pages' = [pages EXCEPT ![slot] = InSlot(pages[slot])]
        /\ offsets' = offsets \ {pages[slot].offset}
        /\ UNCHANGED <<sz, base>>
    BY <1>4 DEF PageIn, Return, OffsetFreed
  <2>2. pte' \in [Page -> Entry] /\ \A b \in Page : pte'[b].P = (b = a \/ pte[b].P)
    BY <1>1, <2>1 DEF IInv, TableTypeOK, Entry, Mapped, Touched
  <2>3. PICK t \in Slot : Tracks(t, a) /\ pages[t].in_back
    BY <1>4 DEF Tracking, Tracks
  <2>4. slot \in Slot /\ pages[slot].vaddr = a /\ \A u \in Slot : pages[u].vaddr = a => slot <= u
    <3>1. {s \in Slot : pages[s].vaddr = a} \subseteq Nat
      BY SelectAssumption DEF Slot
    <3>2. {s \in Slot : pages[s].vaddr = a} # {}
      BY <2>3 DEF Tracks
    <3>. QED BY <3>1, <3>2, MinIsLeast
  <2>. HIDE DEF slot, back, a
  <2>5. First(slot, a)
    <3>1. pages[slot].exists
      <4>1. CASE a = 0
        <5>1. t = 0
          BY <2>3, <4>1 DEF IInv, SwapInv, SlotInv
        <5>2. slot <= t
          BY <2>3, <2>4 DEF Tracks
        <5>3. slot = 0
          BY <2>4, <5>1, <5>2, SelectAssumption DEF Slot
        <5>. QED BY <2>3, <5>1, <5>3 DEF Tracks
      <4>2. CASE a # 0
        BY <2>4, <4>2 DEF IInv, SwapInv, SlotInv
      <4>. QED BY <4>1, <4>2
    <3>2. ASSUME NEW u \in Slot, u < slot PROVE ~Tracks(u, a)
      BY <2>4, <3>2, SelectAssumption DEF Tracks, Slot
    <3>. QED BY <2>4, <3>1, <3>2 DEF First, Tracks
  <2>6. slot \in Back
    BY <1>1, <2>3, <2>4, <2>5 DEF IInv, SwapInv, SlotInv, Back, First, Tracks
  <2>7. /\ pages' \in [Slot -> SlotRec]
        /\ \A s \in Slot : /\ pages'[s].exists = pages[s].exists
                           /\ pages'[s].vaddr = pages[s].vaddr
                           /\ s # slot => pages'[s] = pages[s]
                           /\ s = slot => ~pages'[s].in_back
    BY <2>1, <2>4, InSlotFields DEF IInv, TableTypeOK
  <2>8. TableTypeOK'
    BY <2>1, <2>2, <2>7, PagingAssumption DEF IInv, TableTypeOK
  <2>9. SwapExclusive'
    BY <2>1, <2>6, <2>7 DEF IInv, SwapInv, SwapExclusive, Back
  <2>10. \A b : \A s \in Slot : (Tracks(s, b)' <=> Tracks(s, b)) /\ (First(s, b)' <=> First(s, b))
    BY <2>7 DEF Tracks, First
  <2>11. SlotInv'
    <3>1. ASSUME NEW b \in Page, NEW s \in Slot, NEW u \in Slot,
                 First(s, b)', Tracks(u, b)', pages'[u].in_back, ~pte'[b].P
          PROVE  pages'[s].in_back
      <4>1. b # a /\ ~pte[b].P
        BY <2>2, <3>1
      <4>2. First(s, b) /\ Tracks(u, b)
        BY <2>10, <3>1
      <4>3. s # slot /\ u # slot
        BY <2>4, <4>1, <4>2 DEF First, Tracks
      <4>. QED BY <2>7, <3>1, <4>1, <4>2, <4>3 DEF IInv, SwapInv, SlotInv
    <3>. QED BY <2>7, <2>10, <3>1 DEF IInv, SwapInv, SlotInv
  <2>12. LoopInv'
    BY <2>1 DEF LoopInv, InExec
  <2>. QED BY <2>8, <2>9, <2>11, <2>12 DEF IInv, SwapInv
<1>. QED BY <1>2, <1>3, <1>4

(* add_new_page fills one free slot, which precedes every slot that        *)
(* tracks the same address, or changes nothing.                            *)
LEMMA AddNewPageSlot ==
  ASSUME IInv, NEW a \in Page, ~AddPanics(a), AddNewPage(a)
  PROVE  /\ pages' \in [Slot -> SlotRec]
         /\ \/ pages' = pages
            \/ \E f \in Slot :
                 /\ ~pages[f].exists
                 /\ \A u \in Slot : u < f => pages[u].exists /\ pages[u].vaddr # a
                 /\ pages'[f] = NewSlot(a)
                 /\ \A s \in Slot \ {f} : pages'[s] = pages[s]
<1>1. CASE FreeSlots = {}
  BY <1>1 DEF AddNewPage, IInv, TableTypeOK
<1>2. CASE FreeSlots # {}
  <2>. DEFINE f == Min(FreeSlots)
  <2>1. f \in FreeSlots /\ \A y \in FreeSlots : f <= y
    <3>1. FreeSlots \subseteq Nat
      BY SelectAssumption DEF FreeSlots, Slot
    <3>. QED BY <1>2, <3>1, MinIsLeast
  <2>2. pages' = [pages EXCEPT ![f] = NewSlot(a)]
    BY <1>2 DEF AddNewPage
  <2>. HIDE DEF f
  <2>3. f \in Slot /\ ~pages[f].exists
    BY <2>1 DEF FreeSlots
  <2>4. ASSUME NEW u \in Slot, u < f PROVE pages[u].exists /\ pages[u].vaddr # a
    <3>1. u \in Nat /\ f \in Nat
      BY <2>3, SelectAssumption DEF Slot
    <3>2. u \notin FreeSlots
      BY <2>1, <2>4, <3>1
    <3>3. pages[u].exists
      BY <3>2 DEF FreeSlots
    <3>4. \A y \in FreeSlots : u < y
      <4>1. FreeSlots \subseteq Nat
        BY SelectAssumption DEF FreeSlots, Slot
      <4>. QED BY <2>1, <2>4, <3>1, <4>1
    <3>5. u \notin Tracking(a)
      BY <3>4 DEF AddPanics
    <3>. QED BY <3>3, <3>5 DEF Tracking
  <2>5. NewSlot(a) \in SlotRec
    BY AgeAssumption, SelectAssumption DEF NewSlot, SlotRec, FreshAge, Offset
  <2>6. pages' \in [Slot -> SlotRec]
    BY <2>2, <2>3, <2>5 DEF IInv, TableTypeOK
  <2>7. pages'[f] = NewSlot(a) /\ \A s \in Slot \ {f} : pages'[s] = pages[s]
    BY <2>2, <2>3 DEF IInv, TableTypeOK
  <2>. QED BY <2>3, <2>4, <2>6, <2>7
<1>. QED BY <1>1, <1>2

LEMMA GrowMapInv == ASSUME IInv, GrowMap PROVE IInv'
<1>0. CASE Panic
  BY <1>0, PanicInv
<1>1. CASE ~Panic
  <2>1. /\ ~AddPanics(cur) /\ AddNewPage(cur)
        /\ pte' = [pte EXCEPT ![cur] = Mapped]
        /\ UNCHANGED <<base, offsets>>
        /\ \/ cur + 1 = end /\ pc' = "user" /\ cur' = 0 /\ end' = 0 /\ sz' = end
           \/ cur + 1 # end /\ pc' = "grow" /\ cur' = cur + 1 /\ UNCHANGED <<sz, end>>
    BY <1>1 DEF GrowMap, Return
  <2>2. /\ pc \in {"grow", "growmap"} /\ sz <= cur /\ cur < end /\ cur \in Page /\ cur # 0
        /\ cur \in Nat /\ end \in 1 .. NPages /\ sz \in 1 .. NPages /\ base <= end
    BY PagingAssumption DEF GrowMap, IInv, SwapInv, LoopInv, TableTypeOK, Page
  <2>3. pte' \in [Page -> Entry] /\ \A b \in Page : pte'[b].P = (b = cur \/ pte[b].P)
    BY <2>1, <2>2 DEF IInv, TableTypeOK, Entry, Mapped
  <2>4. pages' \in [Slot -> SlotRec]
    BY <2>1, <2>2, AddNewPageSlot
  <2>5. TableTypeOK'
    BY <2>1, <2>2, <2>3, <2>4, PagingAssumption DEF IInv, TableTypeOK
  <2>6. LoopInv'
    BY <2>1, <2>2 DEF IInv, TableTypeOK, LoopInv, InExec
  <2>7. CASE pages' = pages
    <3>1. SwapExclusive'
      BY <2>1, <2>7 DEF IInv, SwapInv, SwapExclusive, Back
    <3>2. SlotInv'
      BY <2>3, <2>7 DEF IInv, SwapInv, SlotInv, Tracks, First
    <3>. QED BY <2>5, <2>6, <3>1, <3>2 DEF IInv, SwapInv
  <2>8. CASE pages' # pages
    <3>1. PICK f \in Slot :
                 /\ ~pages[f].exists
                 /\ \A u \in Slot : u < f => pages[u].exists /\ pages[u].vaddr # cur
                 /\ pages'[f] = NewSlot(cur)
                 /\ \A s \in Slot \ {f} : pages'[s] = pages[s]
      BY <2>1, <2>2, <2>8, AddNewPageSlot
    <3>2. pages'[f].exists /\ pages'[f].vaddr = cur /\ ~pages'[f].in_back
      BY <3>1 DEF NewSlot
    <3>3. SwapExclusive'
      BY <2>1, <3>1, <3>2 DEF IInv, SwapInv, SwapExclusive, Back
    <3>4. \A b \in Page : b # cur => \A s \in Slot :
            /\ Tracks(s, b)' <=> Tracks(s, b)
            /\ First(s, b)' <=> First(s, b)
            /\ Tracks(s, b) => s # f
      BY <3>1, <3>2 DEF Tracks, First
    <3>5. SlotInv'
      <4>1. \A s \in Slot : ~pages'[s].exists => pages'[s].vaddr = 0
        BY <3>1, <3>2 DEF IInv, SwapInv, SlotInv
      <4>2. \A s \in Slot : Tracks(s, 0)' => s = 0
        BY <2>2, <3>1, <3>2 DEF IInv, SwapInv, SlotInv, Tracks
      <4>3. ASSUME NEW b \in Page, NEW s \in Slot, NEW t \in Slot,
                   First(s, b)', Tracks(t, b)', pages'[t].in_back, ~pte'[b].P
            PROVE  pages'[s].in_back
        <5>1. b # cur /\ ~pte[b].P
          BY <2>3, <4>3
        <5>2. First(s, b) /\ Tracks(s, b) /\ Tracks(t, b) /\ s # f /\ t # f
          BY <3>4, <4>3, <5>1 DEF First
        <5>. QED BY <3>1, <4>3, <5>1, <5>2 DEF IInv, SwapInv, SlotInv
      <4>. QED BY <4>1, <4>2, <4>3 DEF SlotInv
    <3>. QED BY <2>5, <2>6, <3>3, <3>5 DEF IInv, SwapInv
  <2>. QED BY <2>7, <2>8
<1>. QED BY <1>0, <1>1

(* exec builds its table from nothing: addresses are added in order, so no *)
(* two slots track the same one, and page 0 gets slot 0.                   *)
LEMMA ExecMapInv == ASSUME IInv, ExecMap PROVE IInv'
<1>0. CASE Panic
  BY <1>0, PanicInv
<1>1. CASE ~Panic
  <2>1. /\ ~AddPanics(cur) /\ AddNewPage(cur)
        /\ cur' = cur + 1
        /\ pc' = IF cur + 1 = end THEN "commit" ELSE "exec"
        /\ UNCHANGED <<sz, base, pte, offsets, end>>
    BY <1>1 DEF ExecMap
  <2>2. /\ pc \in {"exec", "execmap"} /\ InExec /\ cur < end /\ cur \in Page
        /\ cur \in Nat /\ end \in 3 .. NPages
        /\ \A s \in Slot : pages[s].exists => pages[s].vaddr < cur
        /\ \A a \in Page : \A s, t \in Slot : Tracks(s, a) /\ Tracks(t, a) => s = t
    BY PagingAssumption DEF ExecMap, IInv, SwapInv, LoopInv, TableTypeOK, Page, InExec
  <2>3. pages' \in [Slot -> SlotRec]
    BY <2>1, <2>2, AddNewPageSlot
  <2>4. TableTypeOK'
    BY <2>1, <2>2, <2>3, PagingAssumption DEF IInv, TableTypeOK
  <2>5. CASE pages' = pages
    <3>1. SwapExclusive'
      BY <2>1, <2>5 DEF IInv, SwapInv, SwapExclusive, Back
    <3>2. SlotInv'
      BY <2>1, <2>5 DEF IInv, SwapInv, SlotInv, Tracks, First
    <3>3. \A s \in Slot : pages[s].exists => pages[s].vaddr < cur + 1
      BY <2>2 DEF IInv, TableTypeOK, SlotRec, Page
    <3>4. LoopInv'
      BY <2>1, <2>2, <2>5, <3>3 DEF LoopInv, InExec, Tracks
    <3>. QED BY <2>4, <3>1, <3>2, <3>4 DEF IInv, SwapInv
  <2>6. CASE pages' # pages
    <3>1. PICK f \in Slot :
                 /\ ~pages[f].exists
                 /\ \A u \in Slot : u < f => pages[u].exists /\ pages[u].vaddr # cur
                 /\ pages'[f] = NewSlot(cur)
                 /\ \A s \in Slot \ {f} : pages'[s] = pages[s]
      BY <2>1, <2>2, <2>6, AddNewPageSlot
    <3>2. pages'[f].exists /\ pages'[f].vaddr = cur /\ ~pages'[f].in_back
      BY <3>1 DEF NewSlot
    <3>3. SwapExclusive'
      BY <2>1, <3>1, <3>2 DEF IInv, SwapInv, SwapExclusive, Back
    <3>4. ASSUME NEW s \in Slot, pages'[s].exists
          PROVE  pages'[s].vaddr < cur + 1 /\ (s # f => pages'[s].vaddr < cur)
      <4>1. CASE s = f
        BY <2>2, <3>2, <4>1
      <4>2. CASE s # f
        BY <2>2, <3>1, <3>4, <4>2 DEF IInv, TableTypeOK, SlotRec, Page
      <4>. QED BY <4>1, <4>2
    <3>5. ASSUME NEW a \in Page, NEW s \in Slot, NEW t \in Slot, Tracks(s, a)', Tracks(t, a)'
          PROVE  s = t
      <4>1. CASE a = cur
        BY <2>2, <3>4, <3>5, <4>1 DEF Tracks
      <4>2. CASE a # cur
        <5>1. s # f /\ t # f
          BY <3>2, <3>5, <4>2 DEF Tracks
        <5>. QED BY <2>2, <3>1, <3>5, <5>1 DEF Tracks
      <4>. QED BY <4>1, <4>2
    <3>6. cur = 0 => f = 0
      <4>1. ASSUME cur = 0, f # 0 PROVE FALSE
        <5>1. 0 \in Slot /\ 0 < f
          BY <4>1, SelectAssumption DEF Slot
        <5>2. pages[0].exists /\ pages[0].vaddr \in Page
          BY <3>1, <5>1 DEF IInv, TableTypeOK, SlotRec
        <5>. QED BY <2>2, <4>1, <5>1, <5>2 DEF Page
      <4>. QED BY <4>1
    <3>7. SlotInv'
      <4>1. \A s \in Slot : ~pages'[s].exists => pages'[s].vaddr = 0
        BY <3>1, <3>2 DEF IInv, SwapInv, SlotInv
      <4>2. \A s \in Slot : Tracks(s, 0)' => s = 0
        BY <3>1, <3>2, <3>6 DEF IInv, SwapInv, SlotInv, Tracks
      <4>3. ASSUME NEW b \in Page, NEW s \in Slot, NEW t \in Slot,
                   First(s, b)', Tracks(t, b)', pages'[t].in_back, ~pte'[b].P
            PROVE  pages'[s].in_back
        <5>1. s = t
          BY <3>5, <4>3 DEF First
        <5>. QED BY <4>3, <5>1
      <4>. QED BY <4>1, <4>2, <4>3 DEF SlotInv
    <3>8. LoopInv'
      BY <2>1, <2>2, <3>4, <3>5 DEF LoopInv, InExec
    <3>. QED BY <2>4, <3>3, <3>7, <3>8 DEF IInv, SwapInv
  <2>. QED BY <2>5, <2>6
<1>. QED BY <1>0, <1>1

LEMMA ExecInv == ASSUME IInv, NEW n \in Images, Exec(n) PROVE IInv'
<1>1. /\ pages' = [s \in Slot |-> BlankSlot] /\ offsets' = {}
      /\ pc' = "exec" /\ cur' = 0 /\ end' = n
      /\ UNCHANGED <<sz, base, pte>>
  BY DEF Exec
<1>2. n \in 3 .. NPages /\ NPages \in Nat
  BY PagingAssumption
<1>3. \A s \in Slot : ~pages'[s].exists /\ pages'[s].vaddr = 0
  BY <1>1 DEF BlankSlot
<1>4. pages' \in [Slot -> SlotRec]
  BY <1>1, <1>2, SelectAssumption DEF BlankSlot, SlotRec, Page, Offset
<1>5. TableTypeOK'
  BY <1>1, <1>2, <1>4 DEF IInv, TableTypeOK
<1>6. SwapInv'
  BY <1>1, <1>2, <1>3 DEF SwapInv, SwapExclusive, SlotInv, LoopInv, InExec, Back, Tracks, First
<1>. QED BY <1>5, <1>6 DEF IInv

LEMMA ExecCommitInv == ASSUME IInv, NEW d, ExecCommit(d) PROVE IInv'
<1>1. /\ pc = "commit" /\ pte' = [a \in Page |-> ImageEntry(a, end)]
      /\ sz' = end /\ base' = end /\ pc' = "user" /\ cur' = 0 /\ end' = 0
      /\ UNCHANGED <<pages, offsets>>
  BY DEF ExecCommit, Return, meta
<1>2. /\ end \in 3 .. NPages /\ NPages \in Nat
      /\ \A a \in Page : \A s, t \in Slot : Tracks(s, a) /\ Tracks(t, a) => s = t
  BY <1>1, PagingAssumption DEF IInv, TableTypeOK, SwapInv, LoopInv, InExec
<1>3. pte' \in [Page -> Entry]
  BY <1>1, <1>2 DEF Page, Entry, ImageEntry, NoEntry, Mapped, GuardEntry
<1>4. TableTypeOK'
  BY <1>1, <1>2, <1>3 DEF IInv, TableTypeOK
<1>5. SwapExclusive'
  BY <1>1 DEF IInv, SwapInv, SwapExclusive, Back
<1>6. SlotInv'
  BY <1>1, <1>2 DEF IInv, SwapInv, SlotInv, Tracks, First
<1>7. LoopInv'
  BY <1>1 DEF LoopInv, InExec
<1>. QED BY <1>4, <1>5, <1>6, <1>7 DEF IInv, SwapInv

LEMMA ExecBadInv == ASSUME IInv, ExecBad PROVE IInv'
<1>1. /\ InExec /\ pc' = "user" /\ cur' = 0 /\ end' = 0
      /\ UNCHANGED <<sz, base, pte, pages, offsets>>
  BY DEF ExecBad, Return, meta, InExec
<1>2. TableTypeOK'
  BY <1>1, PagingAssumption DEF IInv, TableTypeOK
<1>3. SwapInv'
  BY <1>1 DEF IInv, SwapInv, SwapExclusive, SlotInv, LoopInv, InExec, Back, Tracks, First
<1>. QED BY <1>2, <1>3 DEF IInv

(* deallocuvm forgets every slot of a page it gives up, so no stale slot   *)
(* of such a page is left to be first.                                     *)
LEMMA DeallocInv ==
  ASSUME IInv, NEW old, NEW new, Dealloc(old, new), UNCHANGED offsets
  PROVE  /\ pte' \in [Page -> Entry] /\ pages' \in [Slot -> SlotRec]
         /\ SwapExclusive' /\ SlotInv'
<1>. DEFINE gone == {a \in Page : new <= a /\ a < old /\ pte[a].P}
<1>. DEFINE freed == FreedSlot(BlankSlot)
<1>1. /\ pte' = [a \in Page |-> IF a \in gone THEN NoEntry ELSE pte[a]]
      /\ pages' = [s \in Slot |-> IF pages[s].exists /\ pages[s].vaddr \in gone
                                  THEN freed ELSE pages[s]]
  BY DEF Dealloc, FreedSlot
<1>2. gone \subseteq Page
  OBVIOUS
<1>. HIDE DEF gone
<1>3. freed \in SlotRec /\ ~freed.exists /\ freed.vaddr = 0
  <2>1. FreshAge \in Nat /\ 0 \in Offset
    BY AgeAssumption, SelectAssumption DEF FreshAge, Offset
  <2>2. 0 \in Page
    BY PagingAssumption DEF IInv, TableTypeOK, Page
  <2>. QED BY <2>1, <2>2 DEF FreedSlot, SlotRec
<1>. HIDE DEF freed
<1>4. pte' \in [Page -> Entry] /\ pages' \in [Slot -> SlotRec]
  BY <1>1, <1>3 DEF IInv, TableTypeOK, Entry, NoEntry
<1>5. \A s \in Slot : pages'[s].exists => pages'[s] = pages[s] /\ pages[s].vaddr \notin gone
  BY <1>1, <1>3
<1>6. \A s \in Slot : \A a \in Page :
        Tracks(s, a)' <=> Tracks(s, a) /\ a \notin gone
  <2>1. TAKE s \in Slot
  <2>2. TAKE a \in Page
  <2>3. CASE pages[s].exists /\ pages[s].vaddr \in gone
    BY <1>1, <1>3, <2>3 DEF Tracks
  <2>4. CASE ~(pages[s].exists /\ pages[s].vaddr \in gone)
    BY <1>1, <2>4 DEF Tracks
  <2>. QED BY <2>3, <2>4
<1>7. SwapExclusive'
  BY <1>5 DEF IInv, SwapInv, SwapExclusive, Back
<1>8. SlotInv'
  <2>1. \A s \in Slot : ~pages'[s].exists => pages'[s].vaddr = 0
    BY <1>1, <1>3 DEF IInv, SwapInv, SlotInv
  <2>2. \A s \in Slot : Tracks(s, 0)' => s = 0
    BY <1>5 DEF IInv, SwapInv, SlotInv, Tracks
  <2>3. ASSUME NEW a \in Page, NEW s \in Slot, NEW t \in Slot,
               First(s, a)', Tracks(t, a)', pages'[t].in_back, ~pte'[a].P
        PROVE  pages'[s].in_back
    <3>1. a \notin gone /\ Tracks(t, a) /\ Tracks(s, a)
      BY <1>6, <2>3 DEF First
    <3>2. First(s, a)
      BY <1>6, <2>3, <3>1 DEF First
    <3>3. pages'[s] = pages[s] /\ pages'[t] = pages[t] /\ pte'[a] = pte[a]
      BY <1>1, <3>1 DEF Tracks
    <3>. QED BY <2>3, <3>1, <3>2, <3>3 DEF IInv, SwapInv, SlotInv
  <2>. QED BY <2>1, <2>2, <2>3 DEF SlotInv
<1>. QED BY <1>4, <1>7, <1>8

LEMMA GrowFailInv == ASSUME IInv, GrowFail PROVE IInv'
<1>1. /\ Dealloc(end, sz) /\ pc' = "user" /\ cur' = 0 /\ end' = 0
      /\ UNCHANGED <<sz, base, offsets>>
  BY DEF GrowFail, Return
<1>2. /\ pte' \in [Page -> Entry] /\ pages' \in [Slot -> SlotRec]
      /\ SwapExclusive' /\ SlotInv'
  BY <1>1, DeallocInv
<1>3. LoopInv'
  BY <1>1 DEF LoopInv, InExec
<1>4. TableTypeOK'
  BY <1>1, <1>2, PagingAssumption DEF IInv, TableTypeOK
<1>. QED BY <1>2, <1>3, <1>4 DEF IInv, SwapInv

LEMMA ShrinkInv == ASSUME IInv, NEW n \in 1 .. MaxGrow, Shrink(n) PROVE IInv'
<1>1. /\ pc = "user" /\ sz - n >= base /\ Dealloc(sz, sz - n) /\ sz' = sz - n
      /\ UNCHANGED <<base, offsets, pc, cur, end>>
  BY DEF Shrink
<1>2. /\ pte' \in [Page -> Entry] /\ pages' \in [Slot -> SlotRec]
      /\ SwapExclusive' /\ SlotInv'
  BY <1>1, DeallocInv
<1>3. LoopInv'
  BY <1>1 DEF LoopInv, InExec
<1>4. sz' \in 1 .. NPages /\ base' <= sz'
  BY <1>1, PagingAssumption DEF IInv, TableTypeOK
<1>5. TableTypeOK'
  BY <1>1, <1>2, <1>4 DEF IInv, TableTypeOK
<1>. QED BY <1>2, <1>3, <1>5 DEF IInv, SwapInv

(* A step that changes page table entries, but not which pages are present.*)
LEMMA EntriesInv ==
  ASSUME IInv, UNCHANGED <<sz, base, pages, offsets, pc, cur, end>>,
         pte' \in [Page -> Entry], \A a \in Page : pte'[a].P = pte[a].P
  PROVE  IInv'
<1>1. TableTypeOK'
  BY DEF IInv, TableTypeOK
<1>2. SwapExclusive' /\ SlotInv' /\ LoopInv'
  BY DEF IInv, SwapInv, SwapExclusive, SlotInv, LoopInv, InExec, Back, Tracks, First
<1>. QED BY <1>1, <1>2 DEF IInv, SwapInv

LEMMA AccessInv ==
  ASSUME IInv, NEW a \in Page, pte' = [pte EXCEPT ![a] = Touched(@)],
         UNCHANGED <<sz, base, pages, offsets, pc, cur, end>>
  PROVE  IInv'
<1>1. pte' \in [Page -> Entry] /\ \A b \in Page : pte'[b].P = pte[b].P
  BY EntryFields DEF IInv, TableTypeOK
<1>. QED BY <1>1, EntriesInv

LEMMA PageFaultInv == ASSUME IInv, NEW a \in Page, PageFault(a) PROVE IInv'
<1>1. /\ pc = "user" /\ UNCHANGED <<sz, base, pte, pages, offsets, end>>
      /\ \/ pc' = "fault" /\ cur' = a /\ ~pte[a].P
         \/ pc' = "dead" /\ cur' = cur
  BY DEF PageFault, meta
<1>2. TableTypeOK'
  BY <1>1, PagingAssumption DEF IInv, TableTypeOK, Page
<1>3. SwapInv'
  BY <1>1 DEF IInv, SwapInv, SwapExclusive, SlotInv, LoopInv, InExec, Back, Tracks, First
<1>. QED BY <1>2, <1>3 DEF IInv

LEMMA GrowInv == ASSUME IInv, NEW n \in 1 .. MaxGrow, Grow(n) PROVE IInv'
<1>1. /\ pc = "user" /\ sz + n <= NPages /\ pc' = "grow" /\ cur' = sz /\ end' = sz + n
      /\ UNCHANGED <<sz, base, pte, pages, offsets>>
  BY DEF Grow, meta
<1>2. TableTypeOK'
  BY <1>1, PagingAssumption DEF IInv, TableTypeOK
<1>3. sz' <= cur' /\ cur' < end'
  BY <1>1, PagingAssumption DEF IInv, TableTypeOK
<1>4. SwapInv'
  BY <1>1, <1>3 DEF IInv, SwapInv, SwapExclusive, SlotInv, LoopInv, InExec, Back, Tracks, First
<1>. QED BY <1>2, <1>4 DEF IInv

(* The entries by themselves: no step sets PTE_P and PTE_PG together.      *)
Sound(e) == e \in Entry /\ ~(e.P /\ e.PG)

LEMMA SoundEntries ==
  /\ Sound(NoEntry) /\ Sound(Mapped) /\ Sound(Touched(Mapped))
  /\ Sound(ForkedEntry)
  /\ \A a, n : Sound(ImageEntry(a, n))
  /\ \A e : Sound(e) => Sound(Touched(e)) /\ Sound(Idle(e)) /\ Sound(OutEntry(e))
<1>1. Sound(NoEntry) /\ Sound(Mapped) /\ Sound(GuardEntry)
  BY DEF Sound, Entry, NoEntry, Mapped, GuardEntry
<1>2. Sound(ForkedEntry)
  BY DEF Sound, Entry, ForkedEntry
<1>3. \A a, n : Sound(ImageEntry(a, n))
  BY <1>1 DEF ImageEntry
<1>4. ASSUME NEW e, Sound(e) PROVE Sound(Touched(e)) /\ Sound(Idle(e)) /\ Sound(OutEntry(e))
  <2>1. Sound(Touched(e))
    BY <1>4 DEF Sound, Entry, Touched
  <2>2. Sound(Idle(e))
    BY <1>4 DEF Sound, Entry, Idle
  <2>3. Sound(OutEntry(e))
    BY <1>4 DEF Sound, Entry, OutEntry
  <2>. QED BY <2>1, <2>2, <2>3
<1>. QED BY <1>1, <1>2, <1>3, <1>4

LEMMA EntryInvSound ==
  /\ EntryInv => \A a \in Page : Sound(pte[a])
  /\ (pte' = [a \in Page |-> pte'[a]] /\ \A a \in Page : Sound(pte'[a])) => EntryInv'
BY DEF EntryInv, Sound

LEMMA PageOutEntry == ASSUME EntryInv, NEW next, PageOut(next) PROVE EntryInv'
<1>. DEFINE sel == select_page_to_back(pages, queue, Accessed)
            v == sel.victim
<1>1. \/ pte' = pte
      \/ pte' = [a \in Page |-> IF a = v THEN OutEntry(pte[a])
                                ELSE IF a \in sel.cleared THEN Idle(pte[a])
                                ELSE pte[a]]
  BY DEF PageOut, Panic
<1>. HIDE DEF v, sel
<1>2. CASE pte' = pte
  BY <1>2 DEF EntryInv
<1>3. CASE pte' # pte
  <2>1. \A a \in Page : Sound(pte'[a])
    BY <1>1, <1>3, EntryInvSound, SoundEntries
  <2>2. pte' = [a \in Page |-> pte'[a]]
    BY <1>1, <1>3
  <2>. QED BY <2>1, <2>2, EntryInvSound
<1>. QED BY <1>2, <1>3

LEMMA MapEntry ==
  ASSUME EntryInv, NEW a, NEW e \in {Mapped, Touched(Mapped)},
         pte' = [pte EXCEPT ![a] = e]
  PROVE  EntryInv'
<1>1. Sound(e)
  BY SoundEntries
<1>2. \A b \in Page : pte'[b] = e \/ pte'[b] = pte[b]
  BY DEF EntryInv
<1>3. \A b \in Page : Sound(pte'[b])
  BY <1>1, <1>2, EntryInvSound
<1>4. pte' = [b \in Page |-> pte'[b]]
  BY DEF EntryInv
<1>. QED BY <1>3, <1>4, EntryInvSound

LEMMA NextEntry == ASSUME EntryInv, [Next]_vars PROVE EntryInv'
<1>0. ASSUME pte' = pte PROVE EntryInv'
  BY <1>0 DEF EntryInv
<1>1. ASSUME NEW a \in Page, pte' = [pte EXCEPT ![a] = Touched(@)] PROVE EntryInv'
  <2>1. Sound(Touched(pte[a]))
    BY EntryInvSound, SoundEntries
  <2>2. \A b \in Page : pte'[b] = Touched(pte[a]) \/ pte'[b] = pte[b]
    BY <1>1 DEF EntryInv
  <2>3. \A b \in Page : Sound(pte'[b])
    BY <2>1, <2>2, EntryInvSound
  <2>4. pte' = [b \in Page |-> pte'[b]]
    BY <1>1 DEF EntryInv
  <2>. QED BY <2>3, <2>4, EntryInvSound
<1>2. CASE FaultPageOut \/ GrowPageOut \/ ExecPageOut
  BY <1>2, PageOutEntry DEF FaultPageOut, GrowPageOut, ExecPageOut
<1>3. CASE PageIn
  <2>1. \/ pte' = pte
        \/ pte' = [pte EXCEPT ![cur] = Mapped]
        \/ pte' = [pte EXCEPT ![cur] = Touched(Mapped)]
    BY <1>3 DEF PageIn, Panic
  <2>. QED BY <2>1, <1>0, MapEntry
<1>4. CASE GrowMap
  <2>1. pte' = pte \/ pte' = [pte EXCEPT ![cur] = Mapped]
    BY <1>4 DEF GrowMap, Panic
  <2>. QED BY <2>1, <1>0, MapEntry
<1>5. ASSUME NEW old, NEW new, Dealloc(old, new) PROVE EntryInv'
  <2>1. PICK gone : pte' = [a \in Page |-> IF a \in gone THEN NoEntry ELSE pte[a]]
    BY <1>5 DEF Dealloc
  <2>2. \A a \in Page : Sound(pte'[a])
    BY <2>1, EntryInvSound, SoundEntries
  <2>. QED BY <2>1, <2>2, EntryInvSound
<1>6. CASE Fork
  <2>1. \/ pte' = pte
        \/ \E n : pte' = [a \in Page |-> IF a < n /\ pte[a].PG THEN ForkedEntry ELSE pte[a]]
    BY <1>6 DEF Fork, Panic, copyuvm
  <2>2. \A a \in Page : Sound(pte'[a])
    BY <2>1, EntryInvSound, SoundEntries
  <2>3. pte' = [a \in Page |-> pte'[a]]
    BY <2>1 DEF EntryInv
  <2>. QED BY <2>2, <2>3, EntryInvSound
<1>7. CASE \E d \in Data : ExecCommit(d)
  <2>1. pte' = [a \in Page |-> ImageEntry(a, end)]
    BY <1>7 DEF ExecCommit
  <2>. QED BY <2>1, EntryInvSound, SoundEntries
<1>8. CASE Tick
  <2>1. PICK S : pte' = [a \in Page |-> IF a \in S THEN Idle(pte[a]) ELSE pte[a]]
    BY <1>8 DEF Tick
  <2>. QED BY <2>1, EntryInvSound, SoundEntries
<1>9. CASE \/ ExecMap \/ ExecBad \/ (\E n \in Images : Exec(n))
           \/ (\E n \in 1 .. MaxGrow : Grow(n)) \/ (\E a \in Page : PageFault(a))
           \/ UNCHANGED vars
  <2>1. pte' = pte
    BY <1>9 DEF ExecMap, Panic, ExecBad, Exec, Grow, PageFault, vars
  <2>. QED BY <1>0, <2>1
<1>10. CASE \/ \E a \in Page : Load(a) 
            \/ \E a \in StorePages, d \in Data : Store(a, d)
  <2>1. StorePages \subseteq Page
    BY PagingAssumption DEF Page
  <2>. QED BY <1>1, <1>10, <2>1 DEF Load, Store
<1>. QED BY <1>2, <1>3, <1>4, <1>5, <1>6, <1>7, <1>8, <1>9, <1>10
         DEF Next, Program, Kernel, Stopped, GrowFail, Shrink

LEMMA InitEntry == Init => EntryInv
<1>. SUFFICES ASSUME Init PROVE EntryInv
  OBVIOUS
<1>1. PICK n \in Images : pte = [a \in Page |-> ImageEntry(a, n)]
  BY DEF Init
<1>. QED BY <1>1, SoundEntries DEF EntryInv, Sound

(* fork rewrites entries of pages that are out, and so are not present.    *)
LEMMA ForkInv == ASSUME IInv, EntryInv, Fork PROVE IInv'
<1>0. CASE Panic
  BY <1>0, PanicInv
<1>1. CASE ~Panic
  <2>1. PICK n : pte' = [a \in Page |-> IF a < n /\ pte[a].PG THEN ForkedEntry ELSE pte[a]]
    BY <1>1 DEF Fork, copyuvm
  <2>2. \A a \in Page : pte'[a].P = pte[a].P
    <3>1. TAKE a \in Page
    <3>2. pte[a].P \in BOOLEAN /\ ~(pte[a].P /\ pte[a].PG)
      BY DEF EntryInv, Entry
    <3>. QED BY <2>1, <3>2 DEF ForkedEntry
  <2>3. pte' \in [Page -> Entry]
    BY <2>1 DEF EntryInv, Entry, ForkedEntry
  <2>4. UNCHANGED <<sz, base, pages, offsets, pc, cur, end>>
    BY <1>1 DEF Fork, meta
  <2>. QED BY <2>2, <2>3, <2>4, EntriesInv
<1>. QED BY <1>0, <1>1

(* The clock tick ages slots and clears accessed bits; it never moves a    *)
(* page.                                                                   *)
LEMMA TickInv == ASSUME IInv, Tick PROVE IInv'
<1>1. UNCHANGED <<sz, base, offsets, pc, cur, end>>
  BY DEF Tick
<1>2. PICK S : pte' = [a \in Page |-> IF a \in S THEN Idle(pte[a]) ELSE pte[a]]
  BY DEF Tick
<1>3. pte' \in [Page -> Entry] /\ \A a \in Page : pte'[a].P = pte[a].P
  BY <1>2, EntryFields DEF IInv, TableTypeOK
<1>4. \A s \in Slot : pages'[s] = AgedSlot(pages[s], pte[pages[s].vaddr].A) \/ pages'[s] = pages[s]
  BY DEF Tick
<1>5. pages' = [s \in Slot |-> pages'[s]]
  BY DEF Tick
<1>6. ASSUME NEW s \in Slot
      PROVE  /\ pages'[s] \in SlotRec /\ pages'[s].exists = pages[s].exists
             /\ pages'[s].vaddr = pages[s].vaddr /\ pages'[s].in_back = pages[s].in_back
             /\ pages'[s].offset = pages[s].offset
  <2>1. pages[s] \in SlotRec
    BY DEF IInv, TableTypeOK
  <2>2. pages[s].vaddr \in Page
    BY <2>1 DEF SlotRec
  <2>3. pte[pages[s].vaddr].A \in BOOLEAN
    BY <2>2 DEF IInv, TableTypeOK, Entry
  <2>. QED BY <1>4, <2>1, <2>3, AgedSlotFields
<1>7. TableTypeOK'
  BY <1>1, <1>3, <1>5, <1>6 DEF IInv, TableTypeOK
<1>8. SwapExclusive'
  BY <1>1, <1>6 DEF IInv, SwapInv, SwapExclusive, Back
<1>9. \A s \in Slot : \A a : Tracks(s, a)' <=> Tracks(s, a)
  BY <1>6 DEF Tracks
<1>10. SlotInv'
  <2>1. \A s \in Slot : ~pages'[s].exists => pages'[s].vaddr = 0
    BY <1>6 DEF IInv, SwapInv, SlotInv
  <2>2. \A s \in Slot : Tracks(s, 0)' => s = 0
    BY <1>9 DEF IInv, SwapInv, SlotInv
  <2>3. ASSUME NEW a \in Page, NEW s \in Slot, NEW t \in Slot,
               First(s, a)', Tracks(t, a)', pages'[t].in_back, ~pte'[a].P
        PROVE  pages'[s].in_back
    <3>1. First(s, a) /\ Tracks(t, a) /\ pages[t].in_back /\ ~pte[a].P
      BY <1>3, <1>6, <1>9, <2>3 DEF First
    <3>. QED BY <1>6, <3>1 DEF IInv, SwapInv, SlotInv
  <2>. QED BY <2>1, <2>2, <2>3 DEF SlotInv
<1>11. LoopInv'
  <2>1. InExec' => /\ \A s \in Slot : pages'[s].exists => pages'[s].vaddr < cur'
                   /\ \A a \in Page : \A s, t \in Slot : Tracks(s, a)' /\ Tracks(t, a)' => s = t
                   /\ 3 <= end'
    BY <1>1, <1>6, <1>9 DEF IInv, SwapInv, LoopInv, InExec
  <2>2. pc' \in {"fault", "pagein"} => cur' \in Page /\ ~pte'[cur'].P
    BY <1>1, <1>3 DEF IInv, SwapInv, LoopInv
  <2>3. /\ pc' \in {"grow", "growmap"} => sz' <= cur' /\ cur' < end'
        /\ pc' \in {"exec", "execmap"} => cur' < end'
        /\ pc' = "commit" => cur' = end'
    BY <1>1 DEF IInv, SwapInv, LoopInv
  <2>. HIDE DEF InExec, Tracks
  <2>. QED BY <2>1, <2>2, <2>3 DEF LoopInv
<1>. QED BY <1>7, <1>8, <1>10, <1>11 DEF IInv, SwapInv

LEMMA NextInv == ASSUME IInv, EntryInv, [Next]_vars PROVE IInv'
<1>1. CASE FaultPageOut \/ GrowPageOut \/ ExecPageOut
  BY <1>1, PageOutInv DEF FaultPageOut, GrowPageOut, ExecPageOut
<1>2. CASE PageIn
  BY <1>2, PageInInv
<1>3. CASE GrowMap
  BY <1>3, GrowMapInv
<1>4. CASE GrowFail
  BY <1>4, GrowFailInv
<1>5. CASE \E n \in 1 .. MaxGrow : Grow(n) \/ Shrink(n)
  BY <1>5, GrowInv, ShrinkInv
<1>6. CASE ExecMap \/ ExecBad \/ \E d \in Data : ExecCommit(d)
  BY <1>6, ExecMapInv, ExecBadInv, ExecCommitInv
<1>7. CASE \E n \in Images : Exec(n)
  BY <1>7, ExecInv
<1>8. CASE Fork
  BY <1>8, ForkInv
<1>9. CASE Tick
  BY <1>9, TickInv
<1>10. CASE \E a \in Page : PageFault(a)
  BY <1>10, PageFaultInv
<1>11. CASE \/ \E a \in Page : Load(a)
            \/ \E a \in StorePages, d \in Data : Store(a, d)
  <2>1. StorePages \subseteq Page
    BY PagingAssumption DEF Page
  <2>. QED BY <1>11, <2>1, AccessInv DEF Load, Store, meta
<1>12. CASE UNCHANGED vars
  BY <1>12, EntriesInv DEF vars, IInv, TableTypeOK
<1>. QED BY <1>1, <1>2, <1>3, <1>4, <1>5, <1>6, <1>7, <1>8, <1>9, <1>10, <1>11, <1>12
         DEF Next, Program, Kernel, Stopped

-----------------------------------------------------------------------------
(* No page is ever both mapped and marked paged out, whatever the policy,  *)
(* the sizes and the system calls: PTE_P and PTE_PG exclude each other.    *)
THEOREM EntriesSound == Spec => []EntryInv
BY InitEntry, NextEntry, PTL DEF Spec

(* The page table and struct p_meta keep their types, and swap offsets are *)
(* never shared, for every policy and every mix of sbrk, fork, exec,       *)
(* faults and ticks, failing kalloc and failing exec included.             *)
THEOREM SwapInvariant == Spec => []IInv
<1>1. IInv /\ EntryInv /\ [Next]_vars => IInv'
  BY NextInv
<1>. QED BY <1>1, InitInv, EntriesSound, PTL DEF Spec

(* The types of the page table, of the metadata and of the kernel's        *)
(* position hold throughout: no address, offset or slot leaves its range.  *)
THEOREM TablesTyped == Spec => []TableTypeOK
<1>1. IInv => TableTypeOK
  BY DEF IInv
<1>. QED BY <1>1, SwapInvariant, PTL

(* pageOut never overwrites a page that is in the swap file: every page    *)
(* there owns a taken offset that no other page's record names.            *)
THEOREM OffsetsExclusive == Spec => []SwapExclusive
<1>1. IInv => SwapExclusive
  BY DEF IInv, SwapInv
<1>. QED BY <1>1, SwapInvariant, PTL
=============================================================================
