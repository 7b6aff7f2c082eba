----------------------------- MODULE PageSelect -----------------------------
(***************************************************************************)
(* The pure part of the page replacement code of vm.c: the aging counters  *)
(* and the choice of the page to swap out, as functions of the metadata    *)
(* table, the page queue and the accessed bits.  The build compiles one of *)
(* the four policies in (SELECTION in the Makefile); here it is a constant.*)
(*                                                                         *)
(* A slot of struct p_meta.pages is a record with the fields of struct     *)
(* page, except that age stands for the counter the policy reads: age      *)
(* under NFUA, age2 under LAPA.  SCFIFO and AQ read neither counter, so    *)
(* theirs is left at its initial value.                                    *)
(***************************************************************************)
EXTENDS Integers, Sequences, FiniteSets, FiniteSetsExt

CONSTANTS
  MaxTotal,   \* MAX_TOTAL_PAGES, the number of slots of the table
  AgeBits,    \* width of an aging counter (32 in the code)
  Policy      \* SELECTION

ASSUME SelectAssumption ==
  /\ MaxTotal \in Nat \ {0}
  /\ AgeBits \in Nat \ {0}
  /\ Policy \in {"NFUA", "LAPA", "SCFIFO", "AQ"}

Slot == 0 .. MaxTotal - 1
MSB == 2 ^ (AgeBits - 1)
AllOnes == 2 ^ AgeBits - 1

(* The powers of two are numbers; the provers take them as opaque. *)
ASSUME AgeAssumption == MSB \in Nat /\ AllOnes \in Nat

(* The value add_new_page and page_in_meta give the counter.               *)
FreshAge == IF Policy = "LAPA" THEN AllOnes ELSE 0

(* Slots that numOfPagedIn counts.                                         *)
PagedIn(pages) == {s \in Slot : pages[s].exists /\ ~pages[s].in_back}
numOfPagedIn(pages) == Cardinality(PagedIn(pages))

-----------------------------------------------------------------------------
(* number | 1 *)
OrOne(number) == IF number % 2 = 0 THEN number + 1 ELSE number

(* One turn of the loop per bit; the body tests (number | 1) > 0.          *)
count_set_bits(number) ==
  Cardinality({i \in 0 .. AgeBits - 1 : OrOne(number \div 2 ^ i) > 0})

(* A faulty shift that loses the accessed bit into the low end.            *)
ShiftedLow(age, accessed) == (age \div 2) + (IF accessed THEN 1 ELSE 0)

(* age >> 1, with the most significant bit set if the page was accessed.   *)
Shifted(age, accessed) == (age \div 2) + (IF accessed THEN MSB ELSE 0)

-----------------------------------------------------------------------------
(* NFUA: the first slot of least age among the pages in memory.            *)
NFUASlot(pages) ==
  Min({s \in PagedIn(pages) :
         \A t \in PagedIn(pages) : pages[s].age <= pages[t].age})

(* LAPA: fewest set bits, ties by the smaller counter, then by position.   *)
LAPALess(x, y) ==
  \/ count_set_bits(x) < count_set_bits(y)
  \/ count_set_bits(x) = count_set_bits(y) /\ x < y

LAPASlot(pages) ==
  Min({s \in PagedIn(pages) :
         \A t \in PagedIn(pages) : ~LAPALess(pages[t].age, pages[s].age)})

(* A faulty SCFIFO that takes the head whether it was accessed or not.     *)
PlainFifo(queue, accessed) ==
  [victim |-> Head(queue), queue |-> Tail(queue), cleared |-> {}]

(* SCFIFO: pages are taken from the head; an accessed one loses its bit and*)
(* goes back to the tail, the first without the bit is the victim.  The    *)
(* page that was put back first has no bit left when it comes round again. *)
SecondChance(queue, accessed) ==
  LET turn[k \in 0 .. Len(queue)] ==
        IF k = 0 THEN [queue |-> queue, cleared |-> {}, found |-> FALSE]
        ELSE LET t == turn[k - 1]
                 a == Head(t.queue)
             IN  IF t.found \/ ~accessed[a] \/ a \in t.cleared
                 THEN [t EXCEPT !.found = TRUE]
                 ELSE [queue |-> Append(Tail(t.queue), a),
                       cleared |-> t.cleared \cup {a}, found |-> FALSE]
      last == turn[Len(queue)]
  IN  [victim |-> Head(last.queue), queue |-> Tail(last.queue), cleared |-> last.cleared]

(* select_page_to_back: the victim, the queue it leaves behind, and the    *)
(* pages whose accessed bit it clears on the way.  NFUA and LAPA dequeue   *)
(* the head of the queue whichever page they have chosen.                  *)
select_page_to_back(pages, queue, accessed) ==
  CASE Policy = "NFUA"   -> [victim |-> pages[NFUASlot(pages)].vaddr,
                             queue |-> Tail(queue), cleared |-> {}]
    [] Policy = "LAPA"   -> [victim |-> pages[LAPASlot(pages)].vaddr,
                             queue |-> Tail(queue), cleared |-> {}]
    [] Policy = "SCFIFO" -> SecondChance(queue, accessed)
    [] Policy = "AQ"     -> [victim |-> Head(queue),
                             queue |-> Tail(queue), cleared |-> {}]

(* The AQ loop of age_process_pages, from the last entry to the first: an  *)
(* accessed page changes places with its successor if that one was not     *)
(* accessed.  The successor of the last entry is the blank entry behind    *)
(* it, whose vaddr is 0.                                                   *)
SwitchAccessed(queue, accessed) ==
  LET n == Len(queue)
      pass[k \in 0 .. n] ==
        IF k = 0 THEN Append(queue, 0)
        ELSE LET pa == pass[k - 1]
                 j  == n - k + 1
             IN  IF accessed[pa[j]] /\ ~accessed[pa[j + 1]]
                 THEN [pa EXCEPT ![j] = pa[j + 1], ![j + 1] = pa[j]]
                 ELSE pa
  IN  SubSeq(pass[n], 1, n)
=============================================================================
