------------------------------- MODULE Malloc ------------------------------
(***************************************************************************)
(* malloc and free of umalloc.c.  Addresses are counted in units of        *)
(* sizeof(Header); base, which is below the heap, has address 0.  The      *)
(* program may also call sbrk itself, so that the heap has gaps.           *)
(***************************************************************************)
EXTENDS Integers, FiniteSets, FiniteSetsExt

CONSTANTS
  HeaderSize,   \* sizeof(Header)
  MinCore,      \* the least morecore asks for (4096)
  HeapMax,      \* bound: units sbrk can give
  Requests      \* bytes the program asks malloc for

base == 0
Null == -1
Unit == 1 .. HeapMax

(* ptr and size of the headers, freep, the end of the heap, the blocks the *)
(* program has (their headers), and the units it took with sbrk.           *)
EmptyHeap ==
  [ptr |-> [a \in {base} \cup Unit |-> Null], size |-> [a \in {base} \cup Unit |-> 0],
   freep |-> Null, brk |-> 1, live |-> {}, own |-> {}]

(* Where free puts bp: the block before it in the circular list.           *)
Before(h, p, bp) ==
  LET q == h.ptr[p] IN (bp > p /\ bp < q) \/ (p >= q /\ (bp > p \/ bp < q))

RECURSIVE Place(_, _, _)
Place(h, p, bp) == IF Before(h, p, bp) THEN p ELSE Place(h, h.ptr[p], bp)

(* The block bp joined with the one above it, and p with the one above it. *)
Joined(h, bp, q) ==
  IF bp + h.size[bp] = q
  THEN [h EXCEPT !.size[bp] = @ + h.size[q], !.ptr[bp] = h.ptr[q]]
  ELSE [h EXCEPT !.ptr[bp] = q]

(* A faulty free that joins a block with the one above it only.            *)
LinkedAbove(h, p, bp) == [h EXCEPT !.ptr[p] = bp]
Linked(h, p, bp) ==
  IF p + h.size[p] = bp
  THEN [h EXCEPT !.size[p] = @ + h.size[bp], !.ptr[p] = h.ptr[bp]]
  ELSE [h EXCEPT !.ptr[p] = bp]

free(h, bp) ==
  LET p == Place(h, h.freep, bp) IN
  [Linked(Joined(h, bp, h.ptr[p]), p, bp) EXCEPT !.freep = p, !.live = @ \ {bp}]

(* morecore; freep = Null stands for its return value 0.                   *)
morecore(h, nu) ==
  LET n == Max({nu, MinCore}) IN
  IF h.brk + n > HeapMax + 1 THEN [h EXCEPT !.freep = Null]
  ELSE free([h EXCEPT !.size[h.brk] = n, !.brk = @ + n], h.brk)

nunits(nbytes) == (nbytes + HeaderSize - 1) \div HeaderSize + 1

(* The block p is taken whole, or its upper end is.                        *)
Taken(h, prevp, p, nu) ==
  IF h.size[p] = nu
  THEN [h EXCEPT !.ptr[prevp] = h.ptr[p], !.freep = prevp, !.live = @ \cup {p}]
  ELSE LET q == p + h.size[p] - nu IN
       [h EXCEPT !.size[p] = @ - nu, !.size[q] = nu, !.freep = prevp, !.live = @ \cup {q}]

(* The loop of malloc.  When there is no memory the heap stays as it is.   *)
RECURSIVE Search(_, _, _, _)
Search(h, prevp, p, nu) ==
  IF h.size[p] >= nu THEN Taken(h, prevp, p, nu)
  ELSE IF p # h.freep THEN Search(h, p, h.ptr[p], nu)
  ELSE LET g == morecore(h, nu) IN
       IF g.freep = Null THEN h ELSE Search(g, g.freep, g.ptr[g.freep], nu)

malloc(h, nbytes) ==
  LET g == IF h.freep = Null THEN [h EXCEPT !.ptr[base] = base, !.freep = base] ELSE h
  IN  Search(g, g.freep, g.ptr[g.freep], nunits(nbytes))

(* The program takes one unit for itself.                                  *)
sbrk(h) == [h EXCEPT !.brk = @ + 1, !.own = @ \cup {h.brk}]

(* What the program can do with heap h, as the set of heaps it can have.   *)
Steps(h) ==
  {malloc(h, n) : n \in Requests} \cup {free(h, bp) : bp \in h.live}
  \cup (IF h.brk <= HeapMax THEN {sbrk(h)} ELSE {})

-----------------------------------------------------------------------------
RECURSIVE FreeFrom(_, _, _)
FreeFrom(h, p, found) == IF p \in found THEN found ELSE FreeFrom(h, h.ptr[p], found \cup {p})
FreeBlocks(h) == IF h.freep = Null THEN {} ELSE FreeFrom(h, h.freep, {})
Units(h, a) == a .. a + h.size[a] - 1
=============================================================================
