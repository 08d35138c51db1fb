----------------------------- MODULE SMallocList ------------------------------
(***************************************************************************)
(* The linked lists of libs/src/libc/smalloc.c: heads, next pointers and   *)
(* headers as they lie in memory, stale words of dead headers included.    *)
(* delete and insert find their place by walking a list in descending      *)
(* address order; this module implements SMalloc, where a list is a set.   *)
(***************************************************************************)
EXTENDS Integers, FiniteSets

CONSTANTS PoolStart, PoolEnd, MemoryEnd, OVERHEAD, MINNODE, AlignSize, Sizes,
          MAXINT   (* bestfit's first best: no waste is larger *)

(* No header lies at NULL, and no block is larger than the first best.       *)
ASSUME ListAssumption ==
  /\ PoolStart \in Nat \ {0} /\ PoolEnd \in Nat /\ MemoryEnd \in Nat
  /\ OVERHEAD \in Nat \ {0}
  /\ MINNODE \in Nat
  /\ AlignSize \in Nat \ {0}
  /\ PoolStart + OVERHEAD <= PoolEnd
  /\ PoolEnd <= MemoryEnd
  /\ Sizes \subseteq Nat
  /\ MAXINT \in Nat /\ PoolEnd - PoolStart <= MAXINT

VARIABLES
  heap,   (* head and len of each list; next, rsize and usize of each header *)
  total, held

vars == <<heap, total, held>>

NULL == 0
Lists == {"AVAILABLE", "ALLOCATED"}
Addr == PoolStart .. PoolEnd - 1

ADDR(n) == n + OVERHEAD
AFTER(h, n) == ADDR(n) + h.rsize[n]
ADJACENT(h, n, m) == AFTER(h, n) = m
ALIGN(p) == LET q == p + AlignSize - 1 IN q - (q % AlignSize)

(* The i-th node met when following next from a node, NULL past the end. *)
Nth(h, n) ==
  LET nth[i \in 0 .. Cardinality(Addr)] ==
        IF i = 0 THEN n
        ELSE IF nth[i - 1] = NULL THEN NULL ELSE h.next[nth[i - 1]]
  IN nth

(* Nodes on list l. *)
Members(h, l) ==
  LET nth == Nth(h, h.head[l]) IN {nth[i] : i \in DOMAIN nth} \ {NULL}

(* Where the walk  while (c != NULL && ADDR(c) > ADDR(n))  stops: at c, with *)
(* p the node before it, or c itself when the walk did not move.             *)
Search(h, l, n) ==
  LET nth == Nth(h, h.head[l])
      stops == {i \in DOMAIN nth : nth[i] = NULL \/ nth[i] <= n}
      i == CHOOSE i \in stops : \A j \in stops : i <= j
  IN [c |-> nth[i], p |-> IF i = 0 THEN nth[0] ELSE nth[i - 1]]

(* Mutant: delete unlinks the node after p even when p is the first one. *)
DeleteNotHead(h, l, n) ==
  LET s == Search(h, l, n)
  IN [h EXCEPT !.len[l] = @ - 1, !.next[s.p] = h.next[s.c]]

Delete(h, l, n) ==
  LET s == Search(h, l, n)
      shorter == [h EXCEPT !.len[l] = @ - 1]
  IN IF s.c = s.p THEN [shorter EXCEPT !.head[l] = h.next[s.c]]
     ELSE [shorter EXCEPT !.next[s.p] = h.next[s.c]]

(* Node c, already on the free list, takes over the block of p after it. *)
TakeOver(h, c, p) ==
  LET unlinked == Delete(h, "AVAILABLE", p)
  IN [unlinked EXCEPT !.rsize[c] = @ + OVERHEAD + h.rsize[p]]

(* Mutant: every node is put in front. *)
LinkedFirst(h, l, n, s) ==
  [h EXCEPT !.len[l] = @ + 1, !.next[n] = h.head[l], !.head[l] = n]

(* Node n is put between p and c, or in front when the walk did not move. *)
Linked(h, l, n, s) ==
  LET longer == [h EXCEPT !.len[l] = @ + 1, !.next[n] = s.c]
  IN IF s.c = s.p THEN [longer EXCEPT !.head[l] = n]
     ELSE [longer EXCEPT !.next[s.p] = n]

Insert(h, l, n) ==
  LET s == Search(h, l, n)
      grown == [h EXCEPT !.rsize[s.c] = @ + OVERHEAD + h.rsize[n]]
      linked == Linked(h, l, n, s)
  IN IF l = "AVAILABLE" /\ s.c # NULL /\ ADJACENT(h, s.c, n)
     THEN IF ADJACENT(grown, s.c, s.p) THEN TakeOver(grown, s.c, s.p) ELSE grown
     ELSE IF l = "AVAILABLE" /\ s.c # s.p /\ ADJACENT(linked, n, s.p)
          THEN TakeOver(linked, n, s.p) ELSE linked

(* find(head, ptr) *)
Find(h, ptr) ==
  LET c == Search(h, "ALLOCATED", ptr - OVERHEAD).c
  IN IF c # NULL /\ ADDR(c) = ptr THEN c ELSE NULL

(* bestfit's scan: best waste and its node after the first i nodes. *)
BestFit(h, size) ==
  LET nth == Nth(h, h.head["AVAILABLE"])
      scan[i \in 0 .. Cardinality(Addr)] ==
        IF i = 0 THEN [best |-> MAXINT, b |-> NULL]
        ELSE LET c == nth[i - 1]
                 over == h.rsize[c] - size
             IN IF c # NULL /\ h.rsize[c] >= size
                   /\ (over < scan[i - 1].best \/ c = nth[0])
                THEN [best |-> over, b |-> c]
                ELSE scan[i - 1]
  IN scan[Cardinality(Addr)].b

(* The heap after bestfit returned node b for this size. *)
Allocated(h, b, size) ==
  LET taken == Delete(h, "AVAILABLE", b)
      cut == [taken EXCEPT !.rsize[b] = ALIGN(size)]
      n == AFTER(cut, b)
      leftover == h.rsize[b] - ALIGN(size) - OVERHEAD
      rest == IF h.rsize[b] >= ALIGN(size) + OVERHEAD + MINNODE
              THEN Insert([cut EXCEPT !.rsize[n] = leftover], "AVAILABLE", n)
              ELSE taken
  IN Insert([rest EXCEPT !.usize[b] = size], "ALLOCATED", b)

Freed(h, t) == Insert(Delete(h, "ALLOCATED", t), "AVAILABLE", t)

-------------------------------------------------------------------------------
Init ==
  /\ heap = [head |-> [l \in Lists |-> IF l = "AVAILABLE" THEN PoolStart ELSE NULL],
             len |-> [l \in Lists |-> IF l = "AVAILABLE" THEN 1 ELSE 0],
             next |-> [a \in Addr |-> NULL],
             rsize |-> [a \in Addr |-> IF a = PoolStart THEN PoolEnd - PoolStart - OVERHEAD
                                       ELSE 0],
             usize |-> [a \in Addr |-> 0]]
  /\ total = 0
  /\ held = {}

Malloc(size) ==
  LET b == BestFit(heap, size)
  IN /\ b # NULL
     /\ heap' = Allocated(heap, b, size)
     /\ total' = total + size
     /\ held' = held \cup {ADDR(b)}

MallocFails(size) == BestFit(heap, size) = NULL /\ UNCHANGED vars

(* The size is read from t's header after insert may have merged it away. *)
Free(ptr) ==
  LET t == Find(heap, ptr)
  IN /\ t # NULL
     /\ heap' = Freed(heap, t)
     /\ total' = total - heap'.usize[t]
     /\ held' = held \ {ptr}

FreeUnallocated(ptr) == (ptr = NULL \/ Find(heap, ptr) = NULL) /\ UNCHANGED vars

CopyTraps(ptr, size) == ptr + size > MemoryEnd

Realloc(ptr, size) ==
  LET b == BestFit(heap, size)
      got == Allocated(heap, b, size)
      t == Find(got, ptr)
  IN /\ ~CopyTraps(ptr, size)
     /\ b # NULL
     /\ heap' = Freed(got, t)
     /\ total' = total + size - heap'.usize[t]
     /\ held' = (held \cup {ADDR(b)}) \ {ptr}

ReallocTraps(ptr, size) ==
  LET b == BestFit(heap, size)
  IN /\ CopyTraps(ptr, size)
     /\ b # NULL
     /\ heap' = Allocated(heap, b, size)
     /\ total' = total + size
     /\ UNCHANGED held

Next ==
  \/ \E size \in Sizes : Malloc(size) \/ MallocFails(size)
  \/ \E ptr \in Addr \cup {NULL} : Free(ptr) \/ FreeUnallocated(ptr)
  \/ \E ptr \in held, size \in Sizes : Realloc(ptr, size) \/ ReallocTraps(ptr, size)

Spec == Init /\ [][Next]_vars

-------------------------------------------------------------------------------
(* Both lists are in strictly descending address order and end, so that the  *)
(* walks of delete, insert and find, which stop at the first node that is    *)
(* not above the one they look for, stop at the right one; each has the      *)
(* length that is counted for it.                                            *)
ListsSorted ==
  /\ \A l \in Lists : \A n \in Members(heap, l) :
       heap.next[n] # NULL => heap.next[n] < n
  /\ \A l \in Lists : heap.len[l] = Cardinality(Members(heap, l))

(* The linked lists implement the allocator on sets of nodes.                *)
Available == Members(heap, "AVAILABLE")
InUse == Members(heap, "ALLOCATED")
Sets == INSTANCE SMalloc WITH
  available <- Available, allocated <- InUse,
  rsize <- [a \in Addr |-> IF a \in Available \cup InUse THEN heap.rsize[a] ELSE 0],
  usize <- [a \in Addr |-> IF a \in InUse THEN heap.usize[a] ELSE 0],
  avail_len <- heap.len["AVAILABLE"], alloc_len <- heap.len["ALLOCATED"]

ImplementsSets == Sets!Spec
===============================================================================
