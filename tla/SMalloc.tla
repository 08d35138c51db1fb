------------------------------- MODULE SMalloc --------------------------------
(***************************************************************************)
(* The C heap of libs/src/libc/smalloc.c: best fit, splitting, coalescing, *)
(* the two lists and their counters, and the realloc built on them.        *)
(*                                                                         *)
(* Both lists are kept in descending address order by insert(), so a list  *)
(* is represented by the set of its nodes (a node is the address of its    *)
(* header); SMallocList has the linked lists and implements this module.   *)
(* rsize and usize are the header words in memory. A header that is not in *)
(* use any more is zero here; in memory it stays as it was, and only free  *)
(* still reads one (the size it takes off the total).                      *)
(***************************************************************************)
EXTENDS Integers, FiniteSets, FiniteSetsExt

CONSTANTS
  PoolStart,  (* memory_start, __edata rounded by the linker              *)
  PoolEnd,    (* memory_end: start of the C stack                         *)
  MemoryEnd,  (* bytes of CRunTime.memory: reading past it traps          *)
  OVERHEAD,   (* sizeof(node)                                             *)
  MINNODE,    (* smallest remainder worth splitting off                   *)
  AlignSize,  (* sizeof(align_t)                                          *)
  Sizes       (* request sizes callers use                                *)

ASSUME HeapAssumption ==
  /\ PoolStart \in Nat /\ PoolEnd \in Nat /\ MemoryEnd \in Nat
  /\ OVERHEAD \in Nat \ {0}
  /\ MINNODE \in Nat
  /\ AlignSize \in Nat \ {0}
  /\ PoolStart + OVERHEAD <= PoolEnd
  /\ PoolEnd <= MemoryEnd
  /\ Sizes \subseteq Nat

VARIABLES
  available,  (* nodes on the free list                                   *)
  allocated,  (* nodes on the allocated list                              *)
  rsize,      (* header word: real size of the block                      *)
  usize,      (* header word: size the caller asked for                   *)
  avail_len, alloc_len, total,
  held        (* pointers the program owns: returned to it, not yet freed  *)

vars == <<available, allocated, rsize, usize, avail_len, alloc_len, total, held>>

Addr == PoolStart .. PoolEnd - 1

(* Where the program's pointer to node n points. *)
ADDR(n) == n + OVERHEAD

(* First address after node n, whose real size is rs[n]. *)
AFTER(rs, n) == n + OVERHEAD + rs[n]

ADJACENT(rs, n, m) == AFTER(rs, n) = m

(* Mutant: rounds down. *)
ALIGNDown(p) == p - (p % AlignSize)

(* (p + A - 1) & ~(A - 1): p rounded up to the alignment. *)
ALIGN(p) == LET q == p + AlignSize - 1 IN q - (q % AlignSize)

-------------------------------------------------------------------------------
(* insert(AVAILABLE, n): the neighbour below absorbs n, and then the one     *)
(* above it; without a neighbour below n itself absorbs the one above.       *)
LowerNeighbours(h, n) == {c \in h.nodes : ADJACENT(h.rsize, c, n)}
UpperNeighbours(h, n) == {p \in h.nodes : ADJACENT(h.rsize, n, p)}

(* Node c takes over the block of node n that follows it. *)
Absorb(rs, c, n) == [rs EXCEPT ![c] = @ + OVERHEAD + rs[n], ![n] = 0]

(* Mutants: the upper neighbour is not looked at; it is absorbed, uncounted. *)
AbsorbNothing(h, c) == h

AbsorbUncounted(h, c) ==
  IF UpperNeighbours(h, c) = {} THEN h
  ELSE LET p == CHOOSE p \in UpperNeighbours(h, c) : TRUE
       IN [h EXCEPT !.nodes = @ \ {p}, !.rsize = Absorb(h.rsize, c, p)]

AbsorbUpper(h, c) ==
  IF UpperNeighbours(h, c) = {} THEN h
  ELSE LET p == CHOOSE p \in UpperNeighbours(h, c) : TRUE
       IN [nodes |-> h.nodes \ {p}, rsize |-> Absorb(h.rsize, c, p), len |-> h.len - 1]

InsertAvailable(h, n) ==
  IF LowerNeighbours(h, n) = {}
  THEN AbsorbUpper([nodes |-> h.nodes \cup {n}, rsize |-> h.rsize, len |-> h.len + 1], n)
  ELSE LET c == CHOOSE c \in LowerNeighbours(h, n) : TRUE
       IN AbsorbUpper([h EXCEPT !.rsize = Absorb(h.rsize, c, n)], c)

FreeList == [nodes |-> available, rsize |-> rsize, len |-> avail_len]

(* bestfit: the least waste; of equals the first on the list, the highest    *)
(* address. The comparison uses the size asked for, not the aligned size.    *)
BestFits(size) ==
  {b \in available :
     /\ rsize[b] >= size
     /\ \A m \in available :
          rsize[m] >= size => \/ rsize[b] < rsize[m]
                              \/ rsize[b] = rsize[m] /\ m <= b}

(* Mutant: the remainder's header is not paid for. *)
SplitWithoutHeader(rs, b, k) ==
  [rs EXCEPT ![b] = k, ![b + OVERHEAD + k] = rs[b] - k]

(* Block b is cut after k bytes; the rest becomes a block with a header.     *)
Split(rs, b, k) ==
  [rs EXCEPT ![b] = k, ![b + OVERHEAD + k] = rs[b] - k - OVERHEAD]

(* Mutant: the remainder is dropped. *)
TakenDroppingRest(h, b, size) ==
  [nodes |-> h.nodes \ {b}, len |-> h.len - 1,
   rsize |-> IF h.rsize[b] >= ALIGN(size) + OVERHEAD + MINNODE
             THEN [h.rsize EXCEPT ![b] = ALIGN(size)] ELSE h.rsize]

(* What bestfit(size) does with the node it settled on. *)
Taken(h, b, size) ==
  LET taken == h.nodes \ {b}
      cut == Split(h.rsize, b, ALIGN(size))
  IN IF h.rsize[b] >= ALIGN(size) + OVERHEAD + MINNODE
     THEN InsertAvailable([nodes |-> taken, rsize |-> cut, len |-> h.len - 1],
                          AFTER(cut, b))
     ELSE [nodes |-> taken, rsize |-> h.rsize, len |-> h.len - 1]

SetFreeList(h) == /\ available' = h.nodes
                  /\ rsize' = h.rsize
                  /\ avail_len' = h.len

-------------------------------------------------------------------------------
Init ==
  /\ available = {PoolStart}
  /\ allocated = {}
  /\ rsize = [a \in Addr |-> IF a = PoolStart THEN PoolEnd - PoolStart - OVERHEAD ELSE 0]
  /\ usize = [a \in Addr |-> 0]
  /\ avail_len = 1 /\ alloc_len = 0 /\ total = 0
  /\ held = {}

(* malloc(size): a node was found and its block is the caller's. *)
Malloc(size) ==
  \E b \in BestFits(size) :
    /\ SetFreeList(Taken(FreeList, b, size))
    /\ allocated' = allocated \cup {b}
    /\ usize' = [usize EXCEPT ![b] = size]
    /\ alloc_len' = alloc_len + 1
    /\ total' = total + size
    /\ held' = held \cup {ADDR(b)}

(* malloc(size) found no block large enough and returned NULL. *)
MallocFails(size) ==
  /\ \A m \in available : rsize[m] < size
  /\ UNCHANGED vars

(* free(ptr) of a block on the allocated list. The size subtracted from the  *)
(* total is read from the header after the block was coalesced away.         *)
Free(ptr) ==
  \E t \in allocated :
    /\ ADDR(t) = ptr
    /\ SetFreeList(InsertAvailable(FreeList, t))
    /\ allocated' = allocated \ {t}
    /\ alloc_len' = alloc_len - 1
    /\ total' = total - usize[t]
    /\ held' = held \ {ptr}
    /\ usize' = [usize EXCEPT ![t] = 0]

(* Mutants: the list is shortened before find() was asked; the lookup takes  *)
(* the nearest block below the pointer.                                      *)
FreeUnchecked(ptr) ==
  /\ \A t \in allocated : ADDR(t) # ptr
  /\ alloc_len' = alloc_len - 1
  /\ UNCHANGED <<available, allocated, rsize, usize, avail_len, total, held>>

FreeNearest(ptr) ==
  /\ \A t \in allocated : ADDR(t) # ptr
  /\ \E t \in allocated :
       /\ ADDR(t) < ptr
       /\ SetFreeList(InsertAvailable(FreeList, t))
       /\ allocated' = allocated \ {t}
       /\ alloc_len' = alloc_len - 1
       /\ total' = total - usize[t]
       /\ usize' = [usize EXCEPT ![t] = 0]
       /\ UNCHANGED held

(* free(ptr) of NULL, of a pointer freed before, or of any other address. *)
FreeUnallocated(ptr) ==
  /\ \A t \in allocated : ADDR(t) # ptr
  /\ UNCHANGED vars

(* realloc(ptr, size) copies size bytes starting at ptr, however small the   *)
(* old block is; reading past the end of memory raises the runtime's         *)
(* exception in the middle of realloc, with the new block allocated.         *)
CopyTraps(ptr, size) == ptr + size > MemoryEnd

(* Mutant: a realloc that never gives the old block back. *)
ReallocKeepsOld(ptr, size) ==
  /\ ptr \in held
  /\ ~CopyTraps(ptr, size)
  /\ \E b \in BestFits(size) :
       /\ SetFreeList(Taken(FreeList, b, size))
       /\ allocated' = allocated \cup {b}
       /\ usize' = [usize EXCEPT ![b] = size]
       /\ alloc_len' = alloc_len + 1
       /\ total' = total + size
       /\ held' = (held \cup {ADDR(b)}) \ {ptr}

(* realloc(ptr, size) with a block to move. *)
Realloc(ptr, size) ==
  /\ ptr \in held
  /\ ~CopyTraps(ptr, size)
  /\ \E b \in BestFits(size), t \in allocated :
       /\ ADDR(t) = ptr
       /\ LET got == Taken(FreeList, b, size)
          IN SetFreeList(InsertAvailable(got, t))
       /\ allocated' = (allocated \cup {b}) \ {t}
       /\ usize' = [usize EXCEPT ![b] = size, ![t] = 0]
       /\ UNCHANGED alloc_len
       /\ total' = total + size - usize[t]
       /\ held' = (held \cup {ADDR(b)}) \ {ptr}

ReallocTraps(ptr, size) ==
  /\ ptr \in held
  /\ CopyTraps(ptr, size)
  /\ \E b \in BestFits(size) :
       /\ SetFreeList(Taken(FreeList, b, size))
       /\ allocated' = allocated \cup {b}
       /\ usize' = [usize EXCEPT ![b] = size]
       /\ alloc_len' = alloc_len + 1
       /\ total' = total + size
       /\ UNCHANGED held

(* realloc returned NULL, which leaves the old block as it was; realloc(NULL,*)
(* size) is malloc(size).                                                    *)
ReallocFails(ptr, size) == ptr \in held /\ MallocFails(size)

Next ==
  \/ \E size \in Sizes : Malloc(size) \/ MallocFails(size)
  \/ \E ptr \in Addr \cup {0} : Free(ptr) \/ FreeUnallocated(ptr)
  \/ \E ptr \in held, size \in Sizes :
       Realloc(ptr, size) \/ ReallocTraps(ptr, size) \/ ReallocFails(ptr, size)

Spec == Init /\ [][Next]_vars

-------------------------------------------------------------------------------
(* Properties *)

Nodes == available \cup allocated

(* Every variable stays in its type; in particular the counters never go     *)
(* below zero, which the unsigned counters of the code could not show.       *)
TypeOK ==
  /\ available \subseteq Addr
  /\ allocated \subseteq Addr
  /\ rsize \in [Addr -> Nat]
  /\ usize \in [Addr -> Nat]
  /\ avail_len \in Nat /\ alloc_len \in Nat /\ total \in Int
  /\ held \subseteq Int

(* No node is on both lists, and no block reaches into the next one or out   *)
(* of the pool: splitting pays for the remainder's header and coalescing     *)
(* never adds a block that is in use.                                        *)
NoOverlap ==
  /\ available \cap allocated = {}
  /\ \A n \in Nodes : AFTER(rsize, n) <= PoolEnd
  /\ \A n, m \in Nodes : n < m => AFTER(rsize, n) <= m

(* No byte of the pool is lost: the first block starts the pool, and every   *)
(* block is followed by a block or ends the pool.                            *)
NoGap ==
  /\ PoolStart \in Nodes
  /\ \A n \in Nodes : AFTER(rsize, n) \in Nodes \cup {PoolEnd}

(* Free blocks are always merged: two of them never touch.                   *)
Coalesced == \A n, m \in available : ~ADJACENT(rsize, n, m)

(* A block is at least as large as the caller asked for, although bestfit    *)
(* compares the real size with the size before alignment.                    *)
RequestFits == \A n \in allocated : usize[n] <= rsize[n]

(* The list lengths and the byte total that smalloc keeps beside the lists   *)
(* agree with them, through every split, merge and realloc.                  *)
Accounting ==
  /\ avail_len = Cardinality(available)
  /\ alloc_len = Cardinality(allocated)
  /\ total = MapThenSumSet(LAMBDA n : usize[n], allocated)

(* A block that nobody holds stays allocated for good: only a realloc that   *)
(* trapped while it copied leaves one.                                       *)
Unreachable == {ADDR(n) : n \in allocated} \ held

NoLeak ==
  [][\/ Unreachable' \subseteq Unreachable
     \/ \E ptr \in held, size \in Sizes : ReallocTraps(ptr, size)]_vars

(* Whatever is still held, an owner never loses a block to a failed realloc: *)
(* what the program holds is always allocated.                               *)
HeldIsAllocated == held \subseteq {ADDR(n) : n \in allocated}

(* The heap is an implementation of what malloc, free and realloc promise.   *)
Contract == INSTANCE HeapContract
  WITH live <- [p \in {ADDR(n) : n \in allocated} |-> usize[p - OVERHEAD]]

ImplementsContract == Contract!Spec
===============================================================================
