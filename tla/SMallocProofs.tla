---------------------------- MODULE SMallocProofs -----------------------------
(***************************************************************************)
(* The heap stays well formed for every pool, header size, alignment and   *)
(* set of request sizes, and implements HeapContract.                      *)
(***************************************************************************)
EXTENDS SMalloc, FiniteSetTheorems, WellFoundedInduction, TLAPS

(* The nodes of ns, with real sizes rs, are exactly the pool, cut in blocks. *)
Tiles(ns, rs) ==
  /\ ns \subseteq Addr
  /\ rs \in [Addr -> Nat]
  /\ PoolStart \in ns
  /\ \A n \in ns : AFTER(rs, n) \in ns \cup {PoolEnd}
  /\ \A n \in ns : AFTER(rs, n) <= PoolEnd
  /\ \A n, m \in ns : n < m => AFTER(rs, n) <= m

Merged(av, rs) == \A n, m \in av : ~ADJACENT(rs, n, m)

(* Joining a block with the one after it leaves the pool cut in blocks. *)
LEMMA AbsorbTiles ==
  ASSUME NEW ns, NEW rs, Tiles(ns, rs), NEW c \in ns, NEW p \in ns, ADJACENT(rs, c, p)
  PROVE  /\ Tiles(ns \ {p}, Absorb(rs, c, p))
         /\ c < p
         /\ AFTER(Absorb(rs, c, p), c) = AFTER(rs, p)
         /\ \A a \in Addr \ {c, p} : Absorb(rs, c, p)[a] = rs[a]
<1> USE HeapAssumption DEF HeapAssumption, Addr
<1>0. rs \in [Addr -> Nat]
  BY DEF Tiles
<1>1. c \in Addr /\ p \in Addr /\ c \in Int /\ p \in Int /\ rs[c] \in Nat /\ rs[p] \in Nat
  BY DEF Tiles
<1>2. p = c + OVERHEAD + rs[c]
  BY DEF ADJACENT, AFTER
<1>3. c < p
  BY <1>1, <1>2
<1> DEFINE qs == Absorb(rs, c, p)
<1>4. qs \in [Addr -> Nat] /\ qs[c] = rs[c] + OVERHEAD + rs[p]
      /\ \A a \in Addr \ {c, p} : qs[a] = rs[a]
  <2>1. qs = [rs EXCEPT ![c] = rs[c] + OVERHEAD + rs[p], ![p] = 0]
    BY DEF Absorb
  <2>2. c # p /\ rs[c] + OVERHEAD + rs[p] \in Nat
    BY <1>1, <1>3
  <2> QED BY <2>1, <2>2, <1>0, <1>1, SMTT(40)
<1> HIDE DEF qs
<1>5. AFTER(qs, c) = AFTER(rs, p)
  <2>1. AFTER(qs, c) = c + OVERHEAD + (rs[c] + OVERHEAD + rs[p])
    BY <1>4 DEF AFTER
  <2>2. AFTER(rs, p) = c + OVERHEAD + rs[c] + OVERHEAD + rs[p]
    BY <1>2 DEF AFTER
  <2> QED BY <2>1, <2>2, <1>1
<1>6. \A n \in ns \ {c, p} : AFTER(qs, n) = AFTER(rs, n)
  BY <1>4 DEF AFTER, Tiles
<1>7. \A n \in ns \ {c, p} : n < c \/ n > p
  BY <1>1, <1>2, <1>3, SMTT(40) DEF Tiles, AFTER
<1>8. \A n \in ns \ {p} : AFTER(qs, n) \in (ns \ {p}) \cup {PoolEnd}
  <2>1. AFTER(rs, p) # p
    BY <1>1 DEF AFTER
  <2>2. \A n \in ns \ {c, p} : AFTER(rs, n) # p
    <3> SUFFICES ASSUME NEW n \in ns \ {c, p}, AFTER(rs, n) = p PROVE FALSE
      OBVIOUS
    <3>1. CASE n < c
      BY <3>1, <1>1, <1>3 DEF Tiles
    <3>2. CASE n > p
      <4>1. n \in Addr /\ rs[n] \in Nat
        BY DEF Tiles
      <4> QED BY <3>2, <4>1, <1>1 DEF AFTER
    <3> QED BY <3>1, <3>2, <1>7
  <2> QED BY <2>1, <2>2, <1>5, <1>6 DEF Tiles
<1>9. \A n \in ns \ {p} : AFTER(qs, n) <= PoolEnd
  BY <1>5, <1>6 DEF Tiles
<1>10. \A n, m \in ns \ {p} : n < m => AFTER(qs, n) <= m
  <2> SUFFICES ASSUME NEW n \in ns \ {p}, NEW m \in ns \ {p}, n < m
               PROVE AFTER(qs, n) <= m
    OBVIOUS
  <2>1. CASE n = c
    <3>1. m > p
      BY <2>1, <1>1, <1>7 DEF Tiles
    <3> QED BY <3>1, <2>1, <1>5, <1>1 DEF Tiles
  <2>2. CASE n # c
    BY <2>2, <1>6 DEF Tiles
  <2> QED BY <2>1, <2>2
<1>11. PoolStart \in ns \ {p}
  BY <1>1, <1>3 DEF Tiles
<1> QED
  BY <1>3, <1>4, <1>5, <1>8, <1>9, <1>10, <1>11 DEF Tiles, qs

(* Cutting a block in two leaves the pool cut in blocks. *)
LEMMA SplitTiles ==
  ASSUME NEW ns, NEW rs, Tiles(ns, rs), NEW b \in ns, NEW k \in Nat, rs[b] >= k + OVERHEAD
  PROVE  LET qs == Split(rs, b, k)
             rest == AFTER(qs, b)
         IN /\ Tiles(ns \cup {rest}, qs)
            /\ rest \in Addr \ ns
            /\ qs[b] = k
            /\ \A a \in Addr \ {b, rest} : qs[a] = rs[a]
<1> USE HeapAssumption DEF HeapAssumption, Addr
<1> DEFINE rest == b + OVERHEAD + k
           left == rs[b] - k - OVERHEAD
           qs == [rs EXCEPT ![b] = k, ![rest] = left]
<1>0. rs \in [Addr -> Nat] /\ OVERHEAD \in Nat
  BY DEF Tiles
<1>1. b \in Addr /\ b \in Int /\ rs[b] \in Nat
  BY DEF Tiles
<1>11. left \in Nat /\ rs[b] = k + OVERHEAD + left
  BY <1>0, <1>1
<1> HIDE DEF left
<1>2. rest \in Addr /\ b < rest /\ rest < AFTER(rs, b)
  <2>1. AFTER(rs, b) <= PoolEnd
    BY DEF Tiles
  <2> QED BY <1>1, <1>11, <2>1 DEF AFTER
<1>3. rest \notin ns
  <2>1. AFTER(rs, b) \in Int
    BY <1>0, <1>1 DEF AFTER
  <2>2. rest \in ns => AFTER(rs, b) <= rest
    BY <1>2 DEF Tiles
  <2> QED BY <2>1, <2>2, <1>2
<1>4. qs \in [Addr -> Nat] /\ qs[b] = k /\ qs[rest] = left
      /\ \A a \in Addr \ {b, rest} : qs[a] = rs[a]
  BY <1>0, <1>1, <1>2, <1>11
<1> HIDE DEF qs
<1>5. AFTER(qs, b) = rest /\ AFTER(qs, rest) = AFTER(rs, b)
  BY <1>1, <1>2, <1>4, <1>11 DEF AFTER
<1>6. \A n \in ns \ {b} : AFTER(qs, n) = AFTER(rs, n)
  BY <1>3, <1>4 DEF AFTER, Tiles
<1>7. \A n \in ns \ {b} : n < b => AFTER(rs, n) <= b
  BY <1>1 DEF Tiles
<1>8. \A n \in ns \ {b} : n > b => n >= AFTER(rs, b)
  BY <1>1 DEF Tiles
<1> HIDE DEF rest
<1>9. \A n, m \in ns \cup {rest} : n < m => AFTER(qs, n) <= m
  <2> SUFFICES ASSUME NEW n \in ns \cup {rest}, NEW m \in ns \cup {rest}, n < m
               PROVE AFTER(qs, n) <= m
    OBVIOUS
  <2>0. n \in Addr /\ m \in Addr
    BY <1>2 DEF Tiles
  <2>1. CASE n = b
    <3>1. AFTER(rs, b) \in Int /\ rest \in Int /\ m \in Int
      BY <2>0, <1>0, <1>1, <1>2 DEF AFTER
    <3>2. m = rest \/ m >= AFTER(rs, b)
      BY <2>0, <2>1, <1>1, <1>8
    <3>3. rest <= m
      BY <3>1, <3>2, <1>2
    <3> QED BY <2>1, <3>3, <1>5
  <2>2. CASE n = rest
    <3>1. m > b /\ m \in ns \ {b}
      BY <2>0, <2>2, <1>1, <1>2
    <3>2. AFTER(qs, n) = AFTER(rs, b) /\ AFTER(rs, b) \in Int /\ m \in Int
      BY <2>0, <2>2, <1>0, <1>1, <1>5 DEF AFTER
    <3>3. m >= AFTER(rs, b)
      BY <3>1, <1>8
    <3> QED BY <3>2, <3>3
  <2>3. CASE n \in ns \ {b} /\ m = rest
    <3>1. n < b
      <4>1. AFTER(rs, b) \in Int /\ n # b /\ n < rest
        BY <1>0, <1>1, <2>3 DEF AFTER
      <4>2. ~(n > b)
        BY <4>1, <2>0, <2>3, <1>2, <1>8
      <4> QED BY <4>1, <4>2, <2>0, <1>1
    <3>2. AFTER(qs, n) <= b /\ AFTER(qs, n) \in Int
      BY <2>0, <2>3, <3>1, <1>6, <1>7 DEF Tiles, AFTER
    <3> QED BY <3>2, <2>3, <1>1, <1>2
  <2>4. CASE n \in ns \ {b} /\ m \in ns
    BY <2>4, <1>6 DEF Tiles
  <2> QED BY <2>1, <2>2, <2>3, <2>4
<1>10. Tiles(ns \cup {rest}, qs)
  <2>1. \A n \in ns \cup {rest} : AFTER(qs, n) \in ns \cup {rest, PoolEnd}
    BY <1>5, <1>6 DEF Tiles
  <2>2. \A n \in ns \cup {rest} : AFTER(qs, n) <= PoolEnd
    <3>1. AFTER(qs, b) <= PoolEnd
      BY <1>2, <1>5
    <3>2. \A n \in ns : AFTER(rs, n) <= PoolEnd
      BY DEF Tiles
    <3> QED BY <3>1, <3>2, <1>5, <1>6
  <2> QED BY <2>1, <2>2, <1>2, <1>4, <1>9 DEF Tiles
<1> QED
  <2>1. qs = Split(rs, b, k)
    BY DEF qs, rest, left, Split
  <2> QED BY <2>1, <1>2, <1>3, <1>4, <1>5, <1>10

-------------------------------------------------------------------------------
(* AbsorbUpper and InsertAvailable merge a freed node with its neighbours.   *)

(* What a free list and its length say of each other. *)
Counted(h) == IsFiniteSet(h.nodes) /\ h.len = Cardinality(h.nodes)

IsList(h) == h = [nodes |-> h.nodes, rsize |-> h.rsize, len |-> h.len]

(* g is h after node n was put in its place, among the other nodes used.     *)
Placed(g, h, used, n) ==
  /\ IsList(g)
  /\ Tiles(used \cup g.nodes, g.rsize)
  /\ g.nodes \subseteq h.nodes \cup {n}
  /\ Merged(g.nodes, g.rsize)
  /\ Counted(g)
  /\ \A a \in used : g.rsize[a] = h.rsize[a]

LEMMA AbsorbUpperPlaces ==
  ASSUME NEW h, IsList(h), NEW used, NEW c \in h.nodes, used \cap h.nodes = {},
         Tiles(used \cup h.nodes, h.rsize), Counted(h),
         \A n, m \in h.nodes : ADJACENT(h.rsize, n, m) => n = c
  PROVE  Placed(AbsorbUpper(h, c), h, used, c)
<1> DEFINE g == AbsorbUpper(h, c)
<1>1. CASE UpperNeighbours(h, c) = {}
  <2>1. g = h
    BY <1>1 DEF AbsorbUpper
  <2>2. Merged(h.nodes, h.rsize)
    BY <1>1 DEF Merged, UpperNeighbours
  <2> QED BY <2>1, <2>2 DEF Placed
<1>2. CASE UpperNeighbours(h, c) # {}
  <2>1. PICK p : p = (CHOOSE q \in UpperNeighbours(h, c) : TRUE)
    OBVIOUS
  <2>2. p \in h.nodes /\ ADJACENT(h.rsize, c, p)
    BY <1>2, <2>1 DEF UpperNeighbours
  <2>3. g = [nodes |-> h.nodes \ {p}, rsize |-> Absorb(h.rsize, c, p), len |-> h.len - 1]
    BY <1>2, <2>1 DEF AbsorbUpper
  <2> DEFINE qs == Absorb(h.rsize, c, p)
             ns == used \cup h.nodes
  <2>4. /\ Tiles(ns \ {p}, qs)
        /\ c < p
        /\ AFTER(qs, c) = AFTER(h.rsize, p)
        /\ \A a \in Addr \ {c, p} : qs[a] = h.rsize[a]
    <3>1. c \in ns /\ p \in ns
      BY <2>2
    <3> QED BY <3>1, <2>2, AbsorbTiles
  <2> HIDE DEF qs
  <2>5. used \cup (h.nodes \ {p}) = ns \ {p}
    BY <2>2
  <2>6. Merged(h.nodes \ {p}, qs)
    <3> SUFFICES ASSUME NEW n \in h.nodes \ {p}, NEW m \in h.nodes \ {p}, ADJACENT(qs, n, m)
                 PROVE FALSE
      BY DEF Merged
    <3>1. CASE n = c
      <4>1. ADJACENT(h.rsize, p, m)
        BY <3>1, <2>4 DEF ADJACENT
      <4>2. p = c
        BY <4>1, <2>2
      <4>3. c \in Int
        BY DEF Tiles, Addr
      <4> QED BY <4>2, <4>3, <2>4
    <3>2. CASE n # c
      <4>1. n \in Addr
        BY DEF Tiles
      <4>2. ADJACENT(h.rsize, n, m)
        BY <3>2, <4>1, <2>4 DEF ADJACENT, AFTER
      <4> QED BY <3>2, <4>2
    <3> QED BY <3>1, <3>2
  <2>7. Counted(g)
    <3>1. g.nodes = h.nodes \ {p} /\ g.len = h.len - 1
      BY <2>3
    <3>2. IsFiniteSet(h.nodes \ {p}) /\ Cardinality(h.nodes \ {p}) = Cardinality(h.nodes) - 1
      BY <2>2, FS_RemoveElement DEF Counted
    <3> HIDE DEF g
    <3> QED BY <3>1, <3>2 DEF Counted
  <2>8. \A a \in used : qs[a] = h.rsize[a]
    BY <2>2, <2>4 DEF Tiles
  <2>9. IsList(g)
    BY <2>3 DEF IsList
  <2> QED BY <2>2, <2>3, <2>4, <2>5, <2>6, <2>7, <2>8, <2>9 DEF Placed, qs
<1> QED BY <1>1, <1>2

LEMMA InsertPlaces ==
  ASSUME NEW h, IsList(h), NEW used, NEW n, n \notin used, n \notin h.nodes,
         used \cap h.nodes = {},
         Tiles(used \cup h.nodes \cup {n}, h.rsize), Counted(h),
         Merged(h.nodes, h.rsize)
  PROVE  Placed(InsertAvailable(h, n), h, used, n)
<1> DEFINE ns == used \cup h.nodes \cup {n}
<1>1. CASE LowerNeighbours(h, n) = {}
  <2> DEFINE k == [nodes |-> h.nodes \cup {n}, rsize |-> h.rsize, len |-> h.len + 1]
  <2>1. InsertAvailable(h, n) = AbsorbUpper(k, n)
    BY <1>1 DEF InsertAvailable
  <2>2. Counted(k)
    BY FS_AddElement DEF Counted
  <2>3. \A a, b \in k.nodes : ADJACENT(k.rsize, a, b) => a = n
    BY <1>1 DEF Merged, LowerNeighbours
  <2>4. used \cup k.nodes = ns /\ n \in k.nodes /\ used \cap k.nodes = {} /\ IsList(k)
    BY DEF IsList
  <2>5. k.rsize = h.rsize /\ k.nodes = h.nodes \cup {n}
    OBVIOUS
  <2> HIDE DEF k
  <2>6. Placed(AbsorbUpper(k, n), k, used, n)
    BY <2>2, <2>3, <2>4, <2>5, AbsorbUpperPlaces
  <2> QED BY <2>1, <2>5, <2>6 DEF Placed
<1>2. CASE LowerNeighbours(h, n) # {}
  <2>1. PICK c : c = (CHOOSE q \in LowerNeighbours(h, n) : TRUE)
    OBVIOUS
  <2>2. c \in h.nodes /\ ADJACENT(h.rsize, c, n)
    BY <1>2, <2>1 DEF LowerNeighbours
  <2> DEFINE k == [h EXCEPT !.rsize = Absorb(h.rsize, c, n)]
  <2>3. InsertAvailable(h, n) = AbsorbUpper(k, c)
    BY <1>2, <2>1 DEF InsertAvailable
  <2>4. k = [nodes |-> h.nodes, rsize |-> Absorb(h.rsize, c, n), len |-> h.len]
    BY DEF IsList
  <2>5. IsList(k) /\ k.nodes = h.nodes /\ Counted(k) /\ k.rsize = Absorb(h.rsize, c, n)
    BY <2>4 DEF IsList, Counted
  <2> HIDE DEF k
  <2>6. /\ Tiles(ns \ {n}, k.rsize)
        /\ c < n
        /\ \A a \in Addr \ {c, n} : k.rsize[a] = h.rsize[a]
    <3>1. c \in ns /\ n \in ns
      BY <2>2
    <3>2. Tiles(ns \ {n}, Absorb(h.rsize, c, n)) /\ c < n
          /\ \A a \in Addr \ {c, n} : Absorb(h.rsize, c, n)[a] = h.rsize[a]
      BY <3>1, <2>2, AbsorbTiles
    <3> QED BY <3>2, <2>5
  <2>7. ns \ {n} = used \cup k.nodes /\ ns \subseteq Addr
    BY <2>5 DEF Tiles
  <2>8. \A a, b \in k.nodes : ADJACENT(k.rsize, a, b) => a = c
    <3> SUFFICES ASSUME NEW a \in h.nodes, NEW b \in h.nodes,
                        ADJACENT(k.rsize, a, b), a # c
                 PROVE FALSE
      BY <2>5
    <3>1. a # n /\ a \in Addr
      BY <2>7
    <3>2. ADJACENT(h.rsize, a, b)
      BY <3>1, <2>6 DEF ADJACENT, AFTER
    <3> QED BY <3>2 DEF Merged
  <2>9. Placed(AbsorbUpper(k, c), k, used, c)
    BY <2>2, <2>5, <2>6, <2>7, <2>8, AbsorbUpperPlaces
  <2>10. \A a \in used : k.rsize[a] = h.rsize[a]
    BY <2>2, <2>6, <2>7, <2>5
  <2> QED BY <2>2, <2>3, <2>5, <2>9, <2>10 DEF Placed
<1> QED BY <1>1, <1>2

(* Rounding up to the alignment never goes below the size. *)
LEMMA AlignAbove == \A size \in Nat : ALIGN(size) \in Nat /\ size <= ALIGN(size)
<1> SUFFICES ASSUME NEW size \in Nat
             PROVE  ALIGN(size) \in Nat /\ size <= ALIGN(size)
  OBVIOUS
<1> USE HeapAssumption DEF HeapAssumption
<1> DEFINE q == size + AlignSize - 1
<1>1. q \in Nat
  OBVIOUS
<1>2. q % AlignSize \in 0 .. AlignSize - 1
  <2> HIDE DEF q
  <2> QED BY <1>1
<1> QED BY <1>1, <1>2 DEF ALIGN

(* g is h after b was taken off it for a request of that size. *)
Carved(g, h, used, b, size) ==
  /\ IsList(g)
  /\ Tiles(used \cup {b} \cup g.nodes, g.rsize)
  /\ g.nodes \cap (used \cup {b}) = {}
  /\ Merged(g.nodes, g.rsize)
  /\ Counted(g)
  /\ \A a \in used : g.rsize[a] = h.rsize[a]
  /\ size <= g.rsize[b]

(* What bestfit does with the node b it chose: b leaves the free list, its   *)
(* block holds the request, and the rest of it, if any, is back on the list. *)
LEMMA TakenPlaces ==
  ASSUME NEW h, IsList(h), NEW used, NEW b \in h.nodes, used \cap h.nodes = {},
         Tiles(used \cup h.nodes, h.rsize), Counted(h), Merged(h.nodes, h.rsize),
         NEW size \in Nat, size <= h.rsize[b]
  PROVE  Carved(Taken(h, b, size), h, used, b, size)
<1> USE HeapAssumption DEF HeapAssumption
<1> DEFINE g == Taken(h, b, size)
           taken == [nodes |-> h.nodes \ {b}, len |-> h.len - 1, rsize |-> h.rsize]
           k == ALIGN(size)
           qs == Split(h.rsize, b, k)
           rest == AFTER(qs, b)
           ns == used \cup h.nodes
<1>1. k \in Nat /\ size <= k
  BY AlignAbove
<1>2. h.rsize \in [Addr -> Nat] /\ b \in Addr /\ h.rsize[b] \in Nat /\ b \in Int
  BY DEF Tiles, Addr
<1>4. IsFiniteSet(h.nodes \ {b}) /\ Cardinality(h.nodes \ {b}) = h.len - 1
  BY FS_RemoveElement, ZenonT(60) DEF Counted
<1>5. CASE h.rsize[b] >= k + OVERHEAD + MINNODE
  <2> DEFINE t == [nodes |-> h.nodes \ {b}, len |-> h.len - 1, rsize |-> qs]
  <2>1. g = InsertAvailable(t, rest)
    BY <1>5 DEF Taken
  <2>4. /\ Tiles(ns \cup {rest}, qs)
        /\ rest \in Addr \ ns
        /\ qs[b] = k
        /\ \A a \in Addr \ {b, rest} : qs[a] = h.rsize[a]
    <3>1. b \in ns /\ Tiles(ns, h.rsize) /\ h.rsize[b] >= k + OVERHEAD
      BY <1>1, <1>2, <1>5
    <3> HIDE DEF k, ns
    <3> QED BY <1>1, <3>1, SplitTiles
  <2> HIDE DEF qs, rest, k
  <2>5. ns \subseteq Addr
    BY DEF Tiles
  <2>6. t.nodes = h.nodes \ {b} /\ t.rsize = qs /\ t.len = h.len - 1
    OBVIOUS
  <2>7. IsList(t) /\ Counted(t)
    BY <2>6, <1>4 DEF IsList, Counted
  <2> HIDE DEF t
  <2>8. Merged(t.nodes, t.rsize)
    <3> SUFFICES ASSUME NEW n \in h.nodes \ {b}, NEW m \in h.nodes \ {b}, ADJACENT(qs, n, m)
                 PROVE FALSE
      BY <2>6 DEF Merged
    <3>1. ADJACENT(h.rsize, n, m)
      BY <2>4, <2>5 DEF ADJACENT, AFTER
    <3> QED BY <3>1 DEF Merged
  <2>9. Placed(InsertAvailable(t, rest), t, used \cup {b}, rest)
    <3>1. (used \cup {b}) \cup t.nodes \cup {rest} = ns \cup {rest}
      BY <2>6
    <3>2. rest \notin used \cup {b} /\ rest \notin t.nodes /\ (used \cup {b}) \cap t.nodes = {}
      BY <2>4, <2>6
    <3>3. Tiles((used \cup {b}) \cup t.nodes \cup {rest}, t.rsize)
      BY <3>1, <2>4, <2>6
    <3> QED BY <3>2, <3>3, <2>7, <2>8, InsertPlaces
  <2>10. g.rsize[b] = k /\ \A a \in used : g.rsize[a] = h.rsize[a]
    <3>1. \A a \in used \cup {b} : g.rsize[a] = qs[a]
      BY <2>1, <2>6, <2>9 DEF Placed
    <3> QED BY <3>1, <2>4, <2>5
  <2>11. g.nodes \cap (used \cup {b}) = {}
    BY <2>1, <2>4, <2>6, <2>9 DEF Placed
  <2> HIDE DEF g
  <2> QED BY <1>1, <2>1, <2>9, <2>10, <2>11 DEF Placed, Carved, g
<1>6. CASE ~(h.rsize[b] >= k + OVERHEAD + MINNODE)
  <2>1. g = taken
    BY <1>6 DEF Taken
  <2>2. g.nodes = h.nodes \ {b} /\ g.rsize = h.rsize /\ g.len = h.len - 1 /\ IsList(g)
    BY <2>1 DEF IsList
  <2> HIDE DEF g
  <2>3. used \cup {b} \cup g.nodes = ns
    BY <2>2
  <2> QED BY <2>2, <2>3, <1>4 DEF Merged, Counted, Carved, g
<1> QED BY <1>5, <1>6

-------------------------------------------------------------------------------
(* The inductive invariant: NoOverlap, NoGap and Coalesced are inductive     *)
(* only together, since a merge is safe because blocks are adjacent and a    *)
(* split needs no merge because the block that was split had no free         *)
(* neighbour.                                                                *)
IInv ==
  /\ available \cap allocated = {}
  /\ Tiles(allocated \cup available, rsize)
  /\ Merged(available, rsize)
  /\ Counted(FreeList)
  /\ IsFiniteSet(allocated) /\ alloc_len = Cardinality(allocated)
  /\ usize \in [Addr -> Nat] /\ total \in Int
  /\ RequestFits
  /\ HeldIsAllocated

LEMMA FreeListIsList ==
  /\ IsList(FreeList) /\ FreeList.nodes = available
  /\ FreeList.rsize = rsize /\ FreeList.len = avail_len
BY DEF IsList, FreeList

LEMMA InitIInv == Init => IInv
<1> SUFFICES ASSUME Init PROVE IInv
  OBVIOUS
<1> USE HeapAssumption DEF HeapAssumption, Init
<1>1. PoolStart \in Addr /\ rsize \in [Addr -> Nat] /\ rsize[PoolStart] = PoolEnd - PoolStart - OVERHEAD
  BY DEF Addr
<1>2. AFTER(rsize, PoolStart) = PoolEnd
  BY <1>1 DEF AFTER
<1>3. Tiles(allocated \cup available, rsize)
  BY <1>1, <1>2 DEF Tiles
<1>4. Merged(available, rsize)
  BY <1>1, <1>2 DEF Merged, ADJACENT, Addr
<1>5. Counted(FreeList)
  <2>1. IsFiniteSet({PoolStart}) /\ Cardinality({PoolStart}) = 1
    BY FS_Singleton
  <2> QED BY <2>1, FreeListIsList DEF Counted
<1> QED
  BY <1>3, <1>4, <1>5, FS_EmptySet DEF IInv, RequestFits, HeldIsAllocated

(* bestfit took node b for a request that fits it: the part of the step that *)
(* malloc and a trapping realloc share.                                      *)
LEMMA TakeKeeps ==
  ASSUME IInv, NEW size \in Sizes, NEW b \in BestFits(size),
         SetFreeList(Taken(FreeList, b, size)),
         allocated' = allocated \cup {b},
         usize' = [usize EXCEPT ![b] = size],
         alloc_len' = alloc_len + 1, total' = total + size,
         held' \subseteq held \cup {ADDR(b)}
  PROVE  IInv'
<1> DEFINE h == FreeList
           g == Taken(h, b, size)
<1>1. b \in available /\ b \notin allocated /\ size \in Nat /\ size <= rsize[b] /\ b \in Addr
  BY HeapAssumption DEF HeapAssumption, BestFits, IInv, Tiles, Addr
<1>2. Carved(g, h, allocated, b, size) /\ h.rsize = rsize
  <2>1. /\ IsList(h) /\ b \in h.nodes /\ allocated \cap h.nodes = {}
        /\ Tiles(allocated \cup h.nodes, h.rsize) /\ Counted(h) /\ Merged(h.nodes, h.rsize)
        /\ size <= h.rsize[b] /\ h.rsize = rsize
    BY <1>1, FreeListIsList DEF IInv
  <2> HIDE DEF h
  <2> QED BY <1>1, <2>1, TakenPlaces
<1>3. available' = g.nodes /\ rsize' = g.rsize /\ avail_len' = g.len
  BY DEF SetFreeList
<1> HIDE DEF h, g
<1>4. Counted(FreeList)'
  BY <1>2, <1>3 DEF Carved, Counted, FreeList
<1>5. IsFiniteSet(allocated') /\ alloc_len' = Cardinality(allocated')
  BY <1>1, FS_AddElement DEF IInv
<1>6. RequestFits'
  <2> SUFFICES ASSUME NEW n \in allocated \cup {b} PROVE usize'[n] <= rsize'[n]
    BY DEF RequestFits
  <2>1. CASE n = b
    BY <2>1, <1>1, <1>2, <1>3 DEF Carved, IInv
  <2>2. CASE n # b
    <3>1. n \in Addr
      BY <1>1 DEF IInv, Tiles
    <3> QED BY <2>2, <3>1, <1>2, <1>3 DEF Carved, IInv, RequestFits
  <2> QED BY <2>1, <2>2
<1>7. HeldIsAllocated'
  BY DEF IInv, HeldIsAllocated, ADDR
<1>8. usize' \in [Addr -> Nat] /\ total' \in Int
  BY <1>1 DEF IInv
<1> QED
  BY <1>2, <1>3, <1>4, <1>5, <1>6, <1>7, <1>8 DEF Carved, IInv

(* free put the allocated node t back on the free list.                      *)
LEMMA FreeKeeps ==
  ASSUME IInv, NEW t \in allocated,
         SetFreeList(InsertAvailable(FreeList, t)),
         allocated' = allocated \ {t}, alloc_len' = alloc_len - 1,
         total' = total - usize[t], held' = held \ {ADDR(t)},
         usize' = [usize EXCEPT ![t] = 0]
  PROVE  IInv'
<1> DEFINE h == FreeList
           g == InsertAvailable(h, t)
           used == allocated \ {t}
<1>1. t \in Addr /\ t \notin available
  BY DEF IInv, Tiles
<1>2. Placed(g, h, used, t) /\ h.nodes = available /\ h.rsize = rsize
  <2>1. /\ IsList(h) /\ t \notin h.nodes /\ used \cap h.nodes = {} /\ t \notin used
        /\ Tiles(allocated \cup h.nodes, h.rsize) /\ Counted(h) /\ Merged(h.nodes, h.rsize)
    BY <1>1, FreeListIsList DEF IInv
  <2>2. used \cup h.nodes \cup {t} = allocated \cup h.nodes
    OBVIOUS
  <2> HIDE DEF h, used
  <2> QED BY <2>1, <2>2, InsertPlaces, FreeListIsList DEF h
<1>3. available' = g.nodes /\ rsize' = g.rsize /\ avail_len' = g.len
  BY DEF SetFreeList
<1> HIDE DEF h, g
<1>4. Counted(FreeList)'
  BY <1>2, <1>3 DEF Counted, FreeList, Placed
<1>5. IsFiniteSet(allocated') /\ alloc_len' = Cardinality(allocated')
  BY <1>1, FS_RemoveElement DEF IInv
<1>6. RequestFits'
  <2> SUFFICES ASSUME NEW n \in used PROVE usize'[n] <= rsize'[n]
    BY DEF RequestFits
  <2>1. n \in Addr
    BY DEF IInv, Tiles
  <2> QED BY <2>1, <1>1, <1>2, <1>3 DEF IInv, RequestFits, Placed
<1>7. HeldIsAllocated'
  BY DEF IInv, HeldIsAllocated, ADDR
<1>8. usize' \in [Addr -> Nat] /\ total' \in Int
  BY <1>1 DEF IInv
<1>9. available' \cap allocated' = {}
  BY <1>1, <1>2, <1>3 DEF Placed, IInv
<1> QED
  BY <1>2, <1>3, <1>4, <1>5, <1>6, <1>7, <1>8, <1>9 DEF IInv, Placed

(* realloc took a new block and then gave the old one back.                  *)
LEMMA ReallocKeeps ==
  ASSUME IInv, NEW ptr \in held, NEW size \in Sizes, Realloc(ptr, size)
  PROVE  IInv'
<1>1. PICK b \in BestFits(size), t \in allocated :
        /\ ADDR(t) = ptr
        /\ SetFreeList(InsertAvailable(Taken(FreeList, b, size), t))
        /\ allocated' = (allocated \cup {b}) \ {t}
        /\ usize' = [usize EXCEPT ![b] = size, ![t] = 0]
        /\ alloc_len' = alloc_len
        /\ total' = total + size - usize[t]
        /\ held' = (held \cup {ADDR(b)}) \ {ptr}
  BY DEF Realloc
<1> DEFINE h == FreeList
           k == Taken(h, b, size)
           g == InsertAvailable(k, t)
           used == (allocated \cup {b}) \ {t}
<1>2. /\ b \in available /\ b \notin allocated /\ b # t /\ t \notin available
      /\ size \in Nat /\ size <= rsize[b] /\ b \in Addr /\ t \in Addr
  BY HeapAssumption DEF HeapAssumption, BestFits, IInv, Tiles, Addr
<1>3. Carved(k, h, allocated, b, size) /\ h.rsize = rsize
  <2>1. /\ IsList(h) /\ b \in h.nodes /\ allocated \cap h.nodes = {}
        /\ Tiles(allocated \cup h.nodes, h.rsize) /\ Counted(h) /\ Merged(h.nodes, h.rsize)
        /\ size <= h.rsize[b] /\ h.rsize = rsize
    BY <1>2, FreeListIsList DEF IInv
  <2> HIDE DEF h
  <2> QED BY <1>2, <2>1, TakenPlaces
<1> HIDE DEF k
<1>4. Placed(g, k, used, t)
  <2>1. /\ t \notin k.nodes /\ used \cap k.nodes = {} /\ t \notin used
        /\ used \cup k.nodes \cup {t} = allocated \cup {b} \cup k.nodes
    BY <1>2, <1>3 DEF Carved
  <2> HIDE DEF used
  <2> QED BY <2>1, <1>3, InsertPlaces DEF Carved
<1>5. available' = g.nodes /\ rsize' = g.rsize /\ avail_len' = g.len /\ allocated' = used
  BY <1>1 DEF SetFreeList, k
<1> HIDE DEF g
<1>6. Counted(FreeList)'
  BY <1>4, <1>5 DEF Counted, FreeList, Placed
<1>7. IsFiniteSet(used) /\ alloc_len' = Cardinality(used)
  <2>1. IsFiniteSet(allocated \cup {b}) /\ Cardinality(allocated \cup {b}) = alloc_len + 1
    BY <1>2, FS_AddElement DEF IInv
  <2>2. IsFiniteSet(used) /\ Cardinality(used) = (alloc_len + 1) - 1
    BY <2>1, FS_RemoveElement
  <2>3. alloc_len \in Nat
    BY FS_CardinalityType DEF IInv
  <2> QED BY <2>2, <2>3, <1>1
<1>8. RequestFits'
  <2> SUFFICES ASSUME NEW n \in used PROVE usize'[n] <= rsize'[n]
    BY <1>5 DEF RequestFits
  <2>1. n \in Addr /\ n # t /\ rsize'[n] = k.rsize[n]
    BY <1>2, <1>4, <1>5 DEF IInv, Tiles, Placed
  <2>2. CASE n = b
    BY <2>1, <2>2, <1>1, <1>2, <1>3 DEF Carved, IInv
  <2>3. CASE n # b
    BY <2>1, <2>3, <1>1, <1>2, <1>3 DEF Carved, IInv, RequestFits
  <2> QED BY <2>2, <2>3
<1>9. HeldIsAllocated'
  BY <1>1, <1>2 DEF IInv, HeldIsAllocated, ADDR
<1>10. usize' \in [Addr -> Nat] /\ total' \in Int
  BY <1>1, <1>2 DEF IInv
<1>11. available' \cap allocated' = {}
  BY <1>2, <1>3, <1>4, <1>5 DEF Carved, Placed
<1> HIDE DEF used
<1> QED
  BY <1>4, <1>5, <1>6, <1>7, <1>8, <1>9, <1>10, <1>11 DEF IInv, Placed

LEMMA NextIInv == IInv /\ [Next]_vars => IInv'
<1> SUFFICES ASSUME IInv, [Next]_vars PROVE IInv'
  OBVIOUS
<1> USE HeapAssumption
<1>1. ASSUME NEW size \in Sizes, Malloc(size) PROVE IInv'
  BY <1>1, TakeKeeps DEF Malloc
<1>2. ASSUME NEW ptr, Free(ptr) PROVE IInv'
  BY <1>2, FreeKeeps DEF Free
<1>3. ASSUME NEW ptr \in held, NEW size \in Sizes, Realloc(ptr, size) PROVE IInv'
  BY <1>3, ReallocKeeps
<1>4. ASSUME NEW ptr \in held, NEW size \in Sizes, ReallocTraps(ptr, size) PROVE IInv'
  BY <1>4, TakeKeeps DEF ReallocTraps
<1>5. CASE UNCHANGED vars
  BY <1>5 DEF vars, IInv, FreeList, Counted, RequestFits, HeldIsAllocated
<1> QED
  BY <1>1, <1>2, <1>3, <1>4, <1>5 DEF Next, MallocFails, FreeUnallocated, ReallocFails

LEMMA SpecIInv == Spec => []IInv
BY InitIInv, NextIInv, PTL DEF Spec

(* Every variable of the allocator keeps its type.                           *)
THEOREM TypeCorrect == Spec => []TypeOK
<1>1. IInv => TypeOK
  <2> SUFFICES ASSUME IInv PROVE TypeOK
    OBVIOUS
  <2>1. available \subseteq Addr /\ allocated \subseteq Addr /\ rsize \in [Addr -> Nat]
    BY DEF IInv, Tiles
  <2>2. avail_len \in Nat /\ alloc_len \in Nat
    BY FreeListIsList, FS_CardinalityType DEF IInv, Counted
  <2>3. held \subseteq Int
    BY <2>1, HeapAssumption DEF HeapAssumption, IInv, HeldIsAllocated, ADDR, Addr
  <2> QED BY <2>1, <2>2, <2>3 DEF IInv, TypeOK
<1> QED BY <1>1, SpecIInv, PTL

(* No two blocks of the heap overlap, and none leaves the pool.              *)
THEOREM BlocksDisjoint == Spec => []NoOverlap
<1>1. IInv => NoOverlap
  BY DEF IInv, NoOverlap, Tiles, Nodes
<1> QED BY <1>1, SpecIInv, PTL

(* The blocks cover the pool: no byte is lost between them.                  *)
THEOREM BlocksCoverPool == Spec => []NoGap
<1>1. IInv => NoGap
  BY DEF IInv, NoGap, Tiles, Nodes
<1> QED BY <1>1, SpecIInv, PTL

(* Free blocks never touch: the free list is as merged as it can be.         *)
THEOREM FreeBlocksMerged == Spec => []Coalesced
<1>1. IInv => Coalesced
  BY DEF IInv, Coalesced, Merged
<1> QED BY <1>1, SpecIInv, PTL

(* Every block that was handed out holds the size that was asked for.        *)
THEOREM RequestsFit == Spec => []RequestFits
<1>1. IInv => RequestFits
  BY DEF IInv
<1> QED BY <1>1, SpecIInv, PTL

(* A pointer the program holds is an allocated block, also after a realloc   *)
(* that trapped half way.                                                    *)
THEOREM HeldBlocksAllocated == Spec => []HeldIsAllocated
<1>1. IInv => HeldIsAllocated
  BY DEF IInv
<1> QED BY <1>1, SpecIInv, PTL

-------------------------------------------------------------------------------
(* Every step of the allocator is a step of HeapContract or changes nothing  *)
(* its callers can see.                                                      *)
Live == [p \in {ADDR(n) : n \in allocated} |-> usize[p - OVERHEAD]]

LEMMA LiveAt ==
  ASSUME allocated \subseteq Addr
  PROVE  /\ DOMAIN Live = {ADDR(n) : n \in allocated}
         /\ \A n \in allocated : Live[ADDR(n)] = usize[n]
<1>1. \A n \in allocated : ADDR(n) - OVERHEAD = n
  BY HeapAssumption DEF HeapAssumption, Addr, ADDR
<1> QED BY <1>1 DEF Live

(* A node that joins the allocated list found a free range of the pool.      *)
LEMMA NewRangeIsFree ==
  ASSUME IInv, NEW b, b \notin allocated, NEW s \in Nat,
         NEW ns, NEW rs, Tiles(ns, rs), b \in ns, allocated \subseteq ns, s <= rs[b],
         \A n \in allocated : rs[n] = rsize[n]
  PROVE  /\ ADDR(b) \in PoolStart .. PoolEnd
         /\ ADDR(b) \notin DOMAIN Live
         /\ Contract!FreeRange(ADDR(b), s)
<1> USE HeapAssumption DEF HeapAssumption
<1>1. allocated \subseteq Addr /\ b \in Addr /\ rs[b] \in Nat /\ ns \subseteq Addr
  BY DEF IInv, Tiles
<1>2. ADDR(b) + rs[b] <= PoolEnd
  BY DEF Tiles, AFTER, ADDR
<1>3. PoolStart <= ADDR(b) /\ ADDR(b) + s <= PoolEnd /\ ADDR(b) \in PoolStart .. PoolEnd
  BY <1>1, <1>2 DEF Addr, ADDR
<1>4. ASSUME NEW n \in allocated
      PROVE  ADDR(n) # ADDR(b) /\ (ADDR(n) + usize[n] <= ADDR(b) \/ ADDR(b) + s <= ADDR(n))
  <2>1. n \in Addr /\ n \in ns /\ n # b /\ rsize[n] \in Nat /\ usize[n] \in Nat
        /\ usize[n] <= rsize[n] /\ rs[n] = rsize[n]
    BY <1>1 DEF IInv, RequestFits, Tiles
  <2>2. CASE n < b
    <3>1. n + OVERHEAD + rsize[n] <= b
      BY <2>1, <2>2 DEF Tiles, AFTER
    <3> QED BY <3>1, <2>1, <2>2, <1>1 DEF ADDR, Addr
  <2>3. CASE b < n
    <3>1. b + OVERHEAD + rs[b] <= n
      BY <2>1, <2>3 DEF Tiles, AFTER
    <3> QED BY <3>1, <2>1, <2>3, <1>1 DEF ADDR, Addr
  <2> QED BY <2>1, <2>2, <2>3, <1>1 DEF Addr
<1>5. \A q \in DOMAIN Live : q + Live[q] <= ADDR(b) \/ ADDR(b) + s <= q
  BY <1>1, <1>4, LiveAt
<1> QED
  BY <1>1, <1>3, <1>4, <1>5, LiveAt DEF Contract!FreeRange, Live

LEMMA StepImplements == IInv /\ IInv' /\ [Next]_vars => [Contract!Next]_Live
<1> SUFFICES ASSUME IInv, IInv', [Next]_vars PROVE [Contract!Next]_Live
  OBVIOUS
<1> USE HeapAssumption DEF HeapAssumption
<1>1. /\ allocated \subseteq Addr /\ allocated' \subseteq Addr
      /\ \A n, m \in Addr : ADDR(n) = ADDR(m) => n = m
  BY SMTT(40) DEF IInv, Tiles, Addr, ADDR
<1>2. ASSUME NEW size \in Sizes, NEW b \in BestFits(size),
             SetFreeList(Taken(FreeList, b, size)), allocated' = allocated \cup {b},
             usize' = [usize EXCEPT ![b] = size]
      PROVE  Contract!Allocate(size)
  <2>0. b \in available /\ b \in Addr /\ b \notin allocated /\ size \in Nat /\ size <= rsize[b]
        /\ usize \in [Addr -> Nat]
    BY <1>2 DEF BestFits, IInv, Tiles, Addr
  <2>1. /\ ADDR(b) \in PoolStart .. PoolEnd
        /\ ADDR(b) \notin DOMAIN Live
        /\ Contract!FreeRange(ADDR(b), size)
    BY <2>0, NewRangeIsFree DEF IInv
  <2>2. Live' = Contract!Extend(Live, ADDR(b), size)
    <3>1. DOMAIN Live = {ADDR(n) : n \in allocated} /\ \A n \in allocated : Live[ADDR(n)] = usize[n]
      BY <1>1, LiveAt
    <3>2. {ADDR(n) : n \in allocated'} = DOMAIN Live \cup {ADDR(b)}
      BY <3>1, <1>2
    <3>3. \A q \in DOMAIN Live \cup {ADDR(b)} :
             usize'[q - OVERHEAD] = IF q = ADDR(b) THEN size ELSE Live[q]
      <4> SUFFICES ASSUME NEW n \in allocated \cup {b}
                   PROVE usize'[ADDR(n) - OVERHEAD]
                         = IF ADDR(n) = ADDR(b) THEN size ELSE Live[ADDR(n)]
        BY <3>1
      <4>1. ADDR(n) - OVERHEAD = n /\ n \in Addr
        BY <1>1, <2>0 DEF ADDR, Addr
      <4>2. CASE n = b
        BY <4>1, <4>2, <1>2, <2>0
      <4>3. CASE n # b
        <5>1. ADDR(n) # ADDR(b) /\ usize'[n] = usize[n]
          BY <4>1, <4>3, <1>1, <1>2, <2>0
        <5> QED BY <5>1, <4>1, <4>3, <3>1
      <4> QED BY <4>2, <4>3
    <3> QED BY <3>2, <3>3 DEF Live, Contract!Extend
  <2> QED BY <2>1, <2>2 DEF Contract!Allocate, Live
<1>3. ASSUME NEW size \in Sizes, Malloc(size) PROVE Contract!Next
  BY <1>2, <1>3 DEF Malloc, Contract!Next
<1>4. ASSUME NEW ptr \in held, NEW size \in Sizes, ReallocTraps(ptr, size) PROVE Contract!Next
  BY <1>2, <1>4 DEF ReallocTraps, Contract!Next
<1>5. ASSUME NEW ptr, Free(ptr) PROVE Contract!Next
  <2>1. PICK t \in allocated : /\ ADDR(t) = ptr /\ allocated' = allocated \ {t}
                               /\ usize' = [usize EXCEPT ![t] = 0]
    BY <1>5 DEF Free
  <2>2. DOMAIN Live = {ADDR(n) : n \in allocated} /\ \A n \in allocated : Live[ADDR(n)] = usize[n]
    BY <1>1, LiveAt
  <2>3. {ADDR(n) : n \in allocated'} = DOMAIN Live \ {ptr}
    BY <2>1, <2>2, <1>1
  <2>4. \A q \in DOMAIN Live \ {ptr} : usize'[q - OVERHEAD] = Live[q]
    <3> SUFFICES ASSUME NEW n \in allocated, ADDR(n) # ptr
                 PROVE usize'[ADDR(n) - OVERHEAD] = Live[ADDR(n)]
      BY <2>2
    <3>1. ADDR(n) - OVERHEAD = n /\ n \in Addr /\ n # t
      BY <1>1, <2>1 DEF ADDR, Addr
    <3> QED BY <3>1, <2>1, <2>2 DEF IInv
  <2>5. Live' = Contract!Remove(Live, ptr)
    BY <2>3, <2>4 DEF Live, Contract!Remove
  <2> QED BY <2>1, <2>2, <2>5 DEF Contract!Release, Contract!Next, Live
<1>6. ASSUME NEW ptr \in held, NEW size \in Sizes, Realloc(ptr, size) PROVE Contract!Next
  <2>1. PICK b \in BestFits(size), t \in allocated :
          /\ ADDR(t) = ptr
          /\ allocated' = (allocated \cup {b}) \ {t}
          /\ usize' = [usize EXCEPT ![b] = size, ![t] = 0]
    BY <1>6 DEF Realloc
  <2>2. b \in available /\ b \in Addr /\ b \notin allocated /\ size \in Nat /\ size <= rsize[b]
        /\ usize \in [Addr -> Nat] /\ t \in Addr /\ b # t
    BY <1>6, <1>1 DEF BestFits, IInv, Tiles, Addr
  <2>3. /\ ADDR(b) \in PoolStart .. PoolEnd
        /\ ADDR(b) \notin DOMAIN Live
        /\ Contract!FreeRange(ADDR(b), size)
    BY <2>2, NewRangeIsFree DEF IInv
  <2>4. DOMAIN Live = {ADDR(n) : n \in allocated} /\ \A n \in allocated : Live[ADDR(n)] = usize[n]
    BY <1>1, LiveAt
  <2>5. {ADDR(n) : n \in allocated'} = (DOMAIN Live \cup {ADDR(b)}) \ {ptr}
    BY <2>1, <2>2, <2>4, <1>1
  <2>6. \A q \in (DOMAIN Live \cup {ADDR(b)}) \ {ptr} :
           usize'[q - OVERHEAD] = IF q = ADDR(b) THEN size ELSE Live[q]
    <3> SUFFICES ASSUME NEW n \in allocated \cup {b}, ADDR(n) # ptr
                 PROVE usize'[ADDR(n) - OVERHEAD]
                       = IF ADDR(n) = ADDR(b) THEN size ELSE Live[ADDR(n)]
      BY <2>4
    <3>1. ADDR(n) - OVERHEAD = n /\ n \in Addr /\ n # t
      BY <1>1, <2>1, <2>2, SMTT(40) DEF ADDR, Addr
    <3>2. CASE n = b
      BY <3>1, <3>2, <2>1, <2>2
    <3>3. CASE n # b
      <4>1. ADDR(n) # ADDR(b) /\ usize'[n] = usize[n]
        BY <3>1, <3>3, <1>1, <2>1, <2>2
      <4> QED BY <4>1, <3>1, <3>3, <2>4
    <3> QED BY <3>2, <3>3
  <2>7. Live' = Contract!Remove(Contract!Extend(Live, ADDR(b), size), ptr)
    BY <2>5, <2>6 DEF Live, Contract!Remove, Contract!Extend
  <2>8. ptr \in DOMAIN Live
    BY <2>1, <2>4
  <2>9. Contract!Move(ptr, size)
    BY <2>3, <2>7, <2>8 DEF Contract!Move, Live
  <2> QED BY <2>8, <2>9 DEF Contract!Next, Live
<1>7. CASE UNCHANGED vars
  BY <1>7 DEF vars, Live, ADDR
<1> QED
  BY <1>3, <1>4, <1>5, <1>6, <1>7 DEF Next, MallocFails, FreeUnallocated, ReallocFails

(* The allocator implements the abstract heap for every pool and request mix. *)
THEOREM HeapImplementsContract == Spec => ImplementsContract
<1>1. Init => Contract!Init
  BY DEF Init, Contract!Init
<1>2. IInv /\ IInv' /\ [Next]_vars => [Contract!Next]_Live
  BY StepImplements
<1> QED BY <1>1, <1>2, SpecIInv, PTL DEF Spec, ImplementsContract, Contract!Spec, Live

-------------------------------------------------------------------------------
(* A set of naturals that is not empty has a least element.                 *)
LEMMA LeastOf ==
  ASSUME NEW S \in SUBSET Nat, S # {}
  PROVE  \E i \in S : \A j \in S : i <= j
<1>1. PICK x \in S : \A y \in S : ~ (<<y, x>> \in OpToRel(<, Nat))
  BY NatLessThanWellFounded, WFMin
<1>2. \A y \in S : ~ (y < x)
  BY <1>1 DEF OpToRel
<1>3. \A y \in S : x <= y
  BY <1>2
<1> QED BY <1>3

(* The sum of f over a finite set, as the fold of the library computes it:   *)
(* one element after the other, in the order in which CHOOSE finds them.     *)
Pick(s) == CHOOSE x \in s : TRUE

FoldStep(f, g, s) == IF s = {} THEN 0 ELSE f[Pick(s)] + g[s \ {Pick(s)}]

Summing(f, A) == CHOOSE g : g = [s \in SUBSET A |-> FoldStep(f, g, s)]

SumOver(f, A) == MapThenSumSet(LAMBDA n : f[n], A)

LEMMA SumIsFold ==
  ASSUME NEW f, NEW A
  PROVE  SumOver(f, A) = Summing(f, A)[A]
BY DEF SumOver, Summing, FoldStep, Pick, MapThenSumSet, MapThenFoldSet

(* The fold is defined: it is built up from the smaller sets.                *)
SumsUpto(f, A, n, g) ==
  LET small == {s \in SUBSET A : Cardinality(s) <= n}
  IN g = [s \in small |-> FoldStep(f, g, s)]

LEMMA SmallerSet ==
  ASSUME NEW A, IsFiniteSet(A), NEW s \in SUBSET A, s # {}
  PROVE  /\ Pick(s) \in s /\ s \ {Pick(s)} \in SUBSET A
         /\ IsFiniteSet(s) /\ Cardinality(s) \in Nat \ {0}
         /\ \A x \in s : Cardinality(s \ {x}) = Cardinality(s) - 1 /\ Cardinality(s \ {x}) \in Nat
<1>1. Pick(s) \in s
  BY DEF Pick
<1>2. IsFiniteSet(s)
  BY FS_Subset
<1>3. ASSUME NEW x \in s
      PROVE  Cardinality(s \ {x}) = Cardinality(s) - 1 /\ Cardinality(s \ {x}) \in Nat
  BY <1>2, FS_RemoveElement, FS_CardinalityType
<1>4. Cardinality(s) \in Nat /\ Cardinality(s) # 0
  BY <1>2, FS_CardinalityType, FS_EmptySet
<1> QED BY <1>1, <1>2, <1>3, <1>4

LEMMA SumsExtend ==
  ASSUME NEW f, NEW A, IsFiniteSet(A), NEW n \in Nat, \E g : SumsUpto(f, A, n, g)
  PROVE  \E g : SumsUpto(f, A, n + 1, g)
<1> DEFINE small(m) == {s \in SUBSET A : Cardinality(s) <= m}
<1>1. PICK g : g = [s \in small(n) |-> FoldStep(f, g, s)]
  BY DEF SumsUpto
<1> DEFINE h == [s \in small(n + 1) |-> FoldStep(f, g, s)]
<1>2. ASSUME NEW s \in small(n + 1)
      PROVE  FoldStep(f, h, s) = FoldStep(f, g, s)
  <2>1. CASE s = {}
    BY <2>1 DEF FoldStep
  <2>2. CASE s # {}
    <3> DEFINE r == s \ {Pick(s)}
    <3>1. r \in SUBSET A /\ Cardinality(r) = Cardinality(s) - 1 /\ Cardinality(s) \in Nat
      BY <2>2, SmallerSet
    <3>2. r \in small(n) /\ r \in small(n + 1)
      BY <3>1
    <3>3. g[r] = FoldStep(f, g, r) /\ h[r] = FoldStep(f, g, r)
      <4>1. g[r] = [t \in small(n) |-> FoldStep(f, g, t)][r]
        BY <1>1
      <4> HIDE DEF small, r
      <4> QED BY <3>2, <4>1
    <3> HIDE DEF h
    <3> QED BY <2>2, <3>3 DEF FoldStep
  <2> QED BY <2>1, <2>2
<1>3. h = [s \in small(n + 1) |-> FoldStep(f, h, s)]
  <2> HIDE DEF small
  <2> QED BY <1>2
<1> HIDE DEF h
<1> QED BY <1>3 DEF SumsUpto

LEMMA SumDefined ==
  ASSUME NEW f, NEW A, IsFiniteSet(A)
  PROVE  Summing(f, A) = [s \in SUBSET A |-> FoldStep(f, Summing(f, A), s)]
<1> DEFINE Bad == {n \in Nat : ~ \E g : SumsUpto(f, A, n, g)}
<1>1. SumsUpto(f, A, 0, [s \in {{}} |-> 0])
  <2>1. {s \in SUBSET A : Cardinality(s) <= 0} = {{}}
    <3>1. ASSUME NEW s \in SUBSET A, Cardinality(s) <= 0 PROVE s = {}
      BY <3>1, SmallerSet
    <3>2. Cardinality({}) <= 0
      BY FS_EmptySet
    <3> QED BY <3>1, <3>2
  <2> QED BY <2>1 DEF SumsUpto, FoldStep
<1>2. Bad = {}
  <2> SUFFICES ASSUME Bad # {} PROVE FALSE
    OBVIOUS
  <2>1. PICK n \in Bad : \A j \in Bad : n <= j
    <3>1. Bad \in SUBSET Nat
      OBVIOUS
    <3> HIDE DEF Bad
    <3> QED BY <3>1, LeastOf
  <2>2. n # 0
    BY <1>1
  <2>3. n - 1 \in Nat /\ n - 1 \notin Bad
    BY <2>1, <2>2
  <2>4. \E g : SumsUpto(f, A, (n - 1) + 1, g)
    BY <2>3, SumsExtend
  <2>5. (n - 1) + 1 = n
    OBVIOUS
  <2> QED BY <2>4, <2>5
<1>3. Cardinality(A) \in Nat /\ \A s \in SUBSET A : Cardinality(s) <= Cardinality(A)
  BY FS_CardinalityType, FS_Subset
<1>4. PICK g : SumsUpto(f, A, Cardinality(A), g)
  BY <1>2, <1>3
<1>5. {s \in SUBSET A : Cardinality(s) <= Cardinality(A)} = SUBSET A
  BY <1>3
<1>6. g = [s \in SUBSET A |-> FoldStep(f, g, s)]
  BY <1>4, <1>5 DEF SumsUpto
<1> QED BY <1>6 DEF Summing

LEMMA SumSteps ==
  ASSUME NEW f, NEW A, IsFiniteSet(A), NEW s \in SUBSET A
  PROVE  Summing(f, A)[s] = IF s = {} THEN 0
                            ELSE f[Pick(s)] + Summing(f, A)[s \ {Pick(s)}]
<1>1. Summing(f, A) = [t \in SUBSET A |-> FoldStep(f, Summing(f, A), t)]
  BY SumDefined, ZenonT(60)
<1> PICK g : g = Summing(f, A)
  OBVIOUS
<1>2. g = [t \in SUBSET A |-> FoldStep(f, g, t)]
  BY <1>1, Zenon
<1>3. g[s] = FoldStep(f, g, s)
  BY <1>2, Zenon
<1> QED BY <1>3 DEF FoldStep


(* A statement about all subsets of a finite set is shown by a smallest one  *)
(* that fails it.                                                            *)
LEMMA Smallest ==
  ASSUME NEW A, IsFiniteSet(A), NEW B \in SUBSET (SUBSET A), B # {}
  PROVE  \E s \in B : \A t \in SUBSET A : Cardinality(t) < Cardinality(s) => t \notin B
<1> DEFINE N == {Cardinality(s) : s \in B}
<1>1. \A s \in B : Cardinality(s) \in Nat
  BY FS_Subset, FS_CardinalityType
<1>2. PICK n \in N : \A j \in N : n <= j
  <2>1. N \in SUBSET Nat /\ N # {}
    BY <1>1
  <2> HIDE DEF N
  <2> QED BY <2>1, LeastOf
<1>3. PICK s \in B : n = Cardinality(s)
  BY <1>2
<1>4. ASSUME NEW t \in SUBSET A, Cardinality(t) < Cardinality(s), t \in B PROVE FALSE
  <2>1. Cardinality(t) \in N /\ Cardinality(t) \in Nat /\ Cardinality(s) \in Nat
    BY <1>1, <1>4
  <2>2. Cardinality(s) <= Cardinality(t)
    BY <2>1, <1>2, <1>3
  <2> QED BY <2>1, <2>2, <1>4
<1> QED BY <1>4

LEMMA SumTyped ==
  ASSUME NEW A, IsFiniteSet(A), NEW f \in [A -> Nat]
  PROVE  \A s \in SUBSET A : Summing(f, A)[s] \in Nat
<1> DEFINE S(s) == Summing(f, A)[s]
           B == {s \in SUBSET A : S(s) \notin Nat}
<1> SUFFICES ASSUME B # {} PROVE FALSE
  OBVIOUS
<1>1. PICK s \in B : \A t \in SUBSET A : Cardinality(t) < Cardinality(s) => t \notin B
  <2>1. B \in SUBSET (SUBSET A)
    OBVIOUS
  <2> HIDE DEF B
  <2> QED BY <2>1, Smallest
<1>2. s # {}
  <2>1. s \in SUBSET A /\ Summing(f, A)[s] \notin Nat
    OBVIOUS
  <2>2. s = {} => Summing(f, A)[s] = 0
    BY <2>1, SumSteps
  <2> QED BY <2>1, <2>2
<1>3. S(s) = f[Pick(s)] + S(s \ {Pick(s)})
  BY <1>2, SumSteps
<1>4. /\ Pick(s) \in s /\ s \ {Pick(s)} \in SUBSET A
      /\ Cardinality(s \ {Pick(s)}) < Cardinality(s)
  BY <1>2, SmallerSet
<1>5. S(s \ {Pick(s)}) \in Nat /\ f[Pick(s)] \in Nat
  BY <1>1, <1>4
<1> HIDE DEF S
<1> QED BY <1>3, <1>5

(* The order does not matter: any element may be taken off first.            *)
LEMMA SumTakesAny ==
  ASSUME NEW A, IsFiniteSet(A), NEW f \in [A -> Nat]
  PROVE  \A s \in SUBSET A : \A x \in s :
           Summing(f, A)[s] = f[x] + Summing(f, A)[s \ {x}]
<1> DEFINE S(s) == Summing(f, A)[s]
           B == {s \in SUBSET A : \E x \in s : S(s) # f[x] + S(s \ {x})}
<1> SUFFICES ASSUME B # {} PROVE FALSE
  OBVIOUS
<1>1. PICK s \in B : \A t \in SUBSET A : Cardinality(t) < Cardinality(s) => t \notin B
  <2>1. B \in SUBSET (SUBSET A)
    OBVIOUS
  <2> HIDE DEF B
  <2> QED BY <2>1, Smallest
<1>2. PICK x \in s : S(s) # f[x] + S(s \ {x})
  OBVIOUS
<1> DEFINE y == Pick(s)
<1>3. s # {} /\ s \in SUBSET A
  BY <1>2
<1>4. /\ y \in s
      /\ \A z \in s : Cardinality(s \ {z}) < Cardinality(s)
  BY <1>3, SmallerSet
<1>5. S(s) = f[y] + S(s \ {y})
  BY <1>3, SumSteps
<1> HIDE DEF y
<1>6. x # y
  BY <1>2, <1>5
<1>7. S(s \ {y}) = f[x] + S((s \ {y}) \ {x})
  <2>1. s \ {y} \in SUBSET A /\ s \ {y} \notin B /\ x \in s \ {y}
    BY <1>1, <1>3, <1>4, <1>6
  <2> QED BY <2>1
<1>8. S(s \ {x}) = f[y] + S((s \ {x}) \ {y})
  <2>1. s \ {x} \in SUBSET A /\ s \ {x} \notin B /\ y \in s \ {x}
    BY <1>1, <1>3, <1>4, <1>6
  <2> QED BY <2>1
<1>9. (s \ {y}) \ {x} = (s \ {x}) \ {y} /\ (s \ {x}) \ {y} \in SUBSET A
  BY <1>3
<1>10. S((s \ {x}) \ {y}) \in Nat /\ f[x] \in Nat /\ f[y] \in Nat
  BY <1>3, <1>4, <1>9, SumTyped
<1> HIDE DEF S
<1> QED BY <1>2, <1>5, <1>7, <1>8, <1>9, <1>10

(* A sum depends on what f gives for the elements of the set alone.          *)
LEMMA SumSame ==
  ASSUME NEW A, IsFiniteSet(A), NEW C, IsFiniteSet(C), NEW f, NEW g,
         NEW D \in SUBSET (A \cap C), \A x \in D : f[x] = g[x]
  PROVE  Summing(f, A)[D] = Summing(g, C)[D]
<1> DEFINE B == {s \in SUBSET D : Summing(f, A)[s] # Summing(g, C)[s]}
<1> SUFFICES ASSUME B # {} PROVE FALSE
  OBVIOUS
<1>1. IsFiniteSet(D)
  BY FS_Subset
<1>2. PICK s \in B : \A t \in SUBSET D : Cardinality(t) < Cardinality(s) => t \notin B
  <2>1. B \in SUBSET (SUBSET D)
    OBVIOUS
  <2> HIDE DEF B
  <2> QED BY <1>1, <2>1, Smallest
<1> DEFINE r == s \ {Pick(s)}
<1>3. s \in SUBSET A /\ s \in SUBSET C
  OBVIOUS
<1>4. s # {}
  BY <1>3, SumSteps, ZenonT(60)
<1>5. /\ Summing(f, A)[s] = f[Pick(s)] + Summing(f, A)[r]
      /\ Summing(g, C)[s] = g[Pick(s)] + Summing(g, C)[r]
  <2>1. Summing(f, A)[s] = f[Pick(s)] + Summing(f, A)[r]
    BY <1>3, <1>4, SumSteps
  <2>2. Summing(g, C)[s] = g[Pick(s)] + Summing(g, C)[r]
    BY <1>3, <1>4, SumSteps
  <2> QED BY <2>1, <2>2
<1>6. Pick(s) \in s /\ r \in SUBSET D /\ Cardinality(r) < Cardinality(s)
  BY <1>1, <1>4, SmallerSet
<1>7. Summing(f, A)[r] = Summing(g, C)[r]
  BY <1>2, <1>6
<1>8. f[Pick(s)] = g[Pick(s)]
  BY <1>6
<1> QED BY <1>5, <1>7, <1>8

(* One more element adds its part, whatever else f changes outside the set.  *)
LEMMA SumAdd ==
  ASSUME NEW A, IsFiniteSet(A), NEW x, x \notin A,
         NEW f, NEW g, \A y \in A : f[y] = g[y] /\ f[y] \in Nat, g[x] \in Nat
  PROVE  SumOver(g, A \cup {x}) = SumOver(f, A) + g[x] /\ SumOver(f, A) \in Nat
<1> DEFINE D == A \cup {x}
           k == [y \in D |-> g[y]]
<1>1. IsFiniteSet(D) /\ k \in [D -> Nat]
  BY FS_AddElement
<1>2. SumOver(g, D) = Summing(k, D)[D]
  <2>1. SumOver(g, D) = Summing(g, D)[D]
    BY SumIsFold
  <2>2. D \in SUBSET (D \cap D) /\ \A y \in D : g[y] = k[y]
    OBVIOUS
  <2> HIDE DEF D, k
  <2>3. Summing(g, D)[D] = Summing(k, D)[D]
    BY <1>1, <2>2, SumSame
  <2> QED BY <2>1, <2>3
<1>3. Summing(k, D)[D] = k[x] + Summing(k, D)[D \ {x}]
  <2>1. D \in SUBSET D /\ x \in D
    OBVIOUS
  <2> HIDE DEF D, k
  <2> QED BY <1>1, <2>1, SumTakesAny
<1>4. D \ {x} = A /\ k[x] = g[x]
  OBVIOUS
<1>5. Summing(k, D)[A] = SumOver(f, A)
  <2>1. SumOver(f, A) = Summing(f, A)[A]
    BY SumIsFold
  <2>2. A \in SUBSET (D \cap A) /\ \A y \in A : k[y] = f[y]
    OBVIOUS
  <2> HIDE DEF D, k
  <2> QED BY <1>1, <2>1, <2>2, SumSame
<1>6. Summing(k, D)[A] \in Nat
  <2>1. A \in SUBSET D
    OBVIOUS
  <2> HIDE DEF D, k
  <2> QED BY <1>1, <2>1, SumTyped
<1> HIDE DEF D, k
<1>7. SumOver(g, D) = g[x] + SumOver(f, A) /\ SumOver(f, A) \in Nat
  BY <1>2, <1>3, <1>4, <1>5, <1>6
<1> QED BY <1>7 DEF D

-------------------------------------------------------------------------------
(* The counters and the total agree with the lists through every step.       *)
LEMMA AddCounted ==
  ASSUME IInv, NEW b \in Addr, b \notin allocated, NEW size \in Nat,
         usize' = [usize EXCEPT ![b] = size], total' = total + size,
         allocated' = allocated \cup {b}, total = SumOver(usize, allocated)
  PROVE  total' = SumOver(usize', allocated')
<1> DEFINE s == usize'
<1>1. allocated \subseteq Addr /\ usize \in [Addr -> Nat] /\ IsFiniteSet(allocated)
  BY DEF IInv, Tiles
<1>2. s[b] = size /\ \A y \in allocated : usize[y] = s[y] /\ usize[y] \in Nat
  BY <1>1
<1> HIDE DEF s
<1>3. SumOver(s, allocated \cup {b}) = SumOver(usize, allocated) + s[b]
  BY <1>1, <1>2, SumAdd, ZenonT(60)
<1> QED BY <1>2, <1>3 DEF s

LEMMA DropCounted ==
  ASSUME NEW A, IsFiniteSet(A), NEW t \in A, NEW u, \A y \in A : u[y] \in Nat,
         NEW v, \A y \in A \ {t} : v[y] = u[y]
  PROVE  SumOver(u, A) = SumOver(v, A \ {t}) + u[t] /\ SumOver(v, A \ {t}) \in Nat
<1> DEFINE B == A \ {t}
<1>1. IsFiniteSet(B) /\ t \notin B /\ A = B \cup {t} /\ u[t] \in Nat
  BY FS_RemoveElement
<1>2. \A y \in B : v[y] = u[y] /\ v[y] \in Nat
  OBVIOUS
<1> HIDE DEF B
<1>3. SumOver(u, B \cup {t}) = SumOver(v, B) + u[t] /\ SumOver(v, B) \in Nat
  BY <1>1, <1>2, SumAdd
<1> QED BY <1>1, <1>3 DEF B

LEMMA StepCounted ==
  IInv /\ total = SumOver(usize, allocated) /\ [Next]_vars => total' = SumOver(usize', allocated')
<1> SUFFICES ASSUME IInv, total = SumOver(usize, allocated), [Next]_vars
             PROVE  total' = SumOver(usize', allocated')
  OBVIOUS
<1>1. /\ allocated \subseteq Addr /\ usize \in [Addr -> Nat] /\ IsFiniteSet(allocated)
      /\ available \subseteq Addr /\ Sizes \subseteq Nat /\ total \in Int
  BY HeapAssumption DEF HeapAssumption, IInv, Tiles
<1>2. ASSUME NEW size \in Sizes, NEW b \in BestFits(size)
      PROVE  b \in Addr /\ b \notin allocated /\ size \in Nat
  BY <1>1 DEF BestFits, IInv
<1>3. ASSUME NEW size \in Sizes, Malloc(size) PROVE total' = SumOver(usize', allocated')
  BY <1>2, <1>3, AddCounted DEF Malloc
<1>4. ASSUME NEW ptr \in held, NEW size \in Sizes, ReallocTraps(ptr, size)
      PROVE  total' = SumOver(usize', allocated')
  BY <1>2, <1>4, AddCounted DEF ReallocTraps
<1>5. ASSUME NEW ptr, Free(ptr) PROVE total' = SumOver(usize', allocated')
  <2>1. PICK t \in allocated : /\ allocated' = allocated \ {t} /\ total' = total - usize[t]
                               /\ usize' = [usize EXCEPT ![t] = 0]
    BY <1>5 DEF Free
  <2> DEFINE v == usize'
  <2>2. \A y \in allocated \ {t} : v[y] = usize[y]
    BY <2>1, <1>1
  <2>3. \A y \in allocated : usize[y] \in Nat
    BY <1>1
  <2> HIDE DEF v
  <2>4. /\ SumOver(usize, allocated) = SumOver(v, allocated \ {t}) + usize[t]
        /\ SumOver(v, allocated \ {t}) \in Nat
    BY <1>1, <2>2, <2>3, DropCounted
  <2> QED BY <2>1, <2>3, <2>4 DEF v
<1>6. ASSUME NEW ptr \in held, NEW size \in Sizes, Realloc(ptr, size)
      PROVE  total' = SumOver(usize', allocated')
  <2>1. PICK b \in BestFits(size), t \in allocated :
          /\ allocated' = (allocated \cup {b}) \ {t}
          /\ usize' = [usize EXCEPT ![b] = size, ![t] = 0]
          /\ total' = total + size - usize[t]
    BY <1>6 DEF Realloc
  <2>2. b \in Addr /\ b \notin allocated /\ size \in Nat /\ b # t
    BY <1>2
  <2> DEFINE u == [usize EXCEPT ![b] = size]
             v == usize'
             A == allocated \cup {b}
  <2>3. /\ u[b] = size /\ u[t] = usize[t] /\ u \in [Addr -> Nat]
        /\ \A y \in allocated : usize[y] = u[y] /\ usize[y] \in Nat
        /\ \A y \in A \ {t} : v[y] = u[y]
    BY <1>1, <2>1, <2>2
  <2>4. IsFiniteSet(A) /\ t \in A /\ \A y \in A : u[y] \in Nat
    BY <1>1, <2>2, <2>3, FS_AddElement
  <2> HIDE DEF u, v
  <2>5. SumOver(u, A) = SumOver(usize, allocated) + u[b]
    BY <1>1, <2>2, <2>3, SumAdd
  <2> HIDE DEF A
  <2>6. SumOver(u, A) = SumOver(v, A \ {t}) + u[t] /\ SumOver(v, A \ {t}) \in Nat
    BY <2>3, <2>4, DropCounted
  <2>7. u[t] \in Nat
    BY <2>4
  <2>8. total + size - usize[t] = SumOver(v, A \ {t})
    BY <1>1, <2>2, <2>3, <2>5, <2>6, <2>7
  <2> QED BY <2>1, <2>8 DEF v, A
<1>7. CASE UNCHANGED vars
  BY <1>7 DEF vars
<1> QED
  BY <1>3, <1>4, <1>5, <1>6, <1>7 DEF Next, MallocFails, FreeUnallocated, ReallocFails

(* smalloc's lengths and its byte total are those of its lists, whatever was *)
(* split, merged or moved.                                                   *)
THEOREM CountersAgree == Spec => []Accounting
<1>1. Init => total = SumOver(usize, allocated)
  <2>1. IsFiniteSet({}) /\ SumOver(usize, {}) = Summing(usize, {})[{}]
    BY FS_EmptySet, SumIsFold
  <2>2. Summing(usize, {})[{}] = 0
    BY <2>1, SumSteps
  <2> QED BY <2>1, <2>2 DEF Init
<1>2. IInv /\ total = SumOver(usize, allocated) => Accounting
  <2>1. IInv => avail_len = Cardinality(available)
    BY FreeListIsList DEF IInv, Counted
  <2> QED BY <2>1 DEF IInv, Accounting, SumOver
<1>3. IInv /\ total = SumOver(usize, allocated) /\ [Next]_vars => (total = SumOver(usize, allocated))'
  BY StepCounted
<1> QED BY <1>1, <1>2, <1>3, SpecIInv, PTL DEF Spec

(* No call but a realloc that trapped leaves a block that nobody holds.      *)
THEOREM OnlyTrapsLeak == Spec => NoLeak
<1>1. IInv /\ [Next]_vars =>
        [\/ Unreachable' \subseteq Unreachable
         \/ \E ptr \in held, size \in Sizes : ReallocTraps(ptr, size)]_vars
  <2> SUFFICES ASSUME IInv, Next,
                      ~ \E ptr \in held, size \in Sizes : ReallocTraps(ptr, size)
               PROVE  Unreachable' \subseteq Unreachable \/ UNCHANGED vars
    BY DEF Unreachable
  <2>1. ASSUME NEW size \in Sizes, Malloc(size) PROVE Unreachable' \subseteq Unreachable
    BY <2>1 DEF Malloc, Unreachable, ADDR
  <2>2. ASSUME NEW ptr, Free(ptr) PROVE Unreachable' \subseteq Unreachable
    <3>1. PICK t \in allocated : /\ ADDR(t) = ptr /\ allocated' = allocated \ {t}
                                 /\ held' = held \ {ptr}
      BY <2>2 DEF Free
    <3>2. \A n, m \in Addr : ADDR(n) = ADDR(m) => n = m
      BY HeapAssumption DEF HeapAssumption, Addr, ADDR
    <3>3. allocated \subseteq Addr
      BY DEF IInv, Tiles
    <3> QED BY <3>1, <3>2, <3>3 DEF Unreachable
  <2>3. ASSUME NEW ptr \in held, NEW size \in Sizes, Realloc(ptr, size)
        PROVE  Unreachable' \subseteq Unreachable
    <3>1. PICK b \in BestFits(size), t \in allocated :
            /\ ADDR(t) = ptr
            /\ allocated' = (allocated \cup {b}) \ {t}
            /\ held' = (held \cup {ADDR(b)}) \ {ptr}
      BY <2>3 DEF Realloc
    <3>2. \A n, m \in Addr : ADDR(n) = ADDR(m) => n = m
      BY HeapAssumption DEF HeapAssumption, Addr, ADDR
    <3>3. allocated \subseteq Addr /\ b \in Addr /\ b \notin allocated
      BY <3>1 DEF IInv, Tiles, BestFits
    <3> QED BY <3>1, <3>2, <3>3 DEF Unreachable
  <2> QED BY <2>1, <2>2, <2>3 DEF Next, MallocFails, FreeUnallocated, ReallocFails
<1> QED BY <1>1, SpecIInv, PTL DEF Spec, NoLeak
===============================================================================
