-------------------------- MODULE SMallocListProofs ---------------------------
(***************************************************************************)
(* The linked lists of smalloc.c implement the allocator on sets of nodes, *)
(* for every pool, header size, alignment and set of request sizes: both   *)
(* lists stay in descending address order, so that every walk stops where  *)
(* delete, insert, find and bestfit need it to.                            *)
(***************************************************************************)
EXTENDS SMallocList, FiniteSetTheorems, WellFoundedInduction, TLAPS

(* x is the highest of the nodes of S below n, or NULL when there is none.   *)
TopBelow(x, S, n) ==
  \/ x = NULL /\ \A m \in S : n <= m
  \/ x \in S /\ x < n /\ \A m \in S : m < n => m <= x

(* List l of heap h holds the nodes of S, from the highest to the lowest.    *)
Chained(h, l, S) ==
  /\ S \subseteq Addr
  /\ TopBelow(h.head[l], S, PoolEnd)
  /\ \A n \in S : TopBelow(h.next[n], S, n)

Heap == [head : [Lists -> Int], len : [Lists -> Int], next : [Addr -> Int],
         rsize : [Addr -> Nat], usize : [Addr -> Nat]]

LEMMA AddrIs ==
  /\ \A a \in Addr : a \in Int /\ a # NULL /\ PoolStart <= a /\ a < PoolEnd
  /\ NULL \in Int /\ PoolStart \in Int /\ PoolEnd \in Int
BY ListAssumption DEF ListAssumption, Addr, NULL

LEMMA AddrFinite == IsFiniteSet(Addr) /\ Cardinality(Addr) = PoolEnd - PoolStart
                    /\ Cardinality(Addr) \in Nat \ {0}
<1>1. PoolStart \in Int /\ PoolEnd - 1 \in Int /\ PoolStart <= PoolEnd - 1
  BY ListAssumption DEF ListAssumption
<1>2. IsFiniteSet(Addr) /\ Cardinality(Addr) = (PoolEnd - 1) - PoolStart + 1
  BY <1>1, FS_Interval DEF Addr
<1>3. (PoolEnd - 1) - PoolStart + 1 = PoolEnd - PoolStart /\ PoolEnd - PoolStart \in Nat \ {0}
  BY ListAssumption DEF ListAssumption
<1> QED BY <1>1, <1>2, <1>3

-------------------------------------------------------------------------------
(* A loop over the nodes of a list: the walk itself, and the scan that keeps *)
(* the best fit so far while it walks.                                       *)
Follow(h, x) == IF x = NULL THEN NULL ELSE h.next[x]

Better(h, nth, size, i, x) ==
  LET c == nth[i - 1]
      over == h.rsize[c] - size
  IN IF c # NULL /\ h.rsize[c] >= size /\ (over < x.best \/ c = nth[0])
     THEN [best |-> over, b |-> c] ELSE x

Round(loop, h, nth, size, i, x) ==
  IF loop = "walk" THEN Follow(h, x) ELSE Better(h, nth, size, i, x)

(* g[i] is what i rounds of a loop make of x. *)
Rounds(loop, h, nth, size, x, n, g) ==
  /\ g = [i \in 0 .. n |-> g[i]]
  /\ g[0] = x
  /\ \A i \in 1 .. n : g[i] = Round(loop, h, nth, size, i, g[i - 1])

(* A set of naturals that is not empty has a least element.                  *)
LEMMA LeastOf ==
  ASSUME NEW S \in SUBSET Nat, S # {}
  PROVE  \E i \in S : \A j \in S : i <= j
<1>1. PICK x \in S : \A y \in S : ~ (<<y, x>> \in OpToRel(<, Nat))
  BY NatLessThanWellFounded, WFMin
<1>2. \A y \in S : ~ (y < x)
  BY <1>1 DEF OpToRel
<1>3. \A y \in S : x <= y
  BY <1>2
<1> QED BY <1>3

LEMMA RoundsExist ==
  ASSUME NEW loop, NEW h, NEW nth, NEW size, NEW x
  PROVE  \A n \in Nat : \E g : Rounds(loop, h, nth, size, x, n, g)
<1> DEFINE Run(n, g) == Rounds(loop, h, nth, size, x, n, g)
           Step(i, y) == Round(loop, h, nth, size, i, y)
           Bad == {n \in Nat : ~ \E g : Run(n, g)}
<1>0. \A n, g : Run(n, g) <=> /\ g = [i \in 0 .. n |-> g[i]] /\ g[0] = x
                              /\ \A i \in 1 .. n : g[i] = Step(i, g[i - 1])
  BY DEF Rounds
<1> HIDE DEF Run, Step
<1> SUFFICES ASSUME Bad # {} PROVE FALSE
  BY DEF Run
<1>1. PICK n \in Bad : \A m \in Bad : n <= m
  <2>1. Bad \in SUBSET Nat
    OBVIOUS
  <2> HIDE DEF Bad
  <2> QED BY <2>1, LeastOf
<1>2. n \in Nat /\ ~ \E g : Run(n, g)
  BY <1>1
<1>3. n # 0 => \E g : Run(n - 1, g)
  <2>1. n # 0 => n - 1 \in Nat /\ ~ (n <= n - 1)
    BY <1>2
  <2>2. n # 0 => n - 1 \notin Bad
    BY <2>1, <1>1
  <2> QED BY <2>1, <2>2
<1> HIDE DEF Bad
<1>4. CASE n = 0
  <2> DEFINE g == [i \in 0 .. 0 |-> x]
  <2>1. g = [i \in 0 .. 0 |-> g[i]] /\ g[0] = x /\ 1 .. 0 = {}
    OBVIOUS
  <2> HIDE DEF g
  <2>2. Run(0, g)
    BY <2>1, <1>0
  <2> QED BY <2>2, <1>2, <1>4
<1>5. CASE n # 0
  <2>1. PICK f : Run(n - 1, f)
    BY <1>3, <1>5
  <2> DEFINE g == [i \in 0 .. n |-> IF i = n THEN Step(n, f[n - 1]) ELSE f[i]]
  <2>2. g = [i \in 0 .. n |-> g[i]] /\ g[0] = f[0] /\ f[0] = x
    BY <2>1, <1>0, <1>2, <1>5
  <2>3. ASSUME NEW i \in 1 .. n PROVE g[i] = Step(i, g[i - 1])
    <3>1. i - 1 \in 0 .. n /\ i - 1 # n /\ i \in 0 .. n
      BY <1>2, <2>3
    <3>2. g[i - 1] = f[i - 1]
      BY <3>1
    <3>3. CASE i = n
      BY <3>1, <3>2, <3>3
    <3>4. CASE i # n
      <4>1. i \in 1 .. n - 1
        BY <3>4, <1>2, <2>3
      <4>2. f[i] = Step(i, f[i - 1])
        BY <4>1, <2>1, <1>0
      <4>3. g[i] = f[i]
        BY <3>1, <3>4
      <4> QED BY <4>2, <4>3, <3>2
    <3> QED BY <3>3, <3>4
  <2> HIDE DEF g
  <2>4. Run(n, g)
    BY <2>2, <2>3, <1>0
  <2> QED BY <2>4, <1>2
<1> QED BY <1>4, <1>5

(* The walk the code writes as a loop.                                       *)
LEMMA NthSteps ==
  ASSUME NEW h, NEW n, NEW nth, nth = Nth(h, n)
  PROVE  /\ DOMAIN nth = 0 .. Cardinality(Addr)
         /\ nth[0] = n
         /\ \A i \in 1 .. Cardinality(Addr) : nth[i] = Follow(h, nth[i - 1])
<1> PICK k : k = Cardinality(Addr)
  OBVIOUS
<1>0. k \in Nat
  BY AddrFinite
<1> DEFINE Walk(g) == g = [i \in 0 .. k |->
                            IF i = 0 THEN n ELSE IF g[i - 1] = NULL THEN NULL ELSE h.next[g[i - 1]]]
           walk == CHOOSE g : Walk(g)
<1>1. PICK f : Rounds("walk", h, <<>>, 0, n, k, f)
  BY <1>0, RoundsExist
<1>2. Walk(f)
  <2>1. f = [i \in 0 .. k |-> f[i]] /\ f[0] = n /\ \A i \in 1 .. k : f[i] = Follow(h, f[i - 1])
    BY <1>1 DEF Rounds, Round
  <2>2. \A i \in 0 .. k : f[i] = IF i = 0 THEN n ELSE IF f[i - 1] = NULL THEN NULL ELSE h.next[f[i - 1]]
    <3> TAKE i \in 0 .. k
    <3>1. i # 0 => i \in 1 .. k
      BY <1>0
    <3> QED BY <2>1, <3>1, SMTT(40) DEF Follow
  <2> QED BY <2>1, <2>2
<1>3. Walk(walk)
  BY <1>2
<1>4. Nth(h, n) = walk
  BY DEF Nth
<1> HIDE DEF walk
<1>5. nth = [i \in 0 .. k |-> IF i = 0 THEN n ELSE IF nth[i - 1] = NULL THEN NULL ELSE h.next[nth[i - 1]]]
  BY <1>3, <1>4
<1>6. DOMAIN nth = 0 .. k /\ nth[0] = n
  BY <1>5, <1>0
<1>7. ASSUME NEW i \in 1 .. k PROVE nth[i] = Follow(h, nth[i - 1])
  <2>1. i \in 0 .. k /\ i # 0
    BY <1>0
  <2> QED BY <2>1, <1>5 DEF Follow
<1> QED BY <1>6, <1>7

-------------------------------------------------------------------------------
(* Along a chained list the walk visits its nodes from the highest to the    *)
(* lowest, and is past the end after at most as many steps as there are      *)
(* addresses.                                                                *)
LEMMA TopBelowIs ==
  ASSUME NEW S \in SUBSET Addr, NEW n \in Int, NEW x, TopBelow(x, S, n)
  PROVE  /\ x \in S \cup {NULL} /\ x \in Int
         /\ x # NULL => x \in S /\ x < n
         /\ \A m \in S : m < n => x # NULL /\ m <= x
<1>1. \A m \in S : m \in Int /\ m # NULL
  BY AddrIs
<1>2. CASE x = NULL /\ \A m \in S : n <= m
  BY <1>1, <1>2, AddrIs
<1>3. CASE x \in S /\ x < n /\ \A m \in S : m < n => m <= x
  BY <1>1, <1>3
<1> QED BY <1>2, <1>3 DEF TopBelow

LEMMA WalkDescends ==
  ASSUME NEW h, NEW l \in Lists, NEW S, Chained(h, l, S),
         NEW nth, nth = Nth(h, h.head[l]), NEW k, k = Cardinality(Addr)
  PROVE  /\ DOMAIN nth = 0 .. k /\ nth[0] = h.head[l] /\ k \in Nat \ {0}
         /\ \A i \in 0 .. k : nth[i] \in S \cup {NULL}
         /\ \A i \in 1 .. k : /\ nth[i - 1] = NULL => nth[i] = NULL
                              /\ nth[i - 1] # NULL => /\ nth[i] = h.next[nth[i - 1]]
                                                      /\ TopBelow(nth[i], S, nth[i - 1])
         /\ nth[k] = NULL
<1>1. k \in Nat \ {0} /\ k = PoolEnd - PoolStart
  BY AddrFinite
<1>2. /\ DOMAIN nth = 0 .. k /\ nth[0] = h.head[l]
      /\ \A i \in 1 .. k : nth[i] = Follow(h, nth[i - 1])
  BY NthSteps
<1>3. S \in SUBSET Addr /\ TopBelow(h.head[l], S, PoolEnd) /\ \A n \in S : TopBelow(h.next[n], S, n)
  BY DEF Chained
<1>s. PoolEnd \in Int /\ \A n \in S : n \in Int /\ n # NULL /\ PoolStart <= n
  BY <1>3, AddrIs
<1> DEFINE Low(i) == nth[i] \in S \cup {NULL} /\ (nth[i] # NULL => nth[i] < PoolEnd - i)
           Bad == {i \in 0 .. k : ~ Low(i)}
<1>4. Low(0)
  <2>1. nth[0] \in S \cup {NULL} /\ (nth[0] # NULL => nth[0] < PoolEnd)
    BY <1>2, <1>3, <1>s, TopBelowIs
  <2>2. PoolEnd - 0 = PoolEnd
    BY AddrIs
  <2> QED BY <2>1, <2>2
<1>5. ASSUME NEW i \in 1 .. k, Low(i - 1)
      PROVE  /\ Low(i)
             /\ nth[i - 1] = NULL => nth[i] = NULL
             /\ nth[i - 1] # NULL => nth[i] = h.next[nth[i - 1]] /\ TopBelow(nth[i], S, nth[i - 1])
  <2>1. nth[i] = Follow(h, nth[i - 1])
    BY <1>2
  <2>2. CASE nth[i - 1] = NULL
    BY <2>1, <2>2 DEF Follow
  <2>3. CASE nth[i - 1] # NULL
    <3>1. nth[i - 1] \in S /\ nth[i - 1] < PoolEnd - (i - 1)
      BY <1>5, <2>3
    <3>2. nth[i] = h.next[nth[i - 1]] /\ TopBelow(nth[i], S, nth[i - 1])
      BY <2>1, <2>3, <3>1, <1>3 DEF Follow
    <3>3. nth[i] \in S \cup {NULL} /\ (nth[i] # NULL => nth[i] < nth[i - 1])
      BY <3>1, <3>2, <1>3, <1>s, TopBelowIs
    <3>4. nth[i] # NULL => nth[i] < PoolEnd - i
      <4>1. nth[i - 1] \in Int /\ nth[i] \in Int /\ PoolEnd \in Int /\ i \in Int
        BY <3>1, <3>3, <1>s, AddrIs
      <4> QED BY <4>1, <3>1, <3>3
    <3> QED BY <2>3, <3>2, <3>3, <3>4
  <2> QED BY <2>2, <2>3
<1>6. Bad = {}
  <2> SUFFICES ASSUME Bad # {} PROVE FALSE
    OBVIOUS
  <2>1. PICK i \in Bad : \A j \in Bad : i <= j
    <3>1. Bad \in SUBSET Nat
      BY <1>1
    <3> HIDE DEF Bad
    <3> QED BY <3>1, LeastOf
  <2>2. i \in 0 .. k /\ ~ Low(i)
    OBVIOUS
  <2> HIDE DEF Low
  <2>3. i \in 1 .. k
    BY <2>2, <1>4
  <2>4. i - 1 \in 0 .. k /\ ~ (i <= i - 1)
    BY <2>3, <1>1
  <2>5. Low(i - 1)
    BY <2>1, <2>4
  <2> QED BY <2>2, <2>3, <2>5, <1>5
<1>7. \A i \in 0 .. k : Low(i)
  BY <1>6
<1>8. nth[k] = NULL
  <2> SUFFICES ASSUME nth[k] # NULL PROVE FALSE
    OBVIOUS
  <2>0. k \in 0 .. k
    BY <1>1
  <2>1. nth[k] \in S /\ nth[k] < PoolEnd - k
    BY <1>7, <2>0
  <2>2. nth[k] \in Int /\ PoolStart <= nth[k] /\ PoolStart \in Int /\ PoolEnd \in Int
    BY <2>1, <1>s, AddrIs
  <2>3. PoolEnd - k = PoolStart
    BY <2>2, <1>1
  <2> QED BY <2>1, <2>2, <2>3
<1> HIDE DEF Low
<1>9. \A i \in 1 .. k : i - 1 \in 0 .. k
  BY <1>1
<1>10. \A i \in 0 .. k : nth[i] \in S \cup {NULL}
  BY <1>7 DEF Low
<1> QED BY <1>1, <1>2, <1>5, <1>7, <1>8, <1>9, <1>10

(* What the walk of delete, insert and find comes back with: the highest     *)
(* node that is not above n, and the lowest one above n.                     *)
Found(s, h, l, S, n) ==
  /\ TopBelow(s.c, S, n + 1)
  /\ \/ s.p = s.c /\ s.c = h.head[l] /\ \A m \in S : m <= n
     \/ /\ s.p \in S /\ n < s.p /\ s.c = h.next[s.p]
        /\ \A m \in S : n < m => s.p <= m

LEMMA SearchFinds ==
  ASSUME NEW h, NEW l \in Lists, NEW S, Chained(h, l, S), NEW n \in Int
  PROVE  /\ Found(Search(h, l, n), h, l, S, n)
         /\ Search(h, l, n).c \in Members(h, l) \cup {NULL}
         /\ Members(h, l) \subseteq S
<1> PICK nth : nth = Nth(h, h.head[l])
  OBVIOUS
<1> PICK k : k = Cardinality(Addr)
  OBVIOUS
<1>1. /\ DOMAIN nth = 0 .. k /\ nth[0] = h.head[l] /\ k \in Nat \ {0}
      /\ \A i \in 0 .. k : nth[i] \in S \cup {NULL}
      /\ \A i \in 1 .. k : nth[i - 1] # NULL => /\ nth[i] = h.next[nth[i - 1]]
                                                /\ TopBelow(nth[i], S, nth[i - 1])
      /\ nth[k] = NULL
  BY WalkDescends, SMTT(40)
<1>2. S \in SUBSET Addr /\ TopBelow(h.head[l], S, PoolEnd)
      /\ \A m \in S : m \in Int /\ m # NULL /\ m < PoolEnd
  BY AddrIs DEF Chained
<1>k. k \in Nat
  BY <1>1
<1> DEFINE stops == {i \in 0 .. k : nth[i] = NULL \/ nth[i] <= n}
           stop == CHOOSE i \in stops : \A j \in stops : i <= j
<1>3. Search(h, l, n) = [c |-> nth[stop], p |-> IF stop = 0 THEN nth[0] ELSE nth[stop - 1]]
  BY <1>1 DEF Search
<1>4. stop \in stops /\ \A j \in stops : stop <= j
  <2>1. k \in stops /\ stops \in SUBSET Nat
    BY <1>1
  <2>2. \E i \in stops : \A j \in stops : i <= j
    <3> HIDE DEF stops
    <3> QED BY <2>1, LeastOf
  <2> HIDE DEF stops
  <2> QED BY <2>2
<1>5. stop \in 0 .. k /\ (nth[stop] = NULL \/ nth[stop] <= n)
  BY <1>4, SMTT(40)
<1>6. stop # 0 => nth[stop - 1] # NULL /\ ~ (nth[stop - 1] <= n)
  <2>1. stop # 0 => stop - 1 \in 0 .. k /\ ~ (stop <= stop - 1)
    <3> HIDE DEF stop, stops
    <3> QED BY <1>k, <1>5
  <2>2. stop # 0 => stop - 1 \notin stops
    <3> HIDE DEF stop, stops
    <3> QED BY <2>1, <1>4
  <2> QED BY <2>1, <2>2
<1> HIDE DEF stop, stops
<1> PICK s : s = Search(h, l, n)
  OBVIOUS
<1>7. s.c = nth[stop] /\ s.p = IF stop = 0 THEN nth[0] ELSE nth[stop - 1]
  BY <1>3
<1>8. s.c \in S \cup {NULL} /\ (s.c = NULL \/ s.c <= n)
  BY <1>1, <1>5, <1>7
<1>9. ASSUME stop = 0
      PROVE  Found(s, h, l, S, n)
  <2>1. s.p = s.c /\ s.c = h.head[l]
    BY <1>1, <1>7, <1>9
  <2>2. \A m \in S : s.c # NULL /\ m <= s.c
    BY <2>1, <1>2, TopBelowIs, AddrIs
  <2>3. \A m \in S : m <= n
    BY <2>2, <1>2, <1>8
  <2>4. TopBelow(s.c, S, n + 1)
    BY <2>2, <2>3, <1>2, <1>8 DEF TopBelow
  <2> QED BY <2>1, <2>3, <2>4 DEF Found
<1>10. ASSUME stop # 0
       PROVE  Found(s, h, l, S, n)
  <2>1. stop \in 1 .. k /\ stop - 1 \in 0 .. k
    BY <1>k, <1>5, <1>10
  <2>2. s.p = nth[stop - 1] /\ s.p \in S /\ ~ (s.p <= n)
    BY <2>1, <1>1, <1>6, <1>7, <1>10
  <2>3. s.c = h.next[s.p] /\ TopBelow(s.c, S, s.p)
    BY <2>1, <2>2, <1>1, <1>6, <1>7, <1>10
  <2>4. s.p \in Int /\ n < s.p
    BY <2>2, <1>2
  <2>5. \A m \in S : m < s.p => s.c # NULL /\ m <= s.c
    BY <2>3, <2>4, <1>2, TopBelowIs
  <2>6. \A m \in S : m < s.p => m <= n
    BY <2>5, <1>2, <1>8
  <2>7. \A m \in S : n < m => s.p <= m
    BY <2>4, <2>6, <1>2
  <2>8. TopBelow(s.c, S, n + 1)
    <3>1. \A m \in S : m < n + 1 => m < s.p
      BY <2>4, <1>2
    <3>2. CASE s.c = NULL
      <4>1. \A m \in S : n + 1 <= m
        BY <3>1, <3>2, <2>5, <1>2
      <4> QED BY <4>1, <3>2 DEF TopBelow
    <3>3. CASE s.c # NULL
      <4>1. s.c \in S /\ s.c < n + 1
        BY <3>3, <1>8, <1>2
      <4> QED BY <4>1, <3>1, <2>5 DEF TopBelow
    <3> QED BY <3>2, <3>3
  <2> QED BY <2>2, <2>3, <2>4, <2>7, <2>8 DEF Found
<1>11. Members(h, l) = {nth[i] : i \in 0 .. k} \ {NULL}
  BY <1>1 DEF Members
<1>12. s.c \in Members(h, l) \cup {NULL}
  BY <1>5, <1>7, <1>11
<1> QED BY <1>1, <1>9, <1>10, <1>11, <1>12

(* The nodes that following next from the head meets are those of the chain. *)
LEMMA MembersAre ==
  ASSUME NEW h, NEW l \in Lists, NEW S, Chained(h, l, S)
  PROVE  Members(h, l) = S
<1>1. Members(h, l) \subseteq S
  <2>1. 0 \in Int
    OBVIOUS
  <2> QED BY <2>1, SearchFinds
<1>2. ASSUME NEW m \in S PROVE m \in Members(h, l)
  <2>1. S \in SUBSET Addr /\ m \in Int
    BY AddrIs DEF Chained
  <2> PICK s : s = Search(h, l, m)
    OBVIOUS
  <2>2. TopBelow(s.c, S, m + 1) /\ s.c \in Members(h, l) \cup {NULL}
    BY <2>1, SearchFinds DEF Found
  <2>3. s.c # NULL /\ m <= s.c /\ s.c < m + 1 /\ s.c \in Int
    BY <2>1, <2>2, TopBelowIs
  <2>4. s.c = m
    BY <2>1, <2>3
  <2> QED BY <2>2, <2>3, <2>4
<1> QED BY <1>1, <1>2

-------------------------------------------------------------------------------
(* What delete and insert do to the chains.                                  *)
LEMMA ChainKept ==
  ASSUME NEW h, NEW g, NEW l, NEW S, Chained(h, l, S), g.head[l] = h.head[l],
         \A n \in S : g.next[n] = h.next[n]
  PROVE  Chained(g, l, S)
BY DEF Chained

(* The other lists and the headers are left alone. *)
OthersKept(h, g, l, S) ==
  /\ g.usize = h.usize
  /\ \A k \in Lists \ {l} : g.len[k] = h.len[k] /\ g.head[k] = h.head[k]
  /\ \A a \in Addr \ S : g.next[a] = h.next[a]

LEMMA OthersKeptAfter ==
  ASSUME NEW h, NEW j, NEW g, NEW l, NEW S, OthersKept(j, g, l, S),
         j.usize = h.usize, j.len = h.len, j.head = h.head, j.next = h.next,
         NEW T, S \subseteq T
  PROVE  OthersKept(h, g, l, T)
<1>1. \A a \in Addr \ T : a \in Addr \ S
  OBVIOUS
<1> QED BY <1>1 DEF OthersKept

LEMMA OtherChainKept ==
  ASSUME NEW h, NEW g, NEW l, NEW S, OthersKept(h, g, l, S),
         NEW k \in Lists \ {l}, NEW T, T \cap S = {}, Chained(h, k, T)
  PROVE  Chained(g, k, T)
<1>1. \A a \in T : a \in Addr \ S
  BY DEF Chained
<1> QED BY <1>1, ChainKept DEF OthersKept

(* Where n is or belongs, x now comes next: in front of the list, when no     *)
(* node is above n, or after p, the lowest node above n.                     *)
NextInFront(h, g, l, S, n, x) ==
  /\ \A m \in S : m <= n
  /\ g.head[l] = x /\ \A m \in S : g.next[m] = h.next[m]

NextAfter(h, g, l, S, n, p, x) ==
  /\ p \in S /\ n < p /\ \A m \in S : n < m => p <= m
  /\ g.head[l] = h.head[l] /\ g.next[p] = x
  /\ \A m \in S \ {p} : g.next[m] = h.next[m]

Spliced(h, g, l, S, n, x) ==
  NextInFront(h, g, l, S, n, x) \/ \E p \in S : NextAfter(h, g, l, S, n, p, x)

(* The chain without n, when the node above it, if any, took its next.       *)
LEMMA Shortened ==
  ASSUME NEW h, NEW g, NEW l \in Lists, NEW S, Chained(h, l, S), NEW n \in S,
         Spliced(h, g, l, S, n, h.next[n])
  PROVE  Chained(g, l, S \ {n})
<1>1. S \in SUBSET Addr /\ TopBelow(h.head[l], S, PoolEnd)
      /\ \A m \in S : TopBelow(h.next[m], S, m)
  BY DEF Chained
<1>2. \A m \in S : m \in Int /\ m # NULL /\ m < PoolEnd
  BY <1>1, AddrIs
<1>3. h.next[n] \in Int /\ PoolEnd \in Int /\ NULL \in Int
  BY <1>1, <1>2, TopBelowIs, AddrIs
<1>4. \A m \in S \ {n} : m < n => TopBelow(h.next[m], S \ {n}, m)
  BY <1>1, <1>2 DEF TopBelow
<1>5. CASE NextInFront(h, g, l, S, n, h.next[n])
  <2>0. /\ \A m \in S : m <= n
        /\ g.head[l] = h.next[n] /\ \A m \in S : g.next[m] = h.next[m]
    BY <1>5 DEF NextInFront
  <2>1. TopBelow(g.head[l], S \ {n}, PoolEnd)
    BY <1>1, <1>2, <1>3, <2>0 DEF TopBelow
  <2>2. \A m \in S \ {n} : TopBelow(g.next[m], S \ {n}, m)
    BY <1>2, <1>4, <2>0
  <2> QED BY <2>1, <2>2, <1>1 DEF Chained
<1>6. ASSUME NEW p \in S, NextAfter(h, g, l, S, n, p, h.next[n])
      PROVE  Chained(g, l, S \ {n})
  <2>0. /\ n < p /\ \A m \in S : n < m => p <= m
        /\ g.head[l] = h.head[l] /\ g.next[p] = h.next[n]
        /\ \A m \in S \ {p} : g.next[m] = h.next[m]
    BY <1>6 DEF NextAfter
  <2>1. TopBelow(g.head[l], S \ {n}, PoolEnd)
    BY <1>1, <1>2, <2>0 DEF TopBelow
  <2>2. TopBelow(g.next[p], S \ {n}, p)
    BY <1>1, <1>2, <1>3, <2>0 DEF TopBelow
  <2>3. \A m \in S \ {n, p} : p < m => TopBelow(g.next[m], S \ {n}, m)
    BY <1>1, <1>2, <2>0 DEF TopBelow
  <2>4. \A m \in S \ {n, p} : m < n \/ p < m
    BY <1>2, <2>0
  <2>5. \A m \in S \ {n} : TopBelow(g.next[m], S \ {n}, m)
    BY <2>2, <2>3, <2>4, <1>4, <2>0
  <2> QED BY <2>1, <2>5, <1>1 DEF Chained
<1> QED BY <1>5, <1>6 DEF Spliced

(* The chain with n, when it took the place the search found for it.         *)
LEMMA Lengthened ==
  ASSUME NEW h, NEW g, NEW l \in Lists, NEW S, Chained(h, l, S), NEW n \in Addr, n \notin S,
         TopBelow(g.next[n], S, n), Spliced(h, g, l, S, n, n)
  PROVE  Chained(g, l, S \cup {n})
<1>1. S \in SUBSET Addr /\ TopBelow(h.head[l], S, PoolEnd)
      /\ \A m \in S : TopBelow(h.next[m], S, m)
  BY DEF Chained
<1>2. /\ \A m \in S : m \in Int /\ m # NULL /\ m < PoolEnd
      /\ n \in Int /\ n # NULL /\ n < PoolEnd /\ PoolEnd \in Int /\ NULL \in Int
  BY <1>1, AddrIs
<1>3. TopBelow(g.next[n], S \cup {n}, n)
  BY <1>2 DEF TopBelow
<1>4. \A m \in S : m < n => TopBelow(h.next[m], S \cup {n}, m)
  BY <1>1, <1>2 DEF TopBelow
<1>5. CASE NextInFront(h, g, l, S, n, n)
  <2>0. /\ \A m \in S : m < n
        /\ g.head[l] = n /\ \A m \in S : g.next[m] = h.next[m]
    BY <1>2, <1>5 DEF NextInFront
  <2>1. TopBelow(g.head[l], S \cup {n}, PoolEnd)
    BY <1>1, <1>2, <2>0 DEF TopBelow
  <2>2. \A m \in S : TopBelow(g.next[m], S \cup {n}, m)
    BY <1>2, <1>4, <2>0
  <2> QED BY <2>1, <2>2, <1>1, <1>3 DEF Chained
<1>6. ASSUME NEW p \in S, NextAfter(h, g, l, S, n, p, n)
      PROVE  Chained(g, l, S \cup {n})
  <2>0. /\ n < p /\ \A m \in S : n < m => p <= m
        /\ g.head[l] = h.head[l] /\ g.next[p] = n
        /\ \A m \in S \ {p} : g.next[m] = h.next[m]
    BY <1>6 DEF NextAfter
  <2>1. TopBelow(g.head[l], S \cup {n}, PoolEnd)
    BY <1>1, <1>2, <2>0 DEF TopBelow
  <2>2. TopBelow(g.next[p], S \cup {n}, p)
    BY <1>1, <1>2, <2>0 DEF TopBelow
  <2>3. ASSUME NEW m \in S \ {p}, p < m
        PROVE  TopBelow(g.next[m], S \cup {n}, m)
    <3>1. TopBelow(h.next[m], S, m) /\ m \in Int /\ g.next[m] = h.next[m]
      BY <1>1, <1>2, <2>0
    <3>2. /\ h.next[m] \in S /\ h.next[m] < m /\ p <= h.next[m]
          /\ \A k \in S : k < m => k <= h.next[m]
      BY <2>3, <3>1, <1>1, TopBelowIs
    <3>3. n <= h.next[m]
      BY <3>2, <1>2, <2>0
    <3> QED BY <3>1, <3>2, <3>3 DEF TopBelow
  <2>4. \A m \in S \ {p} : m < n \/ p < m
    BY <1>2, <2>0
  <2>5. \A m \in S : TopBelow(g.next[m], S \cup {n}, m)
    BY <2>2, <2>3, <2>4, <1>4, <2>0
  <2> QED BY <2>1, <2>5, <1>1, <1>3 DEF Chained
<1> QED BY <1>5, <1>6 DEF Spliced

(* The place the search found, seen from a node of the list and from one     *)
(* that is not on it.                                                        *)
Place(s, S, n) ==
  \/ s.c = s.p /\ \A m \in S : m <= n
  \/ /\ s.c # s.p /\ s.p \in S /\ n < s.p /\ s.p \in Addr
     /\ \A m \in S : n < m => s.p <= m

LEMMA FoundNode ==
  ASSUME NEW h, NEW l \in Lists, NEW S, Chained(h, l, S), NEW n \in Addr,
         NEW s, s = Search(h, l, n)
  PROVE  /\ n \in S => s.c = n
         /\ n \notin S => TopBelow(s.c, S, n)
         /\ Place(s, S, n)
<1>1. S \in SUBSET Addr /\ n \in Int /\ n # NULL /\ NULL \in Int
      /\ \A m \in S : m \in Int /\ m # NULL
  BY AddrIs DEF Chained
<1>2. TopBelow(s.c, S, n + 1)
      /\ \/ s.p = s.c /\ \A m \in S : m <= n
         \/ s.p \in S /\ n < s.p /\ \A m \in S : n < m => s.p <= m
  BY <1>1, SearchFinds DEF Found
<1>3. /\ s.c \in S \cup {NULL} /\ s.c \in Int /\ (s.c # NULL => s.c < n + 1)
      /\ \A m \in S : m < n + 1 => s.c # NULL /\ m <= s.c
  BY <1>1, <1>2, TopBelowIs
<1>4. n \in S => s.c = n
  BY <1>1, <1>3
<1>5. n \notin S => TopBelow(s.c, S, n)
  BY <1>1, <1>2, <1>3 DEF TopBelow
<1>6. s.p \in S /\ n < s.p => s.c # s.p
  BY <1>1, <1>3
<1>7. Place(s, S, n)
  BY <1>1, <1>2, <1>6 DEF Place
<1> QED BY <1>4, <1>5, <1>7

Edited(h, hd, ln, nx) == [h EXCEPT !.head = hd, !.len = ln, !.next = nx]

IsEdited(g, h, hd, ln, nx) ==
  /\ g \in Heap /\ g.head = hd /\ g.len = ln /\ g.next = nx
  /\ g.rsize = h.rsize /\ g.usize = h.usize

LEMMA HeapEdited ==
  ASSUME NEW h \in Heap, NEW hd \in [Lists -> Int], NEW ln \in [Lists -> Int],
         NEW nx \in [Addr -> Int]
  PROVE  IsEdited(Edited(h, hd, ln, nx), h, hd, ln, nx)
BY DEF Heap, Edited, IsEdited

LEMMA DeleteUnlinks ==
  ASSUME NEW h \in Heap, NEW l \in Lists, NEW S, Chained(h, l, S), NEW n \in S
  PROVE  LET g == Delete(h, l, n)
         IN /\ g \in Heap /\ Chained(g, l, S \ {n}) /\ OthersKept(h, g, l, S)
            /\ g.len[l] = h.len[l] - 1 /\ g.rsize = h.rsize
<1> PICK s : s = Search(h, l, n)
  OBVIOUS
<1> PICK g : g = Delete(h, l, n)
  OBVIOUS
<1>1. n \in Addr /\ S \subseteq Addr
  BY DEF Chained
<1>2. s.c = n /\ Place(s, S, n)
  BY <1>1, FoundNode
<1>3. /\ h.head \in [Lists -> Int] /\ h.len \in [Lists -> Int] /\ h.next \in [Addr -> Int]
      /\ h.next[n] \in Int /\ h.len[l] - 1 \in Int
  BY <1>1 DEF Heap
<1> PICK ln : ln = [h.len EXCEPT ![l] = h.len[l] - 1]
  OBVIOUS
<1>4. ln \in [Lists -> Int] /\ ln[l] = h.len[l] - 1 /\ \A k \in Lists \ {l} : ln[k] = h.len[k]
  BY <1>3
<1>5. CASE s.c = s.p
  <2> PICK hd : hd = [h.head EXCEPT ![l] = h.next[n]]
    OBVIOUS
  <2> PICK nx : nx = h.next
    OBVIOUS
  <2>1. hd \in [Lists -> Int] /\ nx \in [Addr -> Int] /\ hd[l] = h.next[n] /\ \A k \in Lists \ {l} : hd[k] = h.head[k]
    BY <1>3
  <2>2. g = Edited(h, hd, ln, nx)
    BY <1>2, <1>5 DEF Delete, Heap, Edited
  <2>3. /\ g \in Heap /\ g.head = hd /\ g.len = ln /\ g.next = nx
        /\ g.rsize = h.rsize /\ g.usize = h.usize
    <3>1. hd \in [Lists -> Int] /\ ln \in [Lists -> Int] /\ nx \in [Addr -> Int]
      BY <2>1, <2>2, <1>4
    <3>2. IsEdited(g, h, hd, ln, nx)
      BY <2>1, <2>2, <1>4, <3>1, HeapEdited
    <3> QED BY <3>2 DEF IsEdited
  <2>4. OthersKept(h, g, l, S)
    BY <2>1, <2>3, <1>4 DEF OthersKept
  <2>5. \A m \in S : m <= n
    BY <1>2, <1>5 DEF Place
  <2>6. Spliced(h, g, l, S, n, h.next[n])
    BY <2>1, <2>3, <2>5 DEF Spliced, NextInFront
  <2> QED BY <2>3, <2>4, <2>6, <1>4, Shortened
<1>6. CASE s.c # s.p
  <2> PICK nx : nx = [h.next EXCEPT ![s.p] = h.next[n]]
    OBVIOUS
  <2>1. s.p \in S /\ n < s.p /\ s.p \in Addr /\ \A m \in S : n < m => s.p <= m
    BY <1>2, <1>6 DEF Place
  <2> PICK hd : hd = h.head
    OBVIOUS
  <2>2. hd \in [Lists -> Int] /\ nx \in [Addr -> Int] /\ nx[s.p] = h.next[n] /\ \A a \in Addr \ {s.p} : nx[a] = h.next[a]
    BY <2>1, <1>3
  <2>3. g = Edited(h, hd, ln, nx)
    BY <1>2, <1>6 DEF Delete, Heap, Edited
  <2>4. /\ g \in Heap /\ g.head = hd /\ g.len = ln /\ g.next = nx
        /\ g.rsize = h.rsize /\ g.usize = h.usize
    <3>1. hd \in [Lists -> Int] /\ ln \in [Lists -> Int] /\ nx \in [Addr -> Int]
      BY <2>2, <2>3, <1>4
    <3>2. IsEdited(g, h, hd, ln, nx)
      BY <2>2, <2>3, <1>4, <3>1, HeapEdited
    <3> QED BY <3>2 DEF IsEdited
  <2>5. OthersKept(h, g, l, S)
    BY <2>1, <2>2, <2>4, <1>4 DEF OthersKept
  <2>6. \A m \in S \ {s.p} : g.next[m] = h.next[m]
    BY <2>2, <2>4, <1>1
  <2>7. Spliced(h, g, l, S, n, h.next[n])
    <3>1. NextAfter(h, g, l, S, n, s.p, h.next[n])
      BY <2>1, <2>2, <2>4, <2>6 DEF NextAfter
    <3> QED BY <2>1, <3>1 DEF Spliced
  <2> QED BY <2>4, <2>5, <2>7, <1>4, Shortened
<1> QED BY <1>5, <1>6

LEMMA LinkedLinks ==
  ASSUME NEW h \in Heap, NEW l \in Lists, NEW S, Chained(h, l, S), NEW n \in Addr, n \notin S
  PROVE  LET g == Linked(h, l, n, Search(h, l, n))
         IN /\ g \in Heap /\ Chained(g, l, S \cup {n}) /\ OthersKept(h, g, l, S \cup {n})
            /\ g.len[l] = h.len[l] + 1 /\ g.rsize = h.rsize
<1> PICK s : s = Search(h, l, n)
  OBVIOUS
<1> PICK g : g = Linked(h, l, n, s)
  OBVIOUS
<1>1. S \in SUBSET Addr /\ n \in Int /\ \A m \in S : m \in Int
  BY AddrIs DEF Chained
<1>2. TopBelow(s.c, S, n) /\ Place(s, S, n)
  BY <1>1, FoundNode
<1>i. s.c \in Int
  BY <1>1, <1>2, TopBelowIs
<1>3. h.head \in [Lists -> Int] /\ h.len \in [Lists -> Int] /\ h.next \in [Addr -> Int]
      /\ h.len[l] + 1 \in Int
  BY DEF Heap
<1> PICK ln : ln = [h.len EXCEPT ![l] = h.len[l] + 1]
  OBVIOUS
<1>4. ln \in [Lists -> Int] /\ ln[l] = h.len[l] + 1 /\ \A k \in Lists \ {l} : ln[k] = h.len[k]
  BY <1>3
<1>5. CASE s.c = s.p
  <2> PICK hd : hd = [h.head EXCEPT ![l] = n]
    OBVIOUS
  <2> PICK nx : nx = [h.next EXCEPT ![n] = s.c]
    OBVIOUS
  <2>1. hd \in [Lists -> Int] /\ hd[l] = n /\ \A k \in Lists \ {l} : hd[k] = h.head[k]
    BY <1>1, <1>3
  <2>2. nx \in [Addr -> Int] /\ nx[n] = s.c /\ \A a \in Addr \ {n} : nx[a] = h.next[a]
    BY <1>i, <1>3
  <2>3. g = Edited(h, hd, ln, nx)
    BY <1>5 DEF Linked, Heap, Edited
  <2>4. /\ g \in Heap /\ g.head = hd /\ g.len = ln /\ g.next = nx
        /\ g.rsize = h.rsize /\ g.usize = h.usize
    <3>1. hd \in [Lists -> Int] /\ ln \in [Lists -> Int] /\ nx \in [Addr -> Int]
      BY <2>1, <2>2, <2>3, <1>4
    <3>2. IsEdited(g, h, hd, ln, nx)
      BY <2>1, <2>2, <2>3, <1>4, <3>1, HeapEdited
    <3> QED BY <3>2 DEF IsEdited
  <2>5. OthersKept(h, g, l, S \cup {n})
    BY <2>1, <2>2, <2>4, <1>4 DEF OthersKept
  <2>6. \A m \in S : m <= n /\ g.next[m] = h.next[m]
    BY <2>2, <2>4, <1>1, <1>2, <1>5 DEF Place
  <2>7. Spliced(h, g, l, S, n, n)
    BY <2>1, <2>4, <2>6 DEF Spliced, NextInFront
  <2>8. TopBelow(g.next[n], S, n)
    BY <2>2, <2>4, <1>2
  <2> QED BY <2>4, <2>5, <2>7, <2>8, <1>4, Lengthened
<1>6. CASE s.c # s.p
  <2> PICK nx : nx = [h.next EXCEPT ![n] = s.c, ![s.p] = n]
    OBVIOUS
  <2>1. s.p \in S /\ n < s.p /\ s.p \in Addr /\ s.p # n /\ \A m \in S : n < m => s.p <= m
    BY <1>2, <1>6 DEF Place
  <2> PICK hd : hd = h.head
    OBVIOUS
  <2>2. /\ hd \in [Lists -> Int] /\ nx \in [Addr -> Int] /\ nx[s.p] = n /\ nx[n] = s.c
        /\ \A a \in Addr \ {n, s.p} : nx[a] = h.next[a]
    BY <2>1, <1>1, <1>i, <1>3
  <2>3. g = Edited(h, hd, ln, nx)
    BY <1>6 DEF Linked, Heap, Edited
  <2>4. /\ g \in Heap /\ g.head = hd /\ g.len = ln /\ g.next = nx
        /\ g.rsize = h.rsize /\ g.usize = h.usize
    <3>1. hd \in [Lists -> Int] /\ ln \in [Lists -> Int] /\ nx \in [Addr -> Int]
      BY <2>2, <2>3, <1>4
    <3>2. IsEdited(g, h, hd, ln, nx)
      BY <2>2, <2>3, <1>4, <3>1, HeapEdited
    <3> QED BY <3>2 DEF IsEdited
  <2>5. OthersKept(h, g, l, S \cup {n})
    BY <2>1, <2>2, <2>4, <1>4 DEF OthersKept
  <2>6. \A m \in S \ {s.p} : g.next[m] = h.next[m]
    BY <2>2, <2>4, <1>1
  <2>7. Spliced(h, g, l, S, n, n)
    <3>1. NextAfter(h, g, l, S, n, s.p, n)
      BY <2>1, <2>2, <2>4, <2>6 DEF NextAfter
    <3> QED BY <2>1, <3>1 DEF Spliced
  <2>8. TopBelow(g.next[n], S, n)
    BY <2>2, <2>4, <1>2
  <2> QED BY <2>4, <2>5, <2>7, <2>8, <1>4, Lengthened
<1> QED BY <1>5, <1>6

-------------------------------------------------------------------------------
(* Headers that are in use, as the sets of SMalloc see them.                 *)
Real(h, U) == [a \in Addr |-> IF a \in U THEN h.rsize[a] ELSE 0]

FreeOf(h, S, U) == [nodes |-> S, rsize |-> Real(h, U), len |-> h.len["AVAILABLE"]]

(* Heap g, in which of the nodes B and of the headers U only k.nodes and the *)
(* headers outside B are left, has the free list k.                          *)
Matches(h, g, B, U, k) ==
  /\ g \in Heap /\ Chained(g, "AVAILABLE", k.nodes) /\ OthersKept(h, g, "AVAILABLE", B)
  /\ k.len = g.len["AVAILABLE"] /\ k.nodes \subseteq B
  /\ k.rsize = Real(g, (U \ B) \cup k.nodes)
  /\ \A a \in Addr \ B : g.rsize[a] = h.rsize[a]

LEMMA SetsHas ==
  /\ \A rs, n, m : Sets!ADJACENT(rs, n, m) <=> n + OVERHEAD + rs[n] = m
  /\ \A n : Sets!ADDR(n) = ADDR(n)
  /\ \A p : Sets!ALIGN(p) = ALIGN(p)
  /\ Sets!Addr = Addr
  /\ \A p, s : Sets!CopyTraps(p, s) <=> CopyTraps(p, s)
BY DEF Sets!ADJACENT, Sets!AFTER, Sets!ADDR, ADDR, Sets!ALIGN, ALIGN, Sets!Addr, Addr,
       Sets!CopyTraps, CopyTraps

LEMMA AdjacentIs ==
  \A h, n, m : ADJACENT(h, n, m) <=> n + OVERHEAD + h.rsize[n] = m
BY DEF ADJACENT, AFTER, ADDR

(* A header word is written. *)
Resized(h, c, x) == [h EXCEPT !.rsize = [h.rsize EXCEPT ![c] = x]]

IsResized(g, h, c, x) ==
  /\ g \in Heap /\ g.head = h.head /\ g.len = h.len /\ g.next = h.next /\ g.usize = h.usize
  /\ g.rsize[c] = x /\ \A a \in Addr \ {c} : g.rsize[a] = h.rsize[a]

LEMMA HeapResized ==
  ASSUME NEW h \in Heap, NEW c \in Addr, NEW x \in Nat
  PROVE  IsResized(Resized(h, c, x), h, c, x)
<1> PICK rs : rs = [h.rsize EXCEPT ![c] = x]
  OBVIOUS
<1>1. h.rsize \in [Addr -> Nat]
  BY DEF Heap
<1>2. rs \in [Addr -> Nat] /\ rs[c] = x /\ \A a \in Addr \ {c} : rs[a] = h.rsize[a]
  BY <1>1
<1> PICK g : g = [h EXCEPT !.rsize = rs]
  OBVIOUS
<1>3. /\ g \in Heap /\ g.head = h.head /\ g.len = h.len /\ g.next = h.next
      /\ g.usize = h.usize /\ g.rsize = rs
  BY <1>2 DEF Heap
<1>4. g = Resized(h, c, x)
  BY DEF Resized
<1>5. IsResized(g, h, c, x)
  BY <1>2, <1>3 DEF IsResized
<1> QED BY <1>4, <1>5

LEMMA TakeOverUnlinks ==
  ASSUME NEW h \in Heap, NEW S, Chained(h, "AVAILABLE", S), NEW c \in S, NEW p \in S, c # p,
         NEW g, g = TakeOver(h, c, p)
  PROVE  /\ g \in Heap /\ Chained(g, "AVAILABLE", S \ {p}) /\ OthersKept(h, g, "AVAILABLE", S)
         /\ g.len["AVAILABLE"] = h.len["AVAILABLE"] - 1
         /\ g.rsize[c] = h.rsize[c] + OVERHEAD + h.rsize[p]
         /\ \A a \in Addr \ {c} : g.rsize[a] = h.rsize[a]
<1> DEFINE x == h.rsize[c] + OVERHEAD + h.rsize[p]
<1>1. S \subseteq Addr /\ c \in Addr /\ p \in Addr /\ "AVAILABLE" \in Lists
  BY DEF Chained, Lists
<1>2. x \in Nat
  BY <1>1, ListAssumption DEF ListAssumption, Heap
<1> PICK u : u = Delete(h, "AVAILABLE", p)
  OBVIOUS
<1>3. /\ u \in Heap /\ Chained(u, "AVAILABLE", S \ {p}) /\ OthersKept(h, u, "AVAILABLE", S)
      /\ u.len["AVAILABLE"] = h.len["AVAILABLE"] - 1 /\ u.rsize = h.rsize
  BY <1>1, DeleteUnlinks
<1>4. g = Resized(u, c, x)
  BY <1>3 DEF TakeOver, Resized
<1> HIDE DEF x
<1>5. IsResized(g, u, c, x)
  BY <1>1, <1>2, <1>3, <1>4, HeapResized
<1>6. /\ g \in Heap /\ g.head = u.head /\ g.len = u.len /\ g.next = u.next /\ g.usize = u.usize
      /\ g.rsize[c] = x /\ \A a \in Addr \ {c} : g.rsize[a] = u.rsize[a]
  BY <1>5 DEF IsResized
<1>7. Chained(g, "AVAILABLE", S \ {p})
  BY <1>3, <1>6, ChainKept
<1>8. OthersKept(h, g, "AVAILABLE", S)
  BY <1>3, <1>6 DEF OthersKept
<1> QED BY <1>3, <1>6, <1>7, <1>8 DEF x

(* Looking at the blocks after c on the list finds what SMalloc finds in the *)
(* set of nodes.                                                             *)
LEMMA AbsorbImplements ==
  ASSUME NEW j \in Heap, NEW Q, Chained(j, "AVAILABLE", Q), NEW c \in Q,
         NEW V \in SUBSET Addr, Q \subseteq V, NEW g,
         \/ g = j /\ \A p \in Q : ~ ADJACENT(j, c, p)
         \/ \E p \in Q : ADJACENT(j, c, p) /\ g = TakeOver(j, c, p)
  PROVE  Matches(j, g, Q, V, Sets!AbsorbUpper(FreeOf(j, Q, V), c))
<1> DEFINE f == FreeOf(j, Q, V)
           rs == Real(j, V)
<1>1. Q \subseteq Addr /\ c \in Addr /\ c \in Int /\ \A a \in Addr : j.rsize[a] \in Nat
  BY AddrIs DEF Chained, Heap
<1>2. rs = [a \in Addr |-> rs[a]] /\ \A a \in Addr : rs[a] = IF a \in V THEN j.rsize[a] ELSE 0
  BY DEF Real
<1>3. f.nodes = Q /\ f.rsize = rs /\ f.len = j.len["AVAILABLE"]
  BY DEF FreeOf
<1>4. \A p : ADJACENT(j, c, p) <=> c + OVERHEAD + j.rsize[c] = p
  BY AdjacentIs
<1>5. Sets!UpperNeighbours(f, c) = {p \in Q : ADJACENT(j, c, p)}
  <2>1. rs[c] = j.rsize[c]
    BY <1>1, <1>2
  <2>2. \A p : Sets!ADJACENT(rs, c, p) <=> ADJACENT(j, c, p)
    BY <2>1, <1>4, SetsHas
  <2> QED BY <2>2, <1>3 DEF Sets!UpperNeighbours
<1> HIDE DEF f, rs
<1>6. CASE g = j /\ \A p \in Q : ~ ADJACENT(j, c, p)
  <2>1. Sets!AbsorbUpper(f, c) = f
    BY <1>5, <1>6 DEF Sets!AbsorbUpper
  <2>2. (V \ Q) \cup Q = V
    OBVIOUS
  <2>3. Matches(j, g, Q, V, f)
    BY <2>2, <1>3, <1>6 DEF Matches, OthersKept, rs
  <2> QED BY <2>1, <2>3 DEF f
<1>7. ASSUME NEW p \in Q, ADJACENT(j, c, p), g = TakeOver(j, c, p)
      PROVE  Matches(j, g, Q, V, Sets!AbsorbUpper(f, c))
  <2>1. c # p
    BY <1>1, <1>4, <1>7, ListAssumption DEF ListAssumption
  <2>2. /\ g \in Heap /\ Chained(g, "AVAILABLE", Q \ {p}) /\ OthersKept(j, g, "AVAILABLE", Q)
        /\ g.len["AVAILABLE"] = j.len["AVAILABLE"] - 1
        /\ g.rsize[c] = j.rsize[c] + OVERHEAD + j.rsize[p]
        /\ \A a \in Addr \ {c} : g.rsize[a] = j.rsize[a]
    BY <2>1, <1>7, TakeOverUnlinks
  <2>3. Sets!UpperNeighbours(f, c) = {p}
    BY <1>4, <1>5, <1>7
  <2> DEFINE k == [nodes |-> Q \ {p}, rsize |-> Sets!Absorb(rs, c, p),
                   len |-> j.len["AVAILABLE"] - 1]
  <2>4. Sets!AbsorbUpper(f, c) = k
    BY <2>3, <1>3 DEF Sets!AbsorbUpper
  <2> DEFINE W == (V \ Q) \cup (Q \ {p})
  <2>5. \A a : a \in W <=> a \in V /\ a # p
    BY <1>7
  <2> HIDE DEF W
  <2>6. Sets!Absorb(rs, c, p) = Real(g, W)
    <3>1. Sets!Absorb(rs, c, p) = [rs EXCEPT ![c] = rs[c] + OVERHEAD + rs[p], ![p] = 0]
      BY DEF Sets!Absorb
    <3>2. \A a \in Addr : Sets!Absorb(rs, c, p)[a] =
                            IF a = p THEN 0 ELSE IF a = c THEN rs[c] + OVERHEAD + rs[p] ELSE rs[a]
      BY <3>1, <2>1, <1>1, <1>2
    <3>3. Sets!Absorb(rs, c, p) = [a \in Addr |-> Sets!Absorb(rs, c, p)[a]]
      BY <3>1, <1>2
    <3>4. rs[c] = j.rsize[c] /\ rs[p] = j.rsize[p]
      BY <1>1, <1>2
    <3>5. \A a \in Addr : Sets!Absorb(rs, c, p)[a] = IF a \in W THEN g.rsize[a] ELSE 0
      BY <3>2, <3>4, <2>1, <2>2, <2>5, <1>1, <1>2
    <3> HIDE DEF W
    <3> QED BY <3>3, <3>5 DEF Real
  <2>7. k.nodes = Q \ {p} /\ k.rsize = Real(g, W) /\ k.len = g.len["AVAILABLE"]
    BY <2>2, <2>6
  <2> HIDE DEF k
  <2>8. W = (V \ Q) \cup k.nodes
    BY <2>7 DEF W
  <2>9. \A a \in Addr \ Q : g.rsize[a] = j.rsize[a]
    BY <2>2, <1>1
  <2>10. Matches(j, g, Q, V, k)
    BY <2>2, <2>7, <2>8, <2>9 DEF Matches
  <2> QED BY <2>4, <2>10
<1> QED BY <1>6, <1>7 DEF f

(* No block of B reaches into the next one.                                  *)
Blocks(h, B) == \A m, k \in B : m < k => AFTER(h, m) <= k

(* insert asks only the nodes its walk stopped between, and finds the block  *)
(* below n and the one above it when they touch.                             *)
LEMMA InsertFree ==
  ASSUME NEW h \in Heap, NEW S, Chained(h, "AVAILABLE", S), NEW n \in Addr, n \notin S,
         NEW U \in SUBSET Addr, S \cup {n} \subseteq U, Blocks(h, S \cup {n})
  PROVE  Matches(h, Insert(h, "AVAILABLE", n), S \cup {n}, U,
                 Sets!InsertAvailable(FreeOf(h, S, U), n))
<1> DEFINE f == FreeOf(h, S, U)
           rs == Real(h, U)
<1> PICK s : s = Search(h, "AVAILABLE", n)
  OBVIOUS
<1> PICK g : g = Insert(h, "AVAILABLE", n)
  OBVIOUS
<1>1. /\ S \in SUBSET Addr /\ S \subseteq Addr /\ n \in Int /\ OVERHEAD \in Nat \ {0}
      /\ "AVAILABLE" \in Lists /\ h.rsize \in [Addr -> Nat]
      /\ \A a \in Addr : h.rsize[a] \in Nat /\ a \in Int /\ a # NULL
  BY AddrIs, ListAssumption DEF Chained, Heap, Lists, ListAssumption
<1>2. rs = [a \in Addr |-> rs[a]] /\ \A a \in Addr : rs[a] = IF a \in U THEN h.rsize[a] ELSE 0
  BY DEF Real
<1>3. f.nodes = S /\ f.rsize = rs /\ f.len = h.len["AVAILABLE"]
      /\ f = [nodes |-> S, rsize |-> rs, len |-> h.len["AVAILABLE"]]
  BY DEF FreeOf
<1> HIDE DEF f, rs
<1>4. TopBelow(s.c, S, n) /\ Place(s, S, n)
  BY <1>1, FoundNode
<1>5. /\ s.c \in S \cup {NULL} /\ s.c \in Int /\ (s.c # NULL => s.c \in S /\ s.c < n)
      /\ \A m \in S : m < n => s.c # NULL /\ m <= s.c
  BY <1>1, <1>4, TopBelowIs
<1>6. \A m \in S \cup {n} : AFTER(h, m) = m + OVERHEAD + h.rsize[m] /\ AFTER(h, m) \in Int
                            /\ m < AFTER(h, m)
  <2> TAKE m \in S \cup {n}
  <2>1. m \in Addr /\ m \in Int /\ h.rsize[m] \in Nat
    BY <1>1
  <2> QED BY <2>1, <1>1 DEF AFTER, ADDR
<1>7. \A c \in S : ADJACENT(h, c, n) => s.c # NULL /\ c = s.c
  <2> SUFFICES ASSUME NEW c \in S, ADJACENT(h, c, n) PROVE s.c # NULL /\ c = s.c
    OBVIOUS
  <2>1. AFTER(h, c) = n /\ c < n /\ c \in Int
    BY <1>1, <1>6 DEF ADJACENT
  <2>2. s.c # NULL /\ c <= s.c /\ s.c \in S /\ s.c < n
    BY <2>1, <1>5
  <2>3. ~ (c < s.c)
    BY <2>1, <2>2, <1>1, <1>5 DEF Blocks
  <2> QED BY <2>1, <2>2, <2>3, <1>5
<1>8. Sets!LowerNeighbours(f, n) = {c \in S : ADJACENT(h, c, n)}
  <2>1. \A c \in S : rs[c] = h.rsize[c]
    BY <1>1, <1>2
  <2>2. \A c \in S : Sets!ADJACENT(rs, c, n) <=> ADJACENT(h, c, n)
    BY <2>1, SetsHas, AdjacentIs
  <2> QED BY <2>2, <1>3 DEF Sets!LowerNeighbours
(* The block above n, if they touch, is the one the walk stopped behind.     *)
<1>9. \A p \in S : p = AFTER(h, n) => s.c # s.p /\ p = s.p
  <2> SUFFICES ASSUME NEW p \in S, p = AFTER(h, n) PROVE s.c # s.p /\ p = s.p
    OBVIOUS
  <2>1. n < p /\ p \in Int
    BY <1>1, <1>6
  <2>2. ~ (p <= n)
    BY <2>1, <1>1
  <2>3. s.c # s.p /\ s.p \in S /\ n < s.p /\ s.p <= p
    BY <2>1, <2>2, <1>4 DEF Place
  <2>4. p <= s.p
    BY <2>3 DEF Blocks
  <2>5. s.p \in Int
    BY <2>3, <1>1
  <2> QED BY <2>1, <2>3, <2>4, <2>5
<1>10. s.p = AFTER(h, n) /\ s.c < n => s.p \in S
  BY <1>1, <1>4, <1>5, <1>6 DEF Place
<1>11. ASSUME s.c # NULL, ADJACENT(h, s.c, n)
       PROVE  Matches(h, g, S \cup {n}, U, Sets!InsertAvailable(f, n))
  <2> PICK c : c = s.c
    OBVIOUS
  <2> PICK x : x = h.rsize[c] + OVERHEAD + h.rsize[n]
    OBVIOUS
  <2> PICK j : j = Resized(h, c, x)
    OBVIOUS
  <2>1. /\ c \in S /\ c \in Addr /\ c < n /\ c # n /\ c \in Int /\ x \in Nat
        /\ c + OVERHEAD + h.rsize[c] = n /\ ADJACENT(h, c, n)
    BY <1>1, <1>5, <1>11, AdjacentIs
  <2>2. IsResized(j, h, c, x)
    BY <2>1, HeapResized, SMTT(40)
  <2>3. /\ j \in Heap /\ j.head = h.head /\ j.len = h.len /\ j.next = h.next /\ j.usize = h.usize
        /\ j.rsize[c] = x /\ \A a \in Addr \ {c} : j.rsize[a] = h.rsize[a]
    BY <2>2 DEF IsResized
  <2>4. Chained(j, "AVAILABLE", S)
    BY <2>3, ChainKept
  <2>5. \A p : ADJACENT(j, c, p) <=> p = AFTER(h, n)
    <3>1. c + OVERHEAD + j.rsize[c] = AFTER(h, n)
      BY <2>1, <2>3, <1>1, <1>6
    <3> QED BY <3>1, AdjacentIs
  <2>6. g = IF ADJACENT(j, c, s.p) THEN TakeOver(j, c, s.p) ELSE j
    <3>1. j = [h EXCEPT !.rsize[c] = @ + OVERHEAD + h.rsize[n]]
      BY DEF Resized
    <3> QED BY <3>1, <1>11 DEF Insert
  <2>7. \/ g = j /\ \A p \in S : ~ ADJACENT(j, c, p)
        \/ \E p \in S : ADJACENT(j, c, p) /\ g = TakeOver(j, c, p)
    <3>1. CASE ADJACENT(j, c, s.p)
      BY <3>1, <2>1, <2>5, <2>6, <1>10
    <3>2. CASE ~ ADJACENT(j, c, s.p)
      BY <3>2, <2>5, <2>6, <1>9
    <3> QED BY <3>1, <3>2
  <2> DEFINE V == U \ {n}
  <2>8. V \in SUBSET Addr /\ S \subseteq V
    OBVIOUS
  <2> PICK k : k = Sets!AbsorbUpper(FreeOf(j, S, V), c)
    BY SMTT(40)
  <2>9. Matches(j, g, S, V, k)
    BY <2>1, <2>3, <2>4, <2>7, <2>8, AbsorbImplements
  <2>10. Sets!Absorb(rs, c, n) = Real(j, V)
    <3>1. Sets!Absorb(rs, c, n) = [rs EXCEPT ![c] = rs[c] + OVERHEAD + rs[n], ![n] = 0]
      BY DEF Sets!Absorb
    <3>2. \A a \in Addr : Sets!Absorb(rs, c, n)[a] =
                            IF a = n THEN 0 ELSE IF a = c THEN rs[c] + OVERHEAD + rs[n] ELSE rs[a]
      BY <3>1, <2>1, <1>1, <1>2
    <3>3. Sets!Absorb(rs, c, n) = [a \in Addr |-> Sets!Absorb(rs, c, n)[a]]
      BY <3>1, <1>2
    <3>4. rs[c] = h.rsize[c] /\ rs[n] = h.rsize[n] /\ c \in V
      BY <2>1, <1>1, <1>2
    <3>5. \A a \in Addr : Sets!Absorb(rs, c, n)[a] = IF a \in V THEN j.rsize[a] ELSE 0
      <4> SUFFICES ASSUME NEW a \in Addr
                   PROVE  Sets!Absorb(rs, c, n)[a] = IF a \in V THEN j.rsize[a] ELSE 0
        OBVIOUS
      <4>1. CASE a = n
        BY <4>1, <3>2
      <4>2. CASE a = c
        BY <4>2, <3>2, <3>4, <2>1, <2>3
      <4>3. CASE a # n /\ a # c
        <5>1. Sets!Absorb(rs, c, n)[a] = rs[a]
          BY <4>3, <3>2
        <5>2. j.rsize[a] = h.rsize[a]
          BY <4>3, <2>3
        <5>3. rs[a] = IF a \in U THEN h.rsize[a] ELSE 0
          BY <1>2
        <5> QED BY <4>3, <5>1, <5>2, <5>3
      <4> QED BY <4>1, <4>2, <4>3
    <3> HIDE DEF V
    <3> QED BY <3>3, <3>5 DEF Real
  <2>11. Sets!InsertAvailable(f, n) = k
    <3>1. Sets!LowerNeighbours(f, n) = {c}
      BY <1>7, <1>8, <2>1
    <3>2. Sets!InsertAvailable(f, n) = Sets!AbsorbUpper([f EXCEPT !.rsize = Sets!Absorb(f.rsize, c, n)], c)
      BY <3>1 DEF Sets!InsertAvailable
    <3>3. [f EXCEPT !.rsize = Sets!Absorb(f.rsize, c, n)] = FreeOf(j, S, V)
      <4> PICK q : q = Sets!Absorb(f.rsize, c, n)
        OBVIOUS
      <4>1. q = Real(j, V) /\ j.len["AVAILABLE"] = h.len["AVAILABLE"]
        BY <1>3, <2>3, <2>10
      <4>2. [f EXCEPT !.rsize = q] = [nodes |-> S, rsize |-> q, len |-> h.len["AVAILABLE"]]
        BY <1>3, SMTT(40)
      <4> QED BY <4>1, <4>2 DEF FreeOf
    <3> QED BY <3>2, <3>3
  <2>12. Matches(h, g, S \cup {n}, U, k)
    <3>1. /\ g \in Heap /\ Chained(g, "AVAILABLE", k.nodes) /\ OthersKept(j, g, "AVAILABLE", S)
          /\ k.len = g.len["AVAILABLE"] /\ k.nodes \subseteq S
          /\ k.rsize = Real(g, (V \ S) \cup k.nodes)
          /\ \A a \in Addr \ S : g.rsize[a] = j.rsize[a]
      BY <2>9 DEF Matches
    <3>2. (V \ S) \cup k.nodes = (U \ (S \cup {n})) \cup k.nodes
      OBVIOUS
    <3>3. OthersKept(h, g, "AVAILABLE", S \cup {n})
      <4>1. S \subseteq S \cup {n}
        OBVIOUS
      <4> QED BY <4>1, <3>1, <2>3, OthersKeptAfter, Zenon
    <3>4. \A a \in Addr \ (S \cup {n}) : g.rsize[a] = h.rsize[a]
      <4> TAKE a \in Addr \ (S \cup {n})
      <4>1. a \in Addr \ S /\ a \in Addr \ {c}
        BY <2>1, SMTT(40)
      <4>2. g.rsize[a] = j.rsize[a]
        BY <4>1, <3>1
      <4>3. j.rsize[a] = h.rsize[a]
        BY <4>1, <2>3
      <4> QED BY <4>2, <4>3
    <3> QED BY <3>1, <3>2, <3>3, <3>4 DEF Matches
  <2> QED BY <2>11, <2>12
<1>12. ASSUME ~ (s.c # NULL /\ ADJACENT(h, s.c, n))
       PROVE  Matches(h, g, S \cup {n}, U, Sets!InsertAvailable(f, n))
  <2> PICK j : j = Linked(h, "AVAILABLE", n, s)
    OBVIOUS
  <2> DEFINE Q == S \cup {n}
  <2>1. /\ j \in Heap /\ Chained(j, "AVAILABLE", Q) /\ OthersKept(h, j, "AVAILABLE", Q)
        /\ j.len["AVAILABLE"] = h.len["AVAILABLE"] + 1 /\ j.rsize = h.rsize
    BY <1>1, LinkedLinks, SMTT(40)
  <2>2. \A m, p : ADJACENT(j, m, p) <=> ADJACENT(h, m, p)
    BY <2>1, AdjacentIs
  <2>3. \A p : ADJACENT(h, n, p) <=> p = AFTER(h, n)
    BY DEF ADJACENT
  <2>4. g = IF s.c # s.p /\ ADJACENT(j, n, s.p) THEN TakeOver(j, n, s.p) ELSE j
    BY <1>12 DEF Insert
  <2>5. \/ g = j /\ \A p \in Q : ~ ADJACENT(j, n, p)
        \/ \E p \in Q : ADJACENT(j, n, p) /\ g = TakeOver(j, n, p)
    <3>1. CASE s.c # s.p /\ ADJACENT(j, n, s.p)
      <4>1. s.p \in S
        BY <3>1, <1>4 DEF Place
      <4> QED BY <3>1, <4>1, <2>4
    <3>2. CASE ~ (s.c # s.p /\ ADJACENT(j, n, s.p))
      <4>1. n # AFTER(h, n)
        BY <1>1, <1>6
      <4>2. \A p \in S : ~ ADJACENT(j, n, p)
        BY <3>2, <2>2, <2>3, <1>9
      <4> QED BY <3>2, <4>1, <4>2, <2>2, <2>3, <2>4
    <3> QED BY <3>1, <3>2
  <2> PICK k : k = Sets!AbsorbUpper(FreeOf(j, Q, U), n)
    OBVIOUS
  <2>6. Matches(j, g, Q, U, k)
    <3>1. n \in Q /\ Q \subseteq U
      OBVIOUS
    <3> HIDE DEF Q
    <3> QED BY <3>1, <2>1, <2>5, AbsorbImplements
  <2>7. Sets!InsertAvailable(f, n) = k
    <3>1. Sets!LowerNeighbours(f, n) = {}
      BY <1>7, <1>8, <1>12
    <3>2. Sets!InsertAvailable(f, n) =
            Sets!AbsorbUpper([nodes |-> f.nodes \cup {n}, rsize |-> f.rsize, len |-> f.len + 1], n)
      BY <3>1 DEF Sets!InsertAvailable
    <3>3. [nodes |-> f.nodes \cup {n}, rsize |-> f.rsize, len |-> f.len + 1] = FreeOf(j, Q, U)
      BY <1>3, <2>1 DEF FreeOf, Real, rs
    <3> QED BY <3>2, <3>3
  <2> HIDE DEF Q
  <2>8. Matches(h, g, Q, U, k)
    <3>1. OthersKept(h, g, "AVAILABLE", Q)
      BY <2>1, <2>6 DEF Matches, OthersKept
    <3> QED BY <3>1, <2>1, <2>6 DEF Matches
  <2> QED BY <2>7, <2>8 DEF Q
<1> QED BY <1>11, <1>12 DEF f

-------------------------------------------------------------------------------
(* find returns the node whose data the pointer is, if it is on the list.    *)
LEMMA FindIs ==
  ASSUME NEW h, NEW T, Chained(h, "ALLOCATED", T), NEW ptr \in Int
  PROVE  /\ Find(h, ptr) = NULL <=> \A t \in T : ADDR(t) # ptr
         /\ Find(h, ptr) # NULL => Find(h, ptr) \in T /\ ADDR(Find(h, ptr)) = ptr
<1> PICK n : n = ptr - OVERHEAD
  OBVIOUS
<1>1. /\ T \in SUBSET Addr /\ n \in Int /\ "ALLOCATED" \in Lists /\ OVERHEAD \in Int
      /\ \A t \in T : t \in Int /\ t # NULL
  BY AddrIs, ListAssumption DEF Chained, Lists, ListAssumption
<1> PICK c : c = Search(h, "ALLOCATED", n).c
  OBVIOUS
<1>2. TopBelow(c, T, n + 1)
  BY <1>1, SearchFinds DEF Found
<1>3. /\ c \in T \cup {NULL} /\ c \in Int /\ (c # NULL => c < n + 1)
      /\ \A t \in T : t < n + 1 => c # NULL /\ t <= c
  BY <1>1, <1>2, TopBelowIs
<1>4. \A t \in T : ADDR(t) = ptr <=> t = n
  BY <1>1 DEF ADDR
<1>5. \A t \in T : ADDR(t) = ptr => c = t
  BY <1>1, <1>3, <1>4
<1>6. Find(h, ptr) = IF c # NULL /\ ADDR(c) = ptr THEN c ELSE NULL
  BY DEF Find
<1> QED BY <1>1, <1>3, <1>5, <1>6

(* The scan bestfit writes as a loop.                                        *)
LEMMA ScanSteps ==
  ASSUME NEW h, NEW size, NEW nth, nth = Nth(h, h.head["AVAILABLE"]),
         NEW k, k = Cardinality(Addr)
  PROVE  \E scan : /\ BestFit(h, size) = scan[k].b
                   /\ scan[0] = [best |-> MAXINT, b |-> NULL]
                   /\ \A i \in 1 .. k : scan[i] = Better(h, nth, size, i, scan[i - 1])
<1>0. k \in Nat
  BY AddrFinite
<1> PICK x : x = [best |-> MAXINT, b |-> NULL]
  OBVIOUS
<1> DEFINE Scan(g) == g = [i \in 0 .. k |->
                            IF i = 0 THEN [best |-> MAXINT, b |-> NULL]
                            ELSE LET c == nth[i - 1]
                                     over == h.rsize[c] - size
                                 IN IF c # NULL /\ h.rsize[c] >= size
                                       /\ (over < g[i - 1].best \/ c = nth[0])
                                    THEN [best |-> over, b |-> c]
                                    ELSE g[i - 1]]
           Loop(g) == g = [i \in 0 .. k |-> IF i = 0 THEN x ELSE Better(h, nth, size, i, g[i - 1])]
           scan == CHOOSE g : Scan(g)
<1>1. \A g : Scan(g) <=> Loop(g)
  BY DEF Better
<1>2. BestFit(h, size) = scan[k].b
  BY DEF BestFit
<1>3. PICK f : Rounds("scan", h, nth, size, x, k, f)
  BY <1>0, RoundsExist
<1>4. Loop(f)
  <2>1. f = [i \in 0 .. k |-> f[i]] /\ f[0] = x
        /\ \A i \in 1 .. k : f[i] = Better(h, nth, size, i, f[i - 1])
    BY <1>3 DEF Rounds, Round
  <2>2. \A i \in 0 .. k : f[i] = IF i = 0 THEN x ELSE Better(h, nth, size, i, f[i - 1])
    <3> TAKE i \in 0 .. k
    <3>1. i # 0 => i \in 1 .. k
      BY <1>0
    <3> QED BY <2>1, <3>1
  <2> QED BY <2>1, <2>2
<1> HIDE DEF Scan
<1>5. Scan(scan)
  BY <1>1, <1>4
<1> HIDE DEF scan
<1>6. Loop(scan)
  BY <1>1, <1>5
<1>7. scan[0] = x
  BY <1>0, <1>6
<1>8. ASSUME NEW i \in 1 .. k PROVE scan[i] = Better(h, nth, size, i, scan[i - 1])
  <2>1. i \in 0 .. k /\ i # 0
    BY <1>0
  <2> QED BY <2>1, <1>6
<1> QED BY <1>2, <1>7, <1>8

(* x is what the scan has to keep of the nodes P it has seen.                *)
BestOf(x, h, P, size) ==
  \/ x.b = NULL /\ x.best = MAXINT /\ \A m \in P : h.rsize[m] < size
  \/ /\ x.b \in P /\ x.best = h.rsize[x.b] - size /\ h.rsize[x.b] >= size
     /\ \A m \in P : h.rsize[m] >= size => \/ h.rsize[x.b] < h.rsize[m]
                                           \/ h.rsize[x.b] = h.rsize[m] /\ m <= x.b

(* bestfit settles on the node that SMalloc's bestfit may choose.            *)
LEMMA BestFitIs ==
  ASSUME NEW h \in Heap, NEW S, Chained(h, "AVAILABLE", S), NEW size \in Nat,
         \A m \in S : AFTER(h, m) <= PoolEnd
  PROVE  LET b == BestFit(h, size)
         IN /\ b = NULL <=> \A m \in S : h.rsize[m] < size
            /\ b # NULL => /\ b \in S /\ h.rsize[b] >= size
                           /\ \A m \in S : h.rsize[m] >= size =>
                                \/ h.rsize[b] < h.rsize[m]
                                \/ h.rsize[b] = h.rsize[m] /\ m <= b
<1> PICK nth : nth = Nth(h, h.head["AVAILABLE"])
  OBVIOUS
<1> PICK k : k = Cardinality(Addr)
  OBVIOUS
<1>1. /\ DOMAIN nth = 0 .. k /\ nth[0] = h.head["AVAILABLE"] /\ k \in Nat \ {0}
      /\ \A i \in 0 .. k : nth[i] \in S \cup {NULL}
      /\ \A i \in 1 .. k : /\ nth[i - 1] = NULL => nth[i] = NULL
                           /\ nth[i - 1] # NULL => /\ nth[i] = h.next[nth[i - 1]]
                                                   /\ TopBelow(nth[i], S, nth[i - 1])
      /\ nth[k] = NULL
  <2>1. "AVAILABLE" \in Lists
    BY DEF Lists
  <2> QED BY <2>1, WalkDescends
<1>2. /\ S \in SUBSET Addr /\ TopBelow(h.head["AVAILABLE"], S, PoolEnd) /\ PoolEnd \in Int
      /\ \A m \in S : m \in Int /\ m # NULL /\ m < PoolEnd /\ h.rsize[m] \in Nat
  BY AddrIs DEF Chained, Heap
<1>3. \A m \in S : h.rsize[m] - size < MAXINT /\ MAXINT \in Int
  <2> TAKE m \in S
  <2>1. m + OVERHEAD + h.rsize[m] <= PoolEnd /\ PoolStart <= m /\ m \in Int /\ h.rsize[m] \in Int
    BY <1>2, AddrIs DEF AFTER, ADDR
  <2> QED BY <2>1, ListAssumption DEF ListAssumption
<1>4. PICK scan : /\ BestFit(h, size) = scan[k].b
                  /\ scan[0] = [best |-> MAXINT, b |-> NULL]
                  /\ \A i \in 1 .. k : scan[i] = Better(h, nth, size, i, scan[i - 1])
  BY ScanSteps
<1> DEFINE P(i) == {m \in S : nth[i] = NULL \/ nth[i] < m}
           Good(i) == BestOf(scan[i], h, P(i), size)
           Bad == {i \in 0 .. k : ~ Good(i)}
<1>5. P(0) = {}
  <2>1. \A m \in S : nth[0] # NULL /\ m <= nth[0]
    BY <1>1, <1>2, TopBelowIs
  <2>2. nth[0] \in Int
    BY <1>1, <1>2, TopBelowIs
  <2> QED BY <2>1, <2>2, <1>2
<1>6. Good(0)
  <2> HIDE DEF P
  <2> QED BY <1>4, <1>5 DEF BestOf
<1>7. ASSUME NEW i \in 1 .. k, Good(i - 1)
      PROVE  Good(i)
  <2> PICK c : c = nth[i - 1]
    OBVIOUS
  <2> PICK x : x = scan[i - 1]
    OBVIOUS
  <2>0. i - 1 \in 0 .. k
    BY <1>1
  <2>1. scan[i] = IF c # NULL /\ h.rsize[c] >= size /\ (h.rsize[c] - size < x.best \/ c = nth[0])
                  THEN [best |-> h.rsize[c] - size, b |-> c] ELSE x
    BY <1>4 DEF Better
  <2>2. CASE c = NULL
    <3>1. nth[i] = NULL /\ scan[i] = x /\ P(i) = P(i - 1)
      BY <2>1, <2>2, <1>1
    <3> HIDE DEF P
    <3> QED BY <3>1, <1>7
  <2>3. CASE c # NULL
    <3>1. c \in S /\ TopBelow(nth[i], S, c) /\ c \in Int /\ h.rsize[c] \in Nat
      BY <2>0, <2>3, <1>1, <1>2
    <3>2. /\ nth[i] # NULL => nth[i] < c /\ nth[i] \in Int
          /\ \A m \in S : m < c => nth[i] # NULL /\ m <= nth[i]
      BY <3>1, <1>2, TopBelowIs
    <3>3. P(i) = P(i - 1) \cup {c} /\ \A m \in P(i - 1) : c < m /\ m \in S
      <4>1. \A m : m \in P(i - 1) <=> m \in S /\ c < m
        BY <2>3
      <4>2. \A m \in S : (nth[i] = NULL \/ nth[i] < m) <=> c <= m
        <5> TAKE m \in S
        <5>1. m \in Int
          BY <1>2
        <5>2. m < c \/ c <= m
          BY <5>1, <3>1
        <5> QED BY <5>1, <5>2, <3>1, <3>2
      <4>3. \A m : m \in P(i) <=> m \in S /\ c <= m
        BY <4>2
      <4>4. \A m \in S : c <= m <=> (m = c \/ c < m)
        BY <3>1, <1>2
      <4> HIDE DEF P
      <4> QED BY <4>1, <4>3, <4>4, <3>1
    <3>4. c = nth[0] => P(i - 1) = {}
      BY <1>5
    <3> PICK Q : Q = P(i - 1)
      OBVIOUS
    <3> HIDE DEF P
    <3>5. BestOf(x, h, Q, size) /\ P(i) = Q \cup {c} /\ (c = nth[0] => Q = {})
          /\ \A m \in Q : c < m /\ m \in S /\ m \in Int /\ m # NULL /\ h.rsize[m] \in Nat
      BY <3>3, <3>4, <1>2, <1>7
    <3>6. x.best = MAXINT \/ (x.b \in Q /\ x.best = h.rsize[x.b] - size /\ x.best \in Int)
      BY <3>5 DEF BestOf
    <3>7. ASSUME h.rsize[c] >= size, h.rsize[c] - size < x.best \/ c = nth[0]
          PROVE  BestOf(scan[i], h, Q \cup {c}, size)
      <4> PICK y : y = scan[i]
        OBVIOUS
      <4>1. y.b = c /\ y.best = h.rsize[c] - size
        BY <2>1, <2>3, <3>7
      <4>2. \A m \in Q : h.rsize[m] >= size => h.rsize[c] < h.rsize[m]
        <5>1. CASE c = nth[0]
          BY <5>1, <3>5
        <5>2. CASE h.rsize[c] - size < x.best
          <6> SUFFICES ASSUME NEW m \in Q, h.rsize[m] >= size PROVE h.rsize[c] < h.rsize[m]
            OBVIOUS
          <6>1. x.b \in Q /\ x.best = h.rsize[x.b] - size /\ h.rsize[x.b] <= h.rsize[m]
            BY <3>5 DEF BestOf
          <6>2. h.rsize[c] \in Int /\ h.rsize[m] \in Int /\ h.rsize[x.b] \in Int /\ size \in Int
            BY <6>1, <3>1, <3>5, <1>2
          <6>3. h.rsize[c] - size < h.rsize[x.b] - size
            BY <6>1, <5>2
          <6> QED BY <6>1, <6>2, <6>3
        <5> QED BY <5>1, <5>2, <3>7
      <4> QED BY <4>1, <4>2, <3>1, <3>7 DEF BestOf
    <3>8. ASSUME ~ (h.rsize[c] >= size /\ (h.rsize[c] - size < x.best \/ c = nth[0]))
          PROVE  BestOf(scan[i], h, Q \cup {c}, size)
      <4>1. scan[i] = x
        BY <2>1, <3>8
      <4>2. CASE h.rsize[c] < size
        BY <4>1, <4>2, <3>1, <3>5 DEF BestOf
      <4>3. CASE h.rsize[c] >= size
        <5>1. ~ (h.rsize[c] - size < x.best) /\ h.rsize[c] - size < MAXINT
          BY <4>3, <3>1, <3>8, <1>3
        <5>2. x.b \in Q /\ x.best = h.rsize[x.b] - size /\ h.rsize[x.b] >= size
              /\ \A m \in Q : h.rsize[m] >= size => \/ h.rsize[x.b] < h.rsize[m]
                                                    \/ h.rsize[x.b] = h.rsize[m] /\ m <= x.b
          BY <5>1, <3>5 DEF BestOf
        <5>3. h.rsize[x.b] \in Nat /\ c < x.b /\ h.rsize[x.b] <= h.rsize[c]
          BY <5>1, <5>2, <3>1, <3>5
        <5>4. h.rsize[x.b] < h.rsize[c] \/ (h.rsize[x.b] = h.rsize[c] /\ c <= x.b)
          BY <5>2, <5>3, <3>1, <3>5
        <5> QED BY <4>1, <5>2, <5>4 DEF BestOf
      <4> QED BY <4>2, <4>3, <3>1
    <3> QED BY <3>5, <3>7, <3>8
  <2> QED BY <2>2, <2>3
<1>8. Bad = {}
  <2> SUFFICES ASSUME Bad # {} PROVE FALSE
    OBVIOUS
  <2>1. PICK i \in Bad : \A j \in Bad : i <= j
    <3>1. Bad \in SUBSET Nat
      BY <1>1
    <3> HIDE DEF Bad
    <3> QED BY <3>1, LeastOf
  <2>2. i \in 0 .. k /\ ~ Good(i)
    OBVIOUS
  <2> HIDE DEF Good
  <2>3. i \in 1 .. k
    BY <2>2, <1>6
  <2>4. i - 1 \in 0 .. k /\ ~ (i <= i - 1)
    BY <2>3, <1>1
  <2>5. Good(i - 1)
    BY <2>1, <2>4
  <2> QED BY <2>2, <2>3, <2>5, <1>7
<1>9. k \in 0 .. k
  BY <1>1
<1> HIDE DEF Good
<1>10. Good(k)
  BY <1>8, <1>9
<1>11. P(k) = S
  BY <1>1
<1>12. BestOf(scan[k], h, S, size)
  BY <1>10, <1>11 DEF Good
<1> PICK b : b = BestFit(h, size)
  OBVIOUS
<1>13. \/ b = NULL /\ \A m \in S : h.rsize[m] < size
       \/ /\ b \in S /\ h.rsize[b] >= size
          /\ \A m \in S : h.rsize[m] >= size => \/ h.rsize[b] < h.rsize[m]
                                                \/ h.rsize[b] = h.rsize[m] /\ m <= b
  BY <1>4, <1>12 DEF BestOf
<1>14. b \in S => b # NULL /\ h.rsize[b] \in Nat
  BY <1>2
<1> QED BY <1>13, <1>14

-------------------------------------------------------------------------------
(* What is proved of the allocator on sets of nodes.                         *)
Proved == INSTANCE SMallocProofs WITH
  available <- Available, allocated <- InUse,
  rsize <- [a \in Addr |-> IF a \in Available \cup InUse THEN heap.rsize[a] ELSE 0],
  usize <- [a \in Addr |-> IF a \in InUse THEN heap.usize[a] ELSE 0],
  avail_len <- heap.len["AVAILABLE"], alloc_len <- heap.len["ALLOCATED"]

LEMMA PoolIs == Proved!HeapAssumption
BY ListAssumption DEF ListAssumption, Proved!HeapAssumption

LEMMA SameAbsorb ==
  /\ \A rs, n, m : Sets!ADJACENT(rs, n, m) <=> Proved!ADJACENT(rs, n, m)
  /\ \A rs, c, n : Sets!Absorb(rs, c, n) = Proved!Absorb(rs, c, n)
  /\ \A h, c : Sets!UpperNeighbours(h, c) = Proved!UpperNeighbours(h, c)
  /\ \A h, c : Sets!LowerNeighbours(h, c) = Proved!LowerNeighbours(h, c)
BY DEF Sets!ADJACENT, Proved!ADJACENT, Sets!AFTER, Proved!AFTER, Sets!Absorb, Proved!Absorb,
       Sets!UpperNeighbours, Proved!UpperNeighbours, Sets!LowerNeighbours, Proved!LowerNeighbours

LEMMA SameAbsorbUpper == \A h, c : Sets!AbsorbUpper(h, c) = Proved!AbsorbUpper(h, c)
BY SameAbsorb DEF Sets!AbsorbUpper, Proved!AbsorbUpper

LEMMA SameInsert == \A h, n : Sets!InsertAvailable(h, n) = Proved!InsertAvailable(h, n)
<1> TAKE h, n
<1> PICK lower : lower = Sets!LowerNeighbours(h, n)
  OBVIOUS
<1> PICK c : c = CHOOSE m \in lower : TRUE
  OBVIOUS
<1> PICK grown : grown = Sets!Absorb(h.rsize, c, n)
  OBVIOUS
<1>1. lower = Proved!LowerNeighbours(h, n) /\ grown = Proved!Absorb(h.rsize, c, n)
  BY SameAbsorb
<1>2. Sets!InsertAvailable(h, n) =
        IF lower = {}
        THEN Sets!AbsorbUpper([nodes |-> h.nodes \cup {n}, rsize |-> h.rsize, len |-> h.len + 1], n)
        ELSE Sets!AbsorbUpper([h EXCEPT !.rsize = grown], c)
  BY DEF Sets!InsertAvailable
<1>3. Proved!InsertAvailable(h, n) =
        IF lower = {}
        THEN Proved!AbsorbUpper([nodes |-> h.nodes \cup {n}, rsize |-> h.rsize, len |-> h.len + 1], n)
        ELSE Proved!AbsorbUpper([h EXCEPT !.rsize = grown], c)
  BY <1>1 DEF Proved!InsertAvailable
<1> QED BY <1>2, <1>3, SameAbsorbUpper

LEMMA SameCount ==
  /\ \A S : Proved!IsFiniteSet(S) <=> IsFiniteSet(S)
  /\ \A S : Proved!Cardinality(S) = Cardinality(S)
BY DEF Proved!IsFiniteSet, IsFiniteSet, Proved!Cardinality, Cardinality

LEMMA SameTaken == \A h, b, size : Sets!Taken(h, b, size) = Proved!Taken(h, b, size)
<1>1. \A rs, b, k : Sets!Split(rs, b, k) = Proved!Split(rs, b, k)
  BY DEF Sets!Split, Proved!Split
<1>2. \A rs, n : Sets!AFTER(rs, n) = Proved!AFTER(rs, n)
  BY DEF Sets!AFTER, Proved!AFTER
<1>3. \A size : Sets!ALIGN(size) = Proved!ALIGN(size)
  BY DEF Sets!ALIGN, Proved!ALIGN
<1> QED BY <1>1, <1>2, <1>3, SameInsert DEF Sets!Taken, Proved!Taken

(* Heap h holds the free nodes S and the allocated nodes T, whose blocks are *)
(* the pool.                                                                 *)
Sound(h, S, T) ==
  /\ h \in Heap /\ Chained(h, "AVAILABLE", S) /\ Chained(h, "ALLOCATED", T)
  /\ S \cap T = {}
  /\ Proved!Tiles(T \cup S, Real(h, S \cup T))
  /\ Proved!Merged(S, Real(h, S \cup T))
  /\ IsFiniteSet(S) /\ h.len["AVAILABLE"] = Cardinality(S)
  /\ IsFiniteSet(T) /\ h.len["ALLOCATED"] = Cardinality(T)

(* What the proofs about SMalloc ask of a free list, and what they give.     *)
Proper(f, S, T) ==
  /\ Proved!IsList(f) /\ f.nodes = S /\ S \cap T = {}
  /\ Proved!Tiles(T \cup S, f.rsize) /\ Proved!Merged(S, f.rsize) /\ Proved!Counted(f)

LEMMA SoundIs ==
  ASSUME NEW h \in Heap, NEW S, NEW T, NEW U, U = S \cup T
  PROVE  Sound(h, S, T) <=> /\ Chained(h, "AVAILABLE", S) /\ Chained(h, "ALLOCATED", T)
                            /\ Proper(FreeOf(h, S, U), S, T)
                            /\ IsFiniteSet(T) /\ h.len["ALLOCATED"] = Cardinality(T)
<1> PICK f : f = FreeOf(h, S, U)
  OBVIOUS
<1>1. f.nodes = S /\ f.rsize = Real(h, U) /\ f.len = h.len["AVAILABLE"] /\ Proved!IsList(f)
  BY DEF FreeOf, Proved!IsList
<1>2. Proved!Counted(f) <=> IsFiniteSet(S) /\ h.len["AVAILABLE"] = Cardinality(S)
  BY <1>1, SameCount DEF Proved!Counted
<1> QED BY <1>1, <1>2 DEF Sound, Proper

LEMMA TilesAre ==
  ASSUME NEW ns, NEW rs, Proved!Tiles(ns, rs)
  PROVE  /\ ns \in SUBSET Addr /\ rs \in [Addr -> Nat]
         /\ \A n \in ns : n + OVERHEAD + rs[n] <= PoolEnd
         /\ \A n, m \in ns : n < m => n + OVERHEAD + rs[n] <= m
<1>1. Proved!Addr = Addr
  BY DEF Proved!Addr, Addr
<1>2. \A n : Proved!AFTER(rs, n) = n + OVERHEAD + rs[n]
  BY DEF Proved!AFTER
<1> QED BY <1>1, <1>2 DEF Proved!Tiles

(* Heap g has the free list k, as SMalloc sees it, and the allocated nodes T. *)
Reached(g, T, k) ==
  /\ Sound(g, k.nodes, T)
  /\ k.rsize = Real(g, k.nodes \cup T) /\ k.len = g.len["AVAILABLE"]

IsFreed(h, g, T, t, k) ==
  /\ Reached(g, T \ {t}, k)
  /\ g.usize = h.usize /\ g.len["ALLOCATED"] = h.len["ALLOCATED"] - 1

IsAllocated(h, g, T, b, size, k) ==
  /\ Reached(g, T \cup {b}, k)
  /\ g.usize = [h.usize EXCEPT ![b] = size]
  /\ g.len["ALLOCATED"] = h.len["ALLOCATED"] + 1

(* free moves a node from one list to the other as SMalloc does.             *)
LEMMA FreedIs ==
  ASSUME NEW h, NEW S, NEW T, Sound(h, S, T), NEW t \in T,
         NEW g, g = Freed(h, t), NEW k, k = Sets!InsertAvailable(FreeOf(h, S, S \cup T), t)
  PROVE  IsFreed(h, g, T, t, k)
<1> DEFINE U == S \cup T
<1> PICK f : f = FreeOf(h, S, U)
  OBVIOUS
<1>1. /\ h \in Heap /\ Chained(h, "AVAILABLE", S) /\ Chained(h, "ALLOCATED", T)
      /\ Proper(f, S, T) /\ IsFiniteSet(T) /\ h.len["ALLOCATED"] = Cardinality(T)
  BY SoundIs DEF Sound
<1>2. /\ t \in Addr /\ S \subseteq Addr /\ t \notin S /\ U \in SUBSET Addr
      /\ "AVAILABLE" \in Lists /\ "ALLOCATED" \in Lists
  BY <1>1 DEF Chained, Proper, Lists
<1> PICK u : u = Delete(h, "ALLOCATED", t)
  OBVIOUS
<1>3. /\ u \in Heap /\ Chained(u, "ALLOCATED", T \ {t}) /\ OthersKept(h, u, "ALLOCATED", T)
      /\ u.len["ALLOCATED"] = h.len["ALLOCATED"] - 1 /\ u.rsize = h.rsize
  BY <1>1, <1>2, DeleteUnlinks
<1>4. Chained(u, "AVAILABLE", S) /\ u.len["AVAILABLE"] = h.len["AVAILABLE"] /\ u.usize = h.usize
  <2>1. S \cap T = {} /\ "AVAILABLE" \in Lists \ {"ALLOCATED"}
    BY <1>1 DEF Proper, Lists
  <2>2. T \cap S = {}
    BY <2>1
  <2>3. Chained(u, "AVAILABLE", S)
    BY <2>1, <1>1, <1>3, OtherChainKept
  <2> QED BY <2>1, <2>3, <1>3 DEF OthersKept
<1>5. FreeOf(u, S, U) = f
  BY <1>3, <1>4 DEF FreeOf, Real
<1>6. Blocks(u, S \cup {t})
  <2>1. Proved!Tiles(T \cup S, f.rsize) /\ f.rsize = Real(h, U)
    BY <1>1 DEF Proper, FreeOf
  <2>2. \A n, m \in T \cup S : n < m => n + OVERHEAD + f.rsize[n] <= m
    BY <2>1, TilesAre
  <2>3. \A n \in S \cup {t} : AFTER(u, n) = n + OVERHEAD + f.rsize[n]
    BY <2>1, <1>2, <1>3 DEF AFTER, ADDR, Real
  <2> QED BY <2>2, <2>3 DEF Blocks
<1>7. Matches(u, g, S \cup {t}, U, k)
  <2>1. S \cup {t} \subseteq U
    OBVIOUS
  <2>2. g = Insert(u, "AVAILABLE", t) /\ k = Sets!InsertAvailable(FreeOf(u, S, U), t)
    BY <1>5 DEF Freed
  <2> HIDE DEF U
  <2> QED BY <2>1, <2>2, <1>2, <1>3, <1>4, <1>6, InsertFree
<1> DEFINE used == T \ {t}
<1>8. Proved!Placed(k, f, used, t)
  <2>1. k = Proved!InsertAvailable(f, t)
    BY SameInsert
  <2>2. used \cup f.nodes \cup {t} = T \cup S /\ t \notin used /\ t \notin f.nodes
        /\ used \cap f.nodes = {}
    BY <1>1, <1>2 DEF Proper
  <2>3. Proved!Tiles(used \cup f.nodes \cup {t}, f.rsize)
    BY <2>2, <1>1 DEF Proper
  <2>4. Proved!IsList(f) /\ Proved!Counted(f) /\ Proved!Merged(f.nodes, f.rsize)
    BY <1>1 DEF Proper
  <2> HIDE DEF used
  <2>5. t \notin used /\ t \notin f.nodes /\ used \cap f.nodes = {}
    BY <2>2
  <2>6. Proved!Placed(Proved!InsertAvailable(f, t), f, used, t)
    BY <2>3, <2>4, <2>5, PoolIs, Proved!InsertPlaces, Zenon
  <2> QED BY <2>1, <2>6
<1>9. /\ g \in Heap /\ Chained(g, "AVAILABLE", k.nodes) /\ OthersKept(u, g, "AVAILABLE", S \cup {t})
      /\ k.len = g.len["AVAILABLE"] /\ k.nodes \subseteq S \cup {t}
      /\ k.rsize = Real(g, (U \ (S \cup {t})) \cup k.nodes)
  BY <1>7 DEF Matches
<1>10. (U \ (S \cup {t})) \cup k.nodes = k.nodes \cup used
  BY <1>1 DEF Proper
<1>11. FreeOf(g, k.nodes, k.nodes \cup used) = k
  <2>1. Proved!IsList(k)
    BY <1>8 DEF Proved!Placed
  <2>2. k = [nodes |-> k.nodes, rsize |-> k.rsize, len |-> k.len]
    BY <2>1 DEF Proved!IsList
  <2> QED BY <2>2, <1>9, <1>10 DEF FreeOf
<1>12. Proper(k, k.nodes, used)
  <2>1. k.nodes \cap used = {}
    BY <1>1, <1>9 DEF Proper
  <2> QED BY <2>1, <1>8 DEF Proved!Placed, Proper
<1>13. Chained(g, "ALLOCATED", used) /\ g.len["ALLOCATED"] = h.len["ALLOCATED"] - 1
       /\ g.usize = h.usize
  <2>1. used \cap (S \cup {t}) = {} /\ "ALLOCATED" \in Lists \ {"AVAILABLE"}
    BY <1>1 DEF Proper, Lists
  <2>2. Chained(g, "ALLOCATED", used)
    BY <2>1, <1>3, <1>9, OtherChainKept
  <2> QED BY <2>1, <2>2, <1>3, <1>4, <1>9 DEF OthersKept
<1>14. IsFiniteSet(used) /\ Cardinality(used) = Cardinality(T) - 1
  BY <1>1, FS_RemoveElement
<1>15. k.rsize = Real(g, k.nodes \cup used)
  BY <1>9, <1>10
<1>16. Sound(g, k.nodes, used)
  <2> HIDE DEF used
  <2> QED BY <1>1, <1>9, <1>11, <1>12, <1>13, <1>14, SoundIs, SMTT(40)
<1>17. Reached(g, used, k)
  BY <1>9, <1>15, <1>16 DEF Reached
<1> QED BY <1>13, <1>17 DEF IsFreed

(* bestfit takes node b off the free list and gives the rest of its block    *)
(* back as SMalloc does.                                                     *)
Unchosen(h, b, size) ==
  LET taken == Delete(h, "AVAILABLE", b)
      cut == [taken EXCEPT !.rsize[b] = ALIGN(size)]
      n == AFTER(cut, b)
      leftover == h.rsize[b] - ALIGN(size) - OVERHEAD
  IN IF h.rsize[b] >= ALIGN(size) + OVERHEAD + MINNODE
     THEN Insert([cut EXCEPT !.rsize[n] = leftover], "AVAILABLE", n)
     ELSE taken

Parted(h, g, T, b, k) ==
  /\ g \in Heap /\ Chained(g, "AVAILABLE", k.nodes) /\ Chained(g, "ALLOCATED", T)
  /\ k.len = g.len["AVAILABLE"] /\ g.len["ALLOCATED"] = h.len["ALLOCATED"]
  /\ k.rsize = Real(g, k.nodes \cup (T \cup {b})) /\ g.usize = h.usize

LEMMA TakenWhole ==
  ASSUME NEW f, NEW b, NEW size, ~ (f.rsize[b] >= Sets!ALIGN(size) + OVERHEAD + MINNODE)
  PROVE  /\ Sets!Taken(f, b, size).nodes = f.nodes \ {b}
         /\ Sets!Taken(f, b, size).rsize = f.rsize
         /\ Sets!Taken(f, b, size).len = f.len - 1
BY DEF Sets!Taken

LEMMA UnchosenIs ==
  ASSUME NEW h, NEW S, NEW T, Sound(h, S, T), NEW size \in Nat, NEW b \in S,
         size <= h.rsize[b], NEW g, g = Unchosen(h, b, size),
         NEW k, k = Sets!Taken(FreeOf(h, S, S \cup T), b, size)
  PROVE  Parted(h, g, T, b, k)
<1> DEFINE U == S \cup T
           room == ALIGN(size)
<1> PICK f : f = FreeOf(h, S, U)
  OBVIOUS
<1> PICK rs : rs = Real(h, U)
  OBVIOUS
<1>1. /\ h \in Heap /\ Chained(h, "AVAILABLE", S) /\ Chained(h, "ALLOCATED", T)
      /\ S \cap T = {} /\ Proved!Tiles(T \cup S, rs)
  BY DEF Sound
<1>2. /\ b \in Addr /\ S \subseteq Addr /\ b \notin T /\ U \in SUBSET Addr /\ b \in U
      /\ b \in Int /\ OVERHEAD \in Nat \ {0} /\ MINNODE \in Nat
      /\ "AVAILABLE" \in Lists /\ "ALLOCATED" \in Lists /\ h.rsize \in [Addr -> Nat]
      /\ h.rsize[b] \in Nat
  BY <1>1, AddrIs, ListAssumption DEF Chained, Lists, ListAssumption, Heap
<1>3. rs = [a \in Addr |-> rs[a]] /\ \A a \in Addr : rs[a] = IF a \in U THEN h.rsize[a] ELSE 0
  BY DEF Real
<1>4. f.nodes = S /\ f.rsize = rs /\ f.len = h.len["AVAILABLE"]
  BY DEF FreeOf
<1>5. room \in Nat
  <2>1. Sets!ALIGN(size) = room
    BY SetsHas
  <2>2. Proved!ALIGN(size) \in Nat
    BY PoolIs, Proved!AlignAbove, Zenon
  <2>3. Sets!ALIGN(size) = Proved!ALIGN(size)
    BY DEF Sets!ALIGN, Proved!ALIGN
  <2> QED BY <2>1, <2>2, <2>3
<1> PICK u : u = Delete(h, "AVAILABLE", b)
  OBVIOUS
<1>6. /\ u \in Heap /\ Chained(u, "AVAILABLE", S \ {b}) /\ OthersKept(h, u, "AVAILABLE", S)
      /\ u.len["AVAILABLE"] = h.len["AVAILABLE"] - 1 /\ u.rsize = h.rsize
  BY <1>1, <1>2, DeleteUnlinks
<1>7. Chained(u, "ALLOCATED", T) /\ u.len["ALLOCATED"] = h.len["ALLOCATED"] /\ u.usize = h.usize
  <2>1. T \cap S = {} /\ "ALLOCATED" \in Lists \ {"AVAILABLE"}
    BY <1>1 DEF Lists
  <2>2. Chained(u, "ALLOCATED", T)
    BY <2>1, <1>1, <1>6, OtherChainKept
  <2> QED BY <2>1, <2>2, <1>6 DEF OthersKept
<1>8. (f.rsize[b] >= room + OVERHEAD + MINNODE) <=> (h.rsize[b] >= room + OVERHEAD + MINNODE)
  BY <1>2, <1>3, <1>4
<1>9. Sets!ALIGN(size) = room
  BY SetsHas
<1> HIDE DEF room, U
<1>10. CASE ~ (h.rsize[b] >= room + OVERHEAD + MINNODE)
  <2>1. g = u
    BY <1>10 DEF Unchosen, room
  <2>2. k.nodes = S \ {b} /\ k.rsize = rs /\ k.len = h.len["AVAILABLE"] - 1
    <3>1. k = Sets!Taken(f, b, size)
      BY DEF U
    <3>2. ~ (f.rsize[b] >= Sets!ALIGN(size) + OVERHEAD + MINNODE)
      BY <1>8, <1>9, <1>10
    <3>3. /\ Sets!Taken(f, b, size).nodes = f.nodes \ {b}
          /\ Sets!Taken(f, b, size).rsize = f.rsize
          /\ Sets!Taken(f, b, size).len = f.len - 1
      BY <3>2, TakenWhole
    <3> QED BY <3>1, <3>3, <1>4
  <2>3. k.nodes \cup (T \cup {b}) = U
    <3>1. (S \ {b}) \cup (T \cup {b}) = U
      BY DEF U
    <3> QED BY <3>1, <2>2
  <2>4. k.rsize = Real(g, U)
    BY <2>1, <2>2, <1>6 DEF Real
  <2> QED BY <2>1, <2>2, <2>3, <2>4, <1>6, <1>7 DEF Parted
<1>11. CASE h.rsize[b] >= room + OVERHEAD + MINNODE
  <2> PICK left : left = h.rsize[b] - room - OVERHEAD
    OBVIOUS
  <2> PICK n : n = b + OVERHEAD + room
    OBVIOUS
  <2> PICK cut : cut = Resized(u, b, room)
    OBVIOUS
  <2> PICK j : j = Resized(cut, n, left)
    OBVIOUS
  <2> PICK qs : qs = Sets!Split(rs, b, room)
    OBVIOUS
  <2>1. left \in Nat
    BY <1>2, <1>5, <1>11
  <2>2. /\ Proved!Tiles(U \cup {n}, qs) /\ n \in Addr \ U
    <3>1. qs = Proved!Split(rs, b, room)
      BY DEF Sets!Split, Proved!Split
    <3>2. rs[b] >= room + OVERHEAD
      BY <1>2, <1>3, <1>5, <1>11
    <3>3. Proved!Tiles(U, rs)
      <4>1. U = T \cup S
        BY DEF U
      <4> QED BY <4>1, <1>1
    <3>4. n = Proved!AFTER(qs, b)
      <4>1. n # b
        BY <1>2, <1>5
      <4>2. qs[b] = room
        BY <4>1, <1>2, <1>3 DEF Sets!Split
      <4> QED BY <4>2, <1>2, <1>5 DEF Proved!AFTER
    <3>5. /\ Proved!Tiles(U \cup {Proved!AFTER(Proved!Split(rs, b, room), b)},
                          Proved!Split(rs, b, room))
          /\ Proved!AFTER(Proved!Split(rs, b, room), b) \in Proved!Addr \ U
      BY <3>2, <3>3, <1>2, <1>5, PoolIs, Proved!SplitTiles, Zenon
    <3>6. Proved!Addr = Addr
      BY DEF Proved!Addr, Addr
    <3> QED BY <3>1, <3>4, <3>5, <3>6
  <2>3. n # b /\ n \in Addr /\ n \notin S /\ n \notin T /\ n \notin U
    BY <2>2, <1>2 DEF U
  <2>4. /\ cut \in Heap /\ cut.head = u.head /\ cut.len = u.len /\ cut.next = u.next
        /\ cut.usize = u.usize
        /\ cut.rsize[b] = room /\ \A a \in Addr \ {b} : cut.rsize[a] = h.rsize[a]
    <3>1. IsResized(cut, u, b, room)
      BY <1>2, <1>5, <1>6, HeapResized
    <3> QED BY <3>1, <1>6 DEF IsResized
  <2>5. /\ j \in Heap /\ j.head = u.head /\ j.len = u.len /\ j.next = u.next
        /\ j.usize = u.usize
        /\ j.rsize[b] = room /\ j.rsize[n] = left
        /\ \A a \in Addr \ {b, n} : j.rsize[a] = h.rsize[a]
    <3>1. IsResized(j, cut, n, left)
      BY <2>1, <2>3, <2>4, HeapResized
    <3>2. /\ j \in Heap /\ j.head = cut.head /\ j.len = cut.len /\ j.next = cut.next
          /\ j.usize = cut.usize
          /\ j.rsize[n] = left /\ \A a \in Addr \ {n} : j.rsize[a] = cut.rsize[a]
      BY <3>1 DEF IsResized
    <3> QED BY <3>2, <2>3, <2>4, <1>2
  <2>6. g = Insert(j, "AVAILABLE", n)
    <3>1. cut = [u EXCEPT !.rsize[b] = room]
      BY DEF Resized
    <3>2. AFTER(cut, b) = n
      BY <2>4, <1>2, <1>5 DEF AFTER, ADDR
    <3>3. j = [cut EXCEPT !.rsize[n] = left]
      BY DEF Resized
    <3> QED BY <3>1, <3>2, <3>3, <1>11 DEF Unchosen, room
  <2> DEFINE Q == S \ {b}
             V == U \cup {n}
  <2>7. Chained(j, "AVAILABLE", Q) /\ Chained(j, "ALLOCATED", T)
    BY <2>5, <1>6, <1>7, ChainKept
  <2>8. Real(j, V) = qs
    <3>1. qs = [rs EXCEPT ![b] = room, ![n] = rs[b] - room - OVERHEAD]
      BY DEF Sets!Split
    <3>2. \A a \in Addr : qs[a] = IF a = n THEN rs[b] - room - OVERHEAD
                                  ELSE IF a = b THEN room ELSE rs[a]
      BY <3>1, <2>3, <1>2, <1>3
    <3>3. qs = [a \in Addr |-> qs[a]]
      BY <3>1, <1>3
    <3>4. rs[b] = h.rsize[b]
      BY <1>2, <1>3
    <3>5. \A a \in Addr : qs[a] = IF a \in V THEN j.rsize[a] ELSE 0
      BY <3>2, <3>4, <2>3, <2>5, <1>2, <1>3
    <3> HIDE DEF V
    <3> QED BY <3>3, <3>5 DEF Real
  <2>9. Blocks(j, Q \cup {n})
    <3>1. \A m, p \in V : m < p => m + OVERHEAD + qs[m] <= p
      BY <2>2, TilesAre
    <3>2. \A m \in Q \cup {n} : AFTER(j, m) = m + OVERHEAD + qs[m] /\ m \in V
      <4> TAKE m \in Q \cup {n}
      <4>1. m \in Addr /\ m \in V
        BY <2>3, <1>2 DEF U
      <4>2. j.rsize[m] = qs[m]
        BY <4>1, <2>8 DEF Real
      <4> QED BY <4>1, <4>2 DEF AFTER, ADDR
    <3> QED BY <3>1, <3>2 DEF Blocks
  <2>10. k = Sets!InsertAvailable(FreeOf(j, Q, V), n)
    <3>1. Sets!AFTER(qs, b) = n
      <4>1. qs[b] = room
        BY <2>5, <2>8, <1>2 DEF Real
      <4> QED BY <4>1, <1>2, <1>5 DEF Sets!AFTER
    <3>2. k = Sets!InsertAvailable([nodes |-> f.nodes \ {b}, rsize |-> Sets!Split(f.rsize, b, room),
                                    len |-> f.len - 1],
                                   Sets!AFTER(Sets!Split(f.rsize, b, room), b))
      BY <1>8, <1>9, <1>11 DEF Sets!Taken, U
    <3>3. [nodes |-> f.nodes \ {b}, rsize |-> Sets!Split(f.rsize, b, room), len |-> f.len - 1]
          = FreeOf(j, Q, V)
      BY <2>5, <2>8, <1>4, <1>6 DEF FreeOf
    <3> QED BY <3>1, <3>2, <3>3, <1>4
  <2>11. Matches(j, g, Q \cup {n}, V, k)
    <3>1. n \notin Q /\ V \in SUBSET Addr /\ Q \cup {n} \subseteq V
      BY <2>3, <1>2 DEF U
    <3> HIDE DEF Q, V
    <3> QED BY <3>1, <2>3, <2>5, <2>6, <2>7, <2>9, <2>10, InsertFree
  <2>12. /\ g \in Heap /\ Chained(g, "AVAILABLE", k.nodes)
         /\ OthersKept(j, g, "AVAILABLE", Q \cup {n})
         /\ k.len = g.len["AVAILABLE"]
         /\ k.rsize = Real(g, (V \ (Q \cup {n})) \cup k.nodes)
    BY <2>11 DEF Matches
  <2>13. (V \ (Q \cup {n})) \cup k.nodes = k.nodes \cup (T \cup {b})
    BY <2>3, <1>1, <1>2 DEF U
  <2>14. Chained(g, "ALLOCATED", T) /\ g.len["ALLOCATED"] = h.len["ALLOCATED"] /\ g.usize = h.usize
    <3>1. T \cap (Q \cup {n}) = {} /\ "ALLOCATED" \in Lists \ {"AVAILABLE"}
      BY <2>3, <1>1 DEF Lists
    <3>2. Chained(g, "ALLOCATED", T)
      BY <3>1, <2>7, <2>12, OtherChainKept
    <3> QED BY <3>1, <3>2, <2>5, <2>12, <1>7 DEF OthersKept
  <2> QED BY <2>12, <2>13, <2>14 DEF Parted
<1> QED BY <1>10, <1>11

LEMMA InsertAllocated ==
  ASSUME NEW h \in Heap, NEW T, Chained(h, "ALLOCATED", T), NEW n \in Addr, n \notin T,
         NEW g, g = Insert(h, "ALLOCATED", n)
  PROVE  /\ g \in Heap /\ Chained(g, "ALLOCATED", T \cup {n})
         /\ OthersKept(h, g, "ALLOCATED", T \cup {n})
         /\ g.len["ALLOCATED"] = h.len["ALLOCATED"] + 1 /\ g.rsize = h.rsize
<1>1. "ALLOCATED" \in Lists
  BY DEF Lists
<1>2. g = Linked(h, "ALLOCATED", n, Search(h, "ALLOCATED", n))
  BY DEF Insert
<1> QED BY <1>1, <1>2, LinkedLinks

(* The size asked for is written.                                            *)
Asked(h, b, size) == [h EXCEPT !.usize[b] = size]

LEMMA AskedIs ==
  ASSUME NEW h \in Heap, NEW b \in Addr, NEW size \in Nat, NEW g, g = Asked(h, b, size)
  PROVE  /\ g \in Heap /\ g.head = h.head /\ g.len = h.len /\ g.next = h.next
         /\ g.rsize = h.rsize /\ g.usize = [h.usize EXCEPT ![b] = size]
<1> PICK us : us = [h.usize EXCEPT ![b] = size]
  OBVIOUS
<1>1. us \in [Addr -> Nat]
  BY DEF Heap
<1>2. g = [h EXCEPT !.usize = us]
  BY DEF Asked
<1> QED BY <1>1, <1>2 DEF Heap

(* malloc's node is on the allocated list, with the size it was asked for.   *)
LEMMA AllocatedIs ==
  ASSUME NEW h, NEW S, NEW T, Sound(h, S, T), NEW size \in Nat, NEW b \in S,
         size <= h.rsize[b], NEW g, g = Allocated(h, b, size),
         NEW k, k = Sets!Taken(FreeOf(h, S, S \cup T), b, size)
  PROVE  IsAllocated(h, g, T, b, size, k)
<1> DEFINE U == S \cup T
           used == T \cup {b}
<1> PICK f : f = FreeOf(h, S, U)
  OBVIOUS
<1> PICK u : u = Unchosen(h, b, size)
  OBVIOUS
<1>1. /\ h \in Heap /\ Chained(h, "AVAILABLE", S) /\ Chained(h, "ALLOCATED", T)
      /\ Proper(f, S, T) /\ IsFiniteSet(T) /\ h.len["ALLOCATED"] = Cardinality(T)
  BY SoundIs DEF Sound
<1>2. /\ b \in Addr /\ b \notin T /\ "AVAILABLE" \in Lists /\ "ALLOCATED" \in Lists
      /\ h.usize \in [Addr -> Nat]
  BY <1>1 DEF Chained, Proper, Lists, Heap
<1>3. Parted(h, u, T, b, k)
  BY UnchosenIs
<1>4. /\ u \in Heap /\ Chained(u, "AVAILABLE", k.nodes) /\ Chained(u, "ALLOCATED", T)
      /\ k.len = u.len["AVAILABLE"] /\ u.len["ALLOCATED"] = h.len["ALLOCATED"]
      /\ k.rsize = Real(u, k.nodes \cup used) /\ u.usize = h.usize
  BY <1>3 DEF Parted
<1> PICK us : us = [h.usize EXCEPT ![b] = size]
  OBVIOUS
<1> PICK v : v = Asked(u, b, size)
  OBVIOUS
<1>5. /\ v \in Heap /\ v.head = u.head /\ v.len = u.len /\ v.next = u.next
      /\ v.rsize = u.rsize /\ v.usize = us
  BY <1>2, <1>4, AskedIs
<1>6. g = Insert(v, "ALLOCATED", b)
  BY DEF Allocated, Unchosen, Asked
<1>7. Chained(v, "ALLOCATED", T) /\ Chained(v, "AVAILABLE", k.nodes)
  BY <1>4, <1>5, ChainKept
<1>8. /\ g \in Heap /\ Chained(g, "ALLOCATED", used) /\ OthersKept(v, g, "ALLOCATED", used)
      /\ g.len["ALLOCATED"] = v.len["ALLOCATED"] + 1 /\ g.rsize = v.rsize
  BY <1>2, <1>5, <1>6, <1>7, InsertAllocated
<1>9. Proved!Carved(k, f, T, b, size)
  <2>1. k = Proved!Taken(f, b, size)
    BY SameTaken
  <2>2. b \in f.nodes /\ T \cap f.nodes = {} /\ Proved!IsList(f)
        /\ Proved!Counted(f) /\ Proved!Merged(f.nodes, f.rsize)
    BY <1>1 DEF Proper
  <2>3. Proved!Tiles(T \cup f.nodes, f.rsize)
    BY <1>1 DEF Proper
  <2>4. size <= f.rsize[b]
    BY <1>2 DEF FreeOf, Real
  <2>5. Proved!Carved(Proved!Taken(f, b, size), f, T, b, size)
    BY <2>2, <2>3, <2>4, PoolIs, Proved!TakenPlaces, Zenon
  <2> QED BY <2>1, <2>5
<1>10. Proper(k, k.nodes, used)
  BY <1>9 DEF Proved!Carved, Proper
<1>11. k.rsize = Real(g, k.nodes \cup used)
  BY <1>4, <1>5, <1>8 DEF Real
<1>12. /\ Chained(g, "AVAILABLE", k.nodes) /\ k.len = g.len["AVAILABLE"] /\ g.usize = us
       /\ g.len["ALLOCATED"] = h.len["ALLOCATED"] + 1
  <2>1. k.nodes \cap used = {} /\ "AVAILABLE" \in Lists \ {"ALLOCATED"}
    BY <1>10 DEF Proper, Lists
  <2>2. Chained(g, "AVAILABLE", k.nodes)
    BY <2>1, <1>7, <1>8, OtherChainKept
  <2> QED BY <2>1, <2>2, <1>4, <1>5, <1>8 DEF OthersKept
<1>13. FreeOf(g, k.nodes, k.nodes \cup used) = k
  <2>1. k = [nodes |-> k.nodes, rsize |-> k.rsize, len |-> k.len]
    BY <1>9 DEF Proved!Carved, Proved!IsList
  <2> QED BY <2>1, <1>11, <1>12 DEF FreeOf
<1>14. IsFiniteSet(used) /\ Cardinality(used) = Cardinality(T) + 1
  BY <1>1, <1>2, FS_AddElement
<1>15. Sound(g, k.nodes, used)
  <2>1. g.len["ALLOCATED"] = Cardinality(used)
    BY <1>1, <1>12, <1>14
  <2> HIDE DEF used
  <2> PICK all : all = k.nodes \cup used
    OBVIOUS
  <2>2. Proper(FreeOf(g, k.nodes, all), k.nodes, used)
    BY <1>10, <1>13
  <2> QED BY <2>1, <2>2, <1>8, <1>12, <1>14, SoundIs
<1>16. Reached(g, used, k)
  BY <1>11, <1>12, <1>15 DEF Reached
<1> QED BY <1>12, <1>16 DEF IsAllocated

-------------------------------------------------------------------------------
(* The inductive invariant: the blocks of the two lists are the pool, so     *)
(* that the walks stop at the right nodes, and what the program holds is on  *)
(* the allocated list, so that realloc finds the old block.                  *)
LInv == Sound(heap, Available, InUse) /\ held \subseteq {ADDR(n) : n \in InUse}

AskedOf(h, T) == [a \in Addr |-> IF a \in T THEN h.usize[a] ELSE 0]

LEMMA ReachedIs ==
  ASSUME NEW T, NEW k, Reached(heap', T, k)
  PROVE  Available' = k.nodes /\ InUse' = T /\ Sets!SetFreeList(k)
<1>1. Chained(heap', "AVAILABLE", k.nodes) /\ Chained(heap', "ALLOCATED", T)
      /\ "AVAILABLE" \in Lists /\ "ALLOCATED" \in Lists
  BY DEF Reached, Sound, Lists
<1>2. Members(heap', "AVAILABLE") = k.nodes /\ Members(heap', "ALLOCATED") = T
  BY <1>1, MembersAre
<1>3. Available' = k.nodes /\ InUse' = T
  BY <1>2 DEF Available, InUse
<1>4. [a \in Addr |-> IF a \in Available \cup InUse THEN heap.rsize[a] ELSE 0]' = k.rsize
  BY <1>3 DEF Reached, Real
<1>5. heap'.len["AVAILABLE"] = k.len
  BY DEF Reached
<1> QED BY <1>3, <1>4, <1>5 DEF Sets!SetFreeList

LEMMA FreeListIs == Sets!FreeList = FreeOf(heap, Available, Available \cup InUse)
BY DEF Sets!FreeList, FreeOf, Real

Chosen(b, size) ==
  /\ b \in Sets!BestFits(size) /\ size \in Nat
  /\ b \in Addr /\ b \notin InUse /\ InUse \subseteq Addr
  /\ heap.usize \in [Addr -> Nat] /\ heap.len["ALLOCATED"] \in Int

(* What malloc and realloc do with the node bestfit returned.                *)
LEMMA TakeStep ==
  ASSUME LInv, NEW size \in Sizes, NEW b, b = BestFit(heap, size), b # NULL,
         NEW g, g = Allocated(heap, b, size), NEW k, k = Sets!Taken(Sets!FreeList, b, size)
  PROVE  Chosen(b, size) /\ IsAllocated(heap, g, InUse, b, size, k)
<1>1. /\ Sound(heap, Available, InUse) /\ heap \in Heap /\ Chained(heap, "AVAILABLE", Available)
      /\ Proved!Tiles(InUse \cup Available, Real(heap, Available \cup InUse))
      /\ Available \cap InUse = {}
  BY DEF LInv, Sound
<1>2. size \in Nat /\ Available \subseteq Addr /\ InUse \subseteq Addr
      /\ heap.usize \in [Addr -> Nat] /\ heap.len["ALLOCATED"] \in Int
  <2>1. InUse \cup Available \in SUBSET Addr
    BY <1>1, TilesAre
  <2>2. "ALLOCATED" \in Lists
    BY DEF Lists
  <2> QED BY <2>1, <2>2, <1>1, ListAssumption DEF ListAssumption, Heap
<1> PICK rs : rs = Real(heap, Available \cup InUse)
  OBVIOUS
<1>3. \A a \in Available : rs[a] = heap.rsize[a] /\ heap.rsize[a] \in Nat
  BY <1>1, <1>2 DEF Real, Heap
<1>4. \A m \in Available : AFTER(heap, m) <= PoolEnd
  <2>1. \A m \in InUse \cup Available : m + OVERHEAD + rs[m] <= PoolEnd
    BY <1>1, TilesAre
  <2> QED BY <2>1, <1>3 DEF AFTER, ADDR
<1>5. /\ b \in Available /\ heap.rsize[b] >= size
      /\ \A m \in Available : heap.rsize[m] >= size => \/ heap.rsize[b] < heap.rsize[m]
                                                       \/ heap.rsize[b] = heap.rsize[m] /\ m <= b
  BY <1>1, <1>2, <1>4, BestFitIs
<1>6. b \in Sets!BestFits(size)
  BY <1>3, <1>5 DEF Sets!BestFits, Real
<1>7. k = Sets!Taken(FreeOf(heap, Available, Available \cup InUse), b, size)
  BY FreeListIs
<1>8. size <= heap.rsize[b]
  BY <1>2, <1>3, <1>5
<1>9. IsAllocated(heap, g, InUse, b, size, k)
  BY <1>1, <1>2, <1>5, <1>7, <1>8, AllocatedIs
<1>10. Chosen(b, size)
  BY <1>1, <1>2, <1>5, <1>6 DEF Chosen
<1> QED BY <1>9, <1>10

(* The step of malloc, or of a realloc whose copy traps.                     *)
LEMMA MallocStep ==
  ASSUME LInv, NEW size \in Sizes, NEW b, b = BestFit(heap, size), b # NULL,
         heap' = Allocated(heap, b, size), held' \subseteq held \cup {ADDR(b)}
  PROVE  /\ LInv'
         /\ b \in Sets!BestFits(size)
         /\ Sets!SetFreeList(Sets!Taken(Sets!FreeList, b, size))
         /\ InUse' = InUse \cup {b}
         /\ AskedOf(heap', InUse') = [AskedOf(heap, InUse) EXCEPT ![b] = size]
         /\ heap'.len["ALLOCATED"] = heap.len["ALLOCATED"] + 1
<1> PICK k : k = Sets!Taken(Sets!FreeList, b, size)
  OBVIOUS
<1>0. Chosen(b, size) /\ IsAllocated(heap, heap', InUse, b, size, k)
  BY TakeStep
<1>1. /\ b \in Sets!BestFits(size) /\ Reached(heap', InUse \cup {b}, k)
      /\ b \in Addr /\ b \notin InUse /\ size \in Nat
      /\ heap'.usize = [heap.usize EXCEPT ![b] = size] /\ heap.usize \in [Addr -> Nat]
      /\ heap'.len["ALLOCATED"] = heap.len["ALLOCATED"] + 1
  BY <1>0 DEF Chosen, IsAllocated
<1>2. Available' = k.nodes /\ InUse' = InUse \cup {b} /\ Sets!SetFreeList(k)
  BY <1>1, ReachedIs
<1>3. AskedOf(heap', InUse') = [AskedOf(heap, InUse) EXCEPT ![b] = size]
  BY <1>1, <1>2 DEF AskedOf
<1>4. LInv'
  BY <1>1, <1>2 DEF LInv, Reached
<1>5. Sets!SetFreeList(Sets!Taken(Sets!FreeList, b, size))
  BY <1>2 DEF Sets!SetFreeList
<1> QED BY <1>1, <1>2, <1>3, <1>4, <1>5, Zenon

LEMMA FreeStep ==
  ASSUME LInv, NEW ptr \in Int, Free(ptr)
  PROVE  LInv' /\ Sets!Free(ptr)
<1> PICK t : t = Find(heap, ptr)
  OBVIOUS
<1>1. /\ t # NULL /\ heap' = Freed(heap, t)
      /\ total' = total - heap'.usize[t] /\ held' = held \ {ptr}
  BY DEF Free
<1>2. /\ Sound(heap, Available, InUse) /\ heap \in Heap /\ Chained(heap, "ALLOCATED", InUse)
      /\ InUse \subseteq Addr
  BY DEF LInv, Sound, Chained
<1>3. t \in InUse /\ ADDR(t) = ptr
  BY <1>1, <1>2, FindIs
<1> PICK k : k = Sets!InsertAvailable(Sets!FreeList, t)
  OBVIOUS
<1>4. k = Sets!InsertAvailable(FreeOf(heap, Available, Available \cup InUse), t)
  BY FreeListIs
<1>d. IsFreed(heap, heap', InUse, t, k)
  BY <1>1, <1>2, <1>3, <1>4, FreedIs
<1>5. /\ Reached(heap', InUse \ {t}, k) /\ Sound(heap', k.nodes, InUse \ {t})
      /\ heap'.usize = heap.usize /\ heap'.len["ALLOCATED"] = heap.len["ALLOCATED"] - 1
  BY <1>d DEF IsFreed, Reached
<1>6. Available' = k.nodes /\ InUse' = InUse \ {t} /\ Sets!SetFreeList(k)
  BY <1>5, ReachedIs
<1>7. AskedOf(heap', InUse') = [AskedOf(heap, InUse) EXCEPT ![t] = 0]
  BY <1>2, <1>5, <1>6 DEF AskedOf
<1>8. heap'.usize[t] = AskedOf(heap, InUse)[t]
  BY <1>2, <1>3, <1>5 DEF AskedOf
<1>9. Sets!ADDR(t) = ptr
  BY <1>3, SetsHas
<1>10. Sets!Free(ptr)
  <2>1. Sets!SetFreeList(Sets!InsertAvailable(Sets!FreeList, t))
    BY <1>6 DEF Sets!SetFreeList
  <2>2. total' = total - AskedOf(heap, InUse)[t]
    BY <1>1, <1>8
  <2>3. AskedOf(heap, InUse) = [a \in Addr |-> IF a \in InUse THEN heap.usize[a] ELSE 0]
    BY DEF AskedOf
  <2>4. AskedOf(heap', InUse') = [a \in Addr |-> IF a \in InUse THEN heap.usize[a] ELSE 0]'
    BY DEF AskedOf
  <2> QED BY <2>1, <2>2, <2>3, <2>4, <1>1, <1>3, <1>5, <1>6, <1>7, <1>9, Zenon DEF Sets!Free
<1>11. held' \subseteq {ADDR(n) : n \in InUse'}
  BY <1>1, <1>3, <1>6 DEF LInv
<1> QED BY <1>5, <1>6, <1>10, <1>11 DEF LInv

LEMMA ReallocStep ==
  ASSUME LInv, NEW ptr \in held, NEW size \in Sizes, Realloc(ptr, size)
  PROVE  LInv' /\ Sets!Realloc(ptr, size)
<1> PICK b : b = BestFit(heap, size)
  OBVIOUS
<1> PICK got : got = Allocated(heap, b, size)
  OBVIOUS
<1> PICK t : t = Find(got, ptr)
  OBVIOUS
<1> PICK k : k = Sets!Taken(Sets!FreeList, b, size)
  OBVIOUS
<1> PICK f : f = Sets!InsertAvailable(k, t)
  OBVIOUS
<1>1. /\ ~ CopyTraps(ptr, size) /\ b # NULL /\ heap' = Freed(got, t)
      /\ total' = total + size - heap'.usize[t] /\ held' = (held \cup {ADDR(b)}) \ {ptr}
  BY DEF Realloc
<1>0. Chosen(b, size) /\ IsAllocated(heap, got, InUse, b, size, k)
  BY <1>1, TakeStep
<1>2. /\ b \in Sets!BestFits(size) /\ Reached(got, InUse \cup {b}, k)
      /\ b \in Addr /\ b \notin InUse /\ size \in Nat
      /\ got.usize = [heap.usize EXCEPT ![b] = size] /\ heap.usize \in [Addr -> Nat]
      /\ got.len["ALLOCATED"] = heap.len["ALLOCATED"] + 1 /\ InUse \subseteq Addr
      /\ heap.len["ALLOCATED"] \in Int
  BY <1>0 DEF Chosen, IsAllocated
<1>3. PICK n \in InUse : ptr = ADDR(n)
  BY DEF LInv
<1>4. /\ n \in Addr /\ n \in Int /\ OVERHEAD \in Int /\ ptr \in Int
      /\ \A a \in Addr : ADDR(a) = ptr => a = n
  BY <1>2, <1>3, AddrIs, ListAssumption DEF ListAssumption, ADDR
<1>5. t = n
  <2>1. Chained(got, "ALLOCATED", InUse \cup {b})
    BY <1>2 DEF Reached, Sound
  <2>2. Find(got, ptr) # NULL /\ Find(got, ptr) \in InUse \cup {b} /\ ADDR(Find(got, ptr)) = ptr
    BY <2>1, <1>3, <1>4, FindIs
  <2> QED BY <2>2, <1>2, <1>4
<1>6. t \in InUse /\ t # b /\ ADDR(t) = ptr /\ t \in Addr
  BY <1>2, <1>3, <1>4, <1>5
<1> DEFINE used == (InUse \cup {b}) \ {t}
<1>7. /\ Reached(heap', used, f) /\ Sound(heap', f.nodes, used)
      /\ heap'.usize = got.usize /\ heap'.len["ALLOCATED"] = got.len["ALLOCATED"] - 1
  <2> PICK T : T = InUse \cup {b}
    OBVIOUS
  <2>1. Sound(got, k.nodes, T) /\ t \in T
    BY <1>2, <1>6 DEF Reached
  <2>2. FreeOf(got, k.nodes, k.nodes \cup T) = k
    <3>1. k.rsize = Real(got, k.nodes \cup T) /\ k.len = got.len["AVAILABLE"]
      BY <1>2 DEF Reached
    <3>2. k = [nodes |-> k.nodes, rsize |-> k.rsize, len |-> k.len]
      BY DEF Sets!Taken, Sets!InsertAvailable, Sets!AbsorbUpper
    <3> QED BY <3>1, <3>2 DEF FreeOf
  <2>3. f = Sets!InsertAvailable(FreeOf(got, k.nodes, k.nodes \cup T), t)
    BY <2>2
  <2>4. IsFreed(got, heap', T, t, f)
    BY <2>1, <2>3, <1>1, FreedIs
  <2> QED BY <2>4 DEF IsFreed, Reached
<1>8. Available' = f.nodes /\ InUse' = used /\ Sets!SetFreeList(f)
  <2> HIDE DEF used
  <2> QED BY <1>7, ReachedIs
<1>9. AskedOf(heap', InUse') = [AskedOf(heap, InUse) EXCEPT ![b] = size, ![t] = 0]
  BY <1>2, <1>6, <1>7, <1>8 DEF AskedOf
<1>10. heap'.usize[t] = AskedOf(heap, InUse)[t]
  BY <1>2, <1>6, <1>7 DEF AskedOf
<1>11. heap'.len["ALLOCATED"] = heap.len["ALLOCATED"]
  BY <1>2, <1>7
<1>12. Sets!ADDR(t) = ptr /\ Sets!ADDR(b) = ADDR(b) /\ ~ Sets!CopyTraps(ptr, size)
  BY <1>1, <1>6, SetsHas
<1>13. Sets!Realloc(ptr, size)
  <2>1. Sets!SetFreeList(Sets!InsertAvailable(Sets!Taken(Sets!FreeList, b, size), t))
    BY <1>8 DEF Sets!SetFreeList
  <2>2. total' = total + size - AskedOf(heap, InUse)[t]
    BY <1>1, <1>10
  <2>3. AskedOf(heap, InUse) = [a \in Addr |-> IF a \in InUse THEN heap.usize[a] ELSE 0]
    BY DEF AskedOf
  <2>4. AskedOf(heap', InUse') = [a \in Addr |-> IF a \in InUse THEN heap.usize[a] ELSE 0]'
    BY DEF AskedOf
  <2>5. held' = (held \cup {Sets!ADDR(b)}) \ {ptr}
    BY <1>1, <1>12
  <2> QED BY <2>1, <2>2, <2>3, <2>4, <2>5, <1>2, <1>6, <1>8, <1>9, <1>11, <1>12, Zenon
          DEF Sets!Realloc
<1>14. held' \subseteq {ADDR(m) : m \in InUse'}
  BY <1>1, <1>6, <1>8 DEF LInv
<1>15. Sound(heap', Available', InUse')
  BY <1>7, <1>8
<1> QED BY <1>13, <1>14, <1>15 DEF LInv

LEMMA ReallocTrapsStep ==
  ASSUME LInv, NEW ptr \in held, NEW size \in Sizes, ReallocTraps(ptr, size)
  PROVE  LInv' /\ Sets!ReallocTraps(ptr, size)
<1> PICK b : b = BestFit(heap, size)
  OBVIOUS
<1>1. /\ CopyTraps(ptr, size) /\ b # NULL /\ heap' = Allocated(heap, b, size)
      /\ total' = total + size /\ held' = held
  BY DEF ReallocTraps
<1>2. /\ LInv' /\ b \in Sets!BestFits(size)
      /\ Sets!SetFreeList(Sets!Taken(Sets!FreeList, b, size))
      /\ InUse' = InUse \cup {b}
      /\ AskedOf(heap', InUse') = [AskedOf(heap, InUse) EXCEPT ![b] = size]
      /\ heap'.len["ALLOCATED"] = heap.len["ALLOCATED"] + 1
  BY <1>1, MallocStep
<1>3. AskedOf(heap, InUse) = [a \in Addr |-> IF a \in InUse THEN heap.usize[a] ELSE 0]
  BY DEF AskedOf
<1>4. AskedOf(heap', InUse') = [a \in Addr |-> IF a \in InUse THEN heap.usize[a] ELSE 0]'
  BY DEF AskedOf
<1>5. Sets!CopyTraps(ptr, size)
  BY <1>1, SetsHas
<1> QED BY <1>1, <1>2, <1>3, <1>4, <1>5, Zenon DEF Sets!ReallocTraps

LEMMA MallocIs ==
  ASSUME LInv, NEW size \in Sizes, Malloc(size)
  PROVE  LInv' /\ Sets!Malloc(size)
<1> PICK b : b = BestFit(heap, size)
  OBVIOUS
<1>1. /\ b # NULL /\ heap' = Allocated(heap, b, size)
      /\ total' = total + size /\ held' = held \cup {ADDR(b)}
  BY DEF Malloc
<1>2. /\ LInv' /\ b \in Sets!BestFits(size)
      /\ Sets!SetFreeList(Sets!Taken(Sets!FreeList, b, size))
      /\ InUse' = InUse \cup {b}
      /\ AskedOf(heap', InUse') = [AskedOf(heap, InUse) EXCEPT ![b] = size]
      /\ heap'.len["ALLOCATED"] = heap.len["ALLOCATED"] + 1
  BY <1>1, MallocStep
<1>3. AskedOf(heap, InUse) = [a \in Addr |-> IF a \in InUse THEN heap.usize[a] ELSE 0]
  BY DEF AskedOf
<1>4. AskedOf(heap', InUse') = [a \in Addr |-> IF a \in InUse THEN heap.usize[a] ELSE 0]'
  BY DEF AskedOf
<1>5. held' = held \cup {Sets!ADDR(b)}
  BY <1>1, SetsHas
<1> QED BY <1>1, <1>2, <1>3, <1>4, <1>5, Zenon DEF Sets!Malloc

(* A step that changes nothing of the lists changes nothing of the sets.     *)
LEMMA NothingChanges ==
  ASSUME LInv, UNCHANGED vars
  PROVE  LInv' /\ UNCHANGED Sets!vars
<1>1. heap' = heap /\ total' = total /\ held' = held
  BY DEF vars
<1>2. Available' = Available /\ InUse' = InUse
  BY <1>1 DEF Available, InUse
<1>3. UNCHANGED Sets!vars
  BY <1>1, <1>2 DEF Sets!vars
<1> QED BY <1>1, <1>2, <1>3 DEF LInv

LEMMA MallocFailsIs ==
  ASSUME LInv, NEW size \in Sizes, MallocFails(size)
  PROVE  LInv' /\ Sets!MallocFails(size)
<1>1. BestFit(heap, size) = NULL /\ UNCHANGED vars
  BY DEF MallocFails
<1>2. /\ heap \in Heap /\ Chained(heap, "AVAILABLE", Available) /\ Available \subseteq Addr
      /\ Proved!Tiles(InUse \cup Available, Real(heap, Available \cup InUse))
  BY DEF LInv, Sound, Chained
<1> PICK rs : rs = Real(heap, Available \cup InUse)
  OBVIOUS
<1>3. \A m \in Available : rs[m] = heap.rsize[m]
  BY <1>2 DEF Real
<1>4. \A m \in Available : AFTER(heap, m) <= PoolEnd
  <2>1. \A m \in InUse \cup Available : m + OVERHEAD + rs[m] <= PoolEnd
    BY <1>2, TilesAre
  <2> QED BY <2>1, <1>3 DEF AFTER, ADDR
<1>5. size \in Nat
  BY ListAssumption DEF ListAssumption
<1>6. \A m \in Available : heap.rsize[m] < size
  BY <1>1, <1>2, <1>4, <1>5, BestFitIs
<1>7. \A m \in Available : rs[m] < size
  BY <1>3, <1>6
<1> QED BY <1>1, <1>7, NothingChanges DEF Sets!MallocFails, Real

LEMMA FreeUnallocatedIs ==
  ASSUME LInv, NEW ptr \in Int, FreeUnallocated(ptr)
  PROVE  LInv' /\ Sets!FreeUnallocated(ptr)
<1>1. (ptr = NULL \/ Find(heap, ptr) = NULL) /\ UNCHANGED vars
  BY DEF FreeUnallocated
<1>2. Chained(heap, "ALLOCATED", InUse) /\ InUse \subseteq Addr
  BY DEF LInv, Sound, Chained
<1>3. \A t \in InUse : ADDR(t) # ptr
  <2>1. CASE ptr = NULL
    <3>1. \A t \in Addr : ADDR(t) # NULL
      BY AddrIs, ListAssumption DEF ListAssumption, ADDR, Addr, NULL
    <3> QED BY <3>1, <2>1, <1>2
  <2>2. CASE Find(heap, ptr) = NULL
    BY <2>2, <1>2, FindIs
  <2> QED BY <2>1, <2>2, <1>1
<1>4. \A t \in InUse : Sets!ADDR(t) # ptr
  BY <1>3, SetsHas
<1> QED BY <1>1, <1>4, NothingChanges DEF Sets!FreeUnallocated

-------------------------------------------------------------------------------
LEMMA InitLInv == Init => LInv /\ Sets!Init
<1> SUFFICES ASSUME Init PROVE LInv /\ Sets!Init
  OBVIOUS
<1> DEFINE S == {PoolStart}
           T == {}
<1>1. /\ PoolStart \in Addr /\ PoolStart \in Int /\ PoolEnd \in Int /\ PoolStart < PoolEnd
      /\ PoolStart # NULL /\ OVERHEAD \in Nat /\ PoolEnd - PoolStart - OVERHEAD \in Nat
      /\ NULL \in Int
  BY ListAssumption DEF ListAssumption, Addr, NULL
<1>2. /\ heap \in Heap
      /\ heap.head["AVAILABLE"] = PoolStart /\ heap.head["ALLOCATED"] = NULL
      /\ heap.len["AVAILABLE"] = 1 /\ heap.len["ALLOCATED"] = 0
      /\ \A a \in Addr : heap.next[a] = NULL
      /\ heap.rsize = [a \in Addr |-> IF a = PoolStart THEN PoolEnd - PoolStart - OVERHEAD ELSE 0]
      /\ heap.usize = [a \in Addr |-> 0] /\ total = 0 /\ held = {}
  BY <1>1 DEF Init, Heap, Lists
<1>3. Chained(heap, "AVAILABLE", S) /\ Chained(heap, "ALLOCATED", T)
  BY <1>1, <1>2 DEF Chained, TopBelow
<1>4. Available = S /\ InUse = T
  <2>1. "AVAILABLE" \in Lists /\ "ALLOCATED" \in Lists
    BY DEF Lists
  <2>2. Members(heap, "AVAILABLE") = S /\ Members(heap, "ALLOCATED") = T
    BY <2>1, <1>3, MembersAre
  <2> QED BY <2>2 DEF Available, InUse
<1> PICK rs : rs = Real(heap, S \cup T)
  OBVIOUS
<1>5. rs = heap.rsize /\ rs[PoolStart] = PoolEnd - PoolStart - OVERHEAD /\ rs \in [Addr -> Nat]
  BY <1>1, <1>2 DEF Real
<1>6. Proved!AFTER(rs, PoolStart) = PoolEnd
  BY <1>1, <1>5 DEF Proved!AFTER
<1>7. Proved!Tiles(T \cup S, rs)
  <2>1. Proved!Addr = Addr
    BY DEF Proved!Addr, Addr
  <2> QED BY <2>1, <1>1, <1>5, <1>6 DEF Proved!Tiles
<1>8. Proved!Merged(S, rs)
  BY <1>1, <1>6 DEF Proved!Merged, Proved!ADJACENT
<1>9. /\ IsFiniteSet(S) /\ Cardinality(S) = 1 /\ IsFiniteSet(T) /\ Cardinality(T) = 0
  BY FS_Singleton, FS_EmptySet
<1>10. LInv
  <2>1. S \cap T = {}
    OBVIOUS
  <2>2. Sound(heap, S, T)
    BY <2>1, <1>2, <1>3, <1>7, <1>8, <1>9 DEF Sound
  <2> QED BY <2>2, <1>2, <1>4 DEF LInv
<1>11. Sets!Init
  <2>1. [a \in Addr |-> IF a \in Available \cup InUse THEN heap.rsize[a] ELSE 0]
        = [a \in Addr |-> IF a = PoolStart THEN PoolEnd - PoolStart - OVERHEAD ELSE 0]
    BY <1>2, <1>4
  <2>2. [a \in Addr |-> IF a \in InUse THEN heap.usize[a] ELSE 0] = [a \in Addr |-> 0]
    BY <1>2, <1>4
  <2>3. Sets!Addr = Addr
    BY SetsHas
  <2> QED BY <2>1, <2>2, <2>3, <1>2, <1>4 DEF Sets!Init
<1> QED BY <1>10, <1>11

(* Every step on the lists is the step of the same name on the sets.         *)
LEMMA NextLInv == LInv /\ [Next]_vars => LInv' /\ [Sets!Next]_(Sets!vars)
<1> SUFFICES ASSUME LInv, [Next]_vars PROVE LInv' /\ [Sets!Next]_(Sets!vars)
  OBVIOUS
<1>1. Sets!Addr = Addr /\ NULL = 0 /\ \A ptr \in Addr \cup {NULL} : ptr \in Int
  BY SetsHas, AddrIs DEF NULL
<1>2. ASSUME NEW size \in Sizes, Malloc(size) PROVE LInv' /\ Sets!Next
  BY <1>2, MallocIs DEF Sets!Next
<1>3. ASSUME NEW size \in Sizes, MallocFails(size) PROVE LInv' /\ Sets!Next
  BY <1>3, MallocFailsIs DEF Sets!Next
<1>4. ASSUME NEW ptr \in Addr \cup {NULL}, Free(ptr) PROVE LInv' /\ Sets!Next
  BY <1>1, <1>4, FreeStep DEF Sets!Next
<1>5. ASSUME NEW ptr \in Addr \cup {NULL}, FreeUnallocated(ptr) PROVE LInv' /\ Sets!Next
  BY <1>1, <1>5, FreeUnallocatedIs DEF Sets!Next
<1>6. ASSUME NEW ptr \in held, NEW size \in Sizes, Realloc(ptr, size) PROVE LInv' /\ Sets!Next
  BY <1>6, ReallocStep DEF Sets!Next
<1>7. ASSUME NEW ptr \in held, NEW size \in Sizes, ReallocTraps(ptr, size)
      PROVE  LInv' /\ Sets!Next
  BY <1>7, ReallocTrapsStep DEF Sets!Next
<1>8. CASE UNCHANGED vars
  BY <1>8, NothingChanges
<1> QED BY <1>2, <1>3, <1>4, <1>5, <1>6, <1>7, <1>8 DEF Next

(* Both lists stay in strictly descending address order, and as long as they *)
(* are counted: the walks of delete, insert and find stop at the right node. *)
THEOREM ListsStaySorted == Spec => []ListsSorted
<1>1. LInv => ListsSorted
  <2> SUFFICES ASSUME LInv PROVE ListsSorted
    OBVIOUS
  <2>1. /\ Chained(heap, "AVAILABLE", Available) /\ Chained(heap, "ALLOCATED", InUse)
        /\ heap.len["AVAILABLE"] = Cardinality(Available)
        /\ heap.len["ALLOCATED"] = Cardinality(InUse)
    BY DEF LInv, Sound
  <2>2. \A l \in Lists : /\ Chained(heap, l, Members(heap, l))
                         /\ heap.len[l] = Cardinality(Members(heap, l))
    BY <2>1 DEF Lists, Available, InUse
  <2>3. ASSUME NEW l \in Lists, NEW n \in Members(heap, l), heap.next[n] # NULL
        PROVE  heap.next[n] < n
    <3> PICK S : S = Members(heap, l)
      OBVIOUS
    <3>1. S \in SUBSET Addr /\ TopBelow(heap.next[n], S, n) /\ n \in Int
      BY <2>2, AddrIs DEF Chained
    <3> QED BY <3>1, <2>3, TopBelowIs
  <2> QED BY <2>2, <2>3 DEF ListsSorted
<1> QED BY <1>1, InitLInv, NextLInv, PTL DEF Spec

(* The linked lists, walked and edited as the code does, implement the       *)
(* allocator on sets of nodes, which no order of headers in memory concerns. *)
THEOREM ListsImplementSets == Spec => ImplementsSets
<1> QED BY InitLInv, NextLInv, PTL DEF Spec, ImplementsSets, Sets!Spec
===============================================================================
