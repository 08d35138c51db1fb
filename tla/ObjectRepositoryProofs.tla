------------------------ MODULE ObjectRepositoryProofs ------------------------
(***************************************************************************)
(* Handles stay valid for every table size, object and callback name, and  *)
(* across every growth of the table.                                       *)
(***************************************************************************)
EXTENDS ObjectRepository, FiniteSetTheorems, WellFoundedInduction, TLAPS

(* Whoever owns a slot owns one above the reserved ones, inside the table. *)
OwnersAboveReserved ==
  /\ table.firstFree >= 2
  /\ \A h \in DOMAIN held : h >= 2 /\ held[h] \in Objects
  /\ CallbackIds \subseteq 2 .. table.size - 1

(* A name that was not published has no function yet.                        *)
CallbacksUnpublished ==
  \A name \in Names : callbacksByName[name] = NULL => wanted[name] = Unset

IInv ==
  /\ TypeOK
  /\ table = [slots |-> table.slots, size |-> table.size, firstFree |-> table.firstFree]
  /\ HandlesResolve
  /\ NextHandleIsFresh
  /\ ReservedNeverIssued
  /\ NoHoleBelow
  /\ CallbacksBound
  /\ OwnersAboveReserved
  /\ CallbacksUnpublished

(* A set of naturals that is not empty has a least element. *)
LEMMA LeastOf ==
  ASSUME NEW S \in SUBSET Nat, S # {}
  PROVE  \E i \in S : \A j \in S : i <= j
<1>1. PICK x \in S : \A y \in S : ~ (<<y, x>> \in OpToRel(<, Nat))
  BY NatLessThanWellFounded, WFMin
<1>2. \A y \in S : ~ (y < x)
  BY <1>1 DEF OpToRel
<1>3. \A y \in S : x <= y
  BY <1>2
<1> QED BY <1>3

(* A slot registerObject hands out is the one firstFree named, or the first  *)
(* one past the old table; the table it leaves differs there alone, except   *)
(* that a growth also leaves the object in the slot firstFree names.         *)
Issued(t, obj, r) ==
  /\ r.ret \in 2 .. r.table.size - 1
  /\ r.table = [slots |-> r.table.slots, size |-> r.table.size,
                firstFree |-> r.table.firstFree]
  /\ r.table.size \in t.size .. MaxSize
  /\ r.table.slots \in [0 .. r.table.size - 1 -> Values \cup {NULL}]
  /\ r.table.firstFree \in t.firstFree .. r.table.size - 1
  /\ r.ret = t.firstFree \/ r.ret = t.size
  /\ r.table.slots[r.ret] = obj
  /\ \A h \in 0 .. t.size - 1 : h # t.firstFree => r.table.slots[h] = t.slots[h]
  /\ r.table.firstFree # r.ret
  /\ r.table.firstFree = t.firstFree \/ t.slots[r.table.firstFree] = NULL
  /\ \A h \in t.firstFree .. r.table.firstFree - 1 : r.table.slots[h] # NULL

LEMMA RegisteredIssues ==
  ASSUME IInv, NEW obj \in Values, RoomFor(table)
  PROVE  Issued(table, obj, Registered(table, obj))
<1> DEFINE t == table
<1> DEFINE r == Registered(t, obj)
<1> DEFINE slots == [t.slots EXCEPT ![t.firstFree] = obj]
<1>1. /\ t.size \in Nat /\ t.size <= MaxSize /\ MaxSize \in Nat /\ t.size > 2
      /\ t.firstFree \in 2 .. t.size - 1 /\ t.firstFree \in Nat
      /\ t.slots \in [0 .. t.size - 1 -> Values \cup {NULL}]
  BY RepositoryAssumption DEF IInv, TypeOK, OwnersAboveReserved, RepositoryAssumption
<1>2. /\ slots \in [0 .. t.size - 1 -> Values \cup {NULL}]
      /\ slots[t.firstFree] = obj
      /\ \A h \in 0 .. t.size - 1 : h # t.firstFree => slots[h] = t.slots[h]
  BY <1>1
<1>3. CASE FreeSlots(t) # {}
  <2> DEFINE low == CHOOSE i \in FreeSlots(t) : \A j \in FreeSlots(t) : i <= j
  <2>1. FreeSlots(t) \in SUBSET Nat
    BY <1>1 DEF FreeSlots
  <2>2. low \in FreeSlots(t) /\ \A j \in FreeSlots(t) : low <= j
    <3>1. \E i \in FreeSlots(t) : \A j \in FreeSlots(t) : i <= j
      BY <2>1, <1>3, LeastOf
    <3> QED BY <3>1
  <2>3. low \in t.firstFree + 1 .. t.size - 1 /\ t.slots[low] = NULL
    BY <2>2 DEF FreeSlots
  <2>4. r = [ret |-> t.firstFree,
             table |-> [slots |-> slots, size |-> t.size, firstFree |-> low]]
    BY <1>3 DEF Registered
  <2> HIDE DEF low, slots, r, t
  <2>5. /\ r.ret = t.firstFree /\ r.table.slots = slots /\ r.table.size = t.size
        /\ r.table.firstFree = low
    BY <2>4
  <2>6. r.table = [slots |-> r.table.slots, size |-> r.table.size,
                   firstFree |-> r.table.firstFree]
    BY <2>4
  <2>8. \A h \in t.firstFree .. low - 1 : slots[h] # NULL
    <3> SUFFICES ASSUME NEW h \in t.firstFree .. low - 1 PROVE slots[h] # NULL
      OBVIOUS
    <3>1. CASE h = t.firstFree
      BY <3>1, <1>2, RepositoryAssumption DEF RepositoryAssumption, Values
    <3>2. CASE h # t.firstFree
      <4>1. h \in t.firstFree + 1 .. t.size - 1 /\ h < low
        BY <3>2, <2>3, <1>1
      <4>2. t.slots[h] # NULL
        BY <4>1, <2>2, <2>3, <1>1 DEF FreeSlots
      <4> QED BY <4>1, <4>2, <3>2, <1>1, <1>2
    <3> QED BY <3>1, <3>2
  <2>7. Issued(t, obj, r)
    BY <1>1, <1>2, <2>3, <2>5, <2>6, <2>8 DEF Issued
  <2> QED BY <2>7 DEF t, r
<1>4. CASE FreeSlots(t) = {}
  <2> DEFINE grown == [i \in 0 .. 2 * t.size - 1 |->
                         IF i < t.size THEN slots[i] ELSE IF i = t.size THEN obj ELSE NULL]
  <2>1. 2 * t.size <= MaxSize
    BY <1>4 DEF RoomFor
  <2>2. r = [ret |-> t.size,
             table |-> [slots |-> grown, size |-> 2 * t.size, firstFree |-> t.firstFree]]
    BY <1>4 DEF Registered
  <2> HIDE DEF slots, r, t
  <2>3. /\ grown \in [0 .. 2 * t.size - 1 -> Values \cup {NULL}]
        /\ grown[t.size] = obj
        /\ \A h \in 0 .. t.size - 1 : grown[h] = slots[h]
    BY <1>1, <1>2
  <2> HIDE DEF grown
  <2>4. /\ r.ret = t.size /\ r.table.slots = grown /\ r.table.size = 2 * t.size
        /\ r.table.firstFree = t.firstFree
    BY <2>2
  <2>5. r.table = [slots |-> r.table.slots, size |-> r.table.size,
                   firstFree |-> r.table.firstFree]
    BY <2>2
  <2>6. \A h \in 0 .. t.size - 1 : h # t.firstFree => r.table.slots[h] = t.slots[h]
    BY <2>3, <2>4, <1>2
  <2>7. Issued(t, obj, r)
    BY <1>1, <2>1, <2>3, <2>4, <2>5, <2>6, SMTT(40) DEF Issued
  <2> QED BY <2>7 DEF t, r
<1> QED BY <1>3, <1>4

(* The slots that somebody owns are not the one handed out, nor the next one. *)
LEMMA IssuedIsFresh ==
  ASSUME IInv, NEW obj \in Values, NEW r, Issued(table, obj, r)
  PROVE  /\ r.ret \notin DOMAIN held \cup CallbackIds
         /\ r.table.firstFree \notin DOMAIN held \cup CallbackIds \cup {r.ret}
         /\ \A h \in DOMAIN held \cup CallbackIds : r.table.slots[h] = table.slots[h]
         /\ \A h \in Reserved : r.table.slots[h] = NULL
<1>1. /\ table.size \in Nat /\ table.size > 2 /\ table.firstFree \in 2 .. table.size - 1
      /\ DOMAIN held \subseteq 0 .. table.size - 1
      /\ CallbackIds \subseteq 2 .. table.size - 1
  BY RepositoryAssumption DEF IInv, TypeOK, OwnersAboveReserved, RepositoryAssumption
<1>2. table.firstFree \notin DOMAIN held \cup CallbackIds
  BY DEF IInv, NextHandleIsFresh
<1>3. \A h \in DOMAIN held \cup CallbackIds : table.slots[h] # NULL
  <2>1. \A h \in DOMAIN held : table.slots[h] \in Objects
    BY DEF IInv, HandlesResolve, OwnersAboveReserved
  <2>2. \A h \in CallbackIds : table.slots[h] \in FnPtrs \cup {Unset}
    BY DEF IInv, CallbacksBound, CallbackIds, TypeOK
  <2> QED BY <2>1, <2>2, RepositoryAssumption DEF RepositoryAssumption
<1>4. r.ret \notin DOMAIN held \cup CallbackIds
  BY <1>1, <1>2 DEF Issued
<1>5. r.table.firstFree \notin DOMAIN held \cup CallbackIds \cup {r.ret}
  BY <1>2, <1>3 DEF Issued
<1>6. \A h \in DOMAIN held \cup CallbackIds : r.table.slots[h] = table.slots[h]
  <2> SUFFICES ASSUME NEW h \in DOMAIN held \cup CallbackIds
               PROVE r.table.slots[h] = table.slots[h]
    OBVIOUS
  <2>1. h \in 0 .. table.size - 1
    <3>1. CASE h \in DOMAIN held
      BY <3>1, <1>1
    <3>2. CASE h \in CallbackIds
      <4>1. h \in 2 .. table.size - 1
        BY <3>2, <1>1
      <4> QED BY <4>1, <1>1
    <3> QED BY <3>1, <3>2
  <2>2. h # table.firstFree
    BY <1>2
  <2> QED BY <2>1, <2>2 DEF Issued
<1>7. \A h \in Reserved : r.table.slots[h] = NULL
  <2>1. \A h \in Reserved : h \in 0 .. table.size - 1 /\ h # table.firstFree
    BY <1>1 DEF Reserved
  <2> QED BY <2>1 DEF Issued, IInv, ReservedNeverIssued
<1> QED BY <1>4, <1>5, <1>6, <1>7

THEOREM InitIInv == Init => IInv
<1> SUFFICES ASSUME Init PROVE IInv
  OBVIOUS
<1>1. /\ table.slots = [i \in 0 .. InitialSize - 1 |-> NULL]
      /\ table.size = InitialSize /\ table.firstFree = 2 /\ DOMAIN held = {}
      /\ \A name \in Names : callbacksByName[name] = NULL
      /\ callbacksByName \in [Names -> 0 .. MaxSize \cup {NULL}]
      /\ wanted \in [Names -> FnPtrs \cup {Unset}]
  BY DEF Init
<1>2. CallbackIds = {}
  BY <1>1 DEF CallbackIds
<1>3. TypeOK
  BY <1>1, RepositoryAssumption DEF TypeOK, RepositoryAssumption
<1>4. HandlesResolve /\ NextHandleIsFresh /\ NoHoleBelow /\ OwnersAboveReserved
  BY <1>1, <1>2 DEF HandlesResolve, NextHandleIsFresh, NoHoleBelow, OwnersAboveReserved
<1>5. ReservedNeverIssued
  BY <1>1, RepositoryAssumption DEF ReservedNeverIssued, Reserved, RepositoryAssumption
<1>6. CallbacksBound
  BY <1>1, <1>2 DEF CallbacksBound
<1>7. CallbacksUnpublished
  BY DEF Init, CallbacksUnpublished
<1> QED BY <1>3, <1>4, <1>5, <1>6, <1>7 DEF IInv, Init

(* A system call that returns an object gives out a handle of its own.       *)
LEMMA RegisterIInv ==
  ASSUME IInv, NEW obj \in Objects, Register(obj)
  PROVE  IInv'
<1> DEFINE r == Registered(table, obj)
<1>1. obj \in Values
  BY DEF Values
<1>2. Issued(table, obj, r)
  BY <1>1, RegisteredIssues DEF Register
<1>3. /\ table' = r.table /\ held' = Grown(held, r.ret, obj)
      /\ UNCHANGED <<callbacksByName, wanted>>
  BY DEF Register
<1> HIDE DEF r
<1>4. /\ r.ret \notin DOMAIN held \cup CallbackIds
      /\ r.table.firstFree \notin DOMAIN held \cup CallbackIds \cup {r.ret}
      /\ \A h \in DOMAIN held \cup CallbackIds : r.table.slots[h] = table.slots[h]
      /\ \A h \in Reserved : r.table.slots[h] = NULL
  BY <1>1, <1>2, IssuedIsFresh
<1>5. /\ DOMAIN held' = DOMAIN held \cup {r.ret} /\ held'[r.ret] = obj
      /\ \A h \in DOMAIN held : held'[h] = held[h]
  BY <1>3, <1>4 DEF Grown
<1>6. CallbackIds' = CallbackIds
  BY <1>3 DEF CallbackIds
<1>7. /\ table.size \in Nat /\ table.size <= r.table.size /\ r.table.size <= MaxSize
      /\ table.size >= InitialSize /\ InitialSize \in Nat /\ MaxSize \in Nat
      /\ r.table.size \in Nat /\ table.firstFree \in 2 .. table.size - 1
      /\ r.table.firstFree \in 2 .. r.table.size - 1 /\ r.ret \in 2 .. r.table.size - 1
  BY <1>2, RepositoryAssumption
  DEF Issued, IInv, TypeOK, OwnersAboveReserved, RepositoryAssumption
<1>8. TypeOK'
  <2>1. DOMAIN held' \subseteq 0 .. r.table.size - 1
    BY <1>5, <1>7, SMTT(40) DEF IInv, TypeOK
  <2> QED BY <1>2, <1>3, <1>7, <2>1, SMTT(40) DEF Issued, IInv, TypeOK
<1>9. HandlesResolve' /\ NextHandleIsFresh' /\ ReservedNeverIssued'
  BY <1>2, <1>3, <1>4, <1>5, <1>6
  DEF Issued, IInv, HandlesResolve, NextHandleIsFresh, ReservedNeverIssued
<1>10. NoHoleBelow'
  <2> SUFFICES ASSUME NEW i \in 2 .. r.table.firstFree - 1 PROVE r.table.slots[i] # NULL
    BY <1>3 DEF NoHoleBelow
  <2>1. CASE i < table.firstFree
    <3>1. i \in 2 .. table.firstFree - 1 /\ i \in 0 .. table.size - 1 /\ i # table.firstFree
      BY <2>1, <1>7
    <3>2. table.slots[i] # NULL
      BY <3>1 DEF IInv, NoHoleBelow
    <3> QED BY <3>1, <3>2, <1>2 DEF Issued
  <2>2. CASE i >= table.firstFree
    BY <2>2, <1>2, <1>7 DEF Issued
  <2> QED BY <2>1, <2>2, <1>7
<1>11. CallbacksBound'
  <2>1. \A name \in Names : callbacksByName[name] # NULL => callbacksByName[name] \in CallbackIds
    BY DEF CallbackIds
  <2> QED BY <2>1, <1>3, <1>4, <1>5, <1>6 DEF IInv, CallbacksBound
<1>12. OwnersAboveReserved'
  <2>1. CallbackIds \subseteq 2 .. r.table.size - 1
    BY <1>7 DEF IInv, OwnersAboveReserved
  <2> QED BY <2>1, <1>3, <1>5, <1>6, <1>7 DEF IInv, OwnersAboveReserved
<1>13. CallbacksUnpublished'
  BY <1>3 DEF IInv, CallbacksUnpublished
<1> QED BY <1>2, <1>3, <1>8, <1>9, <1>10, <1>11, <1>12, <1>13 DEF IInv, Issued

(* A published callback gets a slot nobody else names.                       *)
LEMMA PublishIInv ==
  ASSUME IInv, NEW name \in Names, PublishCallback(name)
  PROVE  IInv'
<1> DEFINE r == Registered(table, Unset)
<1>1. Unset \in Values
  BY DEF Values
<1>2. Issued(table, Unset, r)
  BY <1>1, RegisteredIssues DEF PublishCallback
<1>3. /\ table' = r.table /\ callbacksByName[name] = NULL
      /\ callbacksByName' = [callbacksByName EXCEPT ![name] = r.ret]
      /\ UNCHANGED <<held, wanted>>
  BY DEF PublishCallback
<1> HIDE DEF r
<1>4. /\ r.ret \notin DOMAIN held \cup CallbackIds
      /\ r.table.firstFree \notin DOMAIN held \cup CallbackIds \cup {r.ret}
      /\ \A h \in DOMAIN held \cup CallbackIds : r.table.slots[h] = table.slots[h]
      /\ \A h \in Reserved : r.table.slots[h] = NULL
  BY <1>1, <1>2, IssuedIsFresh
<1>5. /\ callbacksByName'[name] = r.ret
      /\ \A m \in Names \ {name} : callbacksByName'[m] = callbacksByName[m]
  BY <1>3 DEF IInv, TypeOK
<1>6. CallbackIds' \subseteq CallbackIds \cup {r.ret}
  BY <1>5 DEF CallbackIds
<1>7. /\ table.size \in Nat /\ table.size <= r.table.size /\ r.table.size <= MaxSize
      /\ table.size >= InitialSize /\ InitialSize \in Nat /\ MaxSize \in Nat
      /\ r.table.size \in Nat /\ table.firstFree \in 2 .. table.size - 1
      /\ r.table.firstFree \in 2 .. r.table.size - 1 /\ r.ret \in 2 .. r.table.size - 1
  BY <1>2, RepositoryAssumption
  DEF Issued, IInv, TypeOK, OwnersAboveReserved, RepositoryAssumption
<1>8. TypeOK'
  <2>1. DOMAIN held \subseteq 0 .. r.table.size - 1
    BY <1>7 DEF IInv, TypeOK
  <2>2. r.ret \in 0 .. MaxSize
    BY <1>7
  <2>3. callbacksByName' \in [Names -> 0 .. MaxSize \cup {NULL}]
    BY <2>2, <1>3 DEF IInv, TypeOK
  <2> QED BY <1>2, <1>3, <1>7, <2>1, <2>3, SMTT(40) DEF Issued, IInv, TypeOK
<1>9. HandlesResolve' /\ NextHandleIsFresh' /\ ReservedNeverIssued'
  BY <1>3, <1>4, <1>6
  DEF IInv, HandlesResolve, NextHandleIsFresh, ReservedNeverIssued
<1>10. NoHoleBelow'
  <2> SUFFICES ASSUME NEW i \in 2 .. r.table.firstFree - 1 PROVE r.table.slots[i] # NULL
    BY <1>3 DEF NoHoleBelow
  <2>1. CASE i < table.firstFree
    <3>1. i \in 2 .. table.firstFree - 1 /\ i \in 0 .. table.size - 1 /\ i # table.firstFree
      BY <2>1, <1>7
    <3>2. table.slots[i] # NULL
      BY <3>1 DEF IInv, NoHoleBelow
    <3> QED BY <3>1, <3>2, <1>2 DEF Issued
  <2>2. CASE i >= table.firstFree
    BY <2>2, <1>2, <1>7 DEF Issued
  <2> QED BY <2>1, <2>2, <1>7
<1>11. CallbacksBound'
  <2>1. \A m \in Names : callbacksByName[m] # NULL => callbacksByName[m] \in CallbackIds
    BY DEF CallbackIds
  <2>2. r.table.slots[r.ret] = wanted[name]
    BY <1>2, <1>3 DEF Issued, IInv, CallbacksUnpublished
  <2>3. \A m \in Names : callbacksByName'[m] # NULL => table'.slots[callbacksByName'[m]] = wanted'[m]
    BY <2>1, <2>2, <1>3, <1>4, <1>5 DEF IInv, CallbacksBound
  <2>4. \A m, n \in Names :
          m # n /\ callbacksByName'[m] # NULL => callbacksByName'[m] # callbacksByName'[n]
    <3> SUFFICES ASSUME NEW m \in Names, NEW n \in Names, m # n, callbacksByName'[m] # NULL
                 PROVE callbacksByName'[m] # callbacksByName'[n]
      OBVIOUS
    <3>1. r.ret # NULL
      BY <1>7, RepositoryAssumption DEF RepositoryAssumption
    <3>2. CASE m = name
      BY <3>1, <3>2, <2>1, <1>4, <1>5
    <3>3. CASE n = name
      BY <3>3, <2>1, <1>4, <1>5
    <3>4. CASE m # name /\ n # name
      BY <3>4, <1>5 DEF IInv, CallbacksBound
    <3> QED BY <3>2, <3>3, <3>4
  <2> QED BY <2>3, <2>4, <1>3, <1>4, <1>6 DEF IInv, CallbacksBound
<1>12. OwnersAboveReserved'
  <2>1. CallbackIds \cup {r.ret} \subseteq 2 .. r.table.size - 1
    BY <1>7 DEF IInv, OwnersAboveReserved
  <2> QED BY <2>1, <1>3, <1>6, <1>7 DEF IInv, OwnersAboveReserved
<1>13. CallbacksUnpublished'
  BY <1>3, <1>5 DEF IInv, CallbacksUnpublished
<1> QED BY <1>2, <1>3, <1>8, <1>9, <1>10, <1>11, <1>12, <1>13 DEF IInv, Issued

(* Freeing a slot disturbs no other, also when nobody held it any more.      *)
LEMMA FreedIInv ==
  ASSUME IInv, NEW h \in 2 .. table.size - 1, h \notin CallbackIds,
         table' = DeRegistered(table, h), held' = Dropped(held, h),
         UNCHANGED <<callbacksByName, wanted>>
  PROVE  IInv'
<1> DEFINE low == IF table.firstFree > h THEN h ELSE table.firstFree
<1>1. /\ table' = [slots |-> [table.slots EXCEPT ![h] = NULL], size |-> table.size,
                   firstFree |-> low]
      /\ held' = Dropped(held, h)
      /\ UNCHANGED <<callbacksByName, wanted>>
  BY DEF DeRegistered
<1>2. /\ table.size \in Nat /\ table.firstFree \in 2 .. table.size - 1
      /\ h \in 2 .. table.size - 1 /\ DOMAIN table.slots = 0 .. table.size - 1
      /\ table.slots \in [0 .. table.size - 1 -> Values \cup {NULL}]
  BY RepositoryAssumption DEF IInv, TypeOK, OwnersAboveReserved, RepositoryAssumption
<1>3. low \in 2 .. table.size - 1 /\ low <= table.firstFree /\ low <= h
      /\ (low = h \/ low = table.firstFree)
  BY <1>2
<1> HIDE DEF low
<1>4. /\ table'.slots = [table.slots EXCEPT ![h] = NULL] /\ table'.size = table.size
      /\ table'.firstFree = low
  BY <1>1
<1>5. /\ table'.slots \in [0 .. table.size - 1 -> Values \cup {NULL}]
      /\ table'.slots[h] = NULL
      /\ \A g \in 0 .. table.size - 1 : g # h => table'.slots[g] = table.slots[g]
  BY <1>2, <1>4
<1>6. DOMAIN held' = DOMAIN held \ {h} /\ \A g \in DOMAIN held \ {h} : held'[g] = held[g]
  BY <1>1 DEF Dropped
<1>7. CallbackIds' = CallbackIds /\ h \notin CallbackIds
  BY <1>1 DEF CallbackIds
<1>8. TypeOK'
  BY <1>1, <1>2, <1>3, <1>4, <1>5, <1>6 DEF IInv, TypeOK
<1>9. HandlesResolve'
  BY <1>5, <1>6 DEF IInv, TypeOK, HandlesResolve
<1>10. NextHandleIsFresh'
  BY <1>3, <1>4, <1>6, <1>7 DEF IInv, NextHandleIsFresh
<1>11. ReservedNeverIssued'
  <2>1. \A g \in Reserved : g \in 0 .. table.size - 1 /\ g # h
    BY <1>2 DEF Reserved
  <2> QED BY <2>1, <1>5 DEF IInv, ReservedNeverIssued
<1>12. NoHoleBelow'
  BY <1>2, <1>3, <1>4, <1>5 DEF IInv, NoHoleBelow
<1>13. CallbacksBound'
  <2>1. \A m \in Names : callbacksByName[m] # NULL => callbacksByName[m] \in CallbackIds
    BY DEF CallbackIds
  <2>2. \A g \in CallbackIds : g \in 0 .. table.size - 1 /\ g # h
    <3>1. \A g \in CallbackIds : g \in 2 .. table.size - 1
      BY DEF IInv, OwnersAboveReserved
    <3> QED BY <3>1, <1>2, <1>7
  <2> QED BY <2>1, <2>2, <1>1, <1>5, <1>6, <1>7 DEF IInv, CallbacksBound
<1>14. OwnersAboveReserved'
  BY <1>3, <1>4, <1>6, <1>7 DEF IInv, OwnersAboveReserved
<1>15. CallbacksUnpublished'
  BY <1>1 DEF IInv, CallbacksUnpublished
<1> QED BY <1>1, <1>8, <1>9, <1>10, <1>11, <1>12, <1>13, <1>14, <1>15 DEF IInv

(* NOPH_delete frees a handle the program holds.                             *)
LEMMA DeRegisterIInv ==
  ASSUME IInv, NEW h \in DOMAIN held, DeRegister(h)
  PROVE  IInv'
<1>1. h \in 2 .. table.size - 1
  BY RepositoryAssumption DEF IInv, TypeOK, OwnersAboveReserved, RepositoryAssumption
<1>2. h \notin CallbackIds
  BY DEF IInv, CallbacksBound
<1> QED BY <1>1, <1>2, FreedIInv DEF DeRegister

(* Registering a function touches the slot of its own name alone.            *)
LEMMA RegisterCallbackIInv ==
  ASSUME IInv, NEW name \in Names, NEW fn \in FnPtrs, RegisterCallback(name, fn)
  PROVE  IInv'
<1> DEFINE id == callbacksByName[name]
<1>1. /\ id # NULL /\ UNCHANGED <<held, callbacksByName>>
      /\ wanted' = [wanted EXCEPT ![name] = fn]
      /\ table' = [slots |-> [table.slots EXCEPT ![id] = fn], size |-> table.size,
                   firstFree |-> table.firstFree]
  BY DEF RegisterCallback, IInv
<1>2. id \in CallbackIds
  BY <1>1 DEF CallbackIds
<1>3. /\ table.size \in Nat /\ id \in 2 .. table.size - 1 /\ id \notin DOMAIN held
      /\ table.firstFree \in 2 .. table.size - 1 /\ id # table.firstFree
      /\ table.slots \in [0 .. table.size - 1 -> Values \cup {NULL}]
      /\ DOMAIN held \subseteq 0 .. table.size - 1
  BY <1>2, RepositoryAssumption
  DEF IInv, TypeOK, OwnersAboveReserved, CallbacksBound, NextHandleIsFresh, RepositoryAssumption
<1> HIDE DEF id
<1>4. /\ table'.slots = [table.slots EXCEPT ![id] = fn] /\ table'.size = table.size
      /\ table'.firstFree = table.firstFree /\ fn \in Values /\ fn # NULL
  BY <1>1, RepositoryAssumption DEF Values, RepositoryAssumption
<1>5. /\ table'.slots \in [0 .. table.size - 1 -> Values \cup {NULL}]
      /\ table'.slots[id] = fn
      /\ \A g \in 0 .. table.size - 1 : g # id => table'.slots[g] = table.slots[g]
  BY <1>3, <1>4
<1>6. CallbackIds' = CallbackIds
  BY <1>1 DEF CallbackIds
<1>7. TypeOK'
  BY <1>1, <1>4, <1>5 DEF IInv, TypeOK
<1>8. HandlesResolve' /\ NextHandleIsFresh'
  BY <1>1, <1>3, <1>4, <1>5, <1>6 DEF IInv, HandlesResolve, NextHandleIsFresh
<1>9. ReservedNeverIssued'
  <2>1. \A g \in Reserved : g \in 0 .. table.size - 1 /\ g # id
    BY <1>3 DEF Reserved
  <2> QED BY <2>1, <1>5 DEF IInv, ReservedNeverIssued
<1>10. NoHoleBelow'
  BY <1>3, <1>4, <1>5 DEF IInv, NoHoleBelow
<1>11. CallbacksBound'
  <2>1. wanted'[name] = fn /\ \A m \in Names \ {name} : wanted'[m] = wanted[m]
    BY <1>1 DEF IInv, TypeOK
  <2>2. \A m \in Names \ {name} :
          callbacksByName[m] # NULL =>
            callbacksByName[m] # id /\ callbacksByName[m] \in 0 .. table.size - 1
    <3> SUFFICES ASSUME NEW m \in Names \ {name}, callbacksByName[m] # NULL
                 PROVE callbacksByName[m] # id /\ callbacksByName[m] \in 0 .. table.size - 1
      OBVIOUS
    <3>1. callbacksByName[m] # id
      BY <1>1 DEF IInv, CallbacksBound, id
    <3>2. callbacksByName[m] \in 2 .. table.size - 1
      BY DEF IInv, OwnersAboveReserved, CallbackIds
    <3> QED BY <3>1, <3>2, <1>3
  <2>3. \A m \in Names : callbacksByName[m] # NULL =>
                            table'.slots[callbacksByName[m]] = wanted'[m]
    BY <2>1, <2>2, <1>5 DEF IInv, CallbacksBound, id
  <2> QED BY <2>3, <1>1, <1>6 DEF IInv, CallbacksBound
<1>12. OwnersAboveReserved'
  BY <1>1, <1>4, <1>6 DEF IInv, OwnersAboveReserved
<1>13. CallbacksUnpublished'
  BY <1>1 DEF IInv, TypeOK, CallbacksUnpublished, id
<1> QED BY <1>1, <1>7, <1>8, <1>9, <1>10, <1>11, <1>12, <1>13 DEF IInv

THEOREM StepIInv == IInv /\ [Next]_vars => IInv'
<1> SUFFICES ASSUME IInv, [Next]_vars PROVE IInv'
  OBVIOUS
<1>1. ASSUME NEW obj \in Objects, Register(obj) PROVE IInv'
  BY <1>1, RegisterIInv
<1>2. ASSUME NEW h \in DOMAIN held, DeRegister(h) PROVE IInv'
  BY <1>2, DeRegisterIInv
<1>3. ASSUME NEW name \in Names, PublishCallback(name) PROVE IInv'
  BY <1>3, PublishIInv
<1>4. ASSUME NEW name \in Names, NEW fn \in FnPtrs, RegisterCallback(name, fn) PROVE IInv'
  BY <1>4, RegisterCallbackIInv
<1>5. ASSUME UNCHANGED vars PROVE IInv'
  BY <1>5 DEF vars, IInv, TypeOK, HandlesResolve, NextHandleIsFresh, ReservedNeverIssued,
              NoHoleBelow, CallbacksBound, OwnersAboveReserved, CallbacksUnpublished, CallbackIds
<1> QED BY <1>1, <1>2, <1>3, <1>4, <1>5 DEF Next, RegisterCallbackThrows

THEOREM SpecIInv == Spec => []IInv
  BY InitIInv, StepIInv, PTL DEF Spec

(* The table keeps its shape, however often it grows.                        *)
THEOREM TypeCorrect == Spec => []TypeOK
<1>1. IInv => TypeOK
  BY DEF IInv
<1> QED BY <1>1, SpecIInv, PTL

(* getRegisteredObject gives the program the object its handle was made for. *)
THEOREM HandlesStayValid == Spec => []HandlesResolve
<1>1. IInv => HandlesResolve
  BY DEF IInv
<1> QED BY <1>1, SpecIInv, PTL

(* registerObject never overwrites a slot the program or a callback owns.    *)
THEOREM FreshHandles == Spec => []NextHandleIsFresh
<1>1. IInv => NextHandleIsFresh
  BY DEF IInv
<1> QED BY <1>1, SpecIInv, PTL

(* The invalid object and the exception object keep their numbers.           *)
THEOREM ReservedHandles == Spec => []ReservedNeverIssued
<1>1. IInv => ReservedNeverIssued
  BY DEF IInv
<1> QED BY <1>1, SpecIInv, PTL

(* The upwards search of registerObject misses no slot that was given back.  *)
THEOREM SearchMissesNothing == Spec => []NoHoleBelow
<1>1. IInv => NoHoleBelow
  BY DEF IInv
<1> QED BY <1>1, SpecIInv, PTL

(* invokeCallback finds the function registered last under the name.         *)
THEOREM CallbacksStayBound == Spec => []CallbacksBound
<1>1. IInv => CallbacksBound
  BY DEF IInv
<1> QED BY <1>1, SpecIInv, PTL

-------------------------------------------------------------------------------
(* A power of two counts the subsets of a set; one more element doubles it.  *)
LEMMA PowerKeeps ==
  ASSUME NEW S, IsFiniteSet(S), NEW T \in SUBSET S
  PROVE  /\ IsFiniteSet(T)
         /\ 2 ^ Cardinality(T) \in Nat /\ 2 ^ Cardinality(S) \in Nat
         /\ 2 ^ Cardinality(T) <= 2 ^ Cardinality(S)
<1>1. IsFiniteSet(T)
  BY FS_Subset
<1>2. /\ IsFiniteSet(SUBSET S) /\ Cardinality(SUBSET S) = 2 ^ Cardinality(S)
      /\ Cardinality(SUBSET T) = 2 ^ Cardinality(T)
  BY <1>1, FS_SUBSET
<1>3. SUBSET T \in SUBSET (SUBSET S)
  OBVIOUS
<1>4. /\ IsFiniteSet(SUBSET T) /\ Cardinality(SUBSET T) <= Cardinality(SUBSET S)
  BY <1>2, <1>3, FS_Subset
<1>5. Cardinality(SUBSET T) \in Nat /\ Cardinality(SUBSET S) \in Nat
  BY <1>2, <1>4, FS_CardinalityType
<1> QED BY <1>1, <1>2, <1>4, <1>5

LEMMA PowerGrows ==
  ASSUME NEW S, IsFiniteSet(S), NEW x
  PROVE  /\ IsFiniteSet(S \cup {x})
         /\ 2 ^ Cardinality(S \cup {x}) <= 2 * 2 ^ Cardinality(S)
<1> DEFINE More == S \cup {x}
           With == {T \cup {x} : T \in SUBSET S}
           adding == [T \in SUBSET S |-> T \cup {x}]
<1>1. IsFiniteSet(More)
  BY FS_AddElement
<1>2. /\ IsFiniteSet(SUBSET S) /\ Cardinality(SUBSET S) = 2 ^ Cardinality(S)
      /\ IsFiniteSet(SUBSET More) /\ Cardinality(SUBSET More) = 2 ^ Cardinality(More)
  BY <1>1, FS_SUBSET
<1>3. IsFiniteSet(With) /\ Cardinality(With) <= Cardinality(SUBSET S)
  <2>1. adding \in [SUBSET S -> With] /\ \A t \in With : \E T \in SUBSET S : adding[T] = t
    OBVIOUS
  <2>2. adding \in Surjection(SUBSET S, With)
    BY <2>1 DEF Surjection
  <2> HIDE DEF adding, With
  <2> QED BY <1>2, <2>2, FS_Surjection
<1>4. SUBSET More = (SUBSET S) \cup With
  <2> SUFFICES ASSUME NEW T \in SUBSET More, x \in T PROVE T \in With
    OBVIOUS
  <2>1. T \ {x} \in SUBSET S /\ T = (T \ {x}) \cup {x}
    OBVIOUS
  <2> QED BY <2>1
<1> HIDE DEF With, More
<1>5. /\ IsFiniteSet((SUBSET S) \cap With)
      /\ Cardinality((SUBSET S) \cup With) =
           Cardinality(SUBSET S) + Cardinality(With) - Cardinality((SUBSET S) \cap With)
  <2>1. (SUBSET S) \cap With \in SUBSET With
    OBVIOUS
  <2> QED BY <2>1, <1>2, <1>3, FS_Union, FS_Subset
<1>6. /\ Cardinality(SUBSET S) \in Nat /\ Cardinality(With) \in Nat
      /\ Cardinality((SUBSET S) \cap With) \in Nat
  BY <1>2, <1>3, <1>5, FS_CardinalityType
<1>7. 2 ^ Cardinality(More) <= 2 * 2 ^ Cardinality(S)
  <2>1. Cardinality(SUBSET More) <= 2 * Cardinality(SUBSET S)
    <3>1. Cardinality(SUBSET More) =
            Cardinality(SUBSET S) + Cardinality(With) - Cardinality((SUBSET S) \cap With)
      BY <1>4, <1>5
    <3> QED BY <3>1, <1>3, <1>6
  <2> QED BY <2>1, <1>2
<1> QED BY <1>1, <1>7 DEF More

(* A leak is a slot of the table.                                            *)
LEMMA LeakedFinite ==
  ASSUME IInv
  PROVE  IsFiniteSet(Leaked) /\ table.size \in Nat /\ InitialSize \in Nat
<1>1. table.size \in Nat /\ InitialSize \in Nat
  BY RepositoryAssumption DEF IInv, TypeOK, RepositoryAssumption
<1>2. Leaked \in SUBSET (2 .. table.size - 1)
  BY DEF Leaked
<1>3. IsFiniteSet(2 .. table.size - 1)
  BY <1>1, FS_Interval
<1> QED BY <1>1, <1>2, <1>3, FS_Subset

(* Nothing new is leaked, or one slot while the table doubles.               *)
LeaksWithGrowth ==
  \/ Leaked' \subseteq Leaked /\ table'.size >= table.size
  \/ Leaked' \subseteq Leaked \cup {table.firstFree} /\ table'.size = 2 * table.size

LEMMA LeakStep ==
  ASSUME IInv, IInv', LeakBounded, LeaksWithGrowth
  PROVE  LeakBounded'
<1> DEFINE p == 2 ^ Cardinality(Leaked)
           q == 2 ^ Cardinality(Leaked')
<1>1. /\ IsFiniteSet(Leaked) /\ table.size \in Nat /\ InitialSize \in Nat
      /\ table'.size \in Nat
  BY LeakedFinite, RepositoryAssumption DEF IInv, TypeOK, RepositoryAssumption
<1>2. p \in Nat
  <2>1. Leaked \in SUBSET Leaked
    OBVIOUS
  <2> QED BY <1>1, <2>1, PowerKeeps
<1>3. InitialSize * p <= table.size
  BY DEF LeakBounded
<1>4. CASE Leaked' \subseteq Leaked /\ table'.size >= table.size
  <2>1. q \in Nat /\ q <= p
    BY <1>1, <1>4, PowerKeeps
  <2> HIDE DEF p, q
  <2>2. InitialSize * q <= InitialSize * p
    BY <1>1, <1>2, <2>1
  <2>3. InitialSize * q \in Nat /\ InitialSize * p \in Nat
    BY <1>1, <1>2, <2>1
  <2>4. InitialSize * q <= table'.size
    BY <1>1, <1>3, <1>4, <2>2, <2>3
  <2> QED BY <2>4 DEF LeakBounded, q
<1>5. CASE Leaked' \subseteq Leaked \cup {table.firstFree} /\ table'.size = 2 * table.size
  <2> DEFINE More == Leaked \cup {table.firstFree}
  <2>1. IsFiniteSet(More) /\ 2 ^ Cardinality(More) <= 2 * p
    BY <1>1, PowerGrows
  <2>2. q \in Nat /\ 2 ^ Cardinality(More) \in Nat /\ q <= 2 ^ Cardinality(More)
    BY <1>5, <2>1, PowerKeeps
  <2> HIDE DEF p, q, More
  <2>3. q <= 2 * p
    BY <1>2, <2>1, <2>2
  <2>4. InitialSize * q <= InitialSize * (2 * p)
    BY <1>1, <1>2, <2>2, <2>3
  <2>5. InitialSize * (2 * p) = 2 * (InitialSize * p)
    BY <1>1, <1>2
  <2>6. InitialSize * q \in Nat /\ InitialSize * p \in Nat
    BY <1>1, <1>2, <2>2
  <2>7. InitialSize * q <= table'.size
    BY <1>1, <1>3, <1>5, <2>4, <2>5, <2>6
  <2> QED BY <2>7 DEF LeakBounded, q
<1> QED BY <1>4, <1>5 DEF LeaksWithGrowth

(* registerObject leaves nobody's objects behind but the copy of a growth.   *)
LEMMA RegisteredLeaks ==
  ASSUME IInv, NEW obj \in Values, RoomFor(table),
         table' = Registered(table, obj).table,
         DOMAIN held \cup CallbackIds \cup {Registered(table, obj).ret} \subseteq
           DOMAIN held' \cup CallbackIds'
  PROVE  LeaksWithGrowth
<1>1. /\ table.size \in Nat /\ table.firstFree \in 2 .. table.size - 1
      /\ table.slots \in [0 .. table.size - 1 -> Values \cup {NULL}]
  BY RepositoryAssumption DEF IInv, TypeOK, OwnersAboveReserved, RepositoryAssumption
<1>2. CASE FreeSlots(table) # {}
  <2>1. /\ table'.slots = [table.slots EXCEPT ![table.firstFree] = obj]
        /\ table'.size = table.size
        /\ Registered(table, obj).ret = table.firstFree
    BY <1>2 DEF Registered
  <2>2. Leaked' \subseteq Leaked
    BY <1>1, <2>1 DEF Leaked
  <2> QED BY <1>1, <2>1, <2>2 DEF LeaksWithGrowth
<1>3. CASE FreeSlots(table) = {}
  <2> DEFINE slots == [table.slots EXCEPT ![table.firstFree] = obj]
  <2>1. /\ table'.slots = [i \in 0 .. 2 * table.size - 1 |->
                             IF i < table.size THEN slots[i]
                             ELSE IF i = table.size THEN obj ELSE NULL]
        /\ table'.size = 2 * table.size
        /\ Registered(table, obj).ret = table.size
    BY <1>3 DEF Registered
  <2>2. \A i \in 0 .. table.size - 1 : i # table.firstFree => slots[i] = table.slots[i]
    BY <1>1
  <2> HIDE DEF slots
  <2>3. ASSUME NEW i \in Leaked' PROVE i \in Leaked \cup {table.firstFree}
    <3>1. /\ i \in 2 .. 2 * table.size - 1 /\ table'.slots[i] # NULL
          /\ i \notin DOMAIN held \cup CallbackIds /\ i # table.size
      BY <2>1, <2>3 DEF Leaked
    <3>2. i < table.size
      BY <3>1, <2>1, <1>1
    <3>3. table'.slots[i] = slots[i]
      BY <3>1, <3>2, <2>1, <1>1
    <3> QED BY <3>1, <3>2, <3>3, <2>2, <1>1 DEF Leaked
  <2> QED BY <2>1, <2>3 DEF LeaksWithGrowth
<1> QED BY <1>2, <1>3

LEMMA StepLeaks == IInv /\ IInv' /\ LeakBounded /\ [Next]_vars => LeakBounded'
<1> SUFFICES ASSUME IInv, IInv', LeakBounded, [Next]_vars PROVE LeakBounded'
  OBVIOUS
<1>1. table.size \in Nat /\ table.slots \in [0 .. table.size - 1 -> Values \cup {NULL}]
  BY RepositoryAssumption DEF IInv, TypeOK, RepositoryAssumption
<1>2. ASSUME NEW obj \in Objects, Register(obj) PROVE LeaksWithGrowth
  <2>1. obj \in Values /\ RoomFor(table) /\ table' = Registered(table, obj).table
    BY <1>2 DEF Register, Values
  <2>2. /\ DOMAIN held' = DOMAIN held \cup {Registered(table, obj).ret}
        /\ CallbackIds' = CallbackIds
    BY <1>2 DEF Register, Grown, CallbackIds
  <2> QED BY <2>1, <2>2, RegisteredLeaks
<1>3. ASSUME NEW h \in DOMAIN held, DeRegister(h) PROVE LeaksWithGrowth
  <2>1. /\ table'.slots = [table.slots EXCEPT ![h] = NULL] /\ table'.size = table.size
        /\ DOMAIN held' = DOMAIN held \ {h} /\ CallbackIds' = CallbackIds
    BY <1>3 DEF DeRegister, DeRegistered, Dropped, CallbackIds
  <2>2. h \in 0 .. table.size - 1
    BY DEF IInv, TypeOK
  <2>3. Leaked' \subseteq Leaked
    BY <1>1, <2>1, <2>2 DEF Leaked
  <2> QED BY <1>1, <2>1, <2>3 DEF LeaksWithGrowth
<1>4. ASSUME NEW name \in Names, PublishCallback(name) PROVE LeaksWithGrowth
  <2>1. Unset \in Values /\ RoomFor(table) /\ table' = Registered(table, Unset).table
    BY <1>4 DEF PublishCallback, Values
  <2> DEFINE ret == Registered(table, Unset).ret
  <2>2. /\ callbacksByName[name] = NULL /\ held' = held
        /\ callbacksByName' = [callbacksByName EXCEPT ![name] = ret]
    BY <1>4 DEF PublishCallback
  <2>3. ret # NULL
    <3>1. Issued(table, Unset, Registered(table, Unset))
      BY <2>1, RegisteredIssues
    <3>2. ret \in Nat
      BY <3>1, <1>1 DEF Issued
    <3> QED BY <3>2, RepositoryAssumption DEF RepositoryAssumption
  <2> HIDE DEF ret
  <2>4. CallbackIds \cup {ret} \subseteq CallbackIds'
    <3>1. /\ callbacksByName'[name] = ret
          /\ \A m \in Names : callbacksByName[m] # NULL => callbacksByName'[m] = callbacksByName[m]
      BY <2>2 DEF IInv, TypeOK
    <3> QED BY <3>1, <2>3 DEF CallbackIds
  <2>5. DOMAIN held \cup CallbackIds \cup {ret} \subseteq DOMAIN held' \cup CallbackIds'
    BY <2>2, <2>4
  <2> QED BY <2>1, <2>5, RegisteredLeaks DEF ret
<1>5. ASSUME NEW name \in Names, NEW fn \in FnPtrs, RegisterCallback(name, fn)
      PROVE  LeaksWithGrowth
  <2> DEFINE id == callbacksByName[name]
  <2>1. /\ id \in CallbackIds /\ CallbackIds' = CallbackIds /\ held' = held
        /\ table'.slots = [table.slots EXCEPT ![id] = fn] /\ table'.size = table.size
    BY <1>5 DEF RegisterCallback, CallbackIds, IInv
  <2> HIDE DEF id
  <2>2. Leaked' \subseteq Leaked
    BY <1>1, <2>1 DEF Leaked
  <2> QED BY <1>1, <2>1, <2>2 DEF LeaksWithGrowth
<1>6. CASE UNCHANGED vars
  BY <1>6 DEF vars, LeakBounded, Leaked, CallbackIds
<1>7. ASSUME NEW name \in Names, NEW fn \in FnPtrs, RegisterCallbackThrows(name, fn)
      PROVE  UNCHANGED vars
  BY <1>7 DEF RegisterCallbackThrows
<1> QED BY <1>2, <1>3, <1>4, <1>5, <1>6, <1>7, LeakStep DEF Next

(* What a growth leaves behind is all that nobody can free: never more slots *)
(* than the table doubled.                                                   *)
THEOREM LeaksStayBounded == Spec => []LeakBounded
<1>1. Init => LeakBounded
  <2> SUFFICES ASSUME Init PROVE LeakBounded
    OBVIOUS
  <2>1. InitialSize \in Nat /\ table.size = InitialSize
    BY RepositoryAssumption DEF Init, RepositoryAssumption
  <2>2. Leaked = {}
    BY <2>1 DEF Init, Leaked
  <2>3. Cardinality({}) = 0 /\ IsFiniteSet({}) /\ SUBSET {} = {{}}
    BY FS_EmptySet
  <2>4. 2 ^ Cardinality({}) = 1
    <3>1. Cardinality({{}}) = 1
      BY FS_Singleton
    <3>2. Cardinality(SUBSET {}) = 2 ^ Cardinality({})
      BY <2>3, FS_SUBSET
    <3> QED BY <2>3, <3>1, <3>2
  <2>5. InitialSize * 1 <= InitialSize
    BY <2>1
  <2> QED BY <2>1, <2>2, <2>4, <2>5 DEF LeakBounded
<1> QED BY <1>1, StepLeaks, SpecIInv, PTL DEF Spec
===============================================================================
