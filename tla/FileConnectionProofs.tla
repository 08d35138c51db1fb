-------------------------- MODULE FileConnectionProofs -------------------------
(***************************************************************************)
(* The handles a FILE keeps are its own, for any number of FILEs and any   *)
(* objects: what the files claim is never more than what they hold, by one *)
(* for each FILE that was closed after its reset had failed.               *)
(***************************************************************************)
EXTENDS FileConnection, ObjectRepositoryProofs, FiniteSetTheorems

(* The FILEs of the program are read (ReadSpec).                             *)
ReadPlaces == {"closed", "connected", "open", "catching", "resetting", "reset", "reopened",
               "stale", "gone"}

File == [at : ReadPlaces, fc : 0 .. MaxSize, is : 0 .. MaxSize, ex : 0 .. MaxSize]

NoCallbacks == \A name \in Names : callbacksByName[name] = NULL

InTable == 2 .. table.size - 1

(* What a FILE gives to NOPH_delete, or will, is above the reserved handles. *)
HandlesInTable ==
  \A f \in FileIds :
    /\ files[f].at \in {"connected", "open", "resetting", "reset", "reopened", "stale"} =>
         files[f].fc \in InTable
    /\ files[f].at = "open" => files[f].is \in InTable
    /\ files[f].at = "catching" => files[f].ex \in InTable

CallShape ==
  /\ call \in FileIds \cup {Idle}
  /\ \A f \in FileIds : (call = f) <=> files[f].at \notin {"closed", "open", "stale", "gone"}

-------------------------------------------------------------------------------
(* A claim is a FILE and the field of fileconnection_file_t it answers for.  *)
Fields == {"fc", "is", "ex"}

FieldsAt(at) ==
  IF at \in {"connected", "reopened", "resetting"} THEN {"fc"}
  ELSE IF at = "open" THEN {"fc", "is"}
  ELSE IF at = "catching" THEN {"ex"}
  ELSE {}

HandleIn(p, k) == IF k = "fc" THEN p.fc ELSE IF k = "is" THEN p.is ELSE p.ex
HandleOf(c) == HandleIn(files[c[1]], c[2])
ObjectOf(c) == IF c[2] = "fc" THEN ConnectionOf[c[1]] ELSE IF c[2] = "is" THEN StreamOf[c[1]] ELSE Exc

Claims == {c \in FileIds \X Fields : c[2] \in FieldsAt(files[c[1]].at)}

Matched(c) == HandleOf(c) \in DOMAIN held /\ held[HandleOf(c)] = ObjectOf(c)

(* Handles that are held and that some FILE rightly claims.                  *)
Good == {HandleOf(c) : c \in {d \in Claims : Matched(d)}}

Gone == {f \in FileIds : files[f].at = "gone"}

(* Every claim has a handle to itself, but for one claim for each FILE gone. *)
ClaimsCovered == Cardinality(Claims) <= Cardinality(Good) + Cardinality(Gone)

FilesIInv ==
  /\ IInv /\ NoCallbacks
  /\ files \in [FileIds -> File] /\ HandlesInTable /\ CallShape
  /\ ClaimsCovered

-------------------------------------------------------------------------------
(* Counting. *)
LEMMA SetsFinite ==
  ASSUME FilesIInv
  PROVE  IsFiniteSet(Claims) /\ IsFiniteSet(Good) /\ IsFiniteSet(Gone)
<1>1. IsFiniteSet(Fields)
  <2>1. IsFiniteSet({"fc"}) /\ IsFiniteSet({"fc"} \cup {"is"})
    BY FS_Singleton, FS_AddElement
  <2>2. IsFiniteSet({"fc"} \cup {"is"} \cup {"ex"})
    BY <2>1, FS_AddElement
  <2>3. Fields = {"fc"} \cup {"is"} \cup {"ex"}
    BY DEF Fields
  <2> QED BY <2>2, <2>3
<1>2. IsFiniteSet(FileIds \X Fields)
  BY <1>1, FS_Product, FileAssumption
<1>3. Claims \in SUBSET (FileIds \X Fields)
  BY DEF Claims
<1>4. IsFiniteSet(Claims)
  BY <1>2, <1>3, FS_Subset
<1>5. IsFiniteSet(Gone)
  <2>1. Gone \in SUBSET FileIds
    BY DEF Gone
  <2> QED BY <2>1, FS_Subset, FileAssumption
<1>6. IsFiniteSet(Good)
  <2>1. Good \in SUBSET DOMAIN held
    BY DEF Good, Matched
  <2>2. DOMAIN held \in SUBSET (0 .. table.size - 1) /\ table.size \in Int
    BY RepositoryAssumption DEF FilesIInv, IInv, TypeOK, RepositoryAssumption
  <2>3. Good \in SUBSET (0 .. table.size - 1)
    BY <2>1, <2>2
  <2>4. IsFiniteSet(0 .. table.size - 1)
    BY <2>2, FS_Interval
  <2> QED BY <2>3, <2>4, FS_Subset
<1> QED BY <1>4, <1>5, <1>6

(* One claim more, and a handle more; one claim less, and a handle less.     *)
LEMMA ClaimGained ==
  ASSUME NEW C, IsFiniteSet(C), NEW G, NEW G2, IsFiniteSet(G2), NEW n \in Nat,
         NEW x, NEW h, x \notin C, h \notin G, G \cup {h} \subseteq G2,
         Cardinality(C) <= Cardinality(G) + n
  PROVE  IsFiniteSet(C \cup {x}) /\ Cardinality(C \cup {x}) <= Cardinality(G2) + n
<1>1. IsFiniteSet(G)
  BY FS_Subset
<1>2. IsFiniteSet(C \cup {x}) /\ Cardinality(C \cup {x}) = Cardinality(C) + 1
  BY FS_AddElement
<1>3. Cardinality(G \cup {h}) = Cardinality(G) + 1
  BY <1>1, FS_AddElement
<1>4. Cardinality(G \cup {h}) <= Cardinality(G2)
  BY FS_Subset
<1>5. Cardinality(C) \in Nat /\ Cardinality(G) \in Nat /\ Cardinality(G2) \in Nat
  BY <1>1, FS_CardinalityType
<1> QED BY <1>2, <1>3, <1>4, <1>5

LEMMA ClaimLost ==
  ASSUME NEW C, IsFiniteSet(C), NEW G, IsFiniteSet(G), NEW G2, IsFiniteSet(G2), NEW n \in Nat,
         NEW x \in C, NEW h, G \ {h} \subseteq G2,
         Cardinality(C) <= Cardinality(G) + n
  PROVE  IsFiniteSet(C \ {x}) /\ Cardinality(C \ {x}) <= Cardinality(G2) + n
<1>1. IsFiniteSet(C \ {x}) /\ Cardinality(C \ {x}) = Cardinality(C) - 1
  BY FS_RemoveElement
<1>2. Cardinality(G \ {h}) = Cardinality(G) \/ Cardinality(G \ {h}) = Cardinality(G) - 1
  BY FS_RemoveElement
<1>3. Cardinality(G \ {h}) <= Cardinality(G2)
  BY FS_Subset
<1>4. Cardinality(C) \in Nat /\ Cardinality(G) \in Nat /\ Cardinality(G2) \in Nat
  BY FS_CardinalityType
<1> QED BY <1>1, <1>2, <1>3, <1>4

-------------------------------------------------------------------------------
(* What a call into the repository does to the handles.                      *)
Issues(h, obj) ==
  /\ IInv' /\ NoCallbacks'
  /\ table.size \in Nat /\ table'.size \in Nat /\ table.size <= table'.size
  /\ h \in 2 .. table'.size - 1 /\ h \notin DOMAIN held
  /\ DOMAIN held' = DOMAIN held \cup {h} /\ held'[h] = obj
  /\ \A g \in DOMAIN held : held'[g] = held[g]

LEMMA RegisterIssues ==
  ASSUME IInv, NoCallbacks, NEW obj \in Objects, Register(obj)
  PROVE  Issues(NextHandle(obj), obj)
<1> DEFINE r == Registered(table, obj)
<1>1. obj \in Values
  BY DEF Values
<1>2. Issued(table, obj, r)
  BY <1>1, RegisteredIssues DEF Register
<1>3. /\ table' = r.table /\ held' = Grown(held, r.ret, obj)
      /\ UNCHANGED <<callbacksByName, wanted>>
  BY DEF Register
<1>4. NextHandle(obj) = r.ret
  BY DEF NextHandle
<1> HIDE DEF r
<1>5. r.ret \notin DOMAIN held
  BY <1>1, <1>2, IssuedIsFresh
<1>6. /\ DOMAIN held' = DOMAIN held \cup {r.ret} /\ held'[r.ret] = obj
      /\ \A g \in DOMAIN held : held'[g] = held[g]
  BY <1>3, <1>5 DEF Grown
<1>7. table.size \in Nat /\ table'.size \in Nat /\ table.size <= table'.size
  BY <1>2, <1>3, RepositoryAssumption DEF Issued, IInv, TypeOK, RepositoryAssumption
<1>8. r.ret \in 2 .. table'.size - 1
  BY <1>2, <1>3 DEF Issued
<1>9. NoCallbacks'
  BY <1>3 DEF NoCallbacks
<1>10. IInv'
  BY RegisterIInv
<1> QED BY <1>4, <1>5, <1>6, <1>7, <1>8, <1>9, <1>10 DEF Issues

Frees(h) ==
  /\ IInv' /\ NoCallbacks'
  /\ table.size \in Nat /\ table'.size = table.size
  /\ DOMAIN held' = DOMAIN held \ {h}
  /\ \A g \in DOMAIN held \ {h} : held'[g] = held[g]

LEMMA DeleteFrees ==
  ASSUME IInv, NoCallbacks, NEW h \in InTable, Delete(h)
  PROVE  Frees(h)
<1>1. /\ table' = DeRegistered(table, h) /\ held' = Dropped(held, h)
      /\ UNCHANGED <<callbacksByName, wanted>>
  BY DEF Delete
<1>2. h \notin CallbackIds
  BY DEF NoCallbacks, CallbackIds
<1>3. IInv'
  BY <1>1, <1>2, FreedIInv DEF InTable
<1>4. table'.size = table.size
  BY <1>1 DEF DeRegistered
<1>5. table.size \in Nat
  BY RepositoryAssumption DEF IInv, TypeOK, RepositoryAssumption
<1>6. DOMAIN held' = DOMAIN held \ {h} /\ \A g \in DOMAIN held \ {h} : held'[g] = held[g]
  BY <1>1 DEF Dropped
<1>7. NoCallbacks'
  BY <1>1 DEF NoCallbacks
<1> QED BY <1>3, <1>4, <1>5, <1>6, <1>7 DEF Frees

-------------------------------------------------------------------------------
(* A step of one FILE: f goes to p and every other FILE stays.               *)
Moves(f, p) == files' = [files EXCEPT ![f] = p]

LEMMA MovedFile ==
  ASSUME FilesIInv, NEW f \in FileIds, NEW p \in File, Moves(f, p)
  PROVE  /\ files' \in [FileIds -> File] /\ files'[f] = p
         /\ \A g \in FileIds \ {f} : files'[g] = files[g]
BY DEF FilesIInv, Moves

LEMMA MovedClaims ==
  ASSUME FilesIInv, NEW f \in FileIds, NEW p \in File, Moves(f, p)
  PROVE  /\ \A c \in FileIds \X Fields :
              c \in Claims' <=> IF c[1] = f THEN c[2] \in FieldsAt(p.at) ELSE c \in Claims
         /\ \A c \in FileIds \X Fields :
              HandleOf(c)' = IF c[1] = f THEN HandleIn(p, c[2]) ELSE HandleOf(c)
         /\ \A c : ObjectOf(c)' = ObjectOf(c)
<1>1. files'[f] = p /\ \A g \in FileIds \ {f} : files'[g] = files[g]
  BY MovedFile
<1>2. ASSUME NEW c \in FileIds \X Fields
      PROVE  c \in Claims' <=> IF c[1] = f THEN c[2] \in FieldsAt(p.at) ELSE c \in Claims
  <2>1. c[1] \in FileIds
    OBVIOUS
  <2>2. files'[c[1]] = IF c[1] = f THEN p ELSE files[c[1]]
    BY <1>1, <2>1
  <2>3. c \in Claims' <=> c[2] \in FieldsAt(files'[c[1]].at)
    BY <1>2 DEF Claims, FieldsAt
  <2>4. c \in Claims <=> c[2] \in FieldsAt(files[c[1]].at)
    BY <1>2 DEF Claims
  <2> QED BY <2>2, <2>3, <2>4
<1>3. ASSUME NEW c \in FileIds \X Fields
      PROVE  HandleOf(c)' = IF c[1] = f THEN HandleIn(p, c[2]) ELSE HandleOf(c)
  <2>1. c[1] \in FileIds
    OBVIOUS
  <2>2. files'[c[1]] = IF c[1] = f THEN p ELSE files[c[1]]
    BY <1>1, <2>1
  <2>3. HandleOf(c)' = HandleIn(files'[c[1]], c[2])
    BY DEF HandleOf, HandleIn
  <2> QED BY <2>2, <2>3 DEF HandleOf
<1>4. ASSUME NEW c PROVE ObjectOf(c)' = ObjectOf(c)
  BY DEF ObjectOf
<1> QED BY <1>2, <1>3, <1>4

(* Which claims of a FILE stay, and what the repository keeps for them: all  *)
(* but the handles D.                                                        *)
KeepsBut(f, p, D) ==
  /\ \A g \in DOMAIN held \ D : g \in DOMAIN held' /\ held'[g] = held[g]
  /\ \A k \in FieldsAt(files[f].at) :
       HandleIn(files[f], k) \in D \/ (k \in FieldsAt(p.at) /\ HandleIn(p, k) = HandleIn(files[f], k))

LEMMA GoodKept ==
  ASSUME FilesIInv, NEW f \in FileIds, NEW p \in File, Moves(f, p), NEW D, KeepsBut(f, p, D)
  PROVE  Good \ D \subseteq Good'
<1> SUFFICES ASSUME NEW h \in Good, h \notin D PROVE h \in Good'
  OBVIOUS
<1>1. PICK c \in Claims : Matched(c) /\ h = HandleOf(c)
  BY DEF Good
<1>2. c \in FileIds \X Fields /\ c[1] \in FileIds /\ c[2] \in FieldsAt(files[c[1]].at)
  BY DEF Claims
<1>3. h \in DOMAIN held /\ held[h] = ObjectOf(c)
  BY <1>1 DEF Matched
<1>4. h \in DOMAIN held' /\ held'[h] = ObjectOf(c)'
  BY <1>1, <1>2, <1>3, MovedClaims DEF KeepsBut
<1>5. c \in Claims' /\ HandleOf(c)' = h
  <2>1. CASE c[1] = f
    <3>1. h = HandleIn(files[f], c[2])
      BY <2>1, <1>1 DEF HandleOf
    <3>2. c[2] \in FieldsAt(p.at) /\ HandleIn(p, c[2]) = h
      BY <3>1, <2>1, <1>2 DEF KeepsBut
    <3> QED BY <3>2, <2>1, <1>2, MovedClaims
  <2>2. CASE c[1] # f
    BY <2>2, <1>1, <1>2, MovedClaims
  <2> QED BY <2>1, <2>2
<1>6. Matched(c)'
  BY <1>4, <1>5 DEF Matched
<1> QED BY <1>5, <1>6 DEF Good

LEMMA GoneKept ==
  ASSUME FilesIInv, NEW f \in FileIds, NEW p \in File, Moves(f, p),
         files[f].at # "gone", p.at # "gone"
  PROVE  Gone' = Gone
<1>1. \A g \in FileIds : files'[g].at = "gone" <=> files[g].at = "gone"
  BY MovedFile
<1> QED BY <1>1 DEF Gone

LEMMA CountsTyped ==
  ASSUME FilesIInv
  PROVE  Cardinality(Claims) \in Nat /\ Cardinality(Good) \in Nat /\ Cardinality(Gone) \in Nat
BY SetsFinite, FS_CardinalityType

(* Good stays finite: the table bounds it.                                   *)
LEMMA GoodFinite ==
  ASSUME IInv'
  PROVE  IsFiniteSet(Good')
<1>1. Good' \in SUBSET DOMAIN held'
  BY DEF Good, Matched
<1>2. DOMAIN held' \in SUBSET (0 .. table'.size - 1) /\ table'.size \in Int
  BY RepositoryAssumption DEF IInv, TypeOK, RepositoryAssumption
<1>3. Good' \in SUBSET (0 .. table'.size - 1)
  BY <1>1, <1>2
<1>4. IsFiniteSet(0 .. table'.size - 1)
  BY <1>2, FS_Interval
<1> QED BY <1>3, <1>4, FS_Subset

(* The FILE answers for one field more, with the handle just issued.         *)
LEMMA Gains ==
  ASSUME FilesIInv, NEW f \in FileIds, NEW p \in File, Moves(f, p),
         NEW k \in Fields, NEW obj, NEW h, Issues(h, obj),
         HandleIn(p, k) = h, ObjectOf(<<f, k>>) = obj,
         k \notin FieldsAt(files[f].at), FieldsAt(p.at) = FieldsAt(files[f].at) \cup {k},
         \A j \in FieldsAt(files[f].at) : HandleIn(p, j) = HandleIn(files[f], j),
         files[f].at # "gone", p.at # "gone"
  PROVE  ClaimsCovered'
<1> DEFINE c == <<f, k>>
<1>1. c \in FileIds \X Fields /\ c[1] = f /\ c[2] = k
  OBVIOUS
<1>2. c \notin Claims
  BY <1>1 DEF Claims
<1>3. Claims' = Claims \cup {c}
  <2>1. \A d \in FileIds \X Fields : d \in Claims' <=> d \in Claims \cup {c}
    <3> TAKE d \in FileIds \X Fields
    <3>1. CASE d[1] = f
      <4>1. d \in Claims' <=> d[2] \in FieldsAt(p.at)
        BY <3>1, MovedClaims
      <4>2. d \in Claims <=> d[2] \in FieldsAt(files[f].at)
        BY <3>1 DEF Claims
      <4>3. d = c <=> d[2] = k
        BY <3>1
      <4> QED BY <4>1, <4>2, <4>3
    <3>2. CASE d[1] # f
      BY <3>2, <1>1, MovedClaims
    <3> QED BY <3>1, <3>2
  <2>2. Claims \subseteq FileIds \X Fields /\ Claims' \subseteq FileIds \X Fields
    BY DEF Claims
  <2> QED BY <2>1, <2>2, <1>1
<1>4. h \notin Good
  BY DEF Good, Matched, Issues
<1>5. h \in Good'
  <2>1. HandleOf(c)' = h /\ ObjectOf(c)' = obj
    BY <1>1, MovedClaims
  <2>2. Matched(c)'
    BY <2>1 DEF Matched, Issues
  <2> QED BY <2>1, <2>2, <1>3 DEF Good
<1>6. Good \subseteq Good'
  <2>1. KeepsBut(f, p, {})
    BY DEF KeepsBut, Issues
  <2>2. Good \ {} \subseteq Good'
    BY <2>1, GoodKept
  <2> QED BY <2>2
<1>7. IsFiniteSet(Good')
  BY GoodFinite DEF Issues
<1>8. Cardinality(Claims \cup {c}) <= Cardinality(Good') + Cardinality(Gone)
  <2>1. Good \cup {h} \subseteq Good'
    BY <1>5, <1>6
  <2>2. Cardinality(Claims) <= Cardinality(Good) + Cardinality(Gone) /\ Cardinality(Gone) \in Nat
    BY CountsTyped DEF FilesIInv, ClaimsCovered
  <2>3. IsFiniteSet(Claims)
    BY SetsFinite
  <2> HIDE DEF c
  <2> QED BY <2>1, <2>2, <2>3, <1>2, <1>4, <1>7, ClaimGained
<1>9. Gone' = Gone
  BY GoneKept
<1> QED BY <1>3, <1>8, <1>9 DEF ClaimsCovered

(* It answers for one field less, whose handle may be released.              *)
LEMMA Loses ==
  ASSUME FilesIInv, NEW f \in FileIds, NEW p \in File, Moves(f, p), IInv',
         NEW k \in FieldsAt(files[f].at), FieldsAt(p.at) = FieldsAt(files[f].at) \ {k},
         KeepsBut(f, p, {HandleIn(files[f], k)}),
         files[f].at # "gone", p.at # "gone"
  PROVE  ClaimsCovered'
<1> DEFINE c == <<f, k>>
<1>1. c \in FileIds \X Fields /\ c[1] = f /\ c[2] = k
  BY DEF FieldsAt, Fields
<1>2. c \in Claims
  BY <1>1 DEF Claims
<1>3. Claims' = Claims \ {c}
  <2>1. \A d \in FileIds \X Fields : d \in Claims' <=> d \in Claims \ {c}
    <3> TAKE d \in FileIds \X Fields
    <3>1. CASE d[1] = f
      <4>1. d \in Claims' <=> d[2] \in FieldsAt(p.at)
        BY <3>1, MovedClaims
      <4>2. d \in Claims <=> d[2] \in FieldsAt(files[f].at)
        BY <3>1 DEF Claims
      <4>3. d = c <=> d[2] = k
        BY <3>1
      <4> QED BY <4>1, <4>2, <4>3
    <3>2. CASE d[1] # f
      BY <3>2, <1>1, MovedClaims
    <3> QED BY <3>1, <3>2
  <2>2. Claims \subseteq FileIds \X Fields /\ Claims' \subseteq FileIds \X Fields
    BY DEF Claims
  <2> QED BY <2>1, <2>2
<1>4. Good \ {HandleIn(files[f], k)} \subseteq Good'
  BY GoodKept
<1>5. Cardinality(Claims \ {c}) <= Cardinality(Good') + Cardinality(Gone)
  <2>1. Cardinality(Claims) <= Cardinality(Good) + Cardinality(Gone) /\ Cardinality(Gone) \in Nat
    BY CountsTyped DEF FilesIInv, ClaimsCovered
  <2>2. IsFiniteSet(Claims) /\ IsFiniteSet(Good) /\ IsFiniteSet(Good')
    BY SetsFinite, GoodFinite
  <2> HIDE DEF c
  <2> QED BY <2>1, <2>2, <1>2, <1>4, ClaimLost
<1>6. Gone' = Gone
  BY GoneKept
<1> QED BY <1>3, <1>5, <1>6 DEF ClaimsCovered

(* It answers for another field instead of fc, with the handle just issued.  *)
LEMMA Swaps ==
  ASSUME FilesIInv, NEW f \in FileIds, NEW p \in File, Moves(f, p),
         NEW h, Issues(h, Exc), files[f].at = "connected", p.at = "catching", p.ex = h
  PROVE  ClaimsCovered'
<1> DEFINE fc == <<f, "fc">>
           ex == <<f, "ex">>
           old == files[f].fc
<1>1. /\ FieldsAt(files[f].at) = {"fc"} /\ FieldsAt(p.at) = {"ex"}
      /\ "fc" \in Fields /\ "ex" \in Fields
  BY DEF FieldsAt, Fields
<1>2. fc \in Claims /\ ex \notin Claims \ {fc}
  BY <1>1 DEF Claims
<1>3. Claims' = (Claims \ {fc}) \cup {ex}
  <2>1. \A d \in FileIds \X Fields : d \in Claims' <=> d \in (Claims \ {fc}) \cup {ex}
    <3> TAKE d \in FileIds \X Fields
    <3>1. CASE d[1] = f
      <4>1. d \in Claims' <=> d[2] = "ex"
        BY <3>1, <1>1, MovedClaims
      <4>2. d \in Claims <=> d[2] = "fc"
        BY <3>1, <1>1 DEF Claims
      <4>3. (d = fc <=> d[2] = "fc") /\ (d = ex <=> d[2] = "ex")
        BY <3>1
      <4> QED BY <4>1, <4>2, <4>3
    <3>2. CASE d[1] # f
      BY <3>2, MovedClaims
    <3> QED BY <3>1, <3>2
  <2>2. Claims \subseteq FileIds \X Fields /\ Claims' \subseteq FileIds \X Fields
    BY DEF Claims
  <2> QED BY <2>1, <2>2, <1>1
<1>4. h \notin Good \ {old}
  BY DEF Good, Matched, Issues
<1>5. h \in Good'
  <2>1. ex \in FileIds \X Fields /\ ex[1] = f /\ ex[2] = "ex"
    BY <1>1
  <2>2. HandleOf(ex)' = h
    BY <2>1, MovedClaims DEF HandleIn
  <2>3. ObjectOf(ex)' = Exc
    BY <2>1 DEF ObjectOf
  <2>4. Matched(ex)'
    BY <2>2, <2>3 DEF Matched, Issues
  <2> QED BY <2>2, <2>4, <1>3 DEF Good
<1>6. Good \ {old} \subseteq Good'
  <2>1. KeepsBut(f, p, {old})
    BY <1>1 DEF KeepsBut, Issues, HandleIn
  <2> QED BY <2>1, GoodKept
<1>7. IsFiniteSet(Good') /\ IsFiniteSet(Good) /\ IsFiniteSet(Claims)
  BY SetsFinite, GoodFinite DEF Issues
<1>8. /\ Cardinality(Claims) <= Cardinality(Good) + Cardinality(Gone)
      /\ Cardinality(Gone) \in Nat
  BY CountsTyped DEF FilesIInv, ClaimsCovered
<1>9. Gone' = Gone
  BY GoneKept
<1> HIDE DEF fc, ex, old
<1>10. /\ IsFiniteSet(Claims \ {fc})
       /\ Cardinality(Claims \ {fc}) <= Cardinality(Good \ {old}) + Cardinality(Gone)
  <2>1. IsFiniteSet(Good \ {old})
    BY <1>7, FS_RemoveElement
  <2> QED BY <2>1, <1>2, <1>7, <1>8, ClaimLost
<1>11. Cardinality((Claims \ {fc}) \cup {ex}) <= Cardinality(Good') + Cardinality(Gone)
  <2>1. (Good \ {old}) \cup {h} \subseteq Good'
    BY <1>5, <1>6
  <2> DEFINE C == Claims \ {fc}
             G == Good \ {old}
  <2>2. /\ IsFiniteSet(C) /\ ex \notin C /\ h \notin G /\ G \cup {h} \subseteq Good'
        /\ IsFiniteSet(Good') /\ Cardinality(Gone) \in Nat
        /\ Cardinality(C) <= Cardinality(G) + Cardinality(Gone)
    BY <2>1, <1>2, <1>4, <1>7, <1>8, <1>10
  <2> HIDE DEF C, G
  <2>3. Cardinality(C \cup {ex}) <= Cardinality(Good') + Cardinality(Gone)
    BY <2>2, ClaimGained
  <2> QED BY <2>3 DEF C
<1> QED BY <1>3, <1>9, <1>11 DEF ClaimsCovered

(* fclose of an open FILE gives up both claims and releases one handle.      *)
LEMMA LosesBoth ==
  ASSUME FilesIInv, NEW f \in FileIds, NEW p \in File, Moves(f, p), IInv',
         files[f].at = "open", p.at = "closed",
         \A g \in DOMAIN held \ {files[f].fc} : g \in DOMAIN held' /\ held'[g] = held[g]
  PROVE  ClaimsCovered'
<1> DEFINE fc == <<f, "fc">>
           is == <<f, "is">>
           conn == files[f].fc
           stream == files[f].is
<1>1. /\ FieldsAt(files[f].at) = {"fc", "is"} /\ FieldsAt(p.at) = {}
      /\ "fc" \in Fields /\ "is" \in Fields
  BY DEF FieldsAt, Fields
<1>2. fc \in Claims /\ is \in Claims \ {fc}
  BY <1>1 DEF Claims
<1>3. Claims' = (Claims \ {fc}) \ {is}
  <2>1. \A d \in FileIds \X Fields : d \in Claims' <=> d \in (Claims \ {fc}) \ {is}
    <3> TAKE d \in FileIds \X Fields
    <3>1. CASE d[1] = f
      <4>1. d \notin Claims'
        BY <3>1, <1>1, MovedClaims
      <4>2. d \in Claims <=> d[2] \in {"fc", "is"}
        BY <3>1, <1>1 DEF Claims
      <4>3. (d = fc <=> d[2] = "fc") /\ (d = is <=> d[2] = "is")
        BY <3>1
      <4> QED BY <4>1, <4>2, <4>3
    <3>2. CASE d[1] # f
      BY <3>2, MovedClaims
    <3> QED BY <3>1, <3>2
  <2>2. Claims \subseteq FileIds \X Fields /\ Claims' \subseteq FileIds \X Fields
    BY DEF Claims
  <2> QED BY <2>1, <2>2
<1>4. (Good \ {conn}) \ {stream} \subseteq Good'
  <2>1. KeepsBut(f, p, {conn, stream})
    BY <1>1 DEF KeepsBut, HandleIn
  <2>2. Good \ {conn, stream} \subseteq Good'
    BY <2>1, GoodKept
  <2> QED BY <2>2
<1>5. IsFiniteSet(Good') /\ IsFiniteSet(Good) /\ IsFiniteSet(Claims)
  BY SetsFinite, GoodFinite
<1>6. /\ Cardinality(Claims) <= Cardinality(Good) + Cardinality(Gone)
      /\ Cardinality(Gone) \in Nat
  BY CountsTyped DEF FilesIInv, ClaimsCovered
<1>7. Gone' = Gone
  BY GoneKept
<1> HIDE DEF fc, is, conn, stream
<1>8. IsFiniteSet(Good \ {conn})
  BY <1>5, FS_RemoveElement
<1>9. /\ IsFiniteSet(Claims \ {fc})
      /\ Cardinality(Claims \ {fc}) <= Cardinality(Good \ {conn}) + Cardinality(Gone)
  BY <1>2, <1>5, <1>6, <1>8, ClaimLost
<1>10. Cardinality((Claims \ {fc}) \ {is}) <= Cardinality(Good') + Cardinality(Gone)
  BY <1>2, <1>4, <1>5, <1>6, <1>8, <1>9, ClaimLost
<1> QED BY <1>3, <1>7, <1>10 DEF ClaimsCovered

(* A FILE that claims nothing moves; what is released is one handle at most  *)
(* for a FILE that goes for good, and none otherwise.                        *)
LEMMA ClaimsSame ==
  ASSUME FilesIInv, NEW f \in FileIds, NEW p \in File, Moves(f, p),
         FieldsAt(files[f].at) = {}, FieldsAt(p.at) = {}
  PROVE  Claims' = Claims
<1>1. \A d \in FileIds \X Fields : d \in Claims' <=> d \in Claims
  <2> TAKE d \in FileIds \X Fields
  <2>1. CASE d[1] = f
    <3>1. d \notin Claims'
      BY <2>1, MovedClaims
    <3>2. d \notin Claims
      BY <2>1 DEF Claims
    <3> QED BY <3>1, <3>2
  <2>2. CASE d[1] # f
    BY <2>2, MovedClaims
  <2> QED BY <2>1, <2>2
<1>2. Claims \subseteq FileIds \X Fields /\ Claims' \subseteq FileIds \X Fields
  BY DEF Claims
<1> QED BY <1>1, <1>2

LEMMA KeepsClaims ==
  ASSUME FilesIInv, NEW f \in FileIds, NEW p \in File, Moves(f, p), IInv',
         FieldsAt(files[f].at) = {}, FieldsAt(p.at) = {}, KeepsBut(f, p, {}),
         files[f].at # "gone", p.at # "gone"
  PROVE  ClaimsCovered'
<1>1. Claims' = Claims /\ Gone' = Gone
  BY ClaimsSame, GoneKept
<1>2. Good \ {} \subseteq Good'
  BY GoodKept
<1>3. IsFiniteSet(Good')
  BY GoodFinite
<1>4. Cardinality(Good) <= Cardinality(Good') /\ Cardinality(Good') \in Nat
  BY <1>2, <1>3, FS_Subset, FS_CardinalityType
<1>5. Cardinality(Claims) <= Cardinality(Good) + Cardinality(Gone)
  BY DEF FilesIInv, ClaimsCovered
<1> QED BY <1>1, <1>4, <1>5, CountsTyped DEF ClaimsCovered

LEMMA Goes ==
  ASSUME FilesIInv, NEW f \in FileIds, NEW p \in File, Moves(f, p), IInv',
         files[f].at = "stale", p.at = "gone", NEW h,
         \A g \in DOMAIN held \ {h} : g \in DOMAIN held' /\ held'[g] = held[g]
  PROVE  ClaimsCovered'
<1>1. FieldsAt(files[f].at) = {} /\ FieldsAt(p.at) = {}
  BY DEF FieldsAt
<1>2. Claims' = Claims
  BY <1>1, ClaimsSame
<1>3. Good \ {h} \subseteq Good'
  <2>1. KeepsBut(f, p, {h})
    BY <1>1 DEF KeepsBut
  <2> QED BY <2>1, GoodKept
<1>4. IsFiniteSet(Good') /\ IsFiniteSet(Good) /\ IsFiniteSet(Gone)
  BY SetsFinite, GoodFinite
<1>5. Cardinality(Good) <= Cardinality(Good') + 1 /\ Cardinality(Good') \in Nat
  <2>1. Cardinality(Good \ {h}) <= Cardinality(Good')
    BY <1>3, <1>4, FS_Subset
  <2>2. Cardinality(Good \ {h}) = Cardinality(Good) \/ Cardinality(Good \ {h}) = Cardinality(Good) - 1
    BY <1>4, FS_RemoveElement
  <2>3. Cardinality(Good) \in Nat /\ Cardinality(Good') \in Nat
    BY <1>4, FS_CardinalityType
  <2> QED BY <2>1, <2>2, <2>3
<1>6. Cardinality(Gone') = Cardinality(Gone) + 1
  <2>1. \A g \in FileIds : files'[g].at = "gone" <=> g = f \/ files[g].at = "gone"
    BY MovedFile
  <2>2. Gone' = Gone \cup {f} /\ f \notin Gone
    BY <2>1 DEF Gone
  <2> QED BY <2>2, <1>4, FS_AddElement
<1>7. Cardinality(Claims) <= Cardinality(Good) + Cardinality(Gone)
  BY DEF FilesIInv, ClaimsCovered
<1> QED BY <1>2, <1>5, <1>6, <1>7, CountsTyped DEF ClaimsCovered

-------------------------------------------------------------------------------
(* The other parts of the invariant, for every step of a FILE.               *)
HandlesUsable(p) ==
  /\ p.at \in {"connected", "open", "resetting", "reset", "reopened", "stale"} =>
       p.fc \in 2 .. table'.size - 1
  /\ p.at = "open" => p.is \in 2 .. table'.size - 1
  /\ p.at = "catching" => p.ex \in 2 .. table'.size - 1

Ended == {"closed", "open", "stale", "gone"}

LEMMA ShapeKept ==
  ASSUME FilesIInv, NEW f \in FileIds, NEW p \in File, NEW from, NEW next,
         Advance(f, from, p, next), "gone" \notin from,
         table.size \in Nat, table'.size \in Nat, table.size <= table'.size,
         HandlesUsable(p),
         p.at \in Ended => next = Idle, p.at \notin Ended => next = f
  PROVE  /\ Moves(f, p) /\ files[f].at \in from /\ files[f].at # "gone"
         /\ files' \in [FileIds -> File] /\ HandlesInTable' /\ CallShape'
<1>1. /\ Moves(f, p) /\ files[f].at \in from /\ call' = next
      /\ call = IF files[f].at \in {"closed", "open", "stale", "output"} THEN Idle ELSE f
  BY DEF Advance, Moves
<1>2. /\ files' \in [FileIds -> File] /\ files'[f] = p
      /\ \A g \in FileIds \ {f} : files'[g] = files[g]
  BY <1>1, MovedFile
<1>3. HandlesInTable'
  <2>1. InTable \subseteq 2 .. table'.size - 1
    BY DEF InTable
  <2>2. ASSUME NEW g \in FileIds \ {f} PROVE HandlesUsable(files[g])
    BY <2>1, <2>2 DEF FilesIInv, HandlesInTable, HandlesUsable
  <2>3. \A g \in FileIds : HandlesUsable(files'[g])
    BY <1>2, <2>2
  <2> QED BY <2>3 DEF HandlesInTable, HandlesUsable, InTable
<1>4. CallShape'
  <2>1. \A g \in FileIds \ {f} : call # g
    BY <1>1, FileAssumption DEF FileAssumption
  <2>2. \A g \in FileIds \ {f} : files[g].at \in Ended
    BY <2>1 DEF FilesIInv, CallShape, Ended
  <2>3. \A g \in FileIds \ {f} : files'[g].at \in Ended /\ call' # g
    BY <1>1, <1>2, <2>2, FileAssumption DEF FileAssumption
  <2>4. call' = f <=> p.at \notin Ended
    BY <1>1, FileAssumption DEF FileAssumption
  <2>5. call' \in FileIds \cup {Idle}
    BY <1>1
  <2> QED BY <1>2, <2>3, <2>4, <2>5 DEF CallShape, Ended
<1> QED BY <1>1, <1>2, <1>3, <1>4

LEMMA HandleTyped ==
  ASSUME NEW h, NEW obj, Issues(h, obj)
  PROVE  /\ h \in 0 .. MaxSize /\ IInv' /\ NoCallbacks'
         /\ table.size \in Nat /\ table'.size \in Nat /\ table.size <= table'.size
         /\ h \in 2 .. table'.size - 1
<1>1. table'.size \in Nat /\ table'.size <= MaxSize /\ MaxSize \in Nat
  BY RepositoryAssumption DEF Issues, IInv, TypeOK, RepositoryAssumption
<1> QED BY <1>1 DEF Issues

LEMMA ObjectsTyped ==
  ASSUME NEW f \in FileIds
  PROVE  ConnectionOf[f] \in Objects /\ StreamOf[f] \in Objects /\ Exc \in Objects
BY FileAssumption DEF FileAssumption

LEMMA FileTyped ==
  ASSUME FilesIInv, NEW f \in FileIds
  PROVE  /\ files[f] \in File /\ NoFile \in File
         /\ files[f].fc \in 0 .. MaxSize /\ files[f].is \in 0 .. MaxSize
         /\ files[f].ex \in 0 .. MaxSize
<1>1. files[f] \in File
  BY DEF FilesIInv
<1>2. 0 \in 0 .. MaxSize
  BY RepositoryAssumption DEF RepositoryAssumption
<1> QED BY <1>1, <1>2 DEF File, NoFile, ReadPlaces

LEMMA ConnectFilesIInv ==
  ASSUME FilesIInv, NEW f \in FileIds, Connect(f)
  PROVE  FilesIInv'
<1> DEFINE h == NextHandle(ConnectionOf[f])
           p == [NoFile EXCEPT !.at = "connected", !.fc = h]
<1>1. Issues(h, ConnectionOf[f])
  BY RegisterIssues, ObjectsTyped DEF Connect, FilesIInv
<1>2. Advance(f, {"closed"}, p, f)
  BY DEF Connect
<1> HIDE DEF h
<1>3. p \in File /\ p.at = "connected" /\ p.fc = h
  BY <1>1, HandleTyped, FileTyped DEF File, NoFile, ReadPlaces
<1>4. HandlesUsable(p) /\ p.at \notin Ended
  BY <1>1, <1>3, HandleTyped DEF HandlesUsable, Ended
<1> HIDE DEF p
<1>5. /\ Moves(f, p) /\ files[f].at = "closed"
      /\ files' \in [FileIds -> File] /\ HandlesInTable' /\ CallShape'
  BY <1>1, <1>2, <1>3, <1>4, HandleTyped, ShapeKept
<1>6. ClaimsCovered'
  <2>1. /\ "fc" \in Fields /\ HandleIn(p, "fc") = h /\ ObjectOf(<<f, "fc">>) = ConnectionOf[f]
        /\ FieldsAt(files[f].at) = {} /\ FieldsAt(p.at) = {"fc"}
    BY <1>3, <1>5 DEF Fields, HandleIn, ObjectOf, FieldsAt
  <2> QED BY <2>1, <1>1, <1>3, <1>5, Gains
<1> QED BY <1>1, <1>5, <1>6 DEF FilesIInv, Issues

LEMMA OpenStreamFilesIInv ==
  ASSUME FilesIInv, NEW f \in FileIds, OpenStream(f)
  PROVE  FilesIInv'
<1> DEFINE h == NextHandle(StreamOf[f])
           p == [files[f] EXCEPT !.at = "open", !.is = h]
<1>1. Issues(h, StreamOf[f])
  BY RegisterIssues, ObjectsTyped DEF OpenStream, FilesIInv
<1>2. Advance(f, {"connected"}, p, Idle) /\ files[f].at = "connected"
  BY DEF OpenStream, Advance
<1> HIDE DEF h
<1>3. p \in File /\ p.at = "open" /\ p.fc = files[f].fc /\ p.is = h
  BY <1>1, HandleTyped, FileTyped DEF File, ReadPlaces
<1>4. files[f].fc \in 2 .. table'.size - 1
  BY <1>1, <1>2, HandleTyped DEF FilesIInv, HandlesInTable, InTable
<1>5. HandlesUsable(p) /\ p.at \in Ended
  BY <1>1, <1>3, <1>4, HandleTyped DEF HandlesUsable, Ended
<1> HIDE DEF p
<1>6. Moves(f, p) /\ files' \in [FileIds -> File] /\ HandlesInTable' /\ CallShape'
  BY <1>1, <1>2, <1>3, <1>5, HandleTyped, ShapeKept
<1>7. ClaimsCovered'
  <2>1. /\ "is" \in Fields /\ HandleIn(p, "is") = h /\ ObjectOf(<<f, "is">>) = StreamOf[f]
        /\ FieldsAt(files[f].at) = {"fc"} /\ FieldsAt(p.at) = {"fc", "is"}
        /\ HandleIn(p, "fc") = HandleIn(files[f], "fc")
    BY <1>2, <1>3 DEF Fields, HandleIn, ObjectOf, FieldsAt
  <2> QED BY <2>1, <1>1, <1>2, <1>3, <1>6, Gains
<1> QED BY <1>1, <1>6, <1>7 DEF FilesIInv, Issues

LEMMA SizeThrowsFilesIInv ==
  ASSUME FilesIInv, NEW f \in FileIds, SizeThrows(f)
  PROVE  FilesIInv'
<1> DEFINE h == NextHandle(StreamOf[f])
<1>1. Issues(h, StreamOf[f])
  BY RegisterIssues, ObjectsTyped DEF SizeThrows, FilesIInv
<1>2. Advance(f, {"connected"}, NoFile, Idle) /\ files[f].at = "connected"
  BY DEF SizeThrows, Advance
<1> HIDE DEF h
<1>3. NoFile \in File /\ NoFile.at = "closed"
  BY FileTyped DEF NoFile
<1>4. HandlesUsable(NoFile) /\ NoFile.at \in Ended
  BY <1>3 DEF HandlesUsable, Ended
<1>5. Moves(f, NoFile) /\ files' \in [FileIds -> File] /\ HandlesInTable' /\ CallShape'
  BY <1>1, <1>2, <1>3, <1>4, HandleTyped, ShapeKept
<1>6. \A g \in DOMAIN held : g \in DOMAIN held' /\ held'[g] = held[g]
  BY <1>1 DEF Issues
<1>7. IInv' /\ NoCallbacks'
  BY <1>1, HandleTyped
<1>8. ClaimsCovered'
  <2>1. FieldsAt(files[f].at) = {"fc"} /\ FieldsAt(NoFile.at) = {}
    BY <1>2, <1>3 DEF FieldsAt
  <2>2. KeepsBut(f, NoFile, {HandleIn(files[f], "fc")})
    BY <2>1, <1>6 DEF KeepsBut
  <2> QED BY <2>1, <2>2, <1>2, <1>3, <1>5, <1>7, Loses
<1> QED BY <1>5, <1>7, <1>8 DEF FilesIInv

LEMMA OpenThrowsFilesIInv ==
  ASSUME FilesIInv, NEW f \in FileIds, OpenThrows(f)
  PROVE  FilesIInv'
<1> DEFINE h == NextHandle(Exc)
           p == [NoFile EXCEPT !.at = "catching", !.ex = h]
<1>1. Issues(h, Exc)
  BY RegisterIssues, ObjectsTyped DEF OpenThrows, FilesIInv
<1>2. Advance(f, {"closed", "connected"}, p, f)
  BY DEF OpenThrows
<1> HIDE DEF h
<1>3. p \in File /\ p.at = "catching" /\ p.ex = h
  BY <1>1, HandleTyped, FileTyped DEF File, NoFile, ReadPlaces
<1>4. HandlesUsable(p) /\ p.at \notin Ended
  BY <1>1, <1>3, HandleTyped DEF HandlesUsable, Ended
<1> HIDE DEF p
<1>5. /\ Moves(f, p) /\ files[f].at \in {"closed", "connected"}
      /\ files' \in [FileIds -> File] /\ HandlesInTable' /\ CallShape'
  BY <1>1, <1>2, <1>3, <1>4, HandleTyped, ShapeKept
<1>6. ClaimsCovered'
  <2>1. CASE files[f].at = "closed"
    <3>1. /\ "ex" \in Fields /\ HandleIn(p, "ex") = h /\ ObjectOf(<<f, "ex">>) = Exc
          /\ FieldsAt(files[f].at) = {} /\ FieldsAt(p.at) = {"ex"}
      BY <2>1, <1>3 DEF Fields, HandleIn, ObjectOf, FieldsAt
    <3> QED BY <3>1, <2>1, <1>1, <1>3, <1>5, Gains
  <2>2. CASE files[f].at = "connected"
    BY <2>2, <1>1, <1>3, <1>5, Swaps
  <2> QED BY <2>1, <2>2, <1>5
<1> QED BY <1>1, <1>5, <1>6 DEF FilesIInv, Issues

(* A handle is released.                                                     *)
LEMMA FreedSizes ==
  ASSUME NEW h, Frees(h)
  PROVE  /\ IInv' /\ NoCallbacks' /\ table.size \in Nat /\ table'.size \in Nat
         /\ table.size <= table'.size /\ InTable = 2 .. table'.size - 1
         /\ \A g \in DOMAIN held \ {h} : g \in DOMAIN held' /\ held'[g] = held[g]
BY DEF Frees, InTable

LEMMA OpenFailsFilesIInv ==
  ASSUME FilesIInv, NEW f \in FileIds, OpenFails(f)
  PROVE  FilesIInv'
<1>1. Advance(f, {"catching"}, NoFile, Idle) /\ files[f].at = "catching"
  BY DEF OpenFails, Advance
<1>2. Frees(files[f].ex)
  <2>1. files[f].ex \in InTable
    BY <1>1 DEF FilesIInv, HandlesInTable
  <2> QED BY <2>1, DeleteFrees DEF OpenFails, FilesIInv
<1>3. NoFile \in File /\ NoFile.at = "closed"
  BY FileTyped DEF NoFile
<1>4. HandlesUsable(NoFile) /\ NoFile.at \in Ended
  BY <1>3 DEF HandlesUsable, Ended
<1>5. Moves(f, NoFile) /\ files' \in [FileIds -> File] /\ HandlesInTable' /\ CallShape'
  BY <1>1, <1>2, <1>3, <1>4, FreedSizes, ShapeKept
<1>6. ClaimsCovered'
  <2>1. /\ FieldsAt(files[f].at) = {"ex"} /\ FieldsAt(NoFile.at) = {}
        /\ HandleIn(files[f], "ex") = files[f].ex
    BY <1>1, <1>3 DEF FieldsAt, HandleIn
  <2>2. KeepsBut(f, NoFile, {HandleIn(files[f], "ex")})
    BY <2>1, <1>2, FreedSizes DEF KeepsBut
  <2> QED BY <2>1, <2>2, <1>1, <1>2, <1>3, <1>5, FreedSizes, Loses
<1> QED BY <1>2, <1>5, <1>6, FreedSizes DEF FilesIInv

LEMMA SeekBackFilesIInv ==
  ASSUME FilesIInv, NEW f \in FileIds, SeekBack(f)
  PROVE  FilesIInv'
<1> DEFINE p == [files[f] EXCEPT !.at = "resetting"]
<1>1. Advance(f, {"open"}, p, f) /\ files[f].at = "open"
  BY DEF SeekBack, Advance
<1>2. files[f].fc \in InTable /\ files[f].is \in InTable
  BY <1>1 DEF FilesIInv, HandlesInTable
<1>3. Frees(files[f].is)
  BY <1>2, DeleteFrees DEF SeekBack, FilesIInv
<1>4. p \in File /\ p.at = "resetting" /\ p.fc = files[f].fc
  BY FileTyped DEF File, ReadPlaces
<1> HIDE DEF p
<1>5. HandlesUsable(p) /\ p.at \notin Ended
  BY <1>2, <1>3, <1>4, FreedSizes DEF HandlesUsable, Ended
<1>6. Moves(f, p) /\ files' \in [FileIds -> File] /\ HandlesInTable' /\ CallShape'
  BY <1>1, <1>3, <1>4, <1>5, FreedSizes, ShapeKept
<1>7. ClaimsCovered'
  <2>1. /\ FieldsAt(files[f].at) = {"fc", "is"} /\ FieldsAt(p.at) = {"fc"}
        /\ HandleIn(files[f], "is") = files[f].is
        /\ HandleIn(p, "fc") = HandleIn(files[f], "fc")
    BY <1>1, <1>4 DEF FieldsAt, HandleIn
  <2>2. KeepsBut(f, p, {HandleIn(files[f], "is")})
    BY <2>1, <1>3, FreedSizes DEF KeepsBut
  <2> QED BY <2>1, <2>2, <1>1, <1>3, <1>4, <1>6, FreedSizes, Loses
<1> QED BY <1>3, <1>6, <1>7, FreedSizes DEF FilesIInv

LEMMA ResetConnectionFilesIInv ==
  ASSUME FilesIInv, NEW f \in FileIds, ResetConnection(f)
  PROVE  FilesIInv'
<1> DEFINE p == [files[f] EXCEPT !.at = "reset"]
<1>1. Advance(f, {"resetting"}, p, f) /\ files[f].at = "resetting"
  BY DEF ResetConnection, Advance
<1>2. files[f].fc \in InTable
  BY <1>1 DEF FilesIInv, HandlesInTable
<1>3. Frees(files[f].fc)
  BY <1>2, DeleteFrees DEF ResetConnection, FilesIInv
<1>4. p \in File /\ p.at = "reset" /\ p.fc = files[f].fc
  BY FileTyped DEF File, ReadPlaces
<1> HIDE DEF p
<1>5. HandlesUsable(p) /\ p.at \notin Ended
  BY <1>2, <1>3, <1>4, FreedSizes DEF HandlesUsable, Ended
<1>6. Moves(f, p) /\ files' \in [FileIds -> File] /\ HandlesInTable' /\ CallShape'
  BY <1>1, <1>3, <1>4, <1>5, FreedSizes, ShapeKept
<1>7. ClaimsCovered'
  <2>1. /\ FieldsAt(files[f].at) = {"fc"} /\ FieldsAt(p.at) = {}
        /\ HandleIn(files[f], "fc") = files[f].fc
    BY <1>1, <1>4 DEF FieldsAt, HandleIn
  <2>2. KeepsBut(f, p, {HandleIn(files[f], "fc")})
    BY <2>1, <1>3, FreedSizes DEF KeepsBut
  <2> QED BY <2>1, <2>2, <1>1, <1>3, <1>4, <1>6, FreedSizes, Loses
<1> QED BY <1>3, <1>6, <1>7, FreedSizes DEF FilesIInv

LEMMA ReopenFilesIInv ==
  ASSUME FilesIInv, NEW f \in FileIds, Reopen(f)
  PROVE  FilesIInv'
<1> DEFINE h == NextHandle(ConnectionOf[f])
           p == [files[f] EXCEPT !.at = "reopened", !.fc = h]
<1>1. Issues(h, ConnectionOf[f])
  BY RegisterIssues, ObjectsTyped DEF Reopen, FilesIInv
<1>2. Advance(f, {"reset"}, p, f) /\ files[f].at = "reset"
  BY DEF Reopen, Advance
<1> HIDE DEF h
<1>3. p \in File /\ p.at = "reopened" /\ p.fc = h
  BY <1>1, HandleTyped, FileTyped DEF File, ReadPlaces
<1>4. HandlesUsable(p) /\ p.at \notin Ended
  BY <1>1, <1>3, HandleTyped DEF HandlesUsable, Ended
<1> HIDE DEF p
<1>5. Moves(f, p) /\ files' \in [FileIds -> File] /\ HandlesInTable' /\ CallShape'
  BY <1>1, <1>2, <1>3, <1>4, HandleTyped, ShapeKept
<1>6. ClaimsCovered'
  <2>1. /\ "fc" \in Fields /\ HandleIn(p, "fc") = h /\ ObjectOf(<<f, "fc">>) = ConnectionOf[f]
        /\ FieldsAt(files[f].at) = {} /\ FieldsAt(p.at) = {"fc"}
    BY <1>2, <1>3 DEF Fields, HandleIn, ObjectOf, FieldsAt
  <2> QED BY <2>1, <1>1, <1>2, <1>3, <1>5, Gains
<1> QED BY <1>1, <1>5, <1>6 DEF FilesIInv, Issues

LEMMA RestreamFilesIInv ==
  ASSUME FilesIInv, NEW f \in FileIds, Restream(f)
  PROVE  FilesIInv'
<1> DEFINE h == NextHandle(StreamOf[f])
           p == [files[f] EXCEPT !.at = "open", !.is = h]
<1>1. Issues(h, StreamOf[f])
  BY RegisterIssues, ObjectsTyped DEF Restream, FilesIInv
<1>2. Advance(f, {"reopened"}, p, Idle) /\ files[f].at = "reopened"
  BY DEF Restream, Advance
<1> HIDE DEF h
<1>3. p \in File /\ p.at = "open" /\ p.fc = files[f].fc /\ p.is = h
  BY <1>1, HandleTyped, FileTyped DEF File, ReadPlaces
<1>4. files[f].fc \in 2 .. table'.size - 1
  BY <1>1, <1>2, HandleTyped DEF FilesIInv, HandlesInTable, InTable
<1>5. HandlesUsable(p) /\ p.at \in Ended
  BY <1>1, <1>3, <1>4, HandleTyped DEF HandlesUsable, Ended
<1> HIDE DEF p
<1>6. Moves(f, p) /\ files' \in [FileIds -> File] /\ HandlesInTable' /\ CallShape'
  BY <1>1, <1>2, <1>3, <1>5, HandleTyped, ShapeKept
<1>7. ClaimsCovered'
  <2>1. /\ "is" \in Fields /\ HandleIn(p, "is") = h /\ ObjectOf(<<f, "is">>) = StreamOf[f]
        /\ FieldsAt(files[f].at) = {"fc"} /\ FieldsAt(p.at) = {"fc", "is"}
        /\ HandleIn(p, "fc") = HandleIn(files[f], "fc")
    BY <1>2, <1>3 DEF Fields, HandleIn, ObjectOf, FieldsAt
  <2> QED BY <2>1, <1>1, <1>2, <1>3, <1>6, Gains
<1> QED BY <1>1, <1>6, <1>7 DEF FilesIInv, Issues

(* The exception goes to the program: the handles are lost, not released.    *)
LEMMA ResetThrowsFilesIInv ==
  ASSUME FilesIInv, NEW f \in FileIds, ResetThrows(f)
  PROVE  FilesIInv'
<1> DEFINE h == NextHandle(Exc)
           p == [files[f] EXCEPT !.at = "stale"]
<1>1. Issues(h, Exc)
  BY RegisterIssues, ObjectsTyped DEF ResetThrows, FilesIInv
<1>2. Advance(f, {"reset", "reopened"}, p, Idle) /\ files[f].at \in {"reset", "reopened"}
  BY DEF ResetThrows, Advance
<1> HIDE DEF h
<1>3. p \in File /\ p.at = "stale" /\ p.fc = files[f].fc
  BY FileTyped DEF File, ReadPlaces
<1>4. files[f].fc \in 2 .. table'.size - 1
  BY <1>1, <1>2, HandleTyped DEF FilesIInv, HandlesInTable, InTable
<1> HIDE DEF p
<1>5. HandlesUsable(p) /\ p.at \in Ended
  BY <1>3, <1>4 DEF HandlesUsable, Ended
<1>6. Moves(f, p) /\ files' \in [FileIds -> File] /\ HandlesInTable' /\ CallShape'
  BY <1>1, <1>2, <1>3, <1>5, HandleTyped, ShapeKept
<1>7. \A g \in DOMAIN held : g \in DOMAIN held' /\ held'[g] = held[g]
  BY <1>1 DEF Issues
<1>8. IInv' /\ NoCallbacks'
  BY <1>1, HandleTyped
<1>9. ClaimsCovered'
  <2>1. CASE files[f].at = "reset"
    <3>1. FieldsAt(files[f].at) = {} /\ FieldsAt(p.at) = {}
      BY <2>1, <1>3 DEF FieldsAt
    <3>2. KeepsBut(f, p, {})
      BY <3>1, <1>7 DEF KeepsBut
    <3> QED BY <3>1, <3>2, <2>1, <1>3, <1>6, <1>8, KeepsClaims
  <2>2. CASE files[f].at = "reopened"
    <3>1. FieldsAt(files[f].at) = {"fc"} /\ FieldsAt(p.at) = {}
      BY <2>2, <1>3 DEF FieldsAt
    <3>2. KeepsBut(f, p, {HandleIn(files[f], "fc")})
      BY <3>1, <1>7 DEF KeepsBut
    <3> QED BY <3>1, <3>2, <2>2, <1>3, <1>6, <1>8, Loses
  <2> QED BY <2>1, <2>2, <1>2
<1> QED BY <1>6, <1>8, <1>9 DEF FilesIInv

LEMMA CloseFilesIInv ==
  ASSUME FilesIInv, NEW f \in FileIds, Close(f)
  PROVE  FilesIInv'
<1> DEFINE p == [NoFile EXCEPT !.at = IF files[f].at = "open" THEN "closed" ELSE "gone"]
<1>1. Advance(f, {"open", "stale"}, p, Idle) /\ files[f].at \in {"open", "stale"}
  BY DEF Close, Advance
<1>2. Frees(files[f].fc)
  <2>1. files[f].fc \in InTable
    BY <1>1 DEF FilesIInv, HandlesInTable
  <2> QED BY <2>1, DeleteFrees DEF Close, FilesIInv
<1>3. p \in File /\ p.at = IF files[f].at = "open" THEN "closed" ELSE "gone"
  BY FileTyped DEF File, NoFile, ReadPlaces
<1> HIDE DEF p
<1>4. HandlesUsable(p) /\ p.at \in Ended
  BY <1>3 DEF HandlesUsable, Ended
<1>5. Moves(f, p) /\ files' \in [FileIds -> File] /\ HandlesInTable' /\ CallShape'
  BY <1>1, <1>2, <1>3, <1>4, FreedSizes, ShapeKept
<1>6. ClaimsCovered'
  <2>1. CASE files[f].at = "open"
    BY <2>1, <1>2, <1>3, <1>5, FreedSizes, LosesBoth
  <2>2. CASE files[f].at = "stale"
    BY <2>2, <1>2, <1>3, <1>5, FreedSizes, Goes
  <2> QED BY <2>1, <2>2, <1>1
<1> QED BY <1>2, <1>5, <1>6, FreedSizes DEF FilesIInv

-------------------------------------------------------------------------------
(* The rest of the program: it keeps what it is given, and gives back what   *)
(* is its own.                                                               *)
LEMMA OwnedIsClaims ==
  ASSUME FilesIInv, NEW f \in FileIds, NEW o
  PROVE  o \in Owned(f) <=> \E k \in FieldsAt(files[f].at) :
           o = [h |-> HandleOf(<<f, k>>), obj |-> ObjectOf(<<f, k>>)]
<1>1. files[f].at \in ReadPlaces
  BY DEF FilesIInv, File
<1>2. CASE files[f].at \in {"connected", "reopened"}
  BY <1>2 DEF Owned, FieldsAt, HandleOf, HandleIn, ObjectOf
<1>3. CASE files[f].at = "resetting"
  BY <1>3 DEF Owned, FieldsAt, HandleOf, HandleIn, ObjectOf
<1>4. CASE files[f].at = "open"
  <2>1. FieldsAt(files[f].at) = {"fc", "is"}
    BY <1>4 DEF FieldsAt
  <2>2. Owned(f) = {[h |-> files[f].fc, obj |-> ConnectionOf[f]],
                    [h |-> files[f].is, obj |-> StreamOf[f]]}
    BY <1>4 DEF Owned
  <2>3. /\ HandleOf(<<f, "fc">>) = files[f].fc /\ ObjectOf(<<f, "fc">>) = ConnectionOf[f]
        /\ HandleOf(<<f, "is">>) = files[f].is /\ ObjectOf(<<f, "is">>) = StreamOf[f]
    BY DEF HandleOf, HandleIn, ObjectOf
  <2> QED BY <2>1, <2>2, <2>3
<1>5. CASE files[f].at = "catching"
  BY <1>5 DEF Owned, FieldsAt, HandleOf, HandleIn, ObjectOf
<1>6. CASE files[f].at \in {"closed", "reset", "stale", "gone"}
  BY <1>6 DEF Owned, FieldsAt
<1> QED BY <1>1, <1>2, <1>3, <1>4, <1>5, <1>6 DEF ReadPlaces

LEMMA ClaimsAreFileHandles ==
  ASSUME FilesIInv, NEW c \in Claims
  PROVE  HandleOf(c) \in FileHandles
<1> DEFINE f == c[1]
           k == c[2]
           o == [h |-> HandleOf(c), obj |-> ObjectOf(c)]
<1>1. c = <<f, k>> /\ f \in FileIds /\ k \in FieldsAt(files[f].at)
  BY DEF Claims
<1>2. o \in Owned(f)
  BY <1>1, OwnedIsClaims
<1>3. o \in UNION {Owned(g) : g \in FileIds}
  BY <1>1, <1>2
<1>4. o.h = HandleOf(c)
  OBVIOUS
<1> QED BY <1>3, <1>4 DEF FileHandles

(* While no FILE moves, handles that stay held stay good.                    *)
LEMMA FilesStay ==
  ASSUME FilesIInv, IInv', NoCallbacks', UNCHANGED <<files, call>>,
         table.size \in Nat, table'.size \in Nat, table.size <= table'.size,
         \A c \in Claims : HandleOf(c) \in DOMAIN held =>
           HandleOf(c) \in DOMAIN held' /\ held'[HandleOf(c)] = held[HandleOf(c)]
  PROVE  FilesIInv'
<1>1. Claims' = Claims /\ Gone' = Gone
  BY DEF Claims, FieldsAt, Gone
<1>2. \A c : HandleOf(c)' = HandleOf(c) /\ ObjectOf(c)' = ObjectOf(c)
  BY DEF HandleOf, HandleIn, ObjectOf
<1>3. ASSUME NEW c \in Claims, Matched(c) PROVE Matched(c)'
  BY <1>2, <1>3 DEF Matched
<1>4. Good \subseteq Good'
  <2> SUFFICES ASSUME NEW h \in Good PROVE h \in Good'
    OBVIOUS
  <2>1. PICK c \in Claims : Matched(c) /\ h = HandleOf(c)
    BY DEF Good
  <2>2. c \in Claims' /\ Matched(c)' /\ h = HandleOf(c)'
    BY <2>1, <1>1, <1>2, <1>3
  <2> QED BY <2>2 DEF Good
<1>5. Cardinality(Good) <= Cardinality(Good') /\ Cardinality(Good') \in Nat
  BY <1>4, GoodFinite, FS_Subset, FS_CardinalityType
<1>6. ClaimsCovered'
  BY <1>1, <1>5, CountsTyped DEF FilesIInv, ClaimsCovered
<1>7. HandlesInTable'
  <2>1. InTable \subseteq InTable'
    BY DEF InTable
  <2> QED BY <2>1 DEF FilesIInv, HandlesInTable
<1>8. files' \in [FileIds -> File] /\ CallShape'
  BY DEF FilesIInv, CallShape
<1> QED BY <1>6, <1>7, <1>8 DEF FilesIInv

LEMMA ProgramFilesIInv ==
  ASSUME FilesIInv, Program
  PROVE  FilesIInv'
<1>1. ASSUME NEW obj \in Objects, Register(obj) PROVE FilesIInv'
  <2> DEFINE h == NextHandle(obj)
  <2>1. Issues(h, obj)
    BY <1>1, RegisterIssues DEF FilesIInv
  <2> HIDE DEF h
  <2>2. \A c \in Claims : HandleOf(c) \in DOMAIN held =>
          HandleOf(c) \in DOMAIN held' /\ held'[HandleOf(c)] = held[HandleOf(c)]
    BY <2>1 DEF Issues
  <2>3. UNCHANGED <<files, call>>
    BY DEF Program
  <2> QED BY <2>1, <2>2, <2>3, HandleTyped, FilesStay
<1>2. ASSUME NEW h \in DOMAIN held \ FileHandles, DeRegister(h) PROVE FilesIInv'
  <2>1. h \in InTable
    BY RepositoryAssumption
    DEF FilesIInv, IInv, TypeOK, OwnersAboveReserved, RepositoryAssumption, InTable
  <2>2. Delete(h)
    BY <1>2 DEF DeRegister, Delete
  <2>3. Frees(h)
    BY <2>1, <2>2, DeleteFrees DEF FilesIInv
  <2>4. \A c \in Claims : HandleOf(c) # h
    BY ClaimsAreFileHandles
  <2>5. \A c \in Claims : HandleOf(c) \in DOMAIN held =>
          HandleOf(c) \in DOMAIN held' /\ held'[HandleOf(c)] = held[HandleOf(c)]
    BY <2>3, <2>4 DEF Frees
  <2>6. UNCHANGED <<files, call>>
    BY DEF Program
  <2> QED BY <2>3, <2>5, <2>6, FreedSizes, FilesStay
<1> QED BY <1>1, <1>2 DEF Program

LEMMA InitFilesIInv == FInit => FilesIInv
<1> SUFFICES ASSUME FInit PROVE FilesIInv
  OBVIOUS
<1>1. IInv
  BY InitIInv DEF FInit
<1>2. NoCallbacks
  BY DEF FInit, Init, NoCallbacks
<1>3. NoFile \in File /\ NoFile.at = "closed"
  <2>1. 0 \in 0 .. MaxSize
    BY RepositoryAssumption DEF RepositoryAssumption
  <2> QED BY <2>1 DEF NoFile, File, ReadPlaces
<1>4. files \in [FileIds -> File] /\ \A f \in FileIds : files[f].at = "closed"
  BY <1>3 DEF FInit
<1>5. HandlesInTable
  BY <1>4 DEF HandlesInTable
<1>6. CallShape
  BY <1>4, FileAssumption DEF FInit, CallShape, FileAssumption
<1>7. ClaimsCovered
  <2>1. Claims = {} /\ Gone = {}
    BY <1>4 DEF Claims, FieldsAt, Gone
  <2>2. Good = {}
    BY <2>1 DEF Good
  <2> QED BY <2>1, <2>2, FS_EmptySet DEF ClaimsCovered
<1> QED BY <1>1, <1>2, <1>4, <1>5, <1>6, <1>7 DEF FilesIInv

THEOREM StepFilesIInv == FilesIInv /\ [FNext]_fvars => FilesIInv'
<1> SUFFICES ASSUME FilesIInv, [FNext]_fvars PROVE FilesIInv'
  OBVIOUS
<1>1. CASE Program
  BY <1>1, ProgramFilesIInv
<1>2. ASSUME NEW f \in FileIds, Reading(f) PROVE FilesIInv'
  <2>1. CASE Connect(f)
    BY <2>1, ConnectFilesIInv
  <2>2. CASE OpenStream(f)
    BY <2>2, OpenStreamFilesIInv
  <2>3. CASE OpenThrows(f)
    BY <2>3, OpenThrowsFilesIInv
  <2>4. CASE OpenFails(f)
    BY <2>4, OpenFailsFilesIInv
  <2>5. CASE SeekBack(f)
    BY <2>5, SeekBackFilesIInv
  <2>6. CASE ResetConnection(f)
    BY <2>6, ResetConnectionFilesIInv
  <2>7. CASE Reopen(f)
    BY <2>7, ReopenFilesIInv
  <2>8. CASE Restream(f)
    BY <2>8, RestreamFilesIInv
  <2>9. CASE ResetThrows(f)
    BY <2>9, ResetThrowsFilesIInv
  <2>10. CASE Close(f)
    BY <2>10, CloseFilesIInv
  <2>11. CASE SizeThrows(f)
    BY <2>11, SizeThrowsFilesIInv
  <2> QED BY <1>2, <2>1, <2>2, <2>3, <2>4, <2>5, <2>6, <2>7, <2>8, <2>9, <2>10, <2>11 DEF Reading
<1>3. CASE UNCHANGED fvars
  <2>1. IInv'
    BY <1>3, StepIInv DEF FilesIInv, fvars
  <2>2. /\ UNCHANGED <<table, held, callbacksByName, files, call>>
    BY <1>3 DEF fvars, vars
  <2>3. NoCallbacks'
    BY <2>2 DEF FilesIInv, NoCallbacks
  <2>4. table.size \in Nat
    BY RepositoryAssumption DEF FilesIInv, IInv, TypeOK, RepositoryAssumption
  <2> QED BY <2>1, <2>2, <2>3, <2>4, FilesStay
<1> QED BY <1>1, <1>2, <1>3 DEF FNext

THEOREM ReadSpecFilesIInv == ReadSpec => []FilesIInv
  BY InitFilesIInv, StepFilesIInv, PTL DEF ReadSpec

-------------------------------------------------------------------------------
(* What the invariant says of the properties.                                *)
Rightful == {c \in Claims : Matched(c)}

HandleMap == [c \in Rightful |-> HandleOf(c)]

LEMMA GoodFromRightful ==
  ASSUME FilesIInv
  PROVE  /\ HandleMap \in Surjection(Rightful, Good)
         /\ IsFiniteSet(Rightful)
         /\ Cardinality(Good) <= Cardinality(Rightful)
         /\ Cardinality(Rightful) <= Cardinality(Claims)
         /\ Cardinality(Claims) = Cardinality(Rightful) => Claims = Rightful
         /\ Cardinality(Rightful) \in Nat
<1>1. Good = {HandleOf(c) : c \in Rightful}
  BY DEF Good, Rightful
<1>2. HandleMap \in [Rightful -> Good]
  BY <1>1 DEF HandleMap
<1>3. \A h \in Good : \E c \in Rightful : HandleMap[c] = h
  BY <1>1 DEF HandleMap
<1>4. HandleMap \in Surjection(Rightful, Good)
  BY <1>2, <1>3 DEF Surjection
<1>5. Rightful \in SUBSET Claims
  BY DEF Rightful
<1>6. /\ IsFiniteSet(Rightful) /\ Cardinality(Rightful) <= Cardinality(Claims)
      /\ Cardinality(Claims) = Cardinality(Rightful) => Claims = Rightful
  BY <1>5, SetsFinite, FS_Subset
<1> QED BY <1>4, <1>6, FS_Surjection, FS_CardinalityType

LEMMA AstrayBounded ==
  ASSUME FilesIInv
  PROVE  FilesOwnHandles
<1> DEFINE Rest == Claims \ Rightful
           pair == [c \in Rest |-> [h |-> HandleOf(c), obj |-> ObjectOf(c)]]
           T == {pair[c] : c \in Rest}
<1>1. /\ IsFiniteSet(Rest)
      /\ Cardinality(Rest) = Cardinality(Claims) - Cardinality(Rightful)
  <2>1. Claims \cap Rightful = Rightful
    BY DEF Rightful
  <2> QED BY <2>1, SetsFinite, FS_Difference
<1>2. IsFiniteSet(T) /\ Cardinality(T) <= Cardinality(Rest)
  <2>1. pair \in [Rest -> T] /\ \A t \in T : \E c \in Rest : pair[c] = t
    OBVIOUS
  <2>2. pair \in Surjection(Rest, T)
    BY <2>1 DEF Surjection
  <2> HIDE DEF Rest, pair, T
  <2> QED BY <1>1, <2>2, FS_Surjection
<1>3. Astray \subseteq T
  <2> SUFFICES ASSUME NEW o \in Astray PROVE o \in T
    OBVIOUS
  <2>1. PICK f \in FileIds : o \in Owned(f)
    BY DEF Astray
  <2>2. PICK k \in FieldsAt(files[f].at) :
          o = [h |-> HandleOf(<<f, k>>), obj |-> ObjectOf(<<f, k>>)]
    BY <2>1, OwnedIsClaims
  <2> DEFINE c == <<f, k>>
  <2>3. c \in Claims
    BY DEF Claims, FieldsAt, Fields
  <2>4. o.h = HandleOf(c) /\ o.obj = ObjectOf(c)
    BY <2>2
  <2>5. HandleOf(c) \notin DOMAIN held \/ table.slots[HandleOf(c)] # ObjectOf(c)
    BY <2>4 DEF Astray
  <2>6. ~ Matched(c)
    BY <2>5 DEF Matched, FilesIInv, IInv, HandlesResolve
  <2>7. c \in Rest
    BY <2>3, <2>6 DEF Rightful
  <2>8. pair[c] = o
    BY <2>2, <2>7
  <2> QED BY <2>7, <2>8
<1>4. IsFiniteSet(Astray) /\ Cardinality(Astray) <= Cardinality(T)
  BY <1>2, <1>3, FS_Subset
<1>5. /\ Cardinality(Astray) \in Nat /\ Cardinality(T) \in Nat /\ Cardinality(Rest) \in Nat
  BY <1>1, <1>2, <1>4, FS_CardinalityType
<1> HIDE DEF Rest, T
<1>6. Cardinality(Astray) <= Cardinality(Gone)
  BY <1>1, <1>2, <1>4, <1>5, GoodFromRightful, CountsTyped DEF FilesIInv, ClaimsCovered
<1> QED BY <1>6 DEF FilesOwnHandles, Gone

LEMMA ClaimsDistinct ==
  ASSUME FilesIInv, Gone = {}, NEW c \in Claims, NEW d \in Claims, c # d
  PROVE  HandleOf(c) # HandleOf(d)
<1>1. Cardinality(Gone) = 0
  BY FS_EmptySet
<1>2. Cardinality(Claims) <= Cardinality(Good)
  BY <1>1, CountsTyped DEF FilesIInv, ClaimsCovered
<1>3. Cardinality(Claims) = Cardinality(Rightful) /\ Cardinality(Good) = Cardinality(Rightful)
  BY <1>2, GoodFromRightful, CountsTyped
<1>4. Claims = Rightful
  BY <1>3, GoodFromRightful
<1>5. HandleMap \in Injection(Rightful, Good)
  BY <1>3, GoodFromRightful, FS_Surjection
<1>6. \A x, y \in DOMAIN HandleMap : HandleMap[x] = HandleMap[y] => x = y
  BY <1>5 DEF Injection, IsInjective
<1> QED BY <1>4, <1>6 DEF HandleMap

LEMMA NoneShared ==
  ASSUME FilesIInv
  PROVE  HandlesNotShared
<1> SUFFICES ASSUME \A f \in FileIds : files[f].at # "gone",
                    NEW f \in FileIds, NEW g \in FileIds, f # g,
                    NEW h, h \in {o.h : o \in Owned(f)}, h \in {o.h : o \in Owned(g)}
             PROVE  FALSE
  BY DEF HandlesNotShared
<1>1. Gone = {}
  BY DEF Gone
<1>2. PICK o \in Owned(f) : o.h = h
  OBVIOUS
<1>3. PICK q \in Owned(g) : q.h = h
  OBVIOUS
<1>4. PICK k \in FieldsAt(files[f].at) :
        o = [h |-> HandleOf(<<f, k>>), obj |-> ObjectOf(<<f, k>>)]
  BY <1>2, OwnedIsClaims
<1>5. PICK j \in FieldsAt(files[g].at) :
        q = [h |-> HandleOf(<<g, j>>), obj |-> ObjectOf(<<g, j>>)]
  BY <1>3, OwnedIsClaims
<1>6. <<f, k>> \in Claims /\ <<g, j>> \in Claims /\ <<f, k>> # <<g, j>>
  BY DEF Claims, FieldsAt, Fields
<1>7. HandleOf(<<f, k>>) = h /\ HandleOf(<<g, j>>) = h
  BY <1>2, <1>3, <1>4, <1>5
<1> QED BY <1>1, <1>6, <1>7, ClaimsDistinct

LEMMA PlacesTyped ==
  ASSUME FilesIInv
  PROVE  FilesTypeOK
<1>1. files \in [FileIds -> File] /\ CallShape
  BY DEF FilesIInv
<1>2. \A f \in FileIds : files[f].at # "output"
  BY <1>1 DEF File, ReadPlaces
<1> QED BY <1>1, <1>2 DEF FilesTypeOK, CallShape, File, ReadPlaces

-------------------------------------------------------------------------------
(* No function of the file system returns with a FILE half open or half      *)
(* reset, whichever of its calls threw.                                      *)
THEOREM FilesTypeCorrect == ReadSpec => []FilesTypeOK
  BY PlacesTyped, ReadSpecFilesIInv, PTL

(* However many FILEs there are, and whatever throws: handles that FILEs     *)
(* answer for and lost are at most as many as the FILEs closed after their   *)
(* reset had failed.                                                         *)
THEOREM FilesKeepHandles == ReadSpec => []FilesOwnHandles
  BY AstrayBounded, ReadSpecFilesIInv, PTL

(* Until such a FILE was closed, no two FILEs have a handle in common.       *)
THEOREM HandlesApart == ReadSpec => []HandlesNotShared
  BY NoneShared, ReadSpecFilesIInv, PTL

(* While every FILE is read, and none written, handles 0 and 1 stay unused:  *)
(* only the close of an output FILE gives them away.                         *)
THEOREM ReadingKeepsReserved == ReadSpec => []ReservedNeverIssued
<1>1. FilesIInv => ReservedNeverIssued
  BY DEF FilesIInv, IInv
<1> QED BY <1>1, ReadSpecFilesIInv, PTL
===============================================================================
