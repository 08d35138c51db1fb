--------------------------- MODULE ObjectRepository ---------------------------
(***************************************************************************)
(* The object repository of java/CRunTime.java: Java objects reach the C   *)
(* program as integer handles, and callbacks are looked up through slots   *)
(* of the same table.                                                      *)
(***************************************************************************)
EXTENDS Integers, FiniteSets

CONSTANTS
  Objects,       (* Java objects the program handles                        *)
  FnPtrs,        (* addresses of C functions                                *)
  Names,         (* names of callbacks                                      *)
  NULL,          (* Java null, and an unpublished callback                  *)
  Unset,         (* the Integer 0 that publishCallback registers            *)
  InitialSize,   (* first maxRepositoryObjects: 256                         *)
  MaxSize        (* bound: the table is not grown past this                 *)

ASSUME RepositoryAssumption ==
  /\ InitialSize \in Nat /\ InitialSize > 2
  /\ MaxSize \in Nat /\ MaxSize >= InitialSize
  /\ NULL \notin Objects \cup FnPtrs \cup {Unset} \cup Nat

VARIABLES
  table,            (* slots (objectRepository), size (maxRepositoryObjects)
                       and firstFree                                        *)
  held,             (* the C program's live handles and what they stand for *)
  callbacksByName,  (* the id published for a name                          *)
  wanted            (* the function the program registered for a name       *)

vars == <<table, held, callbacksByName, wanted>>

Values == Objects \cup FnPtrs \cup {Unset}

(* The program's handles are given out above the two reserved ones. *)
Reserved == {0, 1}

Grown(f, h, obj) == [g \in DOMAIN f \cup {h} |-> IF g = h THEN obj ELSE f[g]]
Dropped(f, h) == [g \in DOMAIN f \ {h} |-> f[g]]

(* Slots registerObject may settle on, once obj is stored in the first one. *)
FreeSlots(t) == {i \in t.firstFree + 1 .. t.size - 1 : t.slots[i] = NULL}

(* Mutant: the handle of the slot that was stored first. *)
RegisteredGhost(t, obj) ==
  LET slots == [t.slots EXCEPT ![t.firstFree] = obj]
  IN IF FreeSlots(t) # {}
     THEN [ret |-> t.firstFree,
           table |-> [t EXCEPT !.slots = slots,
                               !.firstFree = CHOOSE i \in FreeSlots(t) :
                                               \A j \in FreeSlots(t) : i <= j]]
     ELSE [ret |-> t.firstFree,
           table |-> [slots |-> [i \in 0 .. 2 * t.size - 1 |->
                                   IF i < t.size THEN slots[i]
                                   ELSE IF i = t.size THEN obj ELSE NULL],
                      size |-> 2 * t.size,
                      firstFree |-> t.firstFree]]

(* Mutant: a table that is full is not grown, the search ends past it.       *)
RegisteredPastEnd(t, obj) ==
  LET free == FreeSlots(t)
  IN [ret |-> t.firstFree,
      table |-> [slots |-> [t.slots EXCEPT ![t.firstFree] = obj],
                 size |-> t.size,
                 firstFree |-> IF free = {} THEN t.size
                               ELSE CHOOSE i \in free : \A j \in free : i <= j]]

(* registerObject(obj) for an object that is not null: the object goes to    *)
(* the first free slot; when no slot after it is free the table doubles, the *)
(* object is stored once more, after the old slots, and that is its handle.  *)
Registered(t, obj) ==
  LET slots == [t.slots EXCEPT ![t.firstFree] = obj]
  IN IF FreeSlots(t) # {}
     THEN [ret |-> t.firstFree,
           table |-> [slots |-> slots,
                      size |-> t.size,
                      firstFree |-> CHOOSE i \in FreeSlots(t) :
                                      \A j \in FreeSlots(t) : i <= j]]
     ELSE [ret |-> t.size,
           table |-> [slots |-> [i \in 0 .. 2 * t.size - 1 |->
                                   IF i < t.size THEN slots[i]
                                   ELSE IF i = t.size THEN obj ELSE NULL],
                      size |-> 2 * t.size,
                      firstFree |-> t.firstFree]]

RoomFor(t) == FreeSlots(t) # {} \/ 2 * t.size <= MaxSize

(* Mutants: the slot stays occupied; the first free slot is not remembered;  *)
(* it is remembered one too low.                                             *)
DeRegisteredKeeping(t, h) ==
  [t EXCEPT !.firstFree = IF t.firstFree > h THEN h ELSE t.firstFree]

DeRegisteredForgetting(t, h) == [t EXCEPT !.slots = [t.slots EXCEPT ![h] = NULL]]

DeRegisteredLow(t, h) ==
  [t EXCEPT !.slots = [t.slots EXCEPT ![h] = NULL],
            !.firstFree = IF t.firstFree > h THEN h - 1 ELSE t.firstFree]

(* deRegisterObject(handle) *)
DeRegistered(t, h) ==
  [slots |-> [t.slots EXCEPT ![h] = NULL],
   size |-> t.size,
   firstFree |-> IF t.firstFree > h THEN h ELSE t.firstFree]

-------------------------------------------------------------------------------
Init ==
  /\ table = [slots |-> [i \in 0 .. InitialSize - 1 |-> NULL],
              size |-> InitialSize,
              firstFree |-> 2]
  /\ held = [h \in {} |-> NULL]
  /\ callbacksByName = [name \in Names |-> NULL]
  /\ wanted = [name \in Names |-> Unset]

(* A system call returned a Java object to the program. A null object        *)
(* becomes handle 0 without touching the table.                              *)
Register(obj) ==
  LET r == Registered(table, obj)
  IN /\ RoomFor(table)
     /\ table' = r.table
     /\ held' = Grown(held, r.ret, obj)
     /\ UNCHANGED <<callbacksByName, wanted>>

(* NOPH_delete(handle) *)
DeRegister(h) ==
  /\ h \in DOMAIN held
  /\ table' = DeRegistered(table, h)
  /\ held' = Dropped(held, h)
  /\ UNCHANGED <<callbacksByName, wanted>>

(* publishCallback(name), once for each name while the Java side starts.     *)
PublishCallback(name) ==
  LET r == Registered(table, Unset)
  IN /\ callbacksByName[name] = NULL
     /\ RoomFor(table)
     /\ table' = r.table
     /\ callbacksByName' = [callbacksByName EXCEPT ![name] = r.ret]
     /\ UNCHANGED <<held, wanted>>

(* Mutant: the function pointer goes to a slot of its own. *)
RegisterCallbackAnew(name, fn) ==
  LET r == Registered(table, fn)
  IN /\ callbacksByName[name] # NULL
     /\ RoomFor(table)
     /\ table' = r.table
     /\ wanted' = [wanted EXCEPT ![name] = fn]
     /\ UNCHANGED <<held, callbacksByName>>

(* NOPH_registerCallback(name, fn) replaces the Integer in the slot.         *)
RegisterCallback(name, fn) ==
  /\ callbacksByName[name] # NULL
  /\ table' = [table EXCEPT !.slots = [@ EXCEPT ![callbacksByName[name]] = fn]]
  /\ wanted' = [wanted EXCEPT ![name] = fn]
  /\ UNCHANGED <<held, callbacksByName>>

(* A name nobody published: the look-up yields null, using it throws.        *)
RegisterCallbackThrows(name, fn) ==
  callbacksByName[name] = NULL /\ UNCHANGED vars

Next ==
  \/ \E obj \in Objects : Register(obj)
  \/ \E h \in DOMAIN held : DeRegister(h)
  \/ \E name \in Names : PublishCallback(name)
  \/ \E name \in Names, fn \in FnPtrs :
       RegisterCallback(name, fn) \/ RegisterCallbackThrows(name, fn)

Spec == Init /\ [][Next]_vars

-------------------------------------------------------------------------------
(* Properties *)

CallbackIds == {callbacksByName[name] : name \in {m \in Names : callbacksByName[m] # NULL}}

(* The table keeps its shape, and there is always a slot that firstFree      *)
(* names, also while the table is full.                                      *)
TypeOK ==
  /\ table.size \in InitialSize .. MaxSize
  /\ table.slots \in [0 .. table.size - 1 -> Values \cup {NULL}]
  /\ table.firstFree \in 0 .. table.size - 1
  /\ DOMAIN held \subseteq 0 .. table.size - 1
  /\ callbacksByName \in [Names -> 0 .. MaxSize \cup {NULL}]
  /\ wanted \in [Names -> FnPtrs \cup {Unset}]

(* A handle the program holds stands for the object it was given for,        *)
(* whatever was registered, released or grown since.                         *)
HandlesResolve == \A h \in DOMAIN held : table.slots[h] = held[h]

(* The handle the next object gets is nobody's: not the program's, not a     *)
(* callback's.                                                               *)
NextHandleIsFresh == table.firstFree \notin DOMAIN held \cup CallbackIds

(* 0 is the invalid object and 1 the exception object; neither is given out. *)
ReservedNeverIssued == \A h \in Reserved : table.slots[h] = NULL

(* No slot below firstFree is wasted: registerObject searches upwards only.  *)
NoHoleBelow == \A i \in 2 .. table.firstFree - 1 : table.slots[i] # NULL

(* Every name is called with the function registered last for it, or not at  *)
(* all, and two names never share an id.                                     *)
CallbacksBound ==
  /\ \A name \in Names :
       callbacksByName[name] # NULL => table.slots[callbacksByName[name]] = wanted[name]
  /\ \A m, n \in Names :
       m # n /\ callbacksByName[m] # NULL => callbacksByName[m] # callbacksByName[n]
  /\ CallbackIds \cap DOMAIN held = {}

(* An object the program released can be collected: a slot that nobody owns  *)
(* keeps an object alive only since the table grew, one slot each time the   *)
(* size doubled.                                                             *)
Leaked == {i \in 2 .. table.size - 1 :
             table.slots[i] # NULL /\ i \notin DOMAIN held \cup CallbackIds}

LeakBounded == InitialSize * 2 ^ Cardinality(Leaked) <= table.size
===============================================================================
