----------------------------- MODULE HeapContract -----------------------------
(***************************************************************************)
(* What the C heap promises its callers, whatever lists it keeps inside:   *)
(* every live block lies in the pool, no two live blocks overlap, a block  *)
(* stays where it is until its own holder gives it back, and a refused     *)
(* request changes nothing.                                                *)
(***************************************************************************)
EXTENDS Integers

CONSTANTS
  PoolStart,  (* first address handed to smalloc_set_memory_pool           *)
  PoolEnd,    (* first address after the pool                              *)
  Sizes       (* request sizes callers use                                 *)

VARIABLE live  (* from the pointers that are allocated to the size asked for *)

Extend(f, p, s) == [q \in DOMAIN f \cup {p} |-> IF q = p THEN s ELSE f[q]]
Remove(f, p) == [q \in DOMAIN f \ {p} |-> f[q]]

(* The bytes p .. p+s-1 are in the pool and in no live block. *)
FreeRange(p, s) ==
  /\ PoolStart <= p
  /\ p + s <= PoolEnd
  /\ \A q \in DOMAIN live : q + live[q] <= p \/ p + s <= q

Init == live = [p \in {} |-> 0]

Allocate(s) ==
  \E p \in PoolStart .. PoolEnd :
    /\ p \notin DOMAIN live
    /\ FreeRange(p, s)
    /\ live' = Extend(live, p, s)

Release(p) == /\ p \in DOMAIN live
              /\ live' = Remove(live, p)

(* The new block is found while the old one is still held. *)
Move(p, s) ==
  /\ p \in DOMAIN live
  /\ \E q \in PoolStart .. PoolEnd :
       /\ q \notin DOMAIN live
       /\ FreeRange(q, s)
       /\ live' = Remove(Extend(live, q, s), p)

Next == \/ \E s \in Sizes : Allocate(s)
        \/ \E p \in DOMAIN live : Release(p)
        \/ \E p \in DOMAIN live, s \in Sizes : Move(p, s)

Spec == Init /\ [][Next]_live
===============================================================================
