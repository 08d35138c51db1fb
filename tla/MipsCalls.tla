------------------------------ MODULE MipsCalls -------------------------------
(***************************************************************************)
(* What the MIPS binary does when its functions call each other: a call    *)
(* returns to the site it was made from, and the caller finds the result   *)
(* in the registers v0 and v1. A tail call (j) hands the caller on.        *)
(***************************************************************************)
EXTENDS Integers, Sequences

CONSTANTS
  Fns,          (* functions of the program                                 *)
  Sites,        (* call sites in a function, numbered from 1                *)
  MaxDepth,     (* bound: no more activations than this                     *)
  None

ASSUME DepthAssumption == MaxDepth \in Nat \ {0}

VARIABLES
  calls,        (* activations, the running one last: its function and the
                   site it called from last (0: none yet)                   *)
  returned      (* what the last callee left, until the next call           *)

mips == <<calls, returned>>

Running == calls[Len(calls)]
Callers == SubSeq(calls, 1, Len(calls) - 1)

MInit == calls = <<>> /\ returned = None

(* Java starts the program, or calls a callback. *)
MStart(g) ==
  /\ calls = <<>>
  /\ calls' = <<[fn |-> g, site |-> 0]>>
  /\ returned' = None

(* jal or jalr g *)
MCall(g, k) ==
  /\ calls # <<>> /\ Len(calls) < MaxDepth
  /\ calls' = Append(Append(Callers, [Running EXCEPT !.site = k]), [fn |-> g, site |-> 0])
  /\ returned' = None

(* j g, at the end of a function *)
MTailCall(g) ==
  /\ calls # <<>>
  /\ calls' = Append(Callers, [fn |-> g, site |-> 0])
  /\ returned' = None

(* jr ra, with the result in v0 and v1 *)
MReturn(r) ==
  /\ calls # <<>>
  /\ calls' = Callers
  /\ returned' = r
===============================================================================
