-------------------------- MODULE MCTranslatedCalls ---------------------------
(***************************************************************************)
(* TranslatedCalls for TLC: two functions that call, and a leaf with a     *)
(* result of one word.                                                     *)
(***************************************************************************)
EXTENDS TranslatedCalls, TLC

CONSTANTS f, g, h

Widths == f :> 2 @@ g :> 1 @@ h :> 1

(* Pruning goes with functions of their own only: in a shared method the     *)
(* registers of caller and callee are the same Java locals.                  *)
Config(threadSafe, prune, coloc, events) ==
  [threadSafe |-> threadSafe, prune |-> prune, coloc |-> coloc, events |-> events]
SoundConfigs ==
  {Config(FALSE, FALSE, {f, g}, FALSE), Config(TRUE, FALSE, {f, g}, TRUE),
   Config(FALSE, FALSE, {f, g, h}, FALSE),
   Config(FALSE, TRUE, {}, TRUE), Config(TRUE, FALSE, {}, TRUE)}

Signs == {-1, 1}
===============================================================================
