-------------------------- MODULE MCObjectRepository --------------------------
(***************************************************************************)
(* The object repository for TLC. Objects and functions are only stored    *)
(* and compared, so permuting them changes nothing.                        *)
(***************************************************************************)
EXTENDS ObjectRepository, TLC

Symmetry == Permutations(Objects) \cup Permutations(FnPtrs) \cup Permutations(Names)
===============================================================================
