---------------------------- MODULE MCCoreUpdate ----------------------------
(* CoreUpdate with three executables, up to a renaming of them. *)
EXTENDS CoreUpdate, TLC

Symmetry == Permutations(Core)
=============================================================================
