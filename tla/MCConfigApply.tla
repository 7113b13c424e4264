---------------------------- MODULE MCConfigApply ----------------------------
(* ConfigApply with two contents the core loads, which are exchangeable, and *)
(* one it refuses.                                                           *)
EXTENDS ConfigApply, TLC

CONSTANTS a, b, bad

Symmetry == Permutations({a, b})
=============================================================================
