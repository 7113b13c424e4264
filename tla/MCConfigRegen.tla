--------------------------- MODULE MCConfigRegen ---------------------------
(* ConfigRegen on a small panel: two regenerations at a time, for the safety *)
(* run up to a renaming of the goroutines, and backups of the panel's first  *)
(* day.                                                                      *)
EXTENDS ConfigRegen, TLC

Symmetry == Permutations(Worker)
FirstDay == {NoDB}
NoBackups == {}
=============================================================================
