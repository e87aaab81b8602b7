------------------------------ MODULE MCStoreBoot -----------------------------
(* Small instances of StoreBoot for TLC.                                     *)
EXTENDS StoreBoot, TLC

Symmetry == Permutations(Boots) \union Permutations(Facts)
================================================================================
