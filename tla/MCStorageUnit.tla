--------------------------- MODULE MCStorageUnit ----------------------------
(***************************************************************************)
(* Model values for StorageUnit.                                           *)
(***************************************************************************)
EXTENDS StorageUnit, TLC

Symmetry ==
  Permutations(Unit) \cup Permutations(Guid) \cup Permutations(Process)
    \cup Permutations(Thread)
=============================================================================
