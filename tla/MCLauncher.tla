----------------------------- MODULE MCLauncher -----------------------------
(***************************************************************************)
(* Symmetry for Launcher: readable names, process identifiers and handle   *)
(* values are interchangeable.                                             *)
(***************************************************************************)
EXTENDS Launcher

Symmetry == Permutations(Name \ Unreadable) \cup Permutations(Pid) \cup Permutations(Handle)
=============================================================================
