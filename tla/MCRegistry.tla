----------------------------- MODULE MCRegistry -----------------------------
(***************************************************************************)
(* Two WSL members' keys and a roster key over three entities.             *)
(***************************************************************************)
EXTENDS Registry, TLC
Symmetry == Permutations(Entities) \cup Permutations(Keys \ RosterKeys)
=============================================================================
