----------------------------- MODULE MCKeptTrees -----------------------------
(* Instances of KeptTrees for TLC. *)
EXTENDS KeptTrees, TLC

KeptSymmetry == Permutations(Names) \cup Permutations(Texts)
==============================================================================
