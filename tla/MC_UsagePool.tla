---------------------------- MODULE MC_UsagePool ----------------------------
(* Instances of UsagePool for TLC. *)
EXTENDS UsagePool, TLC

Symmetry == Permutations(Instance) \union Permutations(Session) \union Permutations(Model)
=============================================================================
