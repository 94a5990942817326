-------------------------- MODULE MC_TaskRegistry --------------------------
(* Instances of TaskRegistry for TLC. *)
EXTENDS TaskRegistry, TLC

Symmetry == Permutations(Task) \union Permutations(Item) \union Permutations(Stopper)
=============================================================================
