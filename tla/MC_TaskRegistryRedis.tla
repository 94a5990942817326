------------------------ MODULE MC_TaskRegistryRedis ------------------------
(* Instances of TaskRegistryRedis for TLC. *)
EXTENDS TaskRegistryRedis, TLC

Symmetry == Permutations(Task) \union Permutations(Item)
            \union Permutations(Instance)
=============================================================================
