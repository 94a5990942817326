-------------------------- MODULE MC_SharedConfig --------------------------
(* Instances of SharedConfig for TLC. *)
EXTENDS SharedConfig, TLC

CONSTANTS i1, i2, w1, w2, w3

(* The event loop and a thread of the pool in the first instance. *)
TwoInOne == w1 :> i1 @@ w2 :> i1 @@ w3 :> i2

(* InstancesAgree is about what precedes the first failure, crash or import; *)
(* TLC takes those steps and does not go on from them.                       *)
Calm == errors + crashes + imports = 0

Symmetry ==
  Permutations({w1, w2}) \union Permutations(Key) \union Permutations(Value)
=============================================================================
