------------------------- MODULE MC_CollabDocument -------------------------
(* Instances of CollabDocument for TLC. *)
EXTENDS CollabDocument, TLC

Symmetry == Permutations(Client)
=============================================================================
