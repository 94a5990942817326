--------------------------- MODULE MC_ChatLibrary ---------------------------
(* Instances of ChatLibrary for TLC. *)
EXTENDS ChatLibrary, FiniteSets, TLC

Symmetry == Permutations(Chat) \union Permutations(Folder)

(* The first name, as a pattern, matches every name, and the other, which  *)
(* has a backslash in it, matches none.                                    *)
CONSTANTS n1, n2
MatchedNames == n1 :> {n1, n2} @@ n2 :> {}

(* The names of folders that are not there do not matter. *)
Visible == <<shelf, links, rows, folders, parent, [f \in folders |-> name[f]], born, job,
             threads, seen>>

(* What has gone wrong at most. *)
CONSTANT MaxEvents
FewEvents == Cardinality(seen) <= MaxEvents
=============================================================================
