--------------------------- MODULE MC_ChatStream ---------------------------
(* Instances of ChatStream for TLC. *)
EXTENDS ChatStream, TLC

TagKinds == <<"reasoning", "code_interpreter">>
TagsOfKinds ==
  {Opening(TagKinds[i]) : i \in 1 .. 2} \union {Closing(TagKinds[i]) : i \in 1 .. 2}
SingleDeltas == {<<t>> : t \in TagsOfKinds \union {Piece(0)}}
MixedDeltas == SingleDeltas
  \union {<<Opening("reasoning"), Piece(0)>>, <<Piece(0), Closing("reasoning"), Piece(0)>>}
=============================================================================
