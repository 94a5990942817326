--------------------------- MODULE ContentBlocks ---------------------------
(***************************************************************************)
(* What utils/middleware.py makes of the text of a streamed answer: the    *)
(* list `content_blocks`, built by looking for tags in all the text that   *)
(* has arrived so far (`content`).                                         *)
(*                                                                         *)
(* A text is a sequence of tokens: opening and closing tags, and pieces of *)
(* plain text, which are numbered, of the answer or of native reasoning.   *)
(* White space is not told apart, and a kind of section has one pair of    *)
(* tags. What the code does token after token, tag after tag or block after *)
(* block is a function of how many of them it has done.                    *)
(***************************************************************************)
EXTENDS Naturals, Sequences, SequencesExt

SectionTypes == {"reasoning", "solution", "code_interpreter"}

Piece(n) == <<"text", "", n>>
Thought(n) == <<"thought", "", n>>
Opening(kind) == <<"open", kind, 0>>
Closing(kind) == <<"close", kind, 0>>
Tags == {Opening(k) : k \in SectionTypes} \union {Closing(k) : k \in SectionTypes}

(* A block. `done` is what its display says: a section of reasoning has    *)
(* ended, code has an output, tool calls have results.                     *)
Block(type, text) ==
  [type |-> type, text |-> text, done |-> FALSE, native |-> FALSE,
   calls |-> <<>>, results |-> <<>>]
TextBlock(text) == Block("text", text)

WithLast(blocks, block) == ReplaceAt(blocks, Len(blocks), block)

Position(token, s) == SelectInSeq(s, LAMBDA t : t = token)
UpTo(s, i) == SubSeq(s, 1, i - 1)
From(s, i) == SubSeq(s, i + 1, Len(s))
Without(part, s) ==
  LET found == {i \in DOMAIN s : IsPrefix(part, SubSeq(s, i, Len(s)))}
  IN IF found = {} THEN s ELSE UpTo(s, Min(found)) \o From(s, Min(found) + Len(part) - 1)

(* The elements of s at the positions S, in their order. *)
KeptAt(s, S, n) == IF n \in S THEN <<s[n]>> ELSE <<>>
KeptUpTo(s, S) ==
  LET kept[n \in 0 .. Len(s)] == IF n = 0 THEN <<>> ELSE kept[n - 1] \o KeptAt(s, S, n)
  IN kept
Kept(s, S) == KeptUpTo(s, S)[Len(s)]

(* Everything an answer shows; serialize_content_blocks. Empty text is not *)
(* shown.                                                                  *)
Rendered(blocks) ==
  Kept(blocks, {i \in DOMAIN blocks :
                  blocks[i].type \in {"text", "solution"} => blocks[i].text # <<>>})

Tokens(blocks) == UNION {ToSet(blocks[i].text) : i \in DOMAIN blocks}
Pieces(S) == {t \in S : t[1] \in {"text", "thought"}}
-----------------------------------------------------------------------------
(* tag_content_handler. *)

(* `content` without its complete sections: each goes from an opening tag  *)
(* to the next closing tag.                                                *)
InSection(kind, s, i) ==
  /\ \E o \in 1 .. i : s[o] = Opening(kind)
                       /\ \A j \in o .. i - 1 : s[j] # Closing(kind)
  /\ \E c \in i .. Len(s) : s[c] = Closing(kind)

(* Mutant: they stay. *)
WithoutSections_Not(kind, s) == s
WithoutSections(kind, s) == Kept(s, {i \in DOMAIN s : ~InSection(kind, s, i)})

(* The last block is a section and ends: what is before the closing tag    *)
(* stays, what is after it begins a new text. An empty section is removed; *)
(* code is not followed by a text.                                         *)
(* Mutant: what follows the closing tag is dropped. *)
Leftover_Dropped(text, i) == <<>>
Leftover(text, i) == IF i = 0 THEN <<>> ELSE From(text, i)

EndSection(kind, blocks) ==
  LET b == Last(blocks)
      i == Position(Closing(kind), b.text)
      inner == IF i = 0 THEN b.text ELSE UpTo(b.text, i)
      ended == [b EXCEPT !.text = inner, !.done = (kind # "code_interpreter")]
  IN CASE inner = <<>> -> Append(Front(blocks), TextBlock(Leftover(b.text, i)))
       [] inner # <<>> /\ kind = "code_interpreter" -> WithLast(blocks, ended)
       [] OTHER -> Append(WithLast(blocks, ended), TextBlock(Leftover(b.text, i)))

(* The last block is text and there is an opening tag in `content`: all of *)
(* `content` before it becomes the text, all after it the new section,     *)
(* which may already be complete.                                          *)
BeginSection(kind, content, blocks) ==
  LET i == Position(Opening(kind), content)
      before == UpTo(content, i)
      after == From(content, i)
      text == IF before # <<>> THEN before
              ELSE Without(<<Opening(kind)>> \o after, Last(blocks).text)
      kept == IF text = <<>> THEN Front(blocks)
              ELSE WithLast(blocks, [Last(blocks) EXCEPT !.text = text])
      begun == Append(kept, Block(kind, after))
  IN IF Position(Closing(kind), after) # 0 THEN EndSection(kind, begun) ELSE begun

(* One call, on and of the state [content, blocks, end]. *)
HandleTag(kind, st) ==
  CASE Last(st.blocks).type = "text" /\ Position(Opening(kind), st.content) # 0 ->
         [st EXCEPT !.blocks = BeginSection(kind, st.content, st.blocks)]
    [] Last(st.blocks).type = kind /\ Position(Closing(kind), st.content) # 0 ->
         [content |-> WithoutSections(kind, st.content),
          blocks |-> EndSection(kind, st.blocks),
          end |-> kind = "code_interpreter"]
    [] OTHER -> st

(* The text v of a delta: native reasoning ends, v goes to the last block, *)
(* and each kind of tag is looked for in turn.                             *)
NativeEnded(blocks) ==
  IF Last(blocks).type = "reasoning" /\ Last(blocks).native
  THEN Append(WithLast(blocks, [Last(blocks) EXCEPT !.done = TRUE]), TextBlock(<<>>))
  ELSE blocks

Received(v, content, blocks) ==
  LET bs == NativeEnded(blocks)
  IN [content |-> content \o v,
      blocks |-> WithLast(bs, [Last(bs) EXCEPT !.text = @ \o v]),
      end |-> FALSE]

HandledUpTo(kinds, received) ==
  LET handled[n \in 0 .. Len(kinds)] ==
        IF n = 0 THEN received ELSE HandleTag(kinds[n], handled[n - 1])
  IN handled

AddText(v, content, blocks, kinds) ==
  HandledUpTo(kinds, Received(v, content, blocks))[Len(kinds)]

(* Native reasoning of a delta joins a section of reasoning, or begins one. *)
AddReasoning(v, blocks) ==
  IF Last(blocks).type = "reasoning"
  THEN WithLast(blocks, [Last(blocks) EXCEPT !.text = @ \o v])
  ELSE Append(blocks, [Block("reasoning", v) EXCEPT !.native = TRUE])

(* The end of a stream: an empty last text is removed, unless it is all    *)
(* there is, and reasoning ends.                                           *)
(* Mutant: it is removed in any case. *)
Tidy_Pop(blocks) ==
  LET bs == IF Last(blocks) = TextBlock(<<>>) THEN Front(blocks) ELSE blocks
  IN IF bs # <<>> /\ Last(bs).type = "reasoning"
     THEN WithLast(bs, [Last(bs) EXCEPT !.done = TRUE]) ELSE bs
Tidy(blocks) ==
  LET bs == IF Last(blocks) = TextBlock(<<>>) /\ Len(blocks) > 1
            THEN Front(blocks) ELSE blocks
  IN IF Last(bs).type = "reasoning" THEN WithLast(bs, [Last(bs) EXCEPT !.done = TRUE]) ELSE bs
-----------------------------------------------------------------------------
(* What the blocks of a stream should be, one token after the other: a tag *)
(* of the kinds looked for begins a section where there is none and ends   *)
(* one of its kind, and is text anywhere else.                             *)
ParseToken(kinds, blocks, t) ==
  LET bs == IF t[1] = "thought" THEN blocks ELSE NativeEnded(blocks)
      last == Last(bs)
  IN CASE t[1] = "thought" -> AddReasoning(<<t>>, bs)
       [] t[1] = "open" /\ last.type = "text" /\ Contains(kinds, t[2]) ->
            Append(IF last.text = <<>> THEN Front(bs) ELSE bs, Block(t[2], <<>>))
       [] t[1] = "close" /\ last.type = t[2] /\ last.text = <<>> ->
            Append(Front(bs), TextBlock(<<>>))
       [] t[1] = "close" /\ last.type = t[2] /\ last.text # <<>> ->
            IF t[2] = "code_interpreter" THEN bs
            ELSE Append(WithLast(bs, [last EXCEPT !.done = TRUE]), TextBlock(<<>>))
       [] OTHER -> WithLast(bs, [last EXCEPT !.text = Append(@, t)])

ParsedUpTo(kinds, s) ==
  LET parsed[n \in 0 .. Len(s)] ==
        IF n = 0 THEN <<TextBlock(<<>>)>> ELSE ParseToken(kinds, parsed[n - 1], s[n])
  IN parsed
Parsed(kinds, s) == ParsedUpTo(kinds, s)[Len(s)]

(* At most one section; the native reasoning of such a text comes first. *)
OneSection(s) ==
  \A i \in DOMAIN s : s[i][1] = "open" =>
    \A j \in DOMAIN s :
      /\ j < i => s[j][1] \notin {"open", "close"}
      /\ s[j][1] = "thought" => \A k \in 1 .. j : s[k][1] = "thought"
-----------------------------------------------------------------------------
(* convert_content_blocks_to_messages: what the model is told of its own   *)
(* answer when it is asked to go on.                                       *)
Assistant(blocks, calls) ==
  [role |-> "assistant", content |-> Rendered(blocks), calls |-> calls, answers |-> 0]
ToolResult(id) ==
  [role |-> "tool", content |-> <<>>, calls |-> <<>>, answers |-> id]

AddMessage(acc, b) ==
  IF b.type = "tool_calls"
  THEN [messages |-> acc.messages \o <<Assistant(acc.blocks, b.calls)>>
                       \o [i \in DOMAIN b.results |-> ToolResult(b.results[i])],
        blocks |-> <<>>]
  ELSE [acc EXCEPT !.blocks = Append(@, b)]

MessagesUpTo(blocks) ==
  LET made[n \in 0 .. Len(blocks)] ==
        IF n = 0 THEN [messages |-> <<>>, blocks |-> <<>>]
        ELSE AddMessage(made[n - 1], blocks[n])
  IN made

Messages(blocks) ==
  LET acc == MessagesUpTo(blocks)[Len(blocks)]
  IN IF Rendered(acc.blocks) = <<>> THEN acc.messages
     ELSE Append(acc.messages, Assistant(acc.blocks, <<>>))
=============================================================================
