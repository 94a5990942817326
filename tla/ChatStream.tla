----------------------------- MODULE ChatStream -----------------------------
(***************************************************************************)
(* One answer of a model: process_chat_response (utils/middleware.py) in   *)
(* the background task that process_chat (main.py) runs in. It reads the   *)
(* model's stream, runs the tools and the code the model asks for, asks    *)
(* the model to go on, shows the page what there is, and saves it.         *)
(*                                                                         *)
(* An action is what happens between two awaits. The task can be cancelled *)
(* at each of them; with Redis, where a command to stop it leaves it       *)
(* listed, once more while it deals with that (tasks.py:36-41). What is    *)
(* cancelled in the await of an emission is the state before or after it.  *)
(*                                                                         *)
(* Left out: the sources, files, usage figures and title beside the text;  *)
(* chunks that a filter drops or that cannot be parsed, which change       *)
(* nothing; failing writes to the database; answers to API clients, which  *)
(* are passed through.                                                     *)
(***************************************************************************)
EXTENDS ContentBlocks, FiniteSets

CONSTANTS
  Kinds,           \* the kinds of tags looked for, in their order
  Deltas,          \* the texts a delta can have; Piece(0) is any piece
  ChunkSize,       \* stream_delta_chunk_size
  MaxToolRounds,   \* CHAT_RESPONSE_MAX_TOOL_CALL_RETRIES
  MaxCodeRounds,   \* MAX_RETRIES of the code interpreter, 5
  CallIndex,       \* the indexes of tool calls
  MaxDeltas        \* bound: deltas in all streams of an answer

ASSUME BoundAssumption ==
  /\ ChunkSize \in Nat \ {0}
  /\ MaxToolRounds \in Nat /\ MaxCodeRounds \in Nat /\ MaxDeltas \in Nat
  /\ CallIndex \subseteq Nat \ {0}
ASSUME TextAssumption ==
  /\ Kinds \in Seq(SectionTypes)
  /\ \A i, j \in DOMAIN Kinds : Kinds[i] = Kinds[j] => i = j
  /\ Deltas \subseteq Seq(Tags \union {Piece(0)}) \ {<<>>}

VARIABLES
  at,         \* the await the task is in
  loop,       \* the loop the stream is read in; "whole": there is none
  realtime,   \* ENABLE_REALTIME_CHAT_SAVE
  content,    \* all text received, without its complete sections
  blocks,     \* content_blocks
  calls,      \* response_tool_calls of the stream
  toolCalls,  \* the batches of calls that are to be run
  results,    \* ids of the calls of the batch that have been run
  toolRounds, codeRounds,
  pending,    \* last_delta_data, or Nothing
  unsent,     \* delta_count
  page,       \* the text the page shows: rendered blocks, then pieces
  told,       \* what the page was told of the end of the answer; "again":
              \* it was stopped another time while it was being stopped
  saved,      \* the message's content in the database
  deltas,     \* deltas so far
  heard,      \* history: the text of all deltas
  late,       \* history: code has become a block later than it came
  owed,       \* history: calls the model has made that were not run
  dropped     \* history: of these, those of later streams that broke

parse == <<content, blocks, heard, late>>
stream == <<calls, pending, unsent>>
rounds == <<toolCalls, results, toolRounds, codeRounds>>
account == <<owed, dropped>>
vars == <<at, loop, realtime, parse, stream, rounds, account, page, told, saved, deltas>>

Nothing == [full |-> FALSE, blocks |-> <<>>, raw |-> <<>>]
Full(bs) == [full |-> TRUE, blocks |-> Rendered(bs), raw |-> <<>>]
Raw(v) == [full |-> FALSE, blocks |-> <<>>, raw |-> v]

TypeOK ==
  /\ at \in {"start", "whole", "stream", "closing", "next", "tool", "request", "code",
             "background", "cancelling", "ended"}
  /\ loop \in {"first", "tools", "code", "none", "whole"}
  /\ realtime \in BOOLEAN
  /\ blocks # <<>>                     \* content_blocks[-1] exists
  /\ \A i \in DOMAIN calls : calls[i].index \in CallIndex /\ calls[i].parts \in Nat \ {0}
  /\ toolRounds \in 0 .. MaxToolRounds /\ codeRounds \in 0 .. MaxCodeRounds
  /\ unsent \in 0 .. ChunkSize - 1
  /\ told \subseteq {"done", "cancelled", "again", "error"}
  /\ at = "tool" => Last(blocks).type = "tool_calls"
  /\ at = "code" => Last(blocks).type = "code_interpreter"
  /\ late \in BOOLEAN /\ owed \in Nat /\ dropped \in Nat
  /\ deltas \in 0 .. MaxDeltas

(* The message may already have a text, which the answer continues. *)
Init ==
  /\ at = "start" /\ loop = "first" /\ realtime \in BOOLEAN
  /\ content \in {<<>>, <<Piece(0)>>}
  /\ blocks = <<TextBlock(content)>>
  /\ calls = <<>> /\ toolCalls = <<>> /\ results = <<>>
  /\ toolRounds = 0 /\ codeRounds = 0
  /\ pending = Nothing /\ unsent = 0
  /\ page = Full(blocks) /\ told = {}
  /\ saved = Rendered(blocks)
  /\ deltas = 0 /\ heard = content /\ late = FALSE
  /\ owed = 0 /\ dropped = 0

(* chatCompletionEventHandler: a content that is not empty replaces what   *)
(* the page shows, the text of a raw chunk is added to it.                 *)
Shown(p, data) ==
  CASE data.full /\ data.blocks # <<>> -> data
    [] data.full /\ data.blocks = <<>> -> p
    [] ~data.full -> [p EXCEPT !.raw = @ \o data.raw]

EmitBlocks(bs) == page' = Shown(page, Full(bs))

(* Mutant: the text is saved with each chunk that is sent. *)
SaveNow_Chunk(bs) ==
  saved' = IF realtime /\ unsent + 1 >= ChunkSize THEN Rendered(bs) ELSE saved
SaveNow(bs) == saved' = IF realtime THEN Rendered(bs) ELSE saved
SaveAtEnd(bs) == saved' = IF realtime THEN saved ELSE Rendered(bs)
-----------------------------------------------------------------------------
(* stream_body_handler. *)

OpenStream == calls' = <<>> /\ pending' = Nothing /\ unsent' = 0

(* A delta that is not empty is sent with the chunk it completes; the data *)
(* of the last one stands for all of them.                                 *)
Deliver(data) ==
  IF unsent + 1 >= ChunkSize
  THEN page' = Shown(page, data) /\ pending' = Nothing /\ unsent' = 0
  ELSE pending' = data /\ unsent' = unsent + 1 /\ UNCHANGED page

Receiving ==
  /\ at = "stream" /\ deltas < MaxDeltas
  /\ deltas' = deltas + 1
  /\ UNCHANGED <<loop, realtime, rounds, told>>

(* Code that came in an earlier delta becomes a block only now: the stream *)
(* was in another section then, or has left this one for native reasoning, *)
(* for calls or to run the code.                                           *)
FoundLate(bs) ==
  /\ Contains(content, Opening("code_interpreter"))
  /\ Last(blocks).type # "code_interpreter" /\ Last(bs).type = "code_interpreter"

(* Text. It is saved at once in realtime mode. The end of a code section   *)
(* ends the stream, before anything is saved or sent.                      *)
TextDelta(d) ==
  LET v == [i \in DOMAIN d |-> IF d[i] = Piece(0) THEN Piece(10 * (deltas + 1) + i) ELSE d[i]]
      st == AddText(v, content, blocks, Kinds)
  IN
  /\ Receiving
  /\ content' = st.content /\ blocks' = st.blocks
  /\ heard' = heard \o v /\ late' = (late \/ FoundLate(st.blocks))
  /\ IF st.end
     THEN at' = "closing" /\ UNCHANGED <<saved, page, pending, unsent>>
     ELSE /\ SaveNow(st.blocks)
          /\ Deliver(IF realtime THEN Raw(v) ELSE Full(st.blocks))
          /\ UNCHANGED at
  /\ UNCHANGED <<calls, account>>

(* Native reasoning. It is sent rendered in both modes, and not saved. *)
ReasoningDelta ==
  LET v == <<Thought(10 * (deltas + 1))>> IN
  /\ Receiving
  /\ blocks' = AddReasoning(v, blocks) /\ heard' = heard \o v
  /\ Deliver(Full(blocks'))
  /\ UNCHANGED <<at, content, late, calls, account, saved>>

(* A piece of a tool call: pieces with the same index belong together. *)
MergeCall(index) ==
  LET i == SelectInSeq(calls, LAMBDA c : c.index = index)
  IN IF i = 0 THEN Append(calls, [index |-> index, parts |-> 1])
     ELSE [calls EXCEPT ![i].parts = @ + 1]

ToolCallDelta(index) ==
  /\ Receiving
  /\ calls' = MergeCall(index)
  /\ owed' = owed + Len(calls') - Len(calls)
  /\ Deliver(Raw(<<>>))
  /\ UNCHANGED <<at, parse, dropped, saved>>

(* A delta without text, as the first one with the role. *)
OtherDelta ==
  /\ Receiving
  /\ Deliver(Raw(<<>>))
  /\ UNCHANGED <<at, parse, calls, account, saved>>

(* The stream is over: what is pending is sent, the blocks are tidied, the *)
(* calls are put down to be run.                                           *)
EndStream ==
  /\ at \in {"stream", "closing"}
  /\ page' = Shown(page, pending)
  /\ pending' = Nothing /\ unsent' = 0
  /\ blocks' = Tidy(blocks)
  /\ toolCalls' = IF calls = <<>> THEN toolCalls ELSE Append(toolCalls, calls)
  /\ calls' = <<>>
  /\ at' = "next" /\ loop' = IF loop = "first" THEN "tools" ELSE loop
  /\ UNCHANGED <<realtime, content, heard, late, results, toolRounds, codeRounds, account,
                 told, saved, deltas>>

(* The connection to the model breaks. In the first stream the answer      *)
(* fails: process_chat stores and shows the error. In a later one its loop *)
(* is left, and the calls it has made by then are not put down.            *)
AfterLoop == IF loop = "tools" THEN "code" ELSE "none"

BreakStream ==
  /\ at = "stream"
  /\ OpenStream
  /\ IF loop = "first"
     THEN at' = "ended" /\ told' = {"error", "cancelled"} /\ UNCHANGED loop
     ELSE at' = "next" /\ loop' = AfterLoop /\ UNCHANGED told
  /\ dropped' = dropped + Len(calls)
  /\ UNCHANGED <<realtime, parse, rounds, page, owed, saved, deltas>>
-----------------------------------------------------------------------------
(* response_handler. *)

(* The events of the payload's filters have been sent, the stream is read. *)
Start ==
  /\ at = "start"
  /\ at' = "stream"
  /\ UNCHANGED <<loop, realtime, parse, stream, rounds, page, account, told, saved, deltas>>

(* Or the model has answered without a stream: with a text, which is shown *)
(* and then saved, *)
ShowWhole ==
  /\ at = "start"
  /\ page' = Shown(page, Full(<<TextBlock(<<Piece(1)>>)>>)) /\ told' = {"done"}
  /\ at' = "whole" /\ loop' = "whole"
  /\ UNCHANGED <<realtime, parse, stream, rounds, account, saved, deltas>>

SaveWhole ==
  /\ at = "whole"
  /\ saved' = page.blocks
  /\ at' = "background"
  /\ UNCHANGED <<loop, realtime, parse, stream, rounds, page, account, told, deltas>>

(* with an error, or with nothing, of which the page is not told. *)
NoAnswer ==
  /\ at = "start"
  /\ told' \in {{}, {"error"}}
  /\ at' = "ended" /\ loop' = "whole"
  /\ UNCHANGED <<realtime, parse, stream, rounds, page, account, saved, deltas>>

(* The next batch of tool calls is shown and run, one after the other; a   *)
(* tool that fails has its error for a result.                             *)
(* Mutant: one round less. *)
MoreTools_Less == loop = "tools" /\ toolCalls # <<>> /\ toolRounds + 1 < MaxToolRounds
MoreTools == loop = "tools" /\ toolCalls # <<>> /\ toolRounds < MaxToolRounds

NextTools ==
  /\ at = "next" /\ MoreTools
  /\ toolRounds' = toolRounds + 1
  /\ blocks' = Append(blocks, [Block("tool_calls", <<>>) EXCEPT !.calls = Head(toolCalls)])
  /\ toolCalls' = Tail(toolCalls) /\ results' = <<>>
  /\ EmitBlocks(blocks')
  /\ at' = "tool"
  /\ UNCHANGED <<loop, realtime, content, heard, late, stream, codeRounds, account,
                 told, saved, deltas>>

RunTool ==
  /\ at = "tool" /\ Len(results) < Len(Last(blocks).calls)
  /\ results' = Append(results, Last(blocks).calls[Len(results) + 1].index)
  /\ owed' = owed - 1
  /\ UNCHANGED <<at, loop, realtime, parse, stream, toolCalls, toolRounds, codeRounds,
                 page, dropped, told, saved, deltas>>

(* Mutant: only the last result is kept. *)
Answered_Last == [Last(blocks) EXCEPT !.results = <<Last(results)>>, !.done = TRUE]
Answered == [Last(blocks) EXCEPT !.results = results, !.done = TRUE]

ToolsRun ==
  /\ at = "tool" /\ Len(results) = Len(Last(blocks).calls)
  /\ blocks' = Append(WithLast(blocks, Answered), TextBlock(<<>>))
  /\ EmitBlocks(blocks')
  /\ at' = "request"
  /\ UNCHANGED <<loop, realtime, content, heard, late, stream, rounds, account, told, saved, deltas>>

(* The model answers with a stream, *)
Resume ==
  /\ at = "request"
  /\ OpenStream
  /\ at' = "stream"
  /\ UNCHANGED <<loop, realtime, parse, rounds, page, account, told, saved, deltas>>

(* or not: the loop is left. *)
Refused ==
  /\ at = "request"
  /\ at' = "next" /\ loop' = AfterLoop
  /\ UNCHANGED <<realtime, parse, stream, rounds, page, account, told, saved, deltas>>

(* Code at the end of the answer is run. *)
MoreCode ==
  /\ ~MoreTools /\ loop # "none"
  /\ Contains(Kinds, "code_interpreter")
  /\ Last(blocks).type = "code_interpreter" /\ codeRounds < MaxCodeRounds

(* Mutant: rounds are not counted. *)
NextCodeRound_Same == codeRounds
NextCodeRound == codeRounds + 1

NextCode ==
  /\ at = "next" /\ MoreCode
  /\ loop' = "code" /\ codeRounds' = NextCodeRound
  /\ EmitBlocks(blocks)
  /\ at' = "code"
  /\ UNCHANGED <<realtime, parse, stream, toolCalls, results, toolRounds, account, told, saved, deltas>>

(* Its output may be empty, and is then shown as if there was none. *)
RunCode ==
  /\ at = "code"
  /\ \E output \in BOOLEAN :
       blocks' = Append(WithLast(blocks, [Last(blocks) EXCEPT !.done = output]), TextBlock(<<>>))
  /\ EmitBlocks(blocks')
  /\ at' = "request"
  /\ UNCHANGED <<loop, realtime, content, heard, late, stream, rounds, account, told, saved, deltas>>

(* Neither: the answer is saved, unless it has been all along, and done. *)
Finish ==
  /\ at = "next" /\ ~MoreTools /\ ~MoreCode
  /\ SaveAtEnd(blocks)
  /\ EmitBlocks(blocks) /\ told' = told \union {"done"}
  /\ at' = "background"
  /\ UNCHANGED <<loop, realtime, parse, stream, rounds, account, deltas>>

(* Title, tags and follow-ups have been generated. *)
BackgroundDone ==
  /\ at = "background"
  /\ at' = "ended"
  /\ UNCHANGED <<loop, realtime, parse, stream, rounds, page, account, told, saved, deltas>>

(* The task is cancelled. The page is told; then a streamed answer is      *)
(* saved. An answer without a stream is saved by nobody then, if it has    *)
(* not been saved.                                                         *)
Cancel ==
  /\ at \in {"start", "whole", "stream", "tool", "request", "code", "background"}
  /\ told' = told \union {"cancelled"}
  /\ at' = IF loop = "whole" THEN "ended" ELSE "cancelling"
  /\ UNCHANGED <<loop, realtime, parse, stream, rounds, account, page, saved, deltas>>

(* Mutant: nothing is saved. *)
CancelSaves_Not == UNCHANGED saved
CancelSaves == SaveAtEnd(blocks)

SaveCancelled ==
  /\ at = "cancelling"
  /\ CancelSaves
  /\ at' = "ended"
  /\ UNCHANGED <<loop, realtime, parse, stream, rounds, account, page, told, deltas>>

(* Cancelled again while the page is being told, it saves nothing:         *)
(* process_chat tells the page, and passes the cancellation on.            *)
CancelAgain ==
  /\ at = "cancelling"
  /\ told' = told \union {"again"}
  /\ at' = "ended"
  /\ UNCHANGED <<loop, realtime, parse, stream, rounds, account, page, saved, deltas>>

Receive ==
  \/ \E d \in Deltas : TextDelta(d)
  \/ ReasoningDelta \/ OtherDelta \/ \E i \in CallIndex : ToolCallDelta(i)

Step ==
  \/ Start \/ EndStream \/ NextTools \/ RunTool \/ ToolsRun \/ Resume
  \/ NextCode \/ RunCode \/ Finish \/ SaveWhole \/ BackgroundDone
  \/ SaveCancelled

Done == at = "ended" /\ UNCHANGED vars

Next ==
  \/ ShowWhole \/ NoAnswer \/ Receive \/ BreakStream \/ Refused
  \/ Step \/ Cancel \/ CancelAgain \/ Done

(* The coroutine goes on, and tools, code and the model answer; a stream   *)
(* does not go on for ever.                                                *)
Fairness == WF_vars(Step)

Spec == Init /\ [][Next]_vars /\ Fairness
-----------------------------------------------------------------------------
(* Properties. *)

(* How a model's text is cut into deltas, for what follows: a tag comes in *)
(* a delta of its own, or with text. Two conditions are enough for nothing *)
(* to be lost: no section begins in the delta another one ends in, and     *)
(* nothing follows the end of code in its delta.                           *)
OneTag(d) == \A i, j \in DOMAIN d : d[i] \in Tags /\ d[j] \in Tags => i = j
NothingBegins(d) ==
  \A i, j \in DOMAIN d : i < j =>
    d[i] # Closing("code_interpreter") /\ ~(d[i][1] = "close" /\ d[j][1] = "open")
Regular == ~late /\ \A d \in Deltas : NothingBegins(d)

(* A streamed answer that is done or was stopped, at whatever await, is    *)
(* saved with all the text that the page has shown of it (unless it is     *)
(* being saved in realtime, see below, or was stopped once more in the     *)
(* await before the saving): a reload loses nothing the user has read.     *)
Displayed == Tokens(page.blocks) \union ToSet(page.raw)
ShownIsSaved ==
  at = "ended" /\ ~realtime /\ loop # "whole" /\ told \intersect {"error", "again"} = {} /\ Regular =>
    Pieces(Displayed) \subseteq Tokens(saved)

(* CHANGELOG.md:1766 "ensuring chunk-by-chunk data persistency": with      *)
(* ENABLE_REALTIME_CHAT_SAVE all text of the first stream is saved as it   *)
(* comes, however it is cut into chunks for the page, and stays when the   *)
(* stream breaks or is stopped. Only a delta that ends code is not.        *)
SavedAsReceived ==
  realtime /\ loop = "first" /\ at # "closing" /\ Regular =>
    {t \in ToSet(heard) : t[1] = "text"} \subseteq Tokens(saved)

(* Parsing the whole text again with each delta, from `content` and the    *)
(* blocks so far, gives what parsing it once, token after token, would: of *)
(* a stream with one section.                                              *)
ParsedRight ==
  loop = "first" /\ OneSection(heard) /\ (\A d \in Deltas : OneTag(d) /\ NothingBegins(d)) =>
    blocks = Parsed(Kinds, heard)

(* Whatever tags, native reasoning, calls and code are mixed, no text is   *)
(* dropped from the answer, unless code was found late: what follows its   *)
(* end is dropped then.                                                    *)
NothingDropped == Regular => Pieces(ToSet(heard)) \subseteq Tokens(blocks)

(* What the model is told when it is asked to go on: every call is there   *)
(* with its result and no other, and no text of the answer is missing.     *)
(* Providers reject histories in which a call has no result.               *)
AnsweredOnce(ms) ==
  \A i \in DOMAIN ms : ms[i].calls # <<>> =>
    \A j \in DOMAIN ms[i].calls :
      /\ i + j \in DOMAIN ms
      /\ ms[i + j] = ToolResult(ms[i].calls[j].index)
      /\ \A k \in DOMAIN ms[i].calls : k # j => ms[i].calls[k].index # ms[i].calls[j].index

RequestComplete ==
  at = "request" /\ loop = "tools" =>
    LET ms == Messages(blocks) IN
    /\ AnsweredOnce(ms)
    /\ Tokens(blocks) = UNION {Tokens(ms[i].content) : i \in DOMAIN ms}

(* When an answer is done every call the model has made has been run, but  *)
(* for those of a later stream that broke, and unless there have been      *)
(* CHAT_RESPONSE_MAX_TOOL_CALL_RETRIES rounds or code has run: what is     *)
(* called then is not run.                                                 *)
CallsAreRun ==
  "done" \in told => owed = dropped \/ toolRounds = MaxToolRounds \/ codeRounds > 0

(* Every streamed answer ends, and the page is told that it is done or was *)
(* stopped; even of a model that says nothing when code has run, which     *)
(* then is run again.                                                      *)
AnswerEnds ==
  <>(at = "ended" /\ (loop = "whole" \/ told \intersect {"done", "cancelled"} # {}))
=============================================================================
