---------------------------- MODULE StreamedContent ----------------------------
(***************************************************************************)
(* What the AI wrappers make of a response that arrives in chunks          *)
(* (ai/openai, ai/anthropic and ai/gemini converters, ai/utils.py).  The   *)
(* provider builds a response block by block (sent) and the generator      *)
(* around its stream keeps the blocks, fragments, tool calls and usage it  *)
(* reports once the stream ends (kept).  A fragment is a number, so a text *)
(* or the input of a tool is the sequence of its fragments.                *)
(***************************************************************************)
EXTENDS Integers, Sequences, FiniteSets, SequencesExt

CONSTANTS APIs,          \* of "chat", "responses", "messages", "contents"
          Kinds,         \* the kinds of block a response holds
          MaxBlocks, MaxFragments

VARIABLES api, sent, kept, usage, ended

vars == <<api, sent, kept, usage, ended>>

Block(kind, id) == [kind |-> kind, id |-> id, body |-> <<>>, open |-> TRUE]
Fragments(blocks) == FoldLeft(LAMBDA n, b : n + Len(b.body), 0, blocks)
Fragment == Fragments(sent) + 1
Grown(blocks, i) == [blocks EXCEPT ![i].body = Append(@, Fragment)]
Bodies(blocks) == FoldLeft(LAMBDA s, b : s \o b.body, <<>>, blocks)
Of(kind, blocks) == SelectSeq(blocks, LAMBDA b : b.kind = kind)

NoUsage == [input |-> 0, output |-> 0, searches |-> 0]
Nothing == [blocks |-> <<>>, calls |-> <<>>, text |-> <<>>, current |-> 0, building |-> <<>>]
Init ==
  /\ api \in APIs
  /\ sent = <<>> /\ kept = Nothing /\ usage = NoUsage /\ ended = FALSE
------------------------------------------------------------------------------
(* The usage of one chunk merged into the usage so far: added up, or taken *)
(* for the total so far.  A count a chunk does not give is left alone.     *)
Added(target, source, f) ==
  CASE f \notin DOMAIN source -> target[f]
    [] f = "searches" -> IF source[f] > target[f] THEN source[f] ELSE target[f]
    [] OTHER -> target[f] + source[f]
Incremental(target, source) == [f \in DOMAIN target |-> Added(target, source, f)]
Cumulative(target, source) == [f \in DOMAIN target |-> IF f \in DOMAIN source THEN source[f] ELSE target[f]]
MergeUsage(target, source) ==
  IF api = "contents" THEN Cumulative(target, source) ELSE Incremental(target, source)

(* The searches of a response: counted where the provider counts them or   *)
(* has an item for each, otherwise one for any trace of a search.          *)
Once(n) == IF n > 0 THEN 1 ELSE 0
OpenAISearches(blocks) == IF api = "responses" THEN Len(Of("search", blocks)) ELSE Once(Len(Of("search", blocks)))
AnthropicSearches(blocks) == Len(Of("server", blocks))
GeminiSearches(blocks) == Once(Len(Of("search", blocks)))

(* What a chunk says of usage: that it was searched for, the prompt and    *)
(* then the answer, or the totals so far, all of them in the last chunk.   *)
OpenAIChunkUsage(kind) == IF kind = "search" THEN [searches |-> 1] ELSE <<>>
OpenAILastUsage == [input |-> 2, output |-> Fragments(sent), searches |-> OpenAISearches(sent)]
AnthropicStartUsage == [input |-> 2]
AnthropicLastUsage == [output |-> Fragments(sent), searches |-> AnthropicSearches(sent)]
FromMetadata(output) == [input |-> 2, output |-> output]
GeminiChunkUsage(blocks) ==
  [f \in {"input", "output"} \cup (IF GeminiSearches(blocks) > 0 THEN {"searches"} ELSE {}) |->
     IF f = "searches" THEN 1 ELSE FromMetadata(Fragments(blocks))[f]]
------------------------------------------------------------------------------
(* Messages (Anthropic): blocks one after another, their events carrying   *)
(* the position of the block in the response.                              *)
Handled == {"text", "thinking", "redacted", "tool"}
ContentBlockStart(kind) ==
  LET block == Block(kind, Len(sent) + 1) IN
  kept' = IF kind \in Handled
          THEN [kept EXCEPT !.blocks = Append(@, block),
                            !.current = IF kind \in {"text", "thinking"} THEN Len(kept.blocks) + 1 ELSE 0,
                            !.building = IF kind = "tool" THEN Append(@, block) ELSE @]
          ELSE kept
StartBlock(kind) ==
  /\ api = "messages" /\ ~ended /\ Len(sent) < MaxBlocks
  /\ \A b \in ToSet(sent) : ~b.open
  /\ sent' = Append(sent, Block(kind, Len(sent) + 1))
  /\ ContentBlockStart(kind)
  /\ usage' = IF sent = <<>> THEN MergeUsage(usage, AnthropicStartUsage) ELSE usage
  /\ UNCHANGED <<api, ended>>

\* The tool being built that the position of an event leads to, if any.
\* (positions are those of the blocks kept, not of the blocks sent)
BuildingAt(position) ==
  {i \in DOMAIN kept.building :
     /\ position <= Len(kept.blocks)
     /\ kept.blocks[position].kind = "tool"
     /\ kept.building[i].id = kept.blocks[position].id}
TextDelta ==
  /\ Last(sent).kind \in {"text", "thinking"}
  /\ kept' = [kept EXCEPT
       !.text = IF Last(sent).kind = "text" THEN Append(@, Fragment) ELSE @,
       !.blocks = IF kept.current # 0 /\ kept.blocks[kept.current].kind = Last(sent).kind
                  THEN Grown(@, kept.current) ELSE @]
ToolDelta ==
  /\ Last(sent).kind \in {"tool", "server"}
  /\ kept' = [kept EXCEPT !.building = [i \in DOMAIN @ |->
       IF i \in BuildingAt(Len(sent)) THEN [@[i] EXCEPT !.body = Append(@, Fragment)] ELSE @[i]]]
BlockDelta ==
  /\ api = "messages" /\ ~ended /\ sent # <<>> /\ Last(sent).open
  /\ Fragments(sent) < MaxFragments
  /\ TextDelta \/ ToolDelta
  /\ sent' = Grown(sent, Len(sent))
  /\ UNCHANGED <<api, usage, ended>>

FinalizeToolInput(built) ==
  [kept EXCEPT !.current = 0,
               !.blocks = IF built = {} THEN @ ELSE [@ EXCEPT ![Len(sent)].body = kept.building[CHOOSE i \in built : TRUE].body],
               !.building = SelectSeq(@, LAMBDA b : \A i \in built : b.id # kept.building[i].id)]
StopBlock ==
  /\ api = "messages" /\ ~ended /\ sent # <<>> /\ Last(sent).open
  /\ kept' = FinalizeToolInput(BuildingAt(Len(sent)))
  /\ sent' = [sent EXCEPT ![Len(sent)].open = FALSE]
  /\ UNCHANGED <<api, usage, ended>>
------------------------------------------------------------------------------
(* Chat completions (OpenAI): one text, audio and refusal, and tool calls  *)
(* by index, a fragment of any of them in a chunk.                         *)
Places(kind) == {i \in DOMAIN sent : sent[i].kind = kind}
Into(kind) == IF kind = "tool" THEN Places(kind) \cup {Len(sent) + 1}
              ELSE IF Places(kind) = {} THEN {Len(sent) + 1} ELSE Places(kind)
Extended(place, kind) == IF place > Len(sent) THEN Append(sent, Block(kind, place)) ELSE sent
ToolIndex(place) == Cardinality({i \in Places("tool") : i < place}) + 1
\* Mutant: a fragment goes to the call that was added last.
AccumulateLatest(index, place) ==
  LET calls == IF index > Len(kept.calls) THEN Append(kept.calls, Block("tool", place)) ELSE kept.calls
  IN [kept EXCEPT !.calls = Grown(calls, Len(calls))]
AccumulateToolCall(index, place) ==
  LET calls == IF index > Len(kept.calls) THEN Append(kept.calls, Block("tool", place)) ELSE kept.calls
  IN [kept EXCEPT !.calls = Grown(calls, index)]
ContentFromChunk(kind) ==
  [kept EXCEPT !.blocks = Append(@, [kind |-> kind, id |-> 0, body |-> <<Fragment>>, open |-> FALSE])]
ChatChunk(kind) ==
  /\ api = "chat" /\ ~ended /\ Fragments(sent) < MaxFragments
  /\ \E place \in Into(kind) :
       /\ place <= MaxBlocks
       /\ sent' = Grown(Extended(place, kind), place)
       /\ kept' = IF kind = "tool" THEN AccumulateToolCall(ToolIndex(place), place)
                  ELSE IF kind = "search" THEN kept ELSE ContentFromChunk(kind)
  /\ usage' = MergeUsage(usage, OpenAIChunkUsage(kind))
  /\ UNCHANGED <<api, ended>>
------------------------------------------------------------------------------
(* Contents (Gemini): parts, text in fragments and anything else whole,    *)
(* every chunk with the totals so far.  Responses (OpenAI): nothing is     *)
(* kept until the event that completes the response.                       *)
FromChunk(kind) ==
  [kept EXCEPT !.blocks = Append(@, [kind |-> kind, id |-> 0, body |-> <<Fragment>>, open |-> FALSE])]
ContentsChunk(kind) ==
  /\ api = "contents" /\ ~ended /\ Fragments(sent) < MaxFragments
  /\ LET parts == {i \in DOMAIN sent : sent[i].kind # "search"}
         more == {i \in parts : kind = "text" /\ sent[i].kind = "text" /\ \A j \in parts : j <= i}
         place == IF more = {} THEN Len(sent) + 1 ELSE CHOOSE i \in more : TRUE
     IN place <= MaxBlocks /\ sent' = Grown(Extended(place, kind), place)
  /\ kept' = IF kind = "search" THEN kept ELSE FromChunk(kind)
  /\ usage' = MergeUsage(usage, GeminiChunkUsage(sent'))
  /\ UNCHANGED <<api, ended>>
ResponsesEvent(kind) ==
  /\ api = "responses" /\ ~ended
  /\ Len(sent) < MaxBlocks /\ Fragments(sent) < MaxFragments
  /\ sent' = Grown(Append(sent, Block(kind, Len(sent) + 1)), Len(sent) + 1)
  /\ UNCHANGED <<api, kept, usage, ended>>

\* The last chunks: the stop reason and what the response used in all.
LastUsage == CASE api = "messages" -> AnthropicLastUsage [] api = "contents" -> FromMetadata(Fragments(sent))
               [] OTHER -> OpenAILastUsage
Finish ==
  /\ ~ended /\ sent # <<>> /\ (api # "messages" \/ \A b \in ToSet(sent) : ~b.open)
  /\ ended' = TRUE
  /\ kept' = IF api = "responses" THEN [kept EXCEPT !.blocks = @ \o sent] ELSE kept
  /\ usage' = MergeUsage(usage, LastUsage)
  /\ UNCHANGED <<api, sent>>

Next ==
  \/ \E kind \in Kinds \cap (Handled \cup {"server"}) : StartBlock(kind)
  \/ BlockDelta
  \/ StopBlock
  \/ \E kind \in Kinds \cap {"text", "audio", "refusal", "tool", "search"} : ChatChunk(kind)
  \/ \E kind \in Kinds \cap {"text", "tool", "media", "search"} : ContentsChunk(kind)
  \/ \E kind \in Kinds \cap {"text", "refusal", "tool", "thinking", "search"} : ResponsesEvent(kind)
  \/ Finish
Spec == Init /\ [][Next]_vars
------------------------------------------------------------------------------
(* What is reported: of a stream, and of the same response in one piece.   *)
Item(kind, body) == [kind |-> kind, body |-> body]
Items(blocks) == [i \in DOMAIN blocks |-> Item(blocks[i].kind, blocks[i].body)]
Joined(kind, blocks) == IF Of(kind, blocks) = <<>> THEN <<>> ELSE <<Item(kind, Bodies(Of(kind, blocks)))>>

AnthropicOutput == IF kept.blocks = <<>> THEN <<Item("text", kept.text)>> ELSE Items(kept.blocks)
ChatOutput == Joined("text", kept.blocks) \o Joined("audio", kept.blocks)
              \o Joined("refusal", kept.blocks) \o Items(kept.calls)
GeminiOutput ==
  FoldLeft(LAMBDA out, b : IF out # <<>> /\ Last(out).kind = "text" /\ b.kind = "text"
                           THEN [out EXCEPT ![Len(out)].body = @ \o b.body] ELSE Append(out, Item(b.kind, b.body)),
           <<>>, kept.blocks)
ResponsesOutput == Items(kept.blocks)
StreamedOutput == CASE api = "messages" -> AnthropicOutput [] api = "chat" -> ChatOutput
              [] api = "contents" -> GeminiOutput [] OTHER -> ResponsesOutput

\* The same response in one piece: a refusal is not read from a whole chat
\* completion, nor is an empty text.
Nonempty(items) == SelectSeq(items, LAMBDA x : ~(x.kind = "text" /\ x.body = <<>>))
WholeOpenAI ==
  IF api = "responses" THEN Items(sent) ELSE SelectSeq(Items(sent), LAMBDA x : x.kind \notin {"refusal", "search"})
WholeAnthropic == Nonempty(Items(sent))
WholeGemini == SelectSeq(Nonempty(Items(sent)), LAMBDA x : x.kind # "search")
Whole == CASE api = "messages" -> WholeAnthropic [] api = "contents" -> WholeGemini [] OTHER -> WholeOpenAI

OpenAIUsage == [input |-> 2, output |-> Fragments(sent), searches |-> OpenAISearches(sent)]
AnthropicUsage == [input |-> 2, output |-> Fragments(sent), searches |-> AnthropicSearches(sent)]
GeminiUsage == FromMetadata(Fragments(sent)) @@ [searches |-> GeminiSearches(sent)]
WholeUsage == CASE api = "messages" -> AnthropicUsage [] api = "contents" -> GeminiUsage [] OTHER -> OpenAIUsage
------------------------------------------------------------------------------
(* A response is reported alike whether it is read in one piece or from a  *)
(* stream: the same blocks, the inputs of interleaved tool calls whole and *)
(* apart, and the usage counted once.  (Chat completions: in an order of   *)
(* their own.)                                                             *)
Kept == SelectSeq(sent, LAMBDA b : b.kind # "search")
StreamMatchesResponse ==
  ended =>
    /\ usage = WholeUsage
    /\ IF api = "chat" THEN ToSet(Whole) = {x \in ToSet(StreamedOutput) : x.kind # "refusal"} /\ Len(StreamedOutput) = Len(Kept)
       ELSE Nonempty(StreamedOutput) = Whole

(* handle_anthropic_tool_delta and finalize_anthropic_tool_input: the      *)
(* input of a tool call is known once its block stops.                     *)
ToolInputKept ==
  \A i \in DOMAIN sent :
    api = "messages" /\ sent[i].kind = "tool" /\ ~sent[i].open =>
      \E p \in DOMAIN kept.blocks : kept.blocks[p].id = sent[i].id /\ kept.blocks[p].body = sent[i].body
================================================================================
