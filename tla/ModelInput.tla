------------------------------- MODULE ModelInput -------------------------------
(***************************************************************************)
(* What an AI event says of the prompt of a call (merge_system_prompt and  *)
(* the converters' format_*_input) once media is taken out of it           *)
(* (ai/sanitization.py) and privacy mode applied.  A value is a text, a    *)
(* piece of media, a map or a list; texts and media have a name, which is  *)
(* all that is compared.                                                   *)
(***************************************************************************)
EXTENDS Integers, Sequences, SequencesExt, FiniteSets

CONSTANT Requests       \* the calls considered

VARIABLES request, reported

vars == <<request, reported>>

Text(name) == [is |-> "text", name |-> name]
Media(name, form, long) == [is |-> "media", name |-> name, form |-> form, long |-> long]
Map(at) == [is |-> "map", at |-> at]
List(of) == [is |-> "list", of |-> of]
Hidden == [is |-> "hidden"]
None == [is |-> "none"]
Message(role, content) == [role |-> role, content |-> content]
------------------------------------------------------------------------------
(* Redaction: raw bytes and data URLs wherever they are, base64 text where *)
(* the keys around it say media and it is long enough to be one.           *)
\* Mutant: a file's data is not thought of.
StrongKeysFew == {"data", "image_url", "video_url", "audio", "inline_data"}
StrongKeys == {"data", "image_url", "video_url", "audio", "inline_data", "file_data"}
Strong(key, beside, above) ==
  \/ key \in StrongKeys
  \/ key = "result" /\ beside = "image_generation_call"
  \/ key = "url" /\ above \in {"image_url", "video_url"}
RedactString(media, key, beside, above) ==
  IF media.form = "url" \/ (Strong(key, beside, above) /\ media.long) THEN Hidden ELSE media

RECURSIVE Walk(_, _, _, _, _)
Walk(v, key, beside, above, all) ==
  CASE v.is = "media" -> IF all THEN v ELSE IF v.form = "bytes" THEN Hidden ELSE RedactString(v, key, beside, above)
    [] v.is = "map" -> Map([k \in DOMAIN v.at |->
                         Walk(v.at[k], k, IF "type" \in DOMAIN v.at THEN v.at["type"].name ELSE "none", key, all)])
    [] v.is = "list" -> List([i \in DOMAIN v.of |-> Walk(v.of[i], key, beside, above, all)])
    [] OTHER -> v
RedactMedia(v, full) == Walk(v, "none", "none", "none", full)
------------------------------------------------------------------------------
(* The messages of a call, in the form every provider's are reported in.   *)
Role(item) == IF item.role = "none" THEN "user" ELSE item.role
Plain(item) == Message(Role(item), item.content)
AnthropicInput(r) == (IF r.system THEN <<Message("system", Text("system"))>> ELSE <<>>)
                     \o [i \in DOMAIN r.items |-> Plain(r.items[i])]

OpenAIInput(r) == \* an item with a type and neither role nor content is kept whole
  [i \in DOMAIN r.items |->
     IF r.items[i].form = "typed" THEN Message("none", r.items[i].content) ELSE Plain(r.items[i])]
Systems(messages) == {i \in DOMAIN messages : messages[i].role = "system"}
WithSystem(messages, given) ==
  IF given /\ Systems(messages) = {} THEN <<Message("system", Text("system"))>> \o messages ELSE messages
WithInstructions(messages, given) ==
  IF ~given THEN messages
  ELSE IF Systems(messages) = {} THEN <<Message("system", Text("instructions"))>> \o messages
  ELSE [messages EXCEPT ![CHOOSE i \in Systems(messages) : \A j \in Systems(messages) : i <= j].content =
          List(<<@, Text("instructions")>>)]

\* A part of a Gemini message: text and media by what they are, bytes as base64.
Base64(v) == IF v.is = "media" /\ v.form = "bytes" THEN [v EXCEPT !.form = "base64"] ELSE v
MediaPayload(v) == IF v.is = "map" /\ "data" \in DOMAIN v.at THEN [v EXCEPT !.at["data"] = Base64(@)] ELSE v
FormatPart(v) ==
  IF v.is # "map" THEN v
  ELSE IF "text" \in DOMAIN v.at THEN Map([text |-> v.at["text"]])
  ELSE IF "inline_data" \in DOMAIN v.at THEN Map([inline_data |-> MediaPayload(v.at["inline_data"])])
  ELSE IF "file_data" \in DOMAIN v.at THEN Map([file_data |-> MediaPayload(v.at["file_data"])])
  ELSE v
Parts(v) == IF v.is = "list" THEN List([i \in DOMAIN v.of |-> FormatPart(v.of[i])]) ELSE v
FormatDictMessage(item) ==
  IF item.form = "part" THEN Message("user", List(<<FormatPart(item.content)>>))
  ELSE Message(Role(item), Parts(item.content))
FormatObjectMessage(item) == \* the same order of tries, on attributes
  IF item.form = "part object" THEN Message("user", List(<<FormatPart(item.content)>>))
  ELSE Message(Role(item), Parts(item.content))
GeminiInput(r) ==
  [i \in DOMAIN r.items |->
     CASE r.items[i].form = "string" -> Message("user", r.items[i].content)
       [] r.items[i].form \in {"object", "part object"} -> FormatObjectMessage(r.items[i])
       [] OTHER -> FormatDictMessage(r.items[i])]
GeminiInputWithSystem(r) == WithSystem(GeminiInput(r), r.system)

MergeSystemPrompt(r) ==
  CASE r.provider = "anthropic" -> AnthropicInput(r)
    [] r.provider = "gemini" -> GeminiInputWithSystem(r)
    [] OTHER -> WithInstructions(WithSystem(OpenAIInput(r), r.system), r.instructions)

WithPrivacyMode(r, v) == IF r.private THEN None ELSE v

Init == request \in Requests /\ reported = <<>>
Report ==
  /\ reported = <<>>
  /\ reported' = <<WithPrivacyMode(request, List([i \in DOMAIN MergeSystemPrompt(request) |->
                     RedactMedia(MergeSystemPrompt(request)[i].content, request.full)]))>>
  /\ UNCHANGED request
Next == Report
Spec == Init /\ [][Next]_vars
------------------------------------------------------------------------------
RECURSIVE Leaves(_)
Leaves(v) ==
  CASE v.is \in {"text", "media"} -> <<v>>
    [] v.is = "map" -> FoldLeft(LAMBDA s, k : s \o Leaves(v.at[k]), <<>>, SetToSeq(DOMAIN v.at \ {"type"}))
    [] v.is = "list" -> FoldLeft(LAMBDA s, w : s \o Leaves(w), <<>>, v.of)
    [] OTHER -> <<>>
TextNames(v) == LET texts == SelectSeq(Leaves(v), LAMBDA x : x.is = "text") IN [i \in DOMAIN texts |-> texts[i].name]
Without(names, s) == SelectSeq(s, LAMBDA x : x \notin names)
Told == {"system", "instructions"}
Given == TextNames(List([i \in DOMAIN request.items |-> request.items[i].content]))

(* Every text of the prompt is reported, once and in its order, and so is  *)
(* what the system is told; in privacy mode nothing is.                    *)
PromptKept ==
  reported # <<>> =>
    IF request.private THEN reported[1] = None
    ELSE LET texts == TextNames(reported[1]) IN
         /\ Without(Told, texts) = Given
         /\ request.provider = "openai" /\ request.instructions => "instructions" \in ToSet(texts)
         /\ request.system /\ (\A i \in DOMAIN request.items : request.items[i].role # "system") => "system" \in ToSet(texts)

(* Media leaves the process only when all of it may: not as bytes, not as  *)
(* a data URL, nor as text under a key that holds media, whatever form the *)
(* converters gave it.                                                     *)
MediaHidden ==
  reported # <<>> /\ ~request.full =>
    \A x \in ToSet(Leaves(reported[1])) : x.is # "media" \/ (x.form = "base64" /\ ~x.long)
================================================================================
