------------------------------ MODULE Generations ------------------------------
(***************************************************************************)
(* The AI wrappers' calls (ai/openai, ai/anthropic, ai/gemini, ai/utils.py *)
(* and ai/stream.py): a call to a model is passed on to the provider and   *)
(* an event is captured when it is over, which for a stream is when the    *)
(* generator around the provider's stream ends, however it ends.  What     *)
(* the event says of prompt and answer is in ModelInput and                *)
(* StreamedContent.                                                        *)
(***************************************************************************)
EXTENDS Integers, Sequences, FiniteSets

CONSTANTS MaxCalls, MaxChunks,
          Private      \* privacy modes the calls are made in

VARIABLES person,      \* the distinct id of the caller's context
          calls, events

vars == <<person, calls, events>>

Init == person = "none" /\ calls = <<>> /\ events = <<>>

\* A block the program runs its calls in, with an identified context or not.
EnterContext == person = "none" /\ person' = "context" /\ UNCHANGED <<calls, events>>
LeaveContext == person = "context" /\ person' = "none" /\ UNCHANGED <<calls, events>>
------------------------------------------------------------------------------
(* The call, up to the provider: tracked calls, streams and embeddings.    *)
Ask(api, async, kind, given) ==
  /\ Len(calls) < MaxCalls
  /\ \E id \in given, private \in Private :
       calls' = Append(calls, [api |-> api, async |-> async, kind |-> kind, id |-> id, made |-> person, private |-> private,
                               chunks |-> 0, state |-> "asked", provider |-> "none"])
  /\ UNCHANGED <<person, events>>
Given == {"none", "call"}
Whole == {"tracked", "stream"}      \* what stream= makes of a call
CreateResponse == \E kind \in Whole : Ask("responses", FALSE, kind, Given)
ParseResponse == Ask("responses.parse", FALSE, "tracked", Given)
CreateCompletion == \E kind \in Whole : Ask("chat", FALSE, kind, Given)
ParseCompletion == Ask("chat.parse", FALSE, "tracked", Given)
ParseBeta == Ask("beta.parse", FALSE, "tracked", Given)
CreateEmbedding == Ask("embeddings", FALSE, "embedding", Given)
CreateMessage == \E kind \in Whole : Ask("messages", FALSE, kind, Given)
StreamMessage == Ask("messages", FALSE, "stream", Given)
CreateResponseAsync == \E kind \in Whole : Ask("responses", TRUE, kind, Given)
ParseResponseAsync == Ask("responses.parse", TRUE, "tracked", Given)
CreateCompletionAsync == \E kind \in Whole : Ask("chat", TRUE, kind, Given)
ParseCompletionAsync == Ask("chat.parse", TRUE, "tracked", Given)
ParseBetaAsync == Ask("beta.parse", TRUE, "tracked", Given)
CreateEmbeddingAsync == Ask("embeddings", TRUE, "embedding", Given)
CreateMessageAsync == \E kind \in Whole : Ask("messages", TRUE, kind, Given)
StreamMessageAsync == Ask("messages", TRUE, "stream", Given)
\* Gemini clients have a person, and the other settings, of their own.
MergedParams == {"none", "call", "client"}
MergedParamsAsync == {"none", "call", "client"}
GenerateContent == Ask("contents", FALSE, "tracked", MergedParams)
GenerateContentStream == Ask("contents", FALSE, "stream", MergedParams)
EmbedContent == Ask("embed_content", FALSE, "embedding", MergedParams)
GenerateContentAsync == Ask("contents", TRUE, "tracked", MergedParamsAsync)
GenerateContentStreamAsync == Ask("contents", TRUE, "stream", MergedParamsAsync)
EmbedContentAsync == Ask("embed_content", TRUE, "embedding", MergedParamsAsync)
------------------------------------------------------------------------------
(* The event of a call.                                                    *)
Event(i, id, personless, failed) ==
  [call |-> i, id |-> id, personless |-> personless, failed |-> failed, private |-> calls[i].private]
Over(i) == [calls EXCEPT ![i].state = "over"]

\* The call the provider answers, or not: cancelled is not an Exception.
Tracked(i, outcome) ==
  LET c == calls[i]
      known == c.id # "none" \/ c.made # "none"
      id == IF c.id # "none" THEN c.id ELSE IF c.made # "none" THEN c.made ELSE "trace"
  IN Event(i, id, ~known, outcome = "raises")
TrackUsage(i, outcome) ==
  /\ calls[i].kind = "tracked" /\ ~calls[i].async /\ outcome # "cancelled"
  /\ calls' = Over(i) /\ events' = Append(events, Tracked(i, outcome))
TrackUsageAsync(i, outcome) ==
  /\ calls[i].kind = "tracked" /\ calls[i].async
  /\ calls' = Over(i) /\ events' = Append(events, Tracked(i, outcome))

ByParameter(i) == Event(i, IF calls[i].id # "none" THEN calls[i].id ELSE "trace", calls[i].id = "none", FALSE)
\* OpenAI embeddings are captured after the call, Gemini's however it ends.
Embedded(i, outcome) ==
  /\ calls[i].kind = "embedding" /\ (calls[i].async \/ outcome # "cancelled")
  /\ calls' = Over(i)
  /\ events' = IF outcome = "answers" \/ calls[i].api = "embed_content"
               THEN Append(events, [ByParameter(i) EXCEPT !.failed = (outcome = "raises")]) ELSE events

\* The provider's stream is open, or there is no stream.
Opened(i, outcome) ==
  /\ calls[i].kind = "stream" /\ (calls[i].async \/ outcome # "cancelled")
  /\ calls' = IF outcome = "answers" THEN [calls EXCEPT ![i].state = "fresh", ![i].provider = "open"] ELSE Over(i)
  /\ UNCHANGED events
Answer(i, outcome) ==
  /\ calls[i].state = "asked"
  /\ TrackUsage(i, outcome) \/ TrackUsageAsync(i, outcome) \/ Embedded(i, outcome) \/ Opened(i, outcome)
  /\ UNCHANGED person
------------------------------------------------------------------------------
(* A stream.  Its generator starts with the first chunk asked for and      *)
(* captures in its finally: when the provider's stream ends or raises, and *)
(* when it is closed or dropped.  One that was never started has nothing   *)
(* to finish.                                                              *)
\* Mutant: the event is captured once the stream is exhausted.
FinallyExhausted(i, how) == IF how = "exhausted" THEN Append(events, ByParameter(i)) ELSE events
Finally(i, how) == IF calls[i].state = "running" THEN Append(events, ByParameter(i)) ELSE events
Chunk(i) ==
  /\ calls[i].state \in {"fresh", "running"} /\ calls[i].provider = "open" /\ calls[i].chunks < MaxChunks
  /\ calls' = [calls EXCEPT ![i].state = "running", ![i].chunks = @ + 1]
  /\ UNCHANGED events
\* Asking for a chunk there is none of: the generator is run, and ends.
End(i, how) ==
  /\ calls[i].state \in {"fresh", "running"} /\ how \in {"exhausted", "raises"}
  /\ calls' = [calls EXCEPT ![i].state = "over", ![i].provider = "closed"]
  /\ events' = Append(events, ByParameter(i))
Wrapped(i) == calls[i].api = "messages" \/ calls[i].async
Drop(i) == \* closing the generator alone, as Python does when nothing refers to it
  /\ calls[i].state \in {"fresh", "running"}
  /\ calls' = Over(i) /\ events' = Finally(i, "dropped")
CloseWrapper(i) ==
  /\ Wrapped(i) /\ ~calls[i].async /\ calls[i].state \in {"fresh", "running"}
  /\ calls' = [calls EXCEPT ![i].state = "over", ![i].provider = "closed"]
  /\ events' = Finally(i, "closed")
CloseWrapperAsync(i) ==
  /\ Wrapped(i) /\ calls[i].async /\ calls[i].state \in {"fresh", "running"}
  /\ calls' = [calls EXCEPT ![i].state = "over", ![i].provider = "closed"]
  /\ events' = Finally(i, "closed")
Consume(i) == Chunk(i) \/ (\E how \in {"exhausted", "raises"} : End(i, how)) \/ Drop(i)

Generator(api, async) == \E i \in DOMAIN calls : calls[i].api = api /\ calls[i].async = async /\ Consume(i) /\ UNCHANGED person
ResponsesStreaming == Generator("responses", FALSE)
ResponsesStreamingAsync == Generator("responses", TRUE)
ChatStreaming == Generator("chat", FALSE)
ChatStreamingAsync == Generator("chat", TRUE)
MessagesStreaming == Generator("messages", FALSE)
MessagesStreamingAsync == Generator("messages", TRUE)
ContentsStreaming == Generator("contents", FALSE)
ContentsStreamingAsync == Generator("contents", TRUE)
Close == \E i \in DOMAIN calls : (CloseWrapper(i) \/ CloseWrapperAsync(i)) /\ UNCHANGED person

Next ==
  \/ EnterContext \/ LeaveContext
  \/ CreateResponse \/ ParseResponse \/ CreateCompletion \/ ParseCompletion \/ ParseBeta \/ CreateEmbedding
  \/ CreateMessage \/ StreamMessage \/ GenerateContent \/ GenerateContentStream \/ EmbedContent
  \/ CreateResponseAsync \/ ParseResponseAsync \/ CreateCompletionAsync \/ ParseCompletionAsync
  \/ ParseBetaAsync \/ CreateEmbeddingAsync \/ CreateMessageAsync \/ StreamMessageAsync
  \/ GenerateContentAsync \/ GenerateContentStreamAsync \/ EmbedContentAsync
  \/ \E i \in DOMAIN calls, outcome \in {"answers", "raises", "cancelled"} : Answer(i, outcome)
  \/ ResponsesStreaming \/ ChatStreaming \/ MessagesStreaming \/ ContentsStreaming
  \/ ResponsesStreamingAsync \/ ChatStreamingAsync \/ MessagesStreamingAsync \/ ContentsStreamingAsync
  \/ Close
Spec == Init /\ [][Next]_vars
------------------------------------------------------------------------------
EventsOf(i) == {k \in DOMAIN events : events[k].call = i}

(* A call is one event: none until it is over and one when it is, however  *)
(* it ended, unless there was nothing to report: a stream that was not     *)
(* read from, or a provider that never answered a stream or an embedding.  *)
OneEventEach ==
  \A i \in DOMAIN calls :
    /\ Cardinality(EventsOf(i)) <= (IF calls[i].state = "over" THEN 1 ELSE 0)
    /\ calls[i].state = "over" /\ (calls[i].kind = "tracked" \/ calls[i].chunks > 0) => EventsOf(i) # {}

(* An event is a person's exactly if the call or its context named one:    *)
(* no person is made of a trace id.                                        *)
PersonNamed ==
  \A k \in DOMAIN events : events[k].personless <=> events[k].id = "trace"

(* contexts.py, identify_context: all events captured in a context have    *)
(* its distinct id.                                                        *)
ContextIdentifies ==
  \A k \in DOMAIN events :
    calls[events[k].call].id = "none" => events[k].id = IF calls[events[k].call].made = "none" THEN "trace" ELSE "context"
================================================================================
