------------------------------ MODULE AgentTraces ------------------------------
(***************************************************************************)
(* The tracing processor given to the OpenAI Agents SDK                    *)
(* (ai/openai_agents/processor.py).  The SDK tells it of traces and of the *)
(* spans in them; it remembers when a span started and whose a trace is,   *)
(* forgets the older half of either when there is more than MaxTracked of  *)
(* it, and captures an event for every span and every trace that ends.     *)
(***************************************************************************)
EXTENDS Integers, Sequences, SequencesExt, FiniteSets

CONSTANTS Traces, Spans,
          KindOf,         \* the kind of a span: one that HandlerOf has
          Persons,        \* how persons are told: of "callable", "fixed", "none"
          Unknown,        \* traces the callable has no person for
          MaxTracked, Private

VARIABLES by, private,    \* how the processor was made: one of Persons, its privacy mode
          traces, spans,  \* the SDK's
          spanStartTimes, traceMetadata,  \* what is remembered, oldest first
          events,
          crowded         \* there was more at once than is tracked, or a shutdown

vars == <<by, private, traces, spans, spanStartTimes, traceMetadata, events, crowded>>

Init ==
  /\ by \in Persons /\ private \in Private
  /\ traces = [t \in Traces |-> "new"]
  /\ spans = [s \in Spans |-> [state |-> "new", trace |-> "none"]]
  /\ spanStartTimes = <<>> /\ traceMetadata = <<>> /\ events = {} /\ crowded = FALSE
------------------------------------------------------------------------------
GetDistinctId(trace) ==
  CASE by = "fixed" -> "fixed"
    [] by = "callable" /\ trace \in Traces \ Unknown -> trace
    [] OTHER -> "none"
Tracked(id, kept) == id \in ToSet(kept)
Forget(id, kept) == IF Tracked(id, kept) THEN RemoveAt(kept, CHOOSE i \in DOMAIN kept : kept[i] = id) ELSE kept

\* Mutant: what is full is already too much.
EvictedAtLimit(kept) == IF Len(kept) >= MaxTracked THEN SubSeq(kept, Len(kept) \div 2 + 1, Len(kept)) ELSE kept
Evicted(kept) == IF Len(kept) > MaxTracked THEN SubSeq(kept, Len(kept) \div 2 + 1, Len(kept)) ELSE kept

OpenSpans == {s \in Spans : spans[s].state = "open"}
OpenTraces == {t \in Traces : traces[t] = "open"}
Crowd == Cardinality(OpenSpans) > MaxTracked \/ Cardinality(OpenTraces) > MaxTracked

OnTraceStart(t) ==
  /\ traces[t] = "new"
  /\ traces' = [traces EXCEPT ![t] = "open"]
  /\ spanStartTimes' = Evicted(spanStartTimes)
  /\ traceMetadata' = Append(Evicted(traceMetadata), t)
  /\ crowded' = (crowded \/ Crowd)
  /\ UNCHANGED <<by, private, spans, events>>
OnSpanStart(s, t) ==
  /\ spans[s].state = "new" /\ traces[t] = "open"
  /\ spans' = [spans EXCEPT ![s] = [state |-> "open", trace |-> t]]
  /\ spanStartTimes' = Append(Evicted(spanStartTimes), s)
  /\ traceMetadata' = Evicted(traceMetadata)
  /\ crowded' = (crowded \/ Crowd)
  /\ UNCHANGED <<by, private, traces, events>>
------------------------------------------------------------------------------
(* What the event of a span tells, by kind: the model calls are            *)
(* generations, and what was said is content that privacy mode hides.      *)
Handler(event, content, plain) == [event |-> event, content |-> content, plain |-> plain]
HandleGenerationSpan == Handler("generation", {"input", "output"}, {"model", "usage"})
HandleResponseSpan == Handler("generation", {"input", "output"}, {"model", "usage", "cost"})
HandleFunctionSpan == Handler("span", {"input", "output"}, {"name", "mcp_data"})
HandleAgentSpan == Handler("span", {}, {"name", "handoffs", "tools"})
HandleHandoffSpan == Handler("span", {}, {"from", "to"})
HandleGuardrailSpan == Handler("span", {}, {"name", "triggered"})
HandleCustomSpan == Handler("span", {"data"}, {"name"})
HandleAudioSpan == Handler("span", {"input", "output"}, {"model", "formats"})
HandleMcpSpan == Handler("span", {}, {"server", "tools"})
HandleGenericSpan == Handler("span", {}, {"exported"})
HandlerOf ==
  [generation |-> HandleGenerationSpan, response |-> HandleResponseSpan, function |-> HandleFunctionSpan,
   agent |-> HandleAgentSpan, handoff |-> HandleHandoffSpan, guardrail |-> HandleGuardrailSpan,
   custom |-> HandleCustomSpan, audio |-> HandleAudioSpan, mcp |-> HandleMcpSpan, generic |-> HandleGenericSpan]
WithPrivacyMode(handler) == (IF private THEN {} ELSE handler.content) \cup handler.plain

BaseProperties(s, person) ==
  [of |-> s, trace |-> spans[s].trace, during |-> traces[spans[s].trace] = "open", tells |-> {}, event |-> "span",
   id |-> IF person = "none" THEN "trace" ELSE person, personless |-> person = "none",
   measured |-> Tracked(s, spanStartTimes), grouped |-> Tracked(spans[s].trace, traceMetadata)]
\* The person of a trace is known by what is remembered of it; a callable is
\* asked for no trace otherwise, and has no answer.
SpanPerson(t) == GetDistinctId(IF Tracked(t, traceMetadata) THEN t ELSE "none")
OnSpanEnd(s) ==
  /\ spans[s].state = "open"
  /\ spans' = [spans EXCEPT ![s].state = "over"]
  /\ spanStartTimes' = Forget(s, spanStartTimes)
  /\ LET handler == HandlerOf[KindOf[s]] IN
     events' = events \cup {[BaseProperties(s, SpanPerson(spans[s].trace)) EXCEPT
                               !.event = handler.event, !.tells = WithPrivacyMode(handler)]}
  /\ UNCHANGED <<by, private, traces, traceMetadata, crowded>>
OnTraceEnd(t) ==
  /\ traces[t] = "open"
  /\ traces' = [traces EXCEPT ![t] = "over"]
  /\ traceMetadata' = Forget(t, traceMetadata)
  /\ events' = events \cup {
       [of |-> t, trace |-> t, during |-> TRUE, tells |-> {}, event |-> "trace",
        id |-> IF GetDistinctId(t) = "none" THEN "trace" ELSE GetDistinctId(t), personless |-> GetDistinctId(t) = "none",
        measured |-> Tracked(t, traceMetadata), grouped |-> TRUE]}
  /\ UNCHANGED <<by, private, spans, spanStartTimes, crowded>>
Shutdown ==
  /\ spanStartTimes' = <<>> /\ traceMetadata' = <<>>
  /\ crowded' = TRUE
  /\ UNCHANGED <<by, private, traces, spans, events>>

Next ==
  \/ \E t \in Traces : OnTraceStart(t) \/ OnTraceEnd(t)
  \/ \E s \in Spans, t \in Traces : OnSpanStart(s, t)
  \/ \E s \in Spans : OnSpanEnd(s)
  \/ Shutdown
Spec == Init /\ [][Next]_vars
------------------------------------------------------------------------------
(* What ends while its trace goes on is the trace's person's, in its group *)
(* and measured, unless there was ever more at once than is tracked: no    *)
(* forgetting touches what is going on before that.  And what is           *)
(* remembered stays within one of the limit whatever never ends.           *)
RememberedWhileOpen ==
  /\ Len(spanStartTimes) <= MaxTracked + 1 /\ Len(traceMetadata) <= MaxTracked + 1
  /\ ~crowded => \A e \in events :
       e.during => e.measured /\ e.grouped /\ (e.personless <=> GetDistinctId(e.trace) = "none")

(* Privacy mode: no event tells what was said, whatever span it is of.     *)
SaidInPrivate == private => \A e \in events : e.tells \cap {"input", "output", "data"} = {}
================================================================================
