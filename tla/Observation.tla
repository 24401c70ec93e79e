------------------------------ MODULE Observation ------------------------------
(***************************************************************************)
(* AI observability, where it keeps state from one event to the next:      *)
(* calls of the wrappers (Generations), traces of the Agents SDK           *)
(* (AgentTraces) and a query of the Claude one (AgentQuery).  A behaviour  *)
(* exercises one of them and leaves the variables of the others alone.     *)
(***************************************************************************)
EXTENDS Integers, Sequences, FiniteSets, SequencesExt

CONSTANTS MaxGenerations, MaxChunks, CallsPrivate,         \* Generations
          Traces, Spans, KindOf, Persons, Unknown, MaxTracked, TracesPrivate,    \* AgentTraces
          Modes, Streamed, MaxPrompts, MaxModelCalls     \* AgentQuery

VARIABLES
  part, events,
  person, modelCalls,
  by, private, traces, spans, spanStartTimes, traceMetadata, crowded,
  mode, streamed, order, due, going, prompts, current, lastSpan, lastOutput, currentInput, nextInput, pendingOutput

traceVars == <<by, private, traces, spans, spanStartTimes, traceMetadata, crowded>>
queryVars == <<mode, streamed, order, due, going, prompts, current, lastSpan, lastOutput, currentInput, nextInput, pendingOutput>>
observingVars == <<events, person, modelCalls, traceVars, queryVars>>

NoTraces == by = 0 /\ private = 0 /\ traces = 0 /\ spans = 0 /\ spanStartTimes = 0 /\ traceMetadata = 0 /\ crowded = 0
NoQuery == /\ mode = 0 /\ streamed = 0 /\ order = 0 /\ due = 0 /\ going = 0 /\ prompts = 0 /\ current = 0 /\ lastSpan = 0
           /\ lastOutput = 0 /\ currentInput = 0 /\ nextInput = 0 /\ pendingOutput = 0
------------------------------------------------------------------------------
Calls == INSTANCE Generations WITH calls <- modelCalls, MaxCalls <- MaxGenerations, Private <- CallsPrivate
A == INSTANCE AgentTraces WITH Private <- TracesPrivate
Q == INSTANCE AgentQuery WITH calls <- modelCalls, at <- going, Orders <- {"stop_last"}, MaxCalls <- MaxModelCalls

(* The Agents SDK's spans are of kinds the processor has a handler for,    *)
(* and some number of them is tracked.                                     *)
ASSUME ObservationAssumption ==
  /\ MaxTracked \in Nat \ {0} /\ IsFiniteSet(Spans) /\ IsFiniteSet(Traces)
  /\ KindOf \in [Spans -> DOMAIN A!HandlerOf]
  /\ TracesPrivate \subseteq BOOLEAN /\ Streamed \subseteq BOOLEAN

ObservingInit ==
  /\ IF part = "generations" THEN Calls!Init ELSE person = 0
  /\ IF part = "traces" THEN A!Init ELSE NoTraces
  /\ IF part = "queries" THEN Q!Init ELSE NoQuery
  /\ part \notin {"generations", "queries"} => modelCalls = 0

ObservingNext ==
  /\ UNCHANGED part
  /\ \/ part = "generations" /\ Calls!Next /\ UNCHANGED <<traceVars, queryVars>>
     \/ part = "traces" /\ A!Next /\ UNCHANGED <<person, modelCalls, queryVars>>
     \/ part = "queries" /\ Q!Next /\ UNCHANGED <<person, traceVars>>

ObservingSpec == ObservingInit /\ [][ObservingNext]_<<part, observingVars>>

(* Generations: each call is one event, which makes no person of a trace   *)
(* id.                                                                     *)
CallTold == part = "generations" => Calls!OneEventEach /\ Calls!PersonNamed
(* AgentTraces: what is going on is remembered within the limit, and what  *)
(* is private is not told.                                                 *)
TraceTold == part = "traces" => A!RememberedWhileOpen /\ A!SaidInPrivate
(* AgentQuery: each call of the model is reported with its own input and   *)
(* answer, and each tool under the call that used it.                      *)
QueryTold == part = "queries" => Q!CallReportedWhole /\ Q!ToolUnderItsCall
================================================================================
