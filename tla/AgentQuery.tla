------------------------------- MODULE AgentQuery -------------------------------
(***************************************************************************)
(* The Claude Agent SDK wrappers (ai/claude_agent_sdk: processor.py for a  *)
(* query, client.py for a session of them).  They watch the messages the   *)
(* SDK yields, in the order it yields them, and make of them one event for *)
(* every call of the model, one for every tool and one for the whole.  A   *)
(* prompt, an answer and the result of a tool are who gave them: a kind    *)
(* and the number of the prompt or of the model call.                      *)
(***************************************************************************)
EXTENDS Integers, Sequences, FiniteSets

CONSTANTS Modes,          \* of "query", "session"
          Streamed,       \* whether the SDK yields stream events
          Orders,         \* "stop_last": a call's message_stop is after its messages
          MaxPrompts, MaxCalls

VARIABLES mode, streamed, order,
          calls, due, at, prompts,        \* the SDK's: model calls, next input, place in the messages
          current, lastSpan, lastOutput,  \* the tracker and what its calls were
          currentInput, nextInput, pendingOutput,
          events

sdk == <<calls, due, at, prompts>>
kept == <<current, lastSpan, currentInput, nextInput, pendingOutput>>
vars == <<mode, streamed, order, sdk, lastOutput, kept, events>>

Nothing == <<"nothing", 0>>
Init ==
  /\ mode \in Modes /\ streamed \in Streamed /\ order \in Orders
  /\ calls = <<>> /\ due = Nothing /\ at = "idle" /\ prompts = 0
  /\ current = 0 /\ lastSpan = 0 /\ lastOutput = 0
  /\ currentInput = Nothing /\ nextInput = Nothing /\ pendingOutput = Nothing
  /\ events = <<>>
Same == UNCHANGED <<mode, streamed, order>>
------------------------------------------------------------------------------
(* A query has one prompt; a session is asked one after another.           *)
Query ==
  /\ at = "idle" /\ prompts < MaxPrompts /\ (mode = "query" => prompts = 0)
  /\ prompts' = prompts + 1 /\ due' = <<"prompt", prompts + 1>> /\ at' = "between"
  /\ currentInput' = <<"prompt", prompts + 1>>
  /\ UNCHANGED <<calls, current, lastSpan, lastOutput, nextInput, pendingOutput, events>>

Call(tools) == [input |-> due, prompt |-> prompts, tools |-> tools, output |-> 0]
Number == Len(calls)
\* The model is called again with what its tools gave, and done without any.
Going == at = "between" /\ Number < MaxCalls /\ due # Nothing
MessageStart ==
  /\ streamed /\ Going
  /\ \E tools \in BOOLEAN : calls' = Append(calls, Call(tools))
  /\ due' = Nothing /\ at' = "started"
  /\ current' = Number + 1 /\ lastOutput' = 1
  /\ UNCHANGED <<prompts, lastSpan, currentInput, nextInput, pendingOutput, events>>
\* The total of tokens put out so far.
MessageDelta ==
  /\ current # 0 /\ at = "started" /\ calls[Number].output < 2
  /\ calls' = [calls EXCEPT ![Number].output = @ + 1]
  /\ lastOutput' = calls[Number].output + 1
  /\ UNCHANGED <<due, at, prompts, kept, events>>

Generation(n, input, output, tokens) ==
  [is |-> "generation", of |-> n, input |-> input, output |-> output, tokens |-> tokens]
EmitGeneration == Append(events, Generation(current, currentInput, pendingOutput, lastOutput))
\* Mutant: what tools gave is the input from the moment it is there.
QueueInputNow(input) == currentInput' = input /\ nextInput' = input
QueueInput(input) == nextInput' = input /\ UNCHANGED currentInput
Promote == /\ currentInput' = nextInput /\ nextInput' = Nothing /\ pendingOutput' = Nothing
MessageStop ==
  /\ at = IF order = "stop_last" THEN "answered" ELSE "started"
  /\ streamed /\ (order = "stop_last" /\ calls[Number].tools => due # Nothing)
  /\ events' = EmitGeneration
  /\ Promote
  /\ current' = 0 /\ lastSpan' = current
  /\ at' = IF order = "stop_last" THEN "between" ELSE "stopped"
  /\ UNCHANGED <<calls, due, prompts, lastOutput>>

Parent == IF current # 0 THEN current ELSE lastSpan
EmitToolSpan(n) == IF calls'[n].tools THEN Append(events, [is |-> "tool", of |-> n, parent |-> Parent]) ELSE events
AssistantMessage ==
  /\ \/ /\ streamed /\ at = (IF order = "stop_last" THEN "started" ELSE "stopped")
        /\ UNCHANGED <<calls, due>>
     \/ /\ ~streamed /\ Going
        /\ \E tools \in BOOLEAN : calls' = Append(calls, Call(tools))
        /\ due' = Nothing
  /\ pendingOutput' = <<"answer", Len(calls')>>
  /\ events' = EmitToolSpan(Len(calls'))
  /\ at' = "answered"
  /\ UNCHANGED <<prompts, current, lastSpan, lastOutput, currentInput, nextInput>>
UserMessage ==
  /\ at = "answered" /\ calls[Number].tools /\ due = Nothing
  /\ due' = <<"result", Number>>
  /\ QueueInput(<<"result", Number>>)
  /\ at' = IF streamed /\ order = "stop_last" THEN at ELSE "between"
  /\ UNCHANGED <<calls, prompts, current, lastSpan, lastOutput, pendingOutput, events>>

\* The end of what a prompt started, which interrupt() brings about early.
Complete == \/ at = "between" /\ due = Nothing
            \/ at = "answered" /\ ~(streamed /\ order = "stop_last") /\ ~calls[Number].tools
Interrupted == mode = "session" /\ at \notin {"idle", "disconnected"} /\ (~streamed => Number > 0 /\ calls[Number].prompt = prompts)
EmitFromResult ==
  IF Number > 0 /\ ~streamed THEN Append(events, Generation(0, IF mode = "query" THEN <<"prompt", 1>> ELSE currentInput, pendingOutput, 0))
  ELSE events
EmitTrace(done) == IF mode = "query" THEN Append(done, [is |-> "trace", of |-> prompts]) ELSE done
ResultMessage ==
  /\ Complete \/ Interrupted
  /\ events' = EmitTrace(EmitFromResult)
  /\ at' = "idle" /\ due' = Nothing
  /\ UNCHANGED <<calls, prompts, lastOutput, kept>>
Disconnect ==
  /\ mode = "session" /\ at = "idle"
  /\ events' = Append(events, [is |-> "trace", of |-> prompts])
  /\ at' = "disconnected"
  /\ UNCHANGED <<calls, due, prompts, lastOutput, kept>>

Next == Same /\ (Query \/ MessageStart \/ MessageDelta \/ MessageStop \/ AssistantMessage \/ UserMessage
                 \/ ResultMessage \/ Disconnect)
Spec == Init /\ [][Next]_vars
------------------------------------------------------------------------------
Is(kind) == {k \in DOMAIN events : events[k].is = kind}

(* "Each message_start -> message_stop cycle represents one API call": the *)
(* event of a call has that call's input, answer and tokens, and what is   *)
(* reported without stream events the prompt and the last answer to it.    *)
CallReportedWhole ==
  \A k \in Is("generation") :
    LET e == events[k] IN
    IF streamed THEN /\ e.input = calls[e.of].input /\ e.output = <<"answer", e.of>>
                     /\ e.tokens = (IF calls[e.of].output = 0 THEN 1 ELSE calls[e.of].output)
                     /\ \A j \in Is("generation") \ {k} : events[j].of # e.of
    ELSE \E n \in DOMAIN calls : e.output = <<"answer", n>> /\ e.input = <<"prompt", calls[n].prompt>>

(* A tool is under the call that used it.                                  *)
ToolUnderItsCall == \A k \in Is("tool") : events[k].parent = IF streamed THEN events[k].of ELSE 0
================================================================================
