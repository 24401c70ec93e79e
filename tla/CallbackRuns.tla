------------------------------ MODULE CallbackRuns ------------------------------
(***************************************************************************)
(* The LangChain callback handler (ai/langchain/callbacks.py).  LangChain  *)
(* tells it when a run (a chain, a model call, a tool, a retriever) starts *)
(* and ends and which run it is part of; the handler keeps what it was     *)
(* told until the run ends and then captures one event that says which     *)
(* trace and which run it belongs to.                                      *)
(***************************************************************************)
EXTENDS Integers, Sequences, FiniteSets, Functions, TLC

CONSTANTS Runs,           \* run ids
          Trace,          \* the trace id the handler was made with, or "none"
          Outlive         \* a run may end before the runs it started (asyncio.gather)

VARIABLES started,        \* LangChain's: the kind and the parent of every run so far
          open,           \* LangChain's: the runs that go on
          finished,       \* LangChain's: the chains whose agent is done
          runs, parents,  \* the handler's _runs and _parent_tree
          events

vars == <<started, open, finished, runs, parents, events>>

Init == started = <<>> /\ open = {} /\ finished = {} /\ runs = <<>> /\ parents = <<>> /\ events = <<>>

Without(f, x) == Restrict(f, DOMAIN f \ {x})
With(f, x, y) == [z \in DOMAIN f \cup {x} |-> IF z = x THEN y ELSE f[z]]
Children(run) == {r \in open : started[r].parent = run}
------------------------------------------------------------------------------
SetParentOfRun(run, parent) == parents' = IF parent = "none" THEN parents ELSE With(parents, run, parent)
PopParentOfRun(run) == parents' = Without(parents, run)
\* Mutant: a run's root is looked for when its parent is forgotten.
FindRootRunPopped(run) == run
FindRootRun(run) == LET root[r \in Runs] == IF r \in DOMAIN parents THEN root[parents[r]] ELSE r IN root[run]
GetTraceId(run) == IF Trace # "none" THEN Trace ELSE FindRootRun(run)
\* The parent an event names: the trace, for what is right under its top.
\* (asked once the run's own parent is forgotten)
GetParentRunId(trace, parent) == IF parent # "none" /\ parent \notin DOMAIN parents THEN trace ELSE parent

SetTraceOrSpanMetadata(run) == runs' = With(runs, run, "span")
SetLlmMetadata(run) == runs' = With(runs, run, "generation")

Start(kind, run, parent) ==
  /\ run \notin DOMAIN started /\ parent \in {"none"} \cup {r \in open \ finished : started[r].kind \in {"chain", "tool"}}
  /\ started' = With(started, run, [kind |-> kind, parent |-> parent])
  /\ open' = open \cup {run}
  /\ SetParentOfRun(run, parent)
  /\ UNCHANGED <<finished, events>>
OnChainStart(run, parent) == Start("chain", run, parent) /\ SetTraceOrSpanMetadata(run)
OnToolStart(run, parent) == Start("tool", run, parent) /\ SetTraceOrSpanMetadata(run)
OnRetrieverStart(run, parent) == Start("retriever", run, parent) /\ SetTraceOrSpanMetadata(run)
OnChatModelStart(run, parent) == Start("llm", run, parent) /\ SetLlmMetadata(run)
OnLlmStart(run, parent) == Start("llm", run, parent) /\ SetLlmMetadata(run)
OnLlmNewToken(run) == run \in open /\ started[run].kind = "llm" /\ UNCHANGED vars
\* What an agent decided, told with the id of the agent's own chain.
OnAgentAction(run) ==
  /\ run \in open \ finished /\ started[run].kind = "chain"
  /\ SetParentOfRun(run, started[run].parent)
  /\ SetTraceOrSpanMetadata(run)
  /\ UNCHANGED <<started, open, finished, events>>
------------------------------------------------------------------------------
Captured(run, failed) == \* what an event of either kind says
  LET trace == GetTraceId(run)
  IN [run |-> run, trace |-> trace, parent |-> GetParentRunId(trace, started[run].parent), failed |-> failed]
CaptureTraceOrSpan(run, failed) ==
  LET event == Captured(run, failed)
  IN Append(events, event @@ [is |-> IF event.parent = "none" THEN "trace" ELSE "span"])
CaptureGeneration(run, failed) == Append(events, Captured(run, failed) @@ [is |-> "generation"])
\* The run is forgotten; nothing is captured of one unknown or of another kind.
PopRunAndCaptureTraceOrSpan(run, failed) ==
  /\ PopParentOfRun(run)
  /\ runs' = Without(runs, run)
  /\ events' = IF run \in DOMAIN runs /\ runs[run] = "span" THEN CaptureTraceOrSpan(run, failed) ELSE events
PopRunAndCaptureGeneration(run, failed) ==
  /\ PopParentOfRun(run)
  /\ runs' = Without(runs, run)
  /\ events' = IF run \in DOMAIN runs /\ runs[run] = "generation" THEN CaptureGeneration(run, failed) ELSE events
CaptureTraceOrSpanRun(run, failed) == PopRunAndCaptureTraceOrSpan(run, failed)
CaptureGenerationRun(run, failed) == PopRunAndCaptureGeneration(run, failed)
Ends(kind, run) ==
  /\ run \in open /\ started[run].kind = kind
  /\ Outlive \/ Children(run) = {}
  /\ open' = open \ {run}
  /\ UNCHANGED <<started, finished>>
OnChainEnd(run) == Ends("chain", run) /\ CaptureTraceOrSpanRun(run, FALSE)
OnChainError(run) == Ends("chain", run) /\ CaptureTraceOrSpanRun(run, TRUE)
OnToolEnd(run) == Ends("tool", run) /\ CaptureTraceOrSpanRun(run, FALSE)
OnToolError(run) == Ends("tool", run) /\ CaptureTraceOrSpanRun(run, TRUE)
OnRetrieverEnd(run) == Ends("retriever", run) /\ CaptureTraceOrSpanRun(run, FALSE)
OnRetrieverError(run) == Ends("retriever", run) /\ CaptureTraceOrSpanRun(run, TRUE)
OnLlmEnd(run) == Ends("llm", run) /\ CaptureGenerationRun(run, FALSE)
OnLlmError(run) == Ends("llm", run) /\ CaptureGenerationRun(run, TRUE)
\* An agent is done: its chain still has to end.
OnAgentFinish(run) ==
  /\ run \in open \ finished /\ started[run].kind = "chain" /\ Children(run) = {}
  /\ CaptureTraceOrSpanRun(run, FALSE)
  /\ finished' = finished \cup {run}
  /\ UNCHANGED <<started, open>>

Next ==
  \/ \E run \in Runs, parent \in Runs \cup {"none"} :
       \/ OnChainStart(run, parent) \/ OnToolStart(run, parent) \/ OnRetrieverStart(run, parent)
       \/ OnChatModelStart(run, parent) \/ OnLlmStart(run, parent)
  \/ \E run \in Runs :
       \/ OnLlmNewToken(run) \/ OnAgentAction(run) \/ OnAgentFinish(run)
       \/ OnChainEnd(run) \/ OnToolEnd(run) \/ OnRetrieverEnd(run) \/ OnLlmEnd(run)
       \/ OnChainError(run) \/ OnToolError(run) \/ OnRetrieverError(run) \/ OnLlmError(run)
Spec == Init /\ [][Next]_vars
------------------------------------------------------------------------------
Top(run) == LET top[r \in Runs] == IF started[r].parent = "none" THEN r ELSE top[started[r].parent] IN top[run]
EventsOf(run) == {k \in DOMAIN events : events[k].run = run}

(* "the top-level run ID is used": the events of one top-level run are one *)
(* trace, whatever started and ended in between.                           *)
TopLevelTrace == \A k \in DOMAIN events : events[k].trace = IF Trace # "none" THEN Trace ELSE Top(events[k].run)

(* An event names the run it was part of, or the trace when that is the    *)
(* top: the tree LangChain had is the tree that is reported.               *)
ParentReported ==
  \A k \in DOMAIN events :
    LET parent == started[events[k].run].parent IN
    events[k].parent = IF parent # "none" /\ started[parent].parent = "none" THEN events[k].trace ELSE parent

(* Every run that is over is one event, and nothing of it is remembered.   *)
RunsForgotten ==
  /\ \A run \in DOMAIN started \ open : Cardinality(EventsOf(run)) = 1
  /\ DOMAIN runs \cup DOMAIN parents \subseteq open
================================================================================
