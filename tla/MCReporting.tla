------------------------------ MODULE MCReporting ------------------------------
(***************************************************************************)
(* What the library reports, checked in one run: the parts of MCCapturing, *)
(* and of AI observability a streamed response (StreamedContent), the      *)
(* prompt of one call (ModelInput), calls of the wrappers (Generations),   *)
(* runs of a chain (CallbackRuns), traces of the Agents SDK (AgentTraces)  *)
(* and a query of the Claude one (AgentQuery).  A behaviour exercises one  *)
(* of them and leaves the variables of the others alone.                   *)
(***************************************************************************)
EXTENDS MCCapturing

VARIABLES
  api, sent, kept, usage, ended,
  request, reported,
  started, open, finished, runs, parents

streamVars == <<api, sent, kept, usage, ended>>
promptVars == <<request, reported>>
runVars == <<started, open, finished, runs, parents>>

NoStream == api = 0 /\ sent = 0 /\ kept = 0 /\ usage = 0 /\ ended = 0
NoPrompt == request = 0 /\ reported = 0
NoRuns == started = 0 /\ open = 0 /\ finished = 0 /\ runs = 0 /\ parents = 0
------------------------------------------------------------------------------
(* StreamedContent: four blocks and four fragments; the tools a provider   *)
(* runs itself are kept to behaviours of their own.                        *)
AllKinds == {"text", "tool", "thinking", "redacted", "audio", "refusal", "media", "search", "server"}
R == INSTANCE StreamedContent WITH APIs <- {"chat", "responses", "messages", "contents"}, Kinds <- AllKinds,
       MaxBlocks <- 4, MaxFragments <- 4
NoServerTools == \A i \in DOMAIN sent : sent[i].kind # "server"
------------------------------------------------------------------------------
(* ModelInput: a first message and a second with every kind of part, the   *)
(* media in it in every form.                                              *)
T(n) == [is |-> "text", name |-> n]
ListOf(s) == [is |-> "list", of |-> s]
D(fields) == [is |-> "map", at |-> fields]
M(form, long) == [is |-> "media", name |-> "media", form |-> form, long |-> long]
Medias == {M("bytes", TRUE), M("url", FALSE), M("base64", TRUE), M("base64", FALSE)}
OpenAIParts ==
  UNION {{D([type |-> T("image_url"), image_url |-> D([url |-> m])]), D([type |-> T("input_image"), image_url |-> m]),
          D([type |-> T("input_audio"), input_audio |-> D([data |-> m])]), D([type |-> T("text"), text |-> T("a")]),
          D([type |-> T("image_generation_call"), result |-> m]), D([type |-> T("file"), file |-> D([file_data |-> ListOf(<<m, m>>)])])} :
         m \in Medias}
AnthropicParts ==
  UNION {{D([type |-> T("image"), source |-> D([type |-> T("base64"), data |-> m])]),
          D([type |-> T("tool_result"), content |-> ListOf(<<D([type |-> T("image"), source |-> D([data |-> m])]),
                                                        D([type |-> T("text"), text |-> T("b")])>>)])} : m \in Medias}
GeminiParts ==
  UNION {{D([inline_data |-> D([data |-> m])]), D([file_data |-> D([data |-> m])])} : m \in Medias} \cup {D([text |-> T("c")])}
Item(form, role, content) == [form |-> form, role |-> role, content |-> content]
First == {Item("message", r, T("first")) : r \in {"none", "system", "user"}}
Requested(provider, items) ==
  [provider : {provider}, items : items, system : BOOLEAN, instructions : BOOLEAN, full : BOOLEAN, private : BOOLEAN]
Two(firsts, seconds) == {<<x, y>> : x \in firsts, y \in seconds}
SomePrompts ==
  Requested("openai", Two(First, {Item("message", "user", ListOf(<<T("x"), p>>)) : p \in OpenAIParts}
                                 \cup {Item("typed", "none", p) : p \in OpenAIParts}))
  \cup Requested("anthropic", Two(First, {Item("message", "user", ListOf(<<p, T("y")>>)) : p \in AnthropicParts}))
  \cup Requested("gemini", Two({Item("string", "none", T("first")), Item("message", "system", T("first"))},
        {Item(f, "none", IF f \in {"part", "part object"} THEN p ELSE ListOf(<<p, T("z")>>)) :
           f \in {"message", "object", "part", "part object"}, p \in GeminiParts}))
I == INSTANCE ModelInput WITH Requests <- SomePrompts
------------------------------------------------------------------------------
(* Three runs of a chain; of two calls of the model, the first through a  *)
(* Messages API.                                                           *)
C == INSTANCE CallbackRuns WITH Runs <- {"r1", "r2", "r3"}, Trace <- "none", Outlive <- FALSE
FirstIsMessage == part = "generations" /\ Len(modelCalls) = 2 => modelCalls[1].api = "messages"
SomeKinds == [s1 |-> "generation", s2 |-> "custom", s3 |-> "audio"]
------------------------------------------------------------------------------
ReportingInit ==
  /\ CapturingInit
  /\ IF part \in {"streams", "server tools"} THEN R!Init ELSE NoStream
  /\ IF part = "prompts" THEN I!Init ELSE NoPrompt
  /\ IF part = "runs" THEN C!Init ELSE NoRuns
  /\ ObservingInit
  /\ part \notin {"generations", "runs", "traces", "queries"} => events = 0

Report ==
  \/ part \in {"streams", "server tools"} /\ R!Next /\ (part = "streams" => NoServerTools')
     /\ UNCHANGED <<promptVars, runVars, observingVars>>
  \/ part = "prompts" /\ I!Next /\ UNCHANGED <<streamVars, runVars, observingVars>>
  \/ part = "runs" /\ C!Next /\ UNCHANGED <<streamVars, promptVars, person, modelCalls, traceVars, queryVars>>
ReportingNext ==
  \/ CapturingNext /\ UNCHANGED <<streamVars, promptVars, runVars, observingVars>>
  \/ Report /\ UNCHANGED <<part, capturingVars>>
  \/ ObservingNext /\ FirstIsMessage' /\ UNCHANGED <<streamVars, promptVars, runVars, capturingVars>>

(* The modules' properties, each for the behaviours of its part; those of  *)
(* Observation are checked as they are.                                    *)
(* StreamedContent: a stream is reported like the same response in one     *)
(* piece; the input of a tool call is known once its block stops.          *)
StreamMatchesResponse == part = "streams" => R!StreamMatchesResponse
ToolInputKept == part = "server tools" => R!ToolInputKept
(* ModelInput: the prompt is reported whole and in order; media is not.    *)
PromptTold == part = "prompts" => I!PromptKept /\ I!MediaHidden
(* CallbackRuns: the tree of runs that is reported is the tree there was,  *)
(* as one trace, and nothing of it is remembered.                          *)
TreeReported == part = "runs" => C!TopLevelTrace /\ C!ParentReported /\ C!RunsForgotten
================================================================================
