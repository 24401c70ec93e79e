------------------------------ MODULE MCCapturing ------------------------------
(***************************************************************************)
(* What happens to an exception or an event before it is queued and how a  *)
(* batch is submitted: a behaviour exercises the hooks and contexts an     *)
(* exception passes or the calls that make events (EventSources), one      *)
(* report (ExceptionReports), contexts (Capturing) or one submission       *)
(* (CaptureV1), and leaves the variables of the others alone.  MCReporting *)
(* adds the parts of AI observability and is what the runs check.          *)
(***************************************************************************)
EXTENDS CaptureV1, EventSources, TLC

CONSTANT Aspects   \* the parts this run exercises

VARIABLES scene, report

reportVars == <<scene, report>>
NoReport == scene = 0 /\ report = 0
------------------------------------------------------------------------------
(* ExceptionCapture: one exception raised while two clients open and       *)
(* close, and the limiter of one client over a time.                       *)
FewHooks == part = "hooks" => now = 0 /\ H!Raised <= 1
OneClient == part = "limits" => clients["b"].pc = "new" /\ threads["worker"] = H!Idle /\ "b" \notin ToSet(threads["main"].contexts)
------------------------------------------------------------------------------
(* ExceptionReports: every graph of three exceptions, with a group or      *)
(* without one; then one exception with a variable of every shape.         *)
Frame(id, module, path, variables) ==
  [id |-> id, hidden |-> FALSE, module |-> module, path |-> path, variables |-> variables]
Text == [pem |-> FALSE, short |-> FALSE, dense |-> FALSE, huge |-> FALSE, known |-> FALSE, oversized |-> FALSE, sensitive |-> FALSE]
Leaf(text) == [kind |-> "text", text |-> text]
Texts == {Text, [Text EXCEPT !.sensitive = TRUE], [Text EXCEPT !.known = TRUE], [Text EXCEPT !.pem = TRUE, !.short = TRUE],
          [Text EXCEPT !.known = TRUE, !.huge = TRUE]}
Configs == [enabled : {TRUE}, mask : BOOLEAN, detect : BOOLEAN, urls : {FALSE}, inAppModules : {{"app"}}]
Default == [enabled |-> TRUE, mask |-> TRUE, detect |-> TRUE, urls |-> TRUE, inAppModules |-> {"app"}]

FrameOf(e) == Frame(e, IF e = "a" THEN "lib" ELSE "app", IF e = "a" THEN "project" ELSE "site-packages",
                    <<[of |-> e, name |-> "plain", value |-> "n", size |-> 1, simple |-> TRUE]>>)
Numbers == [n |-> [kind |-> "number"]]
Behind == {"none", "a", "b", "c"}
Chained(suppress) ==
  {[exceptions |-> [e \in {"a", "b", "c"} |->
      [cause |-> cause[e], context |-> context[e], suppress |-> suppress \/ cause[e] # "none", members |-> <<>>,
       frames |-> <<FrameOf(e), [FrameOf(e) EXCEPT !.id = "hidden", !.hidden = TRUE]>>]],
    caught |-> "a", heap |-> Numbers, config |-> Default] :
      cause \in [{"a", "b", "c"} -> Behind], context \in [{"a", "b", "c"} -> {"none", "b"}]}
Grouped ==
  {[exceptions |-> [e \in {"a", "b", "c"} |->
      [cause |-> cause[e], context |-> "none", suppress |-> TRUE,
       members |-> CASE e = "a" -> of.a [] e = "b" -> of.b [] OTHER -> <<>>, frames |-> <<FrameOf(e)>>]],
    caught |-> "a", heap |-> Numbers, config |-> [Default EXCEPT !.enabled = enabled]] :
      enabled \in BOOLEAN, cause \in [{"a", "b", "c"} -> Behind], of \in [a : {<<"b">>, <<"b", "c">>}, b : {<<>>, <<"c">>}]}

Nodes == {[kind |-> "map", items |-> <<[key |-> k1, value |-> v1], [key |-> k2, value |-> v2]>>] :
            k1 \in {"plain", "sensitive", "oversized"}, k2 \in {"plain", "sensitive"}, v1 \in {"x", "y", "t"}, v2 \in {"y", "t", "n"}}
          \cup {[kind |-> "opaque", raises |-> r, text |-> Text, sensitiveMembers |-> m] : r \in BOOLEAN, m \in BOOLEAN}
Variables == {<<[of |-> "a", name |-> name, value |-> "x", size |-> 2, simple |-> FALSE],
                [of |-> "a", name |-> "plain", value |-> v, size |-> 2, simple |-> v = "t"]>> :
                name \in {"plain", "sensitive", "ignored"}, v \in {"x", "y", "t"}}
Valued ==
  {[exceptions |-> [e \in {"a"} |-> [cause |-> "none", context |-> "none", suppress |-> FALSE, members |-> <<>>,
                                       frames |-> <<Frame("a", "app", "project", variables), Frame("b", "lib", "elsewhere", variables)>>]],
    caught |-> "a", config |-> config,
    heap |-> [x |-> x, y |-> y, t |-> Leaf(text), n |-> [kind |-> "number"]]] :
      x \in Nodes, y \in {[kind |-> "map", items |-> <<[key |-> k, value |-> v]>>] : k \in {"plain", "sensitive"}, v \in {"x", "t"}},
      text \in Texts, config \in Configs, variables \in Variables}

E == INSTANCE ExceptionReports WITH Scenarios <- Chained(FALSE) \cup Grouped \cup Valued,
       MaxMaskDepth <- 2, MaxNodes <- 2, MaxItems <- 2, Budget <- 3
------------------------------------------------------------------------------
(* Capturing: three blocks in two tasks and a fork, with plain calls; and  *)
(* every kind of call through every kind of client, in one block or none.  *)
Client == [disabled |-> FALSE, send |-> TRUE, sync |-> FALSE, lane |-> "open", post |-> "ok", local |-> TRUE,
           server |-> TRUE, super |-> {}, beforeSend |-> "none"]
Plain == [call |-> "capture", id |-> "none", keys |-> {}, flags |-> "none", allowed |-> {}, uuid |-> "none", incomplete |-> FALSE]
Trial(asked, through) == [request : asked, config : through]
Setting(f, v) == [field |-> f, value |-> v]
W == INSTANCE Capturing WITH Tasks <- {"t", "u"}, MaxScopes <- 3, MaxForks <- 1, Keys <- {"k"}, Settings <- {},
       Captures <- {TRUE}, Trials <- Trial({[Plain EXCEPT !.call = "exception"]}, {Client})
Deliveries ==
  {[Client EXCEPT !.send = d.send, !.sync = d.sync, !.lane = l, !.post = d.post] :
     d \in {x \in [send : BOOLEAN, sync : BOOLEAN, post : {"ok", "fails"}] : (x.send /\ x.sync) \/ x.post = "ok"},
     l \in {"open", "closed", "full", "unavailable"}}
  \cup {[Client EXCEPT !.beforeSend = b] : b \in {"pass", "other uuid", "bad uuid", "no uuid", "drops", "raises", "wrong type"}}
  \cup {[Client EXCEPT !.disabled = TRUE]}
Shapes ==
  {[Client EXCEPT !.server = s, !.super = u, !.local = l] : s \in BOOLEAN, u \in {{}, {"k", "$is_server"}}, l \in BOOLEAN}
SomeRequests ==
  {[Plain EXCEPT !.id = i, !.keys = k, !.flags = f, !.allowed = a] :
     i \in {"none", "a"}, k \in {{}, {"k", "$feature/f"}}, f \in {"none", "snapshot", "either", "failing"}, a \in {{}, {"k", "$lib"}}}
  \cup {[Plain EXCEPT !.call = c, !.id = i, !.keys = IF n THEN {} ELSE {"k"}, !.incomplete = n] :
     c \in {"set", "set_once", "group_identify", "alias"}, i \in {"none", "a"}, n \in BOOLEAN}
SomeSettings == {Setting("distinct_id", "a"), Setting("session_id", "s")}
SomeTrials == Trial(SomeRequests, Shapes) \cup Trial({[Plain EXCEPT !.uuid = u] : u \in {"none", "invalid", "given"}}, Deliveries)
G == INSTANCE Capturing WITH Tasks <- {"t"}, MaxScopes <- 2, MaxForks <- 0, Keys <- {}, Captures <- {FALSE},
       Settings <- {Setting(f, "a") : f \in {"device_id", "code_variables", "mask_patterns", "ignore_patterns",
                       "mask_url_credentials", "detect_secrets"}}, Trials <- Trial({[Plain EXCEPT !.call = "exception"]}, {Client})
------------------------------------------------------------------------------
(* CaptureV1: max_retries has its default 3, 0, or a negative value.       *)
SomeRetries == {-1, 0, 3}
NoSubmission == /\ max_retries = 0 /\ at = "post" /\ attempt = 1 /\ pending = Events /\ all_drops = {}
                /\ heard = [e \in Events |-> "nothing"] /\ outcome = NoOutcome
------------------------------------------------------------------------------
capturingVars == <<sourceVars, reportVars, vars>>
CapturingInit ==
  /\ part \in Aspects
  /\ IF part \in {"contexts", "settings"} THEN NoHooks ELSE SourcesInit
  /\ IF part = "reports" THEN E!Init ELSE NoReport
  /\ CASE part = "contexts" -> W!Init [] part = "settings" -> G!Init [] OTHER -> TRUE
  /\ IF part = "submission" THEN Init ELSE NoSubmission

CapturingNext ==
  \/ SourcesNext /\ FewHooks' /\ OneClient' /\ UNCHANGED <<reportVars, vars>>
  \/ /\ UNCHANGED part
     /\ \/ part = "reports" /\ E!Next /\ UNCHANGED <<sourceVars, vars>>
        \/ part = "contexts" /\ W!Next /\ UNCHANGED <<hookVars, reportVars, vars>>
        \/ part = "settings" /\ G!Next /\ UNCHANGED <<hookVars, reportVars, vars>>
        \/ part = "submission" /\ Next /\ UNCHANGED <<sourceVars, reportVars>>

(* The modules' properties, each for the behaviours of its part; those of  *)
(* CaptureV1 are checked as they are, those of EventSources too.           *)
(* ExceptionCapture: whatever order clients close in, the others stay      *)
(* hooked.                                                                 *)
HooksStay == part = "hooks" => H!HooksStay
(* ExceptionReports: the list of a chain or a group is whole and in order, *)
(* and nothing is shown that is to be masked.                              *)
ReportFaithful == part = "reports" => E!ListInOrder /\ E!MaskedValuesHidden
(* Capturing: contexts are lexical.                                        *)
Lexical == /\ part = "contexts" => W!Lexical
           /\ part = "settings" => G!Lexical
(* ExceptionReports: a frame shows its own variables.                      *)
VariablesOwnFrame == part = "reports" => E!VariablesOwnFrame
================================================================================
