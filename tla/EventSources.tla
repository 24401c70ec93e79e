------------------------------ MODULE EventSources ------------------------------
(***************************************************************************)
(* Where events come from, besides AI observability: the hooks and         *)
(* contexts that exceptions pass (ExceptionCapture) and the calls of a     *)
(* client (Capturing).  A behaviour exercises one of them and leaves the   *)
(* variables of the other alone.                                           *)
(***************************************************************************)
EXTENDS Observation

CONSTANTS Clients, Threads, Main, Size, Rate, Interval, MaxTime, MaxRaises,     \* ExceptionCapture
          Tasks, MaxScopes, MaxForks, Keys, Settings, Captures, Trials          \* Capturing

VARIABLES
  now, clients, hooks, buckets, allowed, threads, marked, displaced,
  generation, scopes, stack, blocks, enclosing, calls, event

hookVars == <<now, clients, hooks, buckets, allowed, threads, marked, displaced>>
callVars == <<generation, scopes, stack, blocks, enclosing, calls, event>>
sourceVars == <<hookVars, callVars>>

NoHooks == /\ now = 0 /\ clients = 0 /\ hooks = 0 /\ buckets = 0
           /\ allowed = 0 /\ threads = 0 /\ marked = 0 /\ displaced = 0
NoCall == /\ generation = 0 /\ scopes = 0 /\ stack = 0 /\ blocks = 0
          /\ enclosing = 0 /\ calls = 0 /\ event = 0
------------------------------------------------------------------------------
H == INSTANCE ExceptionCapture
P == INSTANCE Capturing

(* The limiter clamps its rate to its size, and one with an interval of 0  *)
(* limits nothing; what a client is made with is on or off, and a context  *)
(* has the fields it has.                                                  *)
ASSUME SourcesAssumption ==
  /\ Size \in Nat /\ Rate \in 0 .. Size /\ Interval \in Nat \ {0}
  /\ \A x \in Trials : {x.config.disabled, x.config.send, x.config.sync, x.config.server} \subseteq BOOLEAN
  /\ \A s \in Settings : s.field \in P!Fields

Raising == part \in {"hooks", "limits"}
SourcesInit ==
  /\ IF Raising THEN H!Init ELSE NoHooks
  /\ IF part = "calls" THEN P!Init ELSE NoCall
SourcesNext ==
  /\ UNCHANGED part
  /\ \/ Raising /\ H!Next /\ UNCHANGED callVars
     \/ part = "calls" /\ P!Next /\ UNCHANGED hookVars
SourcesSpec == SourcesInit /\ [][SourcesNext]_<<part, sourceVars>>

(* ExceptionCapture: one exception is one event, and those of a client are *)
(* as many as its limiter lets through.                                    *)
ReportedOnce == Raising => H!ReportedOnce /\ H!RateBounded
(* Capturing: an event has the shape that was asked for, and the id that   *)
(* is returned is the id of what was queued.                               *)
EventAsAsked == part = "calls" => P!ReturnedIsSent /\ P!Shape
================================================================================
