------------------------------ MODULE AsyncRunner ------------------------------
(***************************************************************************)
(* _BackgroundEventLoopRunner (_async_utils.py): threads run awaitables to *)
(* completion on one event loop in a background thread that is started     *)
(* when needed, while others close it.  A closed runner may run again, on  *)
(* another loop.  Each thread with its loop and its _LoopStartup is one    *)
(* member of Loops; a caller's awaitable is named by the caller.           *)
(***************************************************************************)
EXTENDS Naturals, Sequences, FiniteSets

CONSTANTS Callers,       \* threads that call run() or close(), once each: numbers above n
          Loops,         \* the background threads, in the order of their start: 1..n
          None           \* 0

VARIABLES loop, thread,  \* _loop, _thread
          closing,       \* _closing_threads
          startup,       \* _startup
          closeRequested,
          life,          \* of a background thread and its loop
          error, done,   \* of its _LoopStartup
          ready,         \* the loop's queue of callbacks: awaitables to start, or None: stop()
          awaitable,     \* what has become of a caller's awaitable
          pc, on,        \* of a thread in run() or close(): where it is, with which loop
          outcome        \* how its call ended

runnerVars == <<loop, thread, closing, startup, closeRequested>>
loopVars == <<life, error, done, ready>>
callVars == <<awaitable, pc, on, outcome>>
vars == <<runnerVars, loopVars, callVars>>

Actors == Callers \cup Loops    \* an awaitable may call close() on its loop's thread

Numbered ==
  /\ IsFiniteSet(Loops) /\ Loops = 1..Cardinality(Loops)
  /\ Callers \cap Loops = {} /\ None \notin Actors

Lives == {"unused", "starting", "running", "stopped", "cancelling", "closed", "gone"}
Awaitables == {"none", "new", "task", "going", "value", "raised", "cancelled", "dropped", "closed", "done"}
Pcs == {"idle", "ensure", "wait", "schedule", "future", "stop", "ask", "join", "over"}
Outcomes == {"none", "refused", "value", "raised", "cancelled", "returned"}
TypeOK ==
  /\ {loop, thread, startup} \subseteq Loops \cup {None} /\ closing \subseteq Loops
  /\ closeRequested \in BOOLEAN
  /\ life \in [Loops -> Lives]
  /\ error \in [Loops -> {"none", "closed", "failed"}] /\ done \in [Loops -> BOOLEAN]
  /\ ready \in [Loops -> Seq(Callers \cup {None})]
  /\ awaitable \in [Callers -> Awaitables]
  /\ pc \in [Actors -> Pcs] /\ on \in [Actors -> Loops \cup {None}] /\ outcome \in [Actors -> Outcomes]

Init ==
  /\ loop = None /\ thread = None /\ closing = {} /\ startup = None /\ closeRequested = FALSE
  /\ life = [g \in Loops |-> "unused"]
  /\ error = [g \in Loops |-> "none"] /\ done = [g \in Loops |-> FALSE]
  /\ ready = [g \in Loops |-> <<>>]
  /\ awaitable = [t \in Callers |-> "none"]
  /\ pc = [a \in Actors |-> "idle"] /\ on = [a \in Actors |-> None] /\ outcome = [a \in Actors |-> "none"]

Alive(g) == g # None /\ life[g] \notin {"unused", "gone"}
Closed(g) == life[g] \in {"closed", "gone"}
Goto(a, p) == pc' = [pc EXCEPT ![a] = p]
EndCall(a, how) == pc' = [pc EXCEPT ![a] = "over"] /\ outcome' = [outcome EXCEPT ![a] = how]
------------------------------------------------------------------------------
(* run()                                                                   *)
CallRun(t) ==
  /\ pc[t] = "idle"
  /\ Goto(t, "ensure") /\ awaitable' = [awaitable EXCEPT ![t] = "new"]
  /\ UNCHANGED <<runnerVars, loopVars, on, outcome>>

\* _ensure_loop: the loop there is, a new thread, or the one that is starting.
UseLoop(t) ==
  /\ loop # None /\ Alive(thread) /\ ~Closed(loop)
  /\ on' = [on EXCEPT ![t] = loop] /\ Goto(t, "schedule")
  /\ UNCHANGED <<runnerVars, loopVars>>
StartThread(t) ==
  /\ ~Alive(thread)
  /\ LET g == Cardinality({l \in Loops : life[l] # "unused"}) + 1
     IN /\ g \in Loops
        /\ life' = [life EXCEPT ![g] = "starting"]
        /\ thread' = g /\ startup' = g /\ closeRequested' = FALSE
        /\ on' = [on EXCEPT ![t] = g] /\ Goto(t, "wait")
  /\ UNCHANGED <<loop, closing, error, done, ready>>
JoinStartup(t) ==
  /\ Alive(thread) /\ (loop # None => Closed(loop)) /\ startup # None
  /\ on' = [on EXCEPT ![t] = startup] /\ Goto(t, "wait")
  /\ UNCHANGED <<runnerVars, loopVars>>
EnsureLoop(t) ==
  /\ pc[t] = "ensure"
  /\ UseLoop(t) \/ StartThread(t) \/ JoinStartup(t)
  /\ UNCHANGED <<awaitable, outcome>>
StartupDone(t) ==
  /\ pc[t] = "wait" /\ done[on[t]]
  /\ IF error[on[t]] = "none" THEN Goto(t, "schedule") /\ UNCHANGED <<awaitable, outcome>>
     ELSE EndCall(t, "refused") /\ awaitable' = [awaitable EXCEPT ![t] = "closed"]
  /\ UNCHANGED <<runnerVars, loopVars, on>>

Schedule(t) ==
  /\ pc[t] = "schedule"
  /\ IF on[t] = loop /\ ~closeRequested
     THEN ready' = [ready EXCEPT ![on[t]] = Append(@, t)] /\ Goto(t, "future")
     ELSE Goto(t, "ensure") /\ UNCHANGED ready
  /\ UNCHANGED <<runnerVars, life, error, done, awaitable, on, outcome>>
Result(t) ==
  /\ pc[t] = "future"
  /\ \/ awaitable[t] \in {"value", "raised"} /\ EndCall(t, awaitable[t]) /\ awaitable' = [awaitable EXCEPT ![t] = "done"]
     \/ awaitable[t] \in {"dropped", "cancelled"} /\ EndCall(t, "cancelled")
        /\ awaitable' = [awaitable EXCEPT ![t] = IF @ = "dropped" THEN "closed" ELSE "done"]
  /\ UNCHANGED <<runnerVars, loopVars, on>>
RunStep(t) == EnsureLoop(t) \/ StartupDone(t) \/ Schedule(t) \/ Result(t)
------------------------------------------------------------------------------
(* close(), by a caller or by an awaitable that is going on.               *)
MayClose(a) == a \in Callers \/ \E t \in Callers : awaitable[t] = "going" /\ on[t] = a
Close(a) ==
  /\ pc[a] = "idle" /\ MayClose(a)
  /\ IF thread = None
     THEN EndCall(a, "returned") /\ UNCHANGED <<runnerVars, error, on>>
     ELSE /\ closeRequested' = TRUE
          /\ on' = [on EXCEPT ![a] = thread]
          /\ IF loop = None
             THEN /\ error' = IF startup = None THEN error ELSE [error EXCEPT ![startup] = "closed"]
                  /\ Goto(a, "join") /\ UNCHANGED <<loop, thread, closing>>
             ELSE /\ loop' = None /\ thread' = None /\ closing' = closing \cup {thread}
                  /\ Goto(a, "stop") /\ UNCHANGED error
          /\ UNCHANGED <<startup, outcome>>
  /\ UNCHANGED <<life, done, ready, awaitable>>
FoundClosed(a) ==
  /\ pc[a] = "stop" /\ Closed(on[a])
  /\ closing' = closing \ {on[a]} /\ EndCall(a, "returned")
  /\ UNCHANGED <<loop, thread, startup, closeRequested, loopVars, awaitable, on>>
FoundOpen(a) == \* is_closed() is read before the call
  /\ pc[a] = "stop" /\ ~Closed(on[a])
  /\ Goto(a, "ask")
  /\ UNCHANGED <<runnerVars, loopVars, awaitable, on, outcome>>
AskToStop(a) ==
  /\ pc[a] = "ask"
  /\ IF Closed(on[a]) THEN EndCall(a, "raised") /\ UNCHANGED ready
     ELSE /\ ready' = [ready EXCEPT ![on[a]] = Append(@, None)]
          /\ IF a = on[a] THEN EndCall(a, "returned") ELSE Goto(a, "join") /\ UNCHANGED outcome
  /\ UNCHANGED <<runnerVars, life, error, done, awaitable, on>>
Join(a) ==
  /\ pc[a] = "join" /\ ~Alive(on[a])
  /\ EndCall(a, "returned")
  /\ UNCHANGED <<runnerVars, loopVars, awaitable, on>>
CloseStep(a) == FoundClosed(a) \/ FoundOpen(a) \/ AskToStop(a) \/ Join(a)
------------------------------------------------------------------------------
(* The background thread, while no awaitable holds it up in close().       *)
Fails(g) ==
  /\ life[g] = "starting"
  /\ error' = [error EXCEPT ![g] = IF @ = "none" THEN "failed" ELSE @]
  /\ thread' = IF thread = g THEN None ELSE thread
  /\ done' = [done EXCEPT ![g] = TRUE] /\ life' = [life EXCEPT ![g] = "gone"]
  /\ UNCHANGED <<loop, closing, startup, closeRequested, ready, callVars>>
Publish(g) ==
  /\ life[g] = "starting"
  /\ loop' = g
  /\ error' = [error EXCEPT ![g] = IF closeRequested /\ @ = "none" THEN "closed" ELSE @]
  /\ done' = [done EXCEPT ![g] = TRUE] /\ life' = [life EXCEPT ![g] = "running"]
  /\ ready' = IF closeRequested THEN [ready EXCEPT ![g] = Append(@, None)] ELSE ready
  /\ UNCHANGED <<thread, closing, startup, closeRequested, callVars>>
Callback(g) ==
  /\ life[g] = "running" /\ ready[g] # <<>>
  /\ IF Head(ready[g]) = None THEN life' = [life EXCEPT ![g] = "stopped"] /\ UNCHANGED awaitable
     ELSE awaitable' = [awaitable EXCEPT ![Head(ready[g])] = "task"] /\ UNCHANGED life
  /\ ready' = [ready EXCEPT ![g] = Tail(@)]
  /\ UNCHANGED <<runnerVars, error, done, pc, on, outcome>>
Begin(t) ==
  /\ awaitable[t] = "task" /\ life[on[t]] = "running"
  /\ awaitable' = [awaitable EXCEPT ![t] = "going"]
  /\ UNCHANGED <<runnerVars, loopVars, pc, on, outcome>>
Finish(t) ==
  /\ awaitable[t] = "going" /\ life[on[t]] \in {"running", "cancelling"}
  /\ \E r \in {"value", "raised"} \cup (IF life[on[t]] = "cancelling" THEN {"cancelled"} ELSE {}) :
       awaitable' = [awaitable EXCEPT ![t] = r]
  /\ UNCHANGED <<runnerVars, loopVars, pc, on, outcome>>
Tasks(g) == {t \in Callers : awaitable[t] \in {"task", "going"} /\ on[t] = g}
Cancel(g) ==
  /\ life[g] = "stopped"
  /\ life' = [life EXCEPT ![g] = "cancelling"]
  /\ awaitable' = [t \in Callers |-> IF t \in Tasks(g) /\ awaitable[t] = "task" THEN "dropped" ELSE awaitable[t]]
  /\ UNCHANGED <<runnerVars, error, done, ready, pc, on, outcome>>
CloseLoop(g) ==
  /\ life[g] = "cancelling" /\ Tasks(g) = {}
  /\ life' = [life EXCEPT ![g] = "closed"]
  /\ UNCHANGED <<runnerVars, error, done, ready, callVars>>
\* Mutant: a thread that ends forgets the thread and loop that replaced it.
ForgetAll(g) ==
  /\ life[g] = "closed"
  /\ life' = [life EXCEPT ![g] = "gone"]
  /\ thread' = None /\ loop' = None /\ startup' = None
  /\ closing' = closing \ {g}
  /\ UNCHANGED <<closeRequested, error, done, ready, callVars>>
Forget(g) ==
  /\ life[g] = "closed"
  /\ life' = [life EXCEPT ![g] = "gone"]
  /\ thread' = IF thread = g THEN None ELSE thread
  /\ loop' = IF loop = g THEN None ELSE loop
  /\ startup' = IF startup = g THEN None ELSE startup
  /\ closing' = closing \ {g}
  /\ UNCHANGED <<closeRequested, error, done, ready, callVars>>
RunLoop(g) ==
  /\ pc[g] \in {"idle", "over"}
  /\ \/ Fails(g) \/ Publish(g) \/ Callback(g) \/ Cancel(g) \/ CloseLoop(g) \/ Forget(g)
     \/ \E t \in Callers : on[t] = g /\ (Begin(t) \/ Finish(t))
------------------------------------------------------------------------------
Next ==
  \/ \E t \in Callers : CallRun(t) \/ RunStep(t)
  \/ \E a \in Actors : Close(a) \/ CloseStep(a)
  \/ \E g \in Loops : RunLoop(g)

CallerStep(t) == RunStep(t) \/ CloseStep(t)
LoopStep == \E g \in Loops : RunLoop(g) \/ CloseStep(g)
\* Calls go on once made, an awaitable ends, the loop's thread is scheduled.
Fairness == (\A t \in Callers : WF_vars(CallerStep(t))) /\ WF_vars(LoopStep)
Spec == Init /\ [][Next]_vars
FairSpec == Spec /\ Fairness
------------------------------------------------------------------------------
(* run() leaves no awaitable behind, neither going on nor never awaited,   *)
(* and ends as the awaitable did.                                          *)
AwaitableSettled ==
  \A t \in Callers : pc[t] = "over" /\ awaitable[t] # "none" =>
    /\ awaitable[t] \in {"done", "closed"}
    /\ outcome[t] \in {"value", "raised"} => awaitable[t] = "done"

(* owns_thread knows every thread that awaitables are running on: a client *)
(* that is closed from one of them defers the call because of it.          *)
ThreadsOwned ==
  \A t \in Callers : awaitable[t] = "going" => on[t] = thread \/ on[t] \in closing

(* close() that returns to another thread has waited for the loop.         *)
CloseWaits ==
  \A a \in Actors : pc[a] = "over" /\ outcome[a] = "returned" /\ on[a] \notin {None, a} => Closed(on[a])

(* run() never meets what it raises by itself for: "event loop startup     *)
(* state is unavailable", or a loop that it may schedule on and that has   *)
(* stopped.                                                                *)
RunFinds ==
  /\ Alive(thread) /\ (loop # None => Closed(loop)) => startup # None
  /\ loop # None /\ ~closeRequested => life[loop] = "running"

(* Nothing of a thread that has ended is remembered.                       *)
Forgotten == \A g \in Loops : life[g] = "gone" => g \notin closing /\ g # thread /\ g # loop

Over(a) == pc[a] = "over"
Called(a) == pc[a] # "idle" /\ ~Over(a)
(* A call of run() or close() returns, also when closes and runs meet and  *)
(* when the awaitable itself closes the runner.                            *)
CallsReturn == \A a \in Actors : Called(a) ~> Over(a)
================================================================================
