------------------------------ MODULE Lifecycle ------------------------------
(***************************************************************************)
(* The end of a client: join(), shutdown(), the interpreter-exit handler   *)
(* and the lifecycle calls made from SDK callbacks, which are handed to a  *)
(* thread of their own (client.py).  One thread at a time owns the         *)
(* cleanup; it closes every lane, waits for synchronous sends, drains the  *)
(* lanes, joins their consumers, stops the flag poller and cleans up the   *)
(* rest.                                                                   *)
(*                                                                         *)
(* A lane is what LaneSpec promises (module Lane shows that the queue and  *)
(* its consumers keep that promise), and one consumer thread stands for    *)
(* its pool; a batch is one event.  A step is one critical section of      *)
(* _lifecycle_lock or one cleanup operation.                               *)
(***************************************************************************)
EXTENDS Naturals, FiniteSets

CONSTANTS
  NumLanes,       \* the lanes, in the order the client keeps them
  PerLane,        \* events captured on each lane
  Apps,           \* application threads, each calling join() or shutdown() once
  Interruptible,  \* those a KeyboardInterrupt can hit
  Pollers,        \* the feature flag poller thread, if the client polls
  Deferred,       \* the thread of _defer_lifecycle_from_callback
  AtExit,         \* the interpreter-exit handler
  NoThread,
  NoEvent

Lanes == 1..NumLanes                      \* also names the lane's consumer thread
Events == Lanes \X (1..PerLane)
Workers == Lanes \cup Pollers             \* the threads that run callbacks
Runners == Apps \cup {Deferred, AtExit}   \* the threads that run the lifecycle
Threads == Workers \cup Runners

ASSUME LifecycleAssumption ==
  /\ NumLanes \in Nat \ {0}
  /\ PerLane \in Nat
  /\ Interruptible \subseteq Apps
  /\ NoThread \notin Threads
  /\ NoEvent \notin Events
  /\ Lanes \cap Runners = {}
  /\ Pollers \cap (Lanes \cup Runners) = {}
  /\ {Deferred, AtExit} \cap Apps = {}
  /\ Deferred # AtExit

VARIABLES
  mode,                 \* "async" or "sync" (sync_mode)
  closed,               \* _Lane._closed
  running,              \* Consumer.running
  drainOnStop,          \* Consumer._drain_on_stop
  status,               \* what has become of each event
  syncing,              \* events inside run_sync_if_open
  held,                 \* the event whose on_error a consumer runs
  owner,                \* _lifecycle_owner
  joinRequested,        \* _join_requested
  shutdownRequested,    \* _shutdown_requested
  workersJoined,        \* _workers_joined
  joinCleanupComplete,  \* _join_cleanup_complete
  shutdownComplete,     \* _shutdown_complete
  cleanupFailed,        \* _lifecycle_cleanup_failed
  pending,              \* _deferred_lifecycle_thread_pending
  dirty,                \* _deferred_lifecycle_dirty
  pollerStopped,        \* Poller.stopped
  pc,                   \* where each thread is
  op,                   \* the call a thread makes, "join" or "shutdown"
  at,                   \* the lane a loop over the lanes has reached
  runShutdown,          \* the local run_shutdown of _run_lifecycle
  failed,               \* the local `errors` is not empty
  outcome               \* how a thread's call ended

laneVars == <<mode, closed, running, drainOnStop, status, syncing, held>>
requestVars == <<joinRequested, shutdownRequested>>
doneVars == <<workersJoined, joinCleanupComplete, shutdownComplete, cleanupFailed>>
deferVars == <<pending, dirty>>
localVars == <<op, at, runShutdown, failed>>
vars == <<laneVars, owner, requestVars, doneVars, deferVars, pollerStopped, pc,
          localVars, outcome>>

OwnerPcs == {"decide", "close", "syncs", "flush", "metrics", "stop", "joining",
             "poller", "polled", "provider", "finish", "settle", "abort",
             "pause", "release"}
Pcs == OwnerPcs \cup {"off", "idle", "callback", "defer", "back", "exited",
                      "enter", "waiting", "top", "tail", "done"}

TypeOK ==
  /\ mode \in {"async", "sync"}
  /\ closed \in [Lanes -> BOOLEAN]
  /\ running \in [Lanes -> BOOLEAN]
  /\ drainOnStop \in [Lanes -> BOOLEAN]
  /\ status \in [Events -> {"new", "refused", "accepted", "attempted", "lost"}]
  /\ syncing \subseteq Events
  /\ held \in [Lanes -> Events \cup {NoEvent}]
  /\ owner \in Runners \cup {NoThread}
  /\ {joinRequested, shutdownRequested, workersJoined, joinCleanupComplete,
      shutdownComplete, cleanupFailed, pending, dirty, pollerStopped} \subseteq BOOLEAN
  /\ pc \in [Threads -> Pcs]
  /\ op \in [Runners -> {"none", "join", "shutdown"}]
  /\ at \in [Runners -> Lanes]
  /\ runShutdown \in [Runners -> BOOLEAN]
  /\ failed \in [Runners -> BOOLEAN]
  /\ outcome \in [Runners -> {"none", "ok", "raised", "interrupted"}]

\* The analytics lane starts with the client, the other one on its first event.
Init ==
  /\ mode \in {"async", "sync"}
  /\ closed = [l \in Lanes |-> FALSE]
  /\ running = [l \in Lanes |-> TRUE]
  /\ drainOnStop = [l \in Lanes |-> FALSE]
  /\ status = [e \in Events |-> "new"]
  /\ syncing = {}
  /\ held = [l \in Lanes |-> NoEvent]
  /\ owner = NoThread
  /\ joinRequested = FALSE /\ shutdownRequested = FALSE
  /\ workersJoined = FALSE /\ joinCleanupComplete = FALSE
  /\ shutdownComplete = FALSE /\ cleanupFailed = FALSE
  /\ pending = FALSE /\ dirty = FALSE
  /\ pollerStopped = FALSE
  /\ pc = [t \in Threads |->
             IF t \in Apps \cup Pollers \cup {AtExit} \/ (t = 1 /\ mode = "async")
               THEN "idle" ELSE "off"]
  /\ op = [t \in Runners |-> "none"]
  /\ at = [t \in Runners |-> 1]
  /\ runShutdown = [t \in Runners |-> FALSE]
  /\ failed = [t \in Runners |-> FALSE]
  /\ outcome = [t \in Runners |-> "none"]

Goto(t, p) == pc' = [pc EXCEPT ![t] = p]
On(l) == {e \in Events : e[1] = l}
Accepted(l) == {e \in On(l) : status[e] = "accepted"}
Queued(l) == Accepted(l) \ syncing       \* or in a consumer's batch
Mark(S, o) == status' = [e \in Events |-> IF e \in S THEN o ELSE status[e]]

-----------------------------------------------------------------------------
(* Lanes *)

\* Mutant: the closed test is made before the lock, and is stale.
CaptureUnchecked(l, e) ==
  /\ e \in On(l) /\ status[e] = "new"
  /\ Mark({e}, "accepted")
  /\ IF mode = "sync"
       THEN syncing' = syncing \cup {e} /\ UNCHANGED pc
       ELSE /\ UNCHANGED syncing
            /\ IF pc[l] = "off" THEN Goto(l, "idle") ELSE UNCHANGED pc
  /\ UNCHANGED <<mode, closed, running, drainOnStop, held, owner, requestVars,
                 doneVars, deferVars, pollerStopped, localVars, outcome>>

\* _enqueue: the queue of an asynchronous client, run_sync_if_open otherwise.
Capture(l, e) ==
  /\ e \in On(l) /\ status[e] = "new"
  /\ IF closed[l]
       THEN Mark({e}, "refused") /\ UNCHANGED <<syncing, pc>>
       ELSE /\ Mark({e}, "accepted")
            /\ IF mode = "sync"
                 THEN syncing' = syncing \cup {e} /\ UNCHANGED pc
                 ELSE /\ UNCHANGED syncing
                      /\ IF pc[l] = "off" THEN Goto(l, "idle") ELSE UNCHANGED pc
  /\ UNCHANGED <<mode, closed, running, drainOnStop, held, owner, requestVars,
                 doneVars, deferVars, pollerStopped, localVars, outcome>>

SyncEnd(e) ==
  /\ e \in syncing
  /\ syncing' = syncing \ {e}
  /\ Mark({e}, "attempted")
  /\ UNCHANGED <<mode, closed, running, drainOnStop, held, owner, requestVars,
                 doneVars, deferVars, pollerStopped, pc, localVars, outcome>>

\* upload: a consumer attempts an event; if that fails it runs on_error.
Deliver(l) ==
  /\ pc[l] = "idle" /\ (running[l] \/ drainOnStop[l])
  /\ \E e \in Queued(l) :
       \/ Mark({e}, "attempted") /\ UNCHANGED <<held, pc>>
       \/ held' = [held EXCEPT ![l] = e] /\ Goto(l, "callback") /\ UNCHANGED status
  /\ UNCHANGED <<mode, closed, running, drainOnStop, syncing, owner, requestVars,
                 doneVars, deferVars, pollerStopped, localVars, outcome>>

\* The poller runs the callbacks of the flag definition cache provider.
Poll(t) ==
  /\ t \in Pollers
  /\ pc[t] = "idle" /\ ~pollerStopped
  /\ Goto(t, "callback")
  /\ UNCHANGED <<laneVars, owner, requestVars, doneVars, deferVars, pollerStopped,
                 localVars, outcome>>

EndCallback(t) ==
  /\ pc[t] \in {"callback", "back"}
  /\ Goto(t, "idle")
  /\ IF t \in Lanes
       THEN Mark({held[t]}, "attempted") /\ held' = [held EXCEPT ![t] = NoEvent]
       ELSE UNCHANGED <<status, held>>
  /\ UNCHANGED <<mode, closed, running, drainOnStop, syncing, owner, requestVars,
                 doneVars, deferVars, pollerStopped, localVars, outcome>>

WorkerExit(t) ==
  /\ pc[t] = "idle"
  /\ IF t \in Pollers THEN pollerStopped ELSE ~running[t]
  /\ Goto(t, "exited")
  /\ UNCHANGED <<laneVars, owner, requestVars, doneVars, deferVars, pollerStopped,
                 localVars, outcome>>

-----------------------------------------------------------------------------
(* Calls *)

\* _is_lifecycle_callback_thread
InCallback(t) == t \in Workers

CanCall(t) ==
  \/ t \in Apps /\ pc[t] = "idle"
  \/ t \in Workers /\ pc[t] = "callback"

\* How a lifecycle call on t ends.
Returned(t) == IF t = Deferred THEN "tail" ELSE IF InCallback(t) THEN "back" ELSE "done"

SetOp(t, o) == op' = IF t \in Runners THEN [op EXCEPT ![t] = o] ELSE op

CallJoin(t) ==
  /\ CanCall(t)
  /\ joinRequested' = TRUE
  /\ SetOp(t, "join")
  /\ Goto(t, IF InCallback(t) THEN "defer" ELSE "enter")
  /\ UNCHANGED <<laneVars, owner, shutdownRequested, doneVars, deferVars,
                 pollerStopped, at, runShutdown, failed, outcome>>

CallShutdown(t) ==
  /\ CanCall(t)
  /\ SetOp(t, "shutdown")
  /\ IF shutdownComplete
       THEN /\ Goto(t, Returned(t))
            /\ IF t \in Apps
                 THEN outcome' = [outcome EXCEPT ![t] = IF cleanupFailed THEN "raised" ELSE "ok"]
                 ELSE UNCHANGED outcome
            /\ UNCHANGED shutdownRequested
       ELSE /\ Goto(t, IF InCallback(t) THEN "defer" ELSE "enter")
            /\ shutdownRequested' = TRUE
            /\ UNCHANGED outcome
  /\ UNCHANGED <<laneVars, owner, joinRequested, doneVars, deferVars, pollerStopped,
                 at, runShutdown, failed>>

\* Mutant: a cleanup that is running is taken to serve the request.
DeferUnlessOwned(t) ==
  /\ pc[t] = "defer"
  /\ dirty' = TRUE
  /\ pending' = (pending \/ owner = NoThread)
  /\ pc' = [u \in Threads |-> IF u = t THEN "back"
                              ELSE IF u = Deferred /\ ~pending /\ owner = NoThread
                                THEN "top" ELSE pc[u]]
  /\ UNCHANGED <<laneVars, owner, requestVars, doneVars, pollerStopped, localVars,
                 outcome>>

\* _defer_lifecycle_from_callback
Defer(t) ==
  /\ pc[t] = "defer"
  /\ dirty' = TRUE
  /\ pending' = TRUE
  /\ pc' = [u \in Threads |-> IF u = t THEN "back"
                              ELSE IF u = Deferred /\ ~pending THEN "top" ELSE pc[u]]
  /\ UNCHANGED <<laneVars, owner, requestVars, doneVars, pollerStopped, localVars,
                 outcome>>

\* The deferred thread clears the mark and picks its operation ...
DeferredTop ==
  /\ pc[Deferred] = "top"
  /\ dirty' = FALSE
  /\ op' = [op EXCEPT ![Deferred] = IF shutdownRequested THEN "shutdown" ELSE "join"]
  /\ Goto(Deferred, "enter")
  /\ UNCHANGED <<laneVars, owner, requestVars, doneVars, pending, pollerStopped, at,
                 runShutdown, failed, outcome>>

\* ... and ends unless it was marked again.
DeferredTail ==
  /\ pc[Deferred] = "tail"
  /\ IF dirty
       THEN Goto(Deferred, "top") /\ UNCHANGED pending
       ELSE Goto(Deferred, "off") /\ pending' = FALSE
  /\ UNCHANGED <<laneVars, owner, requestVars, doneVars, dirty, pollerStopped,
                 localVars, outcome>>

-----------------------------------------------------------------------------
(* _run_lifecycle: who runs it, and what a call waits for *)

\* Mutant: the end of the join satisfies a shutdown too.
SatisfiedByJoin(t) == shutdownComplete \/ joinCleanupComplete

Satisfied(t) == shutdownComplete \/ (op[t] = "join" /\ joinCleanupComplete)

\* _lifecycle_condition.notify_all, and t goes to p.
WakeAll(t, p) ==
  pc' = [u \in Threads |-> IF u = t THEN p
                           ELSE IF pc[u] = "waiting" THEN "enter" ELSE pc[u]]

\* Mutant: the owner is not looked at.
EnterAnyway(t) ==
  /\ pc[t] = "enter"
  /\ \/ /\ Satisfied(t)
        /\ Goto(t, Returned(t))
        /\ outcome' = [outcome EXCEPT ![t] = IF cleanupFailed THEN "raised" ELSE "ok"]
        /\ UNCHANGED owner
     \/ /\ ~Satisfied(t)
        /\ owner' = t
        /\ Goto(t, "decide")
        /\ UNCHANGED outcome
  /\ UNCHANGED <<laneVars, requestVars, doneVars, deferVars, pollerStopped, localVars>>

Enter(t) ==
  /\ pc[t] = "enter"
  /\ \/ /\ Satisfied(t)
        /\ Goto(t, Returned(t))
        /\ outcome' = [outcome EXCEPT ![t] = IF cleanupFailed THEN "raised" ELSE "ok"]
        /\ UNCHANGED owner
     \/ /\ ~Satisfied(t) /\ owner # NoThread
        /\ Goto(t, "waiting")
        /\ UNCHANGED <<owner, outcome>>
     \/ /\ ~Satisfied(t) /\ owner = NoThread
        /\ owner' = t
        /\ Goto(t, "decide")
        /\ UNCHANGED outcome
  /\ UNCHANGED <<laneVars, requestVars, doneVars, deferVars, pollerStopped, localVars>>

\* What follows the workers in _join_once and _shutdown_once.
AfterWorkers(shutdown) ==
  IF ~joinCleanupComplete THEN "poller" ELSE IF shutdown THEN "finish" ELSE "settle"

\* Mutant: a second round prepares the lanes again.
DecideAnew(t) ==
  /\ pc[t] = "decide"
  /\ runShutdown' = [runShutdown EXCEPT ![t] = shutdownRequested]
  /\ Goto(t, "close")
  /\ at' = [at EXCEPT ![t] = 1]
  /\ UNCHANGED <<laneVars, owner, requestVars, doneVars, deferVars, pollerStopped, op,
                 failed, outcome>>

Decide(t) ==
  /\ pc[t] = "decide"
  /\ runShutdown' = [runShutdown EXCEPT ![t] = shutdownRequested]
  /\ Goto(t, IF ~workersJoined THEN "close"
             ELSE IF shutdownRequested THEN "metrics" ELSE AfterWorkers(FALSE))
  /\ at' = [at EXCEPT ![t] = 1]
  /\ UNCHANGED <<laneVars, owner, requestVars, doneVars, deferVars, pollerStopped, op,
                 failed, outcome>>

-----------------------------------------------------------------------------
(* _shutdown_once, _join_once and _atexit, by the owner *)

\* The next lane of a loop at p, or what follows the loop.
Advance(t, p, next) ==
  IF at[t] < NumLanes
    THEN at' = [at EXCEPT ![t] = @ + 1] /\ Goto(t, p)
    ELSE at' = [at EXCEPT ![t] = 1] /\ Goto(t, next)

\* Mutant: only the first lane is closed.
CloseFirstLane(t) ==
  /\ pc[t] = "close"
  /\ closed' = [closed EXCEPT ![at[t]] = TRUE]
  /\ Goto(t, IF t = AtExit THEN "flush" ELSE "syncs")
  /\ UNCHANGED at
  /\ UNCHANGED <<mode, running, drainOnStop, status, syncing, held, owner, requestVars,
                 doneVars, deferVars, pollerStopped, op, runShutdown, failed,
                 outcome>>

CloseLane(t) ==
  /\ pc[t] = "close"
  /\ closed' = [closed EXCEPT ![at[t]] = TRUE]
  /\ Advance(t, "close", IF t = AtExit THEN "flush" ELSE "syncs")
  /\ UNCHANGED <<mode, running, drainOnStop, status, syncing, held, owner, requestVars,
                 doneVars, deferVars, pollerStopped, op, runShutdown, failed,
                 outcome>>

WaitForSyncSends(t) ==
  /\ pc[t] = "syncs"
  /\ syncing \cap On(at[t]) = {}
  /\ Advance(t, "syncs", "flush")
  /\ UNCHANGED <<laneVars, owner, requestVars, doneVars, deferVars, pollerStopped, op,
                 runShutdown, failed, outcome>>

\* Mutant: every flush has a time-out.
FlushLaneTimed(t) ==
  /\ pc[t] = "flush"
  /\ Advance(t, "flush", IF t = AtExit THEN "pause"
                         ELSE IF runShutdown[t] THEN "metrics" ELSE "stop")
  /\ UNCHANGED <<laneVars, owner, requestVars, doneVars, deferVars, pollerStopped, op,
                 runShutdown, failed, outcome>>

\* flush(None) ends when the lane is drained, and gives up what no consumer is
\* left to take; the exit handler's flush may end at any time.
FlushLane(t) ==
  /\ pc[t] = "flush"
  /\ \/ Queued(at[t]) = {} /\ UNCHANGED status
     \/ pc[at[t]] \in {"off", "exited"} /\ t # AtExit /\ Mark(Queued(at[t]), "lost")
     \/ t = AtExit /\ UNCHANGED status
  /\ Advance(t, "flush", IF t = AtExit THEN "pause"
                         ELSE IF runShutdown[t] THEN "metrics" ELSE "stop")
  /\ UNCHANGED <<mode, closed, running, drainOnStop, syncing, held, owner, requestVars,
                 doneVars, deferVars, pollerStopped, op, runShutdown, failed,
                 outcome>>

\* A cleanup step raises or not; the next one runs all the same.
MayFail(t) == \E bad \in BOOLEAN : failed' = [failed EXCEPT ![t] = @ \/ bad]

\* _metrics.flush and reset, between the drain of the lanes and their end
Metrics(t) ==
  /\ pc[t] = "metrics"
  /\ MayFail(t)
  /\ Goto(t, IF workersJoined THEN AfterWorkers(runShutdown[t]) ELSE "stop")
  /\ UNCHANGED <<laneVars, owner, requestVars, doneVars, deferVars, pollerStopped, op,
                 at, runShutdown, outcome>>

\* _Lane.join: stop the consumers, draining ...
StopLane(t) ==
  /\ pc[t] = "stop"
  /\ running' = [running EXCEPT ![at[t]] = FALSE]
  /\ drainOnStop' = [drainOnStop EXCEPT ![at[t]] = TRUE]
  /\ Goto(t, "joining")
  /\ UNCHANGED <<mode, closed, status, syncing, held, owner, requestVars, doneVars,
                 deferVars, pollerStopped, localVars, outcome>>

\* ... wait for them, and give up what they left.  After the last lane the
\* workers are joined for good.
JoinLane(t) ==
  /\ pc[t] = "joining"
  /\ pc[at[t]] \in {"off", "exited"}
  /\ Mark(Queued(at[t]), "lost")
  /\ workersJoined' = (at[t] = NumLanes)
  /\ Advance(t, "stop", AfterWorkers(runShutdown[t]))
  /\ UNCHANGED <<mode, closed, running, drainOnStop, syncing, held, owner, requestVars,
                 joinCleanupComplete, shutdownComplete, cleanupFailed, deferVars,
                 pollerStopped, op, runShutdown, failed, outcome>>

\* poller.stop: set the event ...
StopPoller(t) ==
  /\ pc[t] = "poller"
  /\ pollerStopped' = TRUE
  /\ Goto(t, "polled")
  /\ UNCHANGED <<laneVars, owner, requestVars, doneVars, deferVars, localVars,
                 outcome>>

PollerGone == \A t \in Pollers : pc[t] = "exited"

\* ... and join the thread.
JoinPoller(t) ==
  /\ pc[t] = "polled" /\ PollerGone
  /\ Goto(t, "provider")
  /\ UNCHANGED <<laneVars, owner, requestVars, doneVars, deferVars, pollerStopped,
                 localVars, outcome>>

\* Shut the cache provider down and unregister the client.
ShutdownProvider(t) ==
  /\ pc[t] = "provider"
  /\ MayFail(t)
  /\ joinCleanupComplete' = TRUE
  /\ Goto(t, IF runShutdown[t] THEN "finish" ELSE "settle")
  /\ UNCHANGED <<laneVars, owner, requestVars, workersJoined, shutdownComplete,
                 cleanupFailed, deferVars, pollerStopped, op, at, runShutdown, outcome>>

\* Clear the deduplication state and close the exception capture.
Finish(t) ==
  /\ pc[t] = "finish"
  /\ MayFail(t)
  /\ shutdownComplete' = TRUE
  /\ Goto(t, "settle")
  /\ UNCHANGED <<laneVars, owner, requestVars, workersJoined, joinCleanupComplete,
                 cleanupFailed, deferVars, pollerStopped, op, at, runShutdown, outcome>>

\* The owner gives the lifecycle up, its locals die, and its call ends with o.
Release(t, o) ==
  /\ owner' = NoThread
  /\ WakeAll(t, Returned(t))
  /\ outcome' = [outcome EXCEPT ![t] = o]
  /\ at' = [at EXCEPT ![t] = 1]
  /\ runShutdown' = [runShutdown EXCEPT ![t] = FALSE]
  /\ failed' = [failed EXCEPT ![t] = FALSE]

MustGoOn(t) == shutdownRequested /\ ~shutdownComplete /\ ~runShutdown[t]

\* The end of a round: go on with a shutdown requested meanwhile, or fail, or
\* release the lifecycle.
Settle(t) ==
  /\ pc[t] = "settle"
  /\ \/ /\ MustGoOn(t)
        /\ Goto(t, "decide")
        /\ UNCHANGED <<owner, cleanupFailed, outcome, at, runShutdown, failed>>
     \/ /\ ~MustGoOn(t) /\ failed[t]
        /\ cleanupFailed' = TRUE
        /\ Goto(t, "abort")
        /\ UNCHANGED <<owner, outcome, at, runShutdown, failed>>
     \/ /\ ~MustGoOn(t) /\ ~failed[t]
        /\ Release(t, "ok")
        /\ UNCHANGED cleanupFailed
  /\ UNCHANGED <<laneVars, requestVars, workersJoined, joinCleanupComplete,
                 shutdownComplete, deferVars, pollerStopped, op>>

\* `except BaseException`: release the lifecycle and raise.
Abort(t) ==
  /\ pc[t] = "abort"
  /\ Release(t, IF outcome[t] = "interrupted" THEN outcome[t] ELSE "raised")
  /\ UNCHANGED <<laneVars, requestVars, doneVars, deferVars, pollerStopped, op>>

\* A KeyboardInterrupt reaches a thread that runs the cleanup or waits for it.
Interrupt(t) ==
  /\ t \in Interruptible
  /\ \/ pc[t] \in OwnerPcs \ {"settle", "abort"} /\ Goto(t, "abort")
     \/ pc[t] \in {"enter", "waiting"} /\ Goto(t, "done")
  /\ outcome' = [outcome EXCEPT ![t] = "interrupted"]
  /\ UNCHANGED <<laneVars, owner, requestVars, doneVars, deferVars, pollerStopped,
                 localVars>>

-----------------------------------------------------------------------------
(* _atexit, registered by asynchronous clients only *)

ExitStart ==
  /\ mode = "async" /\ pc[AtExit] = "idle"
  /\ IF owner # NoThread
       THEN Goto(AtExit, "done") /\ UNCHANGED owner
       ELSE Goto(AtExit, "close") /\ owner' = AtExit
  /\ UNCHANGED <<laneVars, requestVars, doneVars, deferVars, pollerStopped, localVars,
                 outcome>>

\* consumer.pause: stop without draining
ExitPause ==
  /\ pc[AtExit] = "pause"
  /\ running' = [running EXCEPT ![at[AtExit]] = FALSE]
  /\ drainOnStop' = [drainOnStop EXCEPT ![at[AtExit]] = FALSE]
  /\ Advance(AtExit, "pause", "release")
  /\ UNCHANGED <<mode, closed, status, syncing, held, owner, requestVars, doneVars,
                 deferVars, pollerStopped, op, runShutdown, failed, outcome>>

ExitRelease ==
  /\ pc[AtExit] = "release"
  /\ owner' = NoThread
  /\ WakeAll(AtExit, "done")
  /\ UNCHANGED <<laneVars, requestVars, doneVars, deferVars, pollerStopped, localVars,
                 outcome>>

-----------------------------------------------------------------------------
WorkerStep(t) == EndCallback(t) \/ WorkerExit(t) \/ Defer(t)

RunnerStep(t) ==
  \/ Enter(t) \/ Decide(t) \/ CloseLane(t) \/ WaitForSyncSends(t) \/ FlushLane(t)
  \/ Metrics(t) \/ StopLane(t) \/ JoinLane(t) \/ StopPoller(t) \/ JoinPoller(t)
  \/ ShutdownProvider(t) \/ Finish(t) \/ Settle(t) \/ Abort(t)

DeferredStep == DeferredTop \/ DeferredTail

ExitStep == ExitPause \/ ExitRelease

Next ==
  \/ \E l \in Lanes, e \in Events : Capture(l, e)
  \/ \E e \in Events : SyncEnd(e)
  \/ \E l \in Lanes : Deliver(l)
  \/ \E t \in Pollers : Poll(t)
  \/ \E t \in Workers : WorkerStep(t)
  \/ \E t \in Apps \cup Workers : CallJoin(t) \/ CallShutdown(t)
  \/ \E t \in Runners : RunnerStep(t) \/ Interrupt(t)
  \/ DeferredStep
  \/ ExitStart
  \/ ExitStep

Spec == Init /\ [][Next]_vars

\* Threads run, sends and callbacks end, and a consumer attempts what it can
\* take before it exits.  Nobody has to capture, call or interrupt.
Fairness ==
  /\ \A t \in Workers : WF_vars(WorkerStep(t))
  /\ \A l \in Lanes : WF_vars(Deliver(l))
  /\ \A e \in Events : WF_vars(SyncEnd(e))
  /\ \A t \in Runners : WF_vars(RunnerStep(t))
  /\ WF_vars(DeferredStep)
  /\ WF_vars(ExitStep)

FairSpec == Spec /\ Fairness

-----------------------------------------------------------------------------
(* Properties *)

Interrupted == \E t \in Apps : outcome[t] = "interrupted"

(* The cleanup has one owner at a time, and _lifecycle_owner names it: no  *)
(* two threads are ever inside _join_once, _shutdown_once or _atexit.      *)
OneOwner == \A t \in Runners : pc[t] \in OwnerPcs <=> owner = t

(* A join() or shutdown() called by the application "blocks until queued   *)
(* events have been attempted and cleanup finishes", whoever does the      *)
(* cleanup: the call does not end, in an error or not, before all of it    *)
(* has been done, unless it is interrupted.                                *)
CallsBlock ==
  \A t \in Apps : outcome[t] \in {"ok", "raised"} =>
    /\ workersJoined /\ joinCleanupComplete
    /\ op[t] = "shutdown" => shutdownComplete

(* "Close every lane before draining any of them so no producer can be     *)
(* admitted between a completed flush and consumer shutdown": without an   *)
(* interrupt or an exit handler, no accepted event of any lane is given up *)
(* by the cleanup.                                                         *)
NothingLost ==
  ~Interrupted /\ pc[AtExit] \in {"idle", "off"}
    => \A e \in Events : status[e] # "lost"

(* "Lifecycle cleanup is attempted once": whatever the calls that overlap  *)
(* or repeat, and though steps fail, no part of it runs again once it has  *)
(* been done.                                                              *)
AttemptedOnce ==
  \A t \in Runners \ {AtExit} :
    /\ pc[t] \in {"close", "syncs", "flush", "stop", "joining"} => ~workersJoined
    /\ pc[t] \in {"poller", "polled", "provider"} => ~joinCleanupComplete
    /\ pc[t] \in {"metrics", "finish"} => ~shutdownComplete

(* Once the workers are joined, nothing is left to do on any lane: every   *)
(* consumer has exited and every event has its outcome; and that is also   *)
(* what the client reports complete, in this order.                        *)
CompletionOrder ==
  /\ workersJoined => \A l \in Lanes : closed[l] /\ Accepted(l) = {}
  /\ joinCleanupComplete => workersJoined /\ PollerGone
  /\ shutdownComplete => joinCleanupComplete

(* Each lane keeps the promise of LaneSpec to the end of the workers.      *)
Promise(l) == INSTANCE LaneSpec WITH
  Events <- On(l),
  Outcomes <- {"attempted", "lost"},
  status <- [e \in On(l) |-> status[e]],
  closed <- closed[l],
  finished <- workersJoined
LanesKeepPromise ==
  /\ \A l \in Lanes : Promise(l)!Init
  /\ [][\A l \in Lanes : [Promise(l)!Next]_(Promise(l)!vars)]_vars

(* Every call ends, from a callback or not.  In particular a callback      *)
(* never waits for a cleanup that waits for the callback's own thread.     *)
CallMade(t) == IF t \in Apps THEN pc[t] = "enter" ELSE pc[t] = "defer"
CallOver(t) == pc[t] \in IF t \in Apps THEN {"done"} ELSE {"idle", "exited"}
CallsReturn == \A t \in Apps \cup Workers : CallMade(t) ~> CallOver(t)

(* No request is forgotten: a join or a shutdown that was asked for is     *)
(* carried out, though the only caller was a callback, and though it was   *)
(* made while another operation was ending.                                *)
JoinDone == joinCleanupComplete \/ Interrupted
ShutdownDone == shutdownComplete \/ Interrupted
RequestsHonoured ==
  /\ joinRequested ~> JoinDone
  /\ shutdownRequested ~> ShutdownDone
=============================================================================
