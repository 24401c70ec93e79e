--------------------------- MODULE LifecycleProofs ---------------------------
(***************************************************************************)
(* Proofs about the end of a client (Lifecycle), for any number of lanes,  *)
(* events, application threads and pollers: every safety property its run  *)
(* checks, and that each lane keeps the promise of LaneSpec; at the end,   *)
(* what the run checks of AsyncRunner.  What is proved of Lifecycle are    *)
(* parts or consequences of one inductive invariant, IInv:                 *)
(*   Turns         where each thread may be, and that the owner named by   *)
(*                 _lifecycle_owner is the thread inside the cleanup       *)
(*   EventsPlaced  which accepted events are in a send or in a callback    *)
(*   Rounds, PhasesInOrder   what the flags of finished work say of the    *)
(*                 step the owner is at                                    *)
(*   LanesInOrder  what the owner's loops over the lanes have achieved     *)
(*   Answers       what a call may report, and when                        *)
(*   Served        who is left to attempt the events of a lane             *)
(***************************************************************************)
EXTENDS MCLifecycle, TLAPS

(* There is a first lane. *)
LEMMA FirstLane == 1 \in Lanes
BY LifecycleAssumption DEF Lanes

(* Every event belongs to a lane. *)
LEMMA EventLane == \A e \in Events : e[1] \in Lanes
BY DEF Events

(* A loop over the lanes is at the last one or before it. *)
LEMMA LastLane ==
  ASSUME TypeOK, NEW t \in Runners
  PROVE  at[t] < NumLanes <=> at[t] # NumLanes
<1>1. at[t] \in Lanes
  BY DEF TypeOK
<1>2. NumLanes \in Nat
  BY LifecycleAssumption
<1> QED
  BY <1>1, <1>2 DEF Lanes

(* A step of a loop over the lanes stays among the lanes. *)
LEMMA AdvanceType ==
  ASSUME TypeOK, NEW t \in Runners, NEW p \in Pcs, NEW next \in Pcs, Advance(t, p, next)
  PROVE  pc' \in [Threads -> Pcs] /\ at' \in [Runners -> Lanes]
<1>1. at[t] \in Lanes /\ NumLanes \in Nat
  BY LifecycleAssumption DEF TypeOK
<1>2. 1 \in Lanes /\ (at[t] < NumLanes => at[t] + 1 \in Lanes)
  BY <1>1, LifecycleAssumption DEF Lanes
<1> QED
  BY <1>2 DEF Advance, Goto, TypeOK

(* Events are marked with statuses. *)
LEMMA MarkType ==
  ASSUME TypeOK, NEW S, NEW o \in {"refused", "accepted", "attempted", "lost"}, Mark(S, o)
  PROVE  status' \in [Events -> {"new", "refused", "accepted", "attempted", "lost"}]
BY DEF TypeOK, Mark

(* The initial state is well typed. *)
LEMMA TypeInit == Init => TypeOK
<1> SUFFICES ASSUME Init PROVE TypeOK
  OBVIOUS
<1>1. pc \in [Threads -> Pcs]
  BY DEF Init, Pcs
<1>2. at \in [Runners -> Lanes]
  BY FirstLane DEF Init
<1> QED
  BY <1>1, <1>2 DEF Init, TypeOK

(* Every step keeps the variables well typed. *)
LEMMA TypeStep == TypeOK /\ [Next]_vars => TypeOK'
<1> SUFFICES ASSUME TypeOK, [Next]_vars PROVE TypeOK'
  OBVIOUS
<1> USE DEF TypeOK, laneVars, requestVars, doneVars, deferVars, localVars
<1>1. ASSUME NEW l \in Lanes, NEW e \in Events, Capture(l, e) PROVE TypeOK'
  BY <1>1, MarkType DEF Capture, Goto, Pcs, Threads, Workers, On
<1>2. ASSUME NEW e \in Events, SyncEnd(e) PROVE TypeOK'
  BY <1>2, MarkType DEF SyncEnd
<1>3. ASSUME NEW l \in Lanes, Deliver(l) PROVE TypeOK'
  BY <1>3, MarkType DEF Deliver, Queued, Accepted, On, Goto, Pcs, Threads, Workers
<1>4. ASSUME NEW t \in Pollers, Poll(t) PROVE TypeOK'
  BY <1>4 DEF Poll, Goto, Pcs, Threads, Workers
<1>5. ASSUME NEW t \in Workers, EndCallback(t) PROVE TypeOK'
  BY <1>5, MarkType DEF EndCallback, Goto, Pcs, Threads, Workers
<1>6. ASSUME NEW t \in Workers, WorkerExit(t) PROVE TypeOK'
  BY <1>6 DEF WorkerExit, Goto, Pcs, Threads, Workers
<1>7. ASSUME NEW t \in Workers, Defer(t) PROVE TypeOK'
  BY <1>7 DEF Defer, Pcs, Threads, Workers
<1>8. ASSUME NEW t \in Apps \cup Workers, CallJoin(t) PROVE TypeOK'
  BY <1>8 DEF CallJoin, SetOp, Goto, Pcs, OwnerPcs, Threads
<1>9. ASSUME NEW t \in Apps \cup Workers, CallShutdown(t) PROVE TypeOK'
  BY <1>9 DEF CallShutdown, SetOp, Returned, Goto, Pcs, OwnerPcs, Threads
<1>10. ASSUME DeferredTop PROVE TypeOK'
  BY <1>10 DEF DeferredTop, Goto, Pcs, Threads
<1>11. ASSUME DeferredTail PROVE TypeOK'
  BY <1>11 DEF DeferredTail, Goto, Pcs, Threads
<1>12. ASSUME NEW t \in Runners, Enter(t) PROVE TypeOK'
  BY <1>12 DEF Enter, Returned, Goto, Pcs, OwnerPcs, Threads
<1>13. ASSUME NEW t \in Runners, Decide(t) PROVE TypeOK'
  BY <1>13, FirstLane DEF Decide, AfterWorkers, Goto, Pcs, OwnerPcs, Threads
<1>14. ASSUME NEW t \in Runners, CloseLane(t) PROVE TypeOK'
  BY <1>14, AdvanceType DEF CloseLane, Pcs, OwnerPcs
<1>15. ASSUME NEW t \in Runners, WaitForSyncSends(t) PROVE TypeOK'
  BY <1>15, AdvanceType DEF WaitForSyncSends, Pcs, OwnerPcs
<1>16. ASSUME NEW t \in Runners, FlushLane(t) PROVE TypeOK'
  BY <1>16, AdvanceType, MarkType DEF FlushLane, Pcs, OwnerPcs
<1>17. ASSUME NEW t \in Runners, Metrics(t) PROVE TypeOK'
  BY <1>17 DEF Metrics, MayFail, AfterWorkers, Goto, Pcs, OwnerPcs, Threads
<1>18. ASSUME NEW t \in Runners, StopLane(t) PROVE TypeOK'
  BY <1>18 DEF StopLane, Goto, Pcs, OwnerPcs, Threads
<1>19. ASSUME NEW t \in Runners, JoinLane(t) PROVE TypeOK'
  BY <1>19, AdvanceType, MarkType DEF JoinLane, AfterWorkers, Pcs, OwnerPcs
<1>20. ASSUME NEW t \in Runners, StopPoller(t) PROVE TypeOK'
  BY <1>20 DEF StopPoller, Goto, Pcs, OwnerPcs, Threads
<1>21. ASSUME NEW t \in Runners, JoinPoller(t) PROVE TypeOK'
  BY <1>21 DEF JoinPoller, Goto, Pcs, OwnerPcs, Threads
<1>22. ASSUME NEW t \in Runners, ShutdownProvider(t) PROVE TypeOK'
  BY <1>22 DEF ShutdownProvider, MayFail, Goto, Pcs, OwnerPcs, Threads
<1>23. ASSUME NEW t \in Runners, Finish(t) PROVE TypeOK'
  BY <1>23 DEF Finish, MayFail, Goto, Pcs, OwnerPcs, Threads
<1>24. ASSUME NEW t \in Runners, Settle(t) PROVE TypeOK'
  <2>1. pc' \in [Threads -> Pcs]
    BY <1>24 DEF Settle, Release, WakeAll, Returned, Goto, Pcs, OwnerPcs, Threads
  <2> QED
    BY <1>24, <2>1, FirstLane DEF Settle, Release
<1>25. ASSUME NEW t \in Runners, Abort(t) PROVE TypeOK'
  BY <1>25, FirstLane DEF Abort, Release, WakeAll, Returned, Goto, Pcs, OwnerPcs, Threads
<1>26. ASSUME NEW t \in Runners, Interrupt(t) PROVE TypeOK'
  BY <1>26 DEF Interrupt, Goto, Pcs, OwnerPcs, Threads
<1>27. ASSUME ExitStart PROVE TypeOK'
  BY <1>27 DEF ExitStart, Goto, Pcs, OwnerPcs, Threads, Runners
<1>28. ASSUME ExitPause PROVE TypeOK'
  BY <1>28, AdvanceType DEF ExitPause, Pcs, OwnerPcs, Runners
<1>29. ASSUME ExitRelease PROVE TypeOK'
  BY <1>29 DEF ExitRelease, WakeAll, Pcs, Threads
<1>30. CASE UNCHANGED vars
  BY <1>30 DEF vars
<1> QED
  BY <1>1, <1>2, <1>3, <1>4, <1>5, <1>6, <1>7, <1>8, <1>9, <1>10, <1>11, <1>12, <1>13, <1>14,
     <1>15, <1>16, <1>17, <1>18, <1>19, <1>20, <1>21, <1>22, <1>23, <1>24, <1>25, <1>26, <1>27,
     <1>28, <1>29, <1>30 DEF Next, WorkerStep, RunnerStep, DeferredStep, ExitStep

(* The variables of the client's end keep their types. *)
THEOREM TypeCorrect == Spec => []TypeOK
BY TypeInit, TypeStep, PTL DEF Spec
-----------------------------------------------------------------------------
(* The threads that run _run_lifecycle. *)
Cleaners == Apps \cup {Deferred}
CleanerPcs == OwnerPcs \ {"pause", "release"}

(* Where each thread may be. *)
Places ==
  /\ \A t \in Workers : pc[t] \in {"off", "idle", "callback", "defer", "back", "exited"}
  /\ \A t \in Apps : pc[t] \in CleanerPcs \cup {"idle", "enter", "waiting", "done"}
  /\ pc[Deferred] \in CleanerPcs \cup {"off", "top", "enter", "waiting", "tail"}
  /\ pc[AtExit] \in {"idle", "close", "flush", "pause", "release", "done"}
  /\ ~pending => pc[Deferred] = "off"

Turns == Places /\ OneOwner

(* The threads of LifecycleAssumption are different threads. *)
LEMMA Apart ==
  /\ \A t \in Workers : t \in Threads /\ t \notin Runners
  /\ \A t \in Runners : t \in Threads /\ t \notin Workers /\ t # NoThread
  /\ \A t \in Lanes : t \in Workers
  /\ \A t \in Pollers : t \in Workers /\ t \notin Lanes
  /\ Deferred \in Runners /\ AtExit \in Runners /\ Deferred # AtExit
  /\ \A t \in Apps : t \in Runners /\ t # Deferred /\ t # AtExit
  /\ \A t \in Runners : t \in Apps \/ t = Deferred \/ t = AtExit
  /\ Interruptible \subseteq Apps
BY LifecycleAssumption DEF Threads, Workers, Runners

(* Every step keeps the lifecycle lock's discipline: a thread enters the
   cleanup only when nobody owns it, and leaves it with the ownership. *)
LEMMA TurnsInductive ==
  ASSUME TypeOK, Turns, [Next]_vars
  PROVE  Turns'
<1> USE Apart DEF Turns, Places, OneOwner, CleanerPcs, OwnerPcs, TypeOK, laneVars, requestVars,
   doneVars, deferVars, localVars
<1>1. ASSUME NEW l \in Lanes, NEW e \in Events, Capture(l, e) PROVE Turns'
  BY <1>1 DEF Capture, Goto, Mark, Workers
<1>2. ASSUME NEW e \in Events, SyncEnd(e) PROVE Turns'
  BY <1>2 DEF SyncEnd, Mark
<1>3. ASSUME NEW l \in Lanes, Deliver(l) PROVE Turns'
  BY <1>3 DEF Deliver, Goto, Mark, Workers
<1>4. ASSUME NEW t \in Pollers, Poll(t) PROVE Turns'
  BY <1>4 DEF Poll, Goto, Workers
<1>5. ASSUME NEW t \in Workers, EndCallback(t) PROVE Turns'
  BY <1>5 DEF EndCallback, Goto, Mark
<1>6. ASSUME NEW t \in Workers, WorkerExit(t) PROVE Turns'
  BY <1>6 DEF WorkerExit, Goto
<1>7. ASSUME NEW t \in Workers, Defer(t) PROVE Turns'
  BY <1>7 DEF Defer
<1>8. ASSUME NEW t \in Apps \cup Workers, CallJoin(t) PROVE Turns'
  BY <1>8 DEF CallJoin, SetOp, Goto, CanCall, InCallback
<1>9. ASSUME NEW t \in Apps \cup Workers, CallShutdown(t) PROVE Turns'
  BY <1>9 DEF CallShutdown, SetOp, Returned, Goto, CanCall, InCallback
<1>10. ASSUME DeferredTop PROVE Turns'
  BY <1>10 DEF DeferredTop, Goto
<1>11. ASSUME DeferredTail PROVE Turns'
  BY <1>11 DEF DeferredTail, Goto
<1>12. ASSUME NEW t \in Runners, Enter(t) PROVE Turns'
  BY <1>12 DEF Enter, Returned, Goto, InCallback
<1>13. ASSUME NEW t \in Runners, Decide(t) PROVE Turns'
  BY <1>13 DEF Decide, AfterWorkers, Goto
<1>14. ASSUME NEW t \in Runners, CloseLane(t) PROVE Turns'
  BY <1>14 DEF CloseLane, Advance, Goto
<1>15. ASSUME NEW t \in Runners, WaitForSyncSends(t) PROVE Turns'
  BY <1>15 DEF WaitForSyncSends, Advance, Goto
<1>16. ASSUME NEW t \in Runners, FlushLane(t) PROVE Turns'
  BY <1>16 DEF FlushLane, Advance, Goto, Mark
<1>17. ASSUME NEW t \in Runners, Metrics(t) PROVE Turns'
  BY <1>17 DEF Metrics, MayFail, AfterWorkers, Goto
<1>18. ASSUME NEW t \in Runners, StopLane(t) PROVE Turns'
  BY <1>18 DEF StopLane, Goto
<1>19. ASSUME NEW t \in Runners, JoinLane(t) PROVE Turns'
  BY <1>19 DEF JoinLane, AfterWorkers, Advance, Goto, Mark
<1>20. ASSUME NEW t \in Runners, StopPoller(t) PROVE Turns'
  BY <1>20 DEF StopPoller, Goto
<1>21. ASSUME NEW t \in Runners, JoinPoller(t) PROVE Turns'
  BY <1>21 DEF JoinPoller, Goto
<1>22. ASSUME NEW t \in Runners, ShutdownProvider(t) PROVE Turns'
  BY <1>22 DEF ShutdownProvider, MayFail, Goto
<1>23. ASSUME NEW t \in Runners, Finish(t) PROVE Turns'
  BY <1>23 DEF Finish, MayFail, Goto
<1>24. ASSUME NEW t \in Runners, Settle(t) PROVE Turns'
  <2>1. CASE MustGoOn(t)
    BY <1>24, <2>1 DEF Settle, Release, WakeAll, Returned, Goto, InCallback
  <2>2. CASE ~MustGoOn(t) /\ failed[t]
    BY <1>24, <2>2 DEF Settle, Release, WakeAll, Returned, Goto, InCallback
  <2>3. CASE ~MustGoOn(t) /\ ~failed[t]
    BY <1>24, <2>3 DEF Settle, Release, WakeAll, Returned, Goto, InCallback
  <2> QED
    BY <1>24, <2>1, <2>2, <2>3 DEF Settle
<1>25. ASSUME NEW t \in Runners, Abort(t) PROVE Turns'
  BY <1>25 DEF Abort, Release, WakeAll, Returned, Goto, InCallback
<1>26. ASSUME NEW t \in Runners, Interrupt(t) PROVE Turns'
  <2>1. CASE pc[t] \in OwnerPcs
    BY <1>26, <2>1 DEF Interrupt, Goto
  <2>2. CASE pc[t] \in {"enter", "waiting"}
    BY <1>26, <2>2 DEF Interrupt, Goto
  <2> QED
    BY <1>26, <2>1, <2>2 DEF Interrupt
<1>27. ASSUME ExitStart PROVE Turns'
  BY <1>27 DEF ExitStart, Goto
<1>28. ASSUME ExitPause PROVE Turns'
  BY <1>28 DEF ExitPause, Advance, Goto
<1>29. ASSUME ExitRelease PROVE Turns'
  BY <1>29 DEF ExitRelease, WakeAll
<1>30. CASE UNCHANGED vars
  BY <1>30 DEF vars
<1> QED
  BY <1>1, <1>2, <1>3, <1>4, <1>5, <1>6, <1>7, <1>8, <1>9, <1>10, <1>11, <1>12, <1>13, <1>14,
     <1>15, <1>16, <1>17, <1>18, <1>19, <1>20, <1>21, <1>22, <1>23, <1>24, <1>25, <1>26, <1>27,
     <1>28, <1>29, <1>30 DEF Next, WorkerStep, RunnerStep, DeferredStep, ExitStep

-----------------------------------------------------------------------------
(* An event in a synchronous send, or held by a consumer's callback, is
   accepted and not given an outcome by anybody else. *)
EventsPlaced ==
  /\ \A e \in syncing : status[e] = "accepted"
  /\ \A l \in Lanes :
       IF pc[l] \in {"callback", "defer", "back"}
         THEN held[l] \in Queued(l)
         ELSE held[l] = NoEvent

(* Every step keeps the events in sends and callbacks accepted. *)
LEMMA EventsPlacedInductive ==
  ASSUME TypeOK, Turns, EventsPlaced, [Next]_vars
  PROVE  EventsPlaced'
<1> USE Apart DEF EventsPlaced, Queued, Accepted, On, TypeOK, Turns, Places, laneVars,
   requestVars, doneVars, deferVars, localVars, Workers
<1>1. ASSUME NEW l \in Lanes, NEW e \in Events, Capture(l, e) PROVE EventsPlaced'
  BY <1>1 DEF Capture, Goto, Mark, Workers
<1>2. ASSUME NEW e \in Events, SyncEnd(e) PROVE EventsPlaced'
  BY <1>2 DEF SyncEnd, Mark
<1>3. ASSUME NEW l \in Lanes, Deliver(l) PROVE EventsPlaced'
  BY <1>3 DEF Deliver, Goto, Mark, Workers
<1>4. ASSUME NEW t \in Pollers, Poll(t) PROVE EventsPlaced'
  BY <1>4 DEF Poll, Goto, Workers
<1>5. ASSUME NEW t \in Workers, EndCallback(t) PROVE EventsPlaced'
  BY <1>5 DEF EndCallback, Goto, Mark
<1>6. ASSUME NEW t \in Workers, WorkerExit(t) PROVE EventsPlaced'
  BY <1>6 DEF WorkerExit, Goto
<1>7. ASSUME NEW t \in Workers, Defer(t) PROVE EventsPlaced'
  BY <1>7 DEF Defer
<1>8. ASSUME NEW t \in Apps \cup Workers, CallJoin(t) PROVE EventsPlaced'
  BY <1>8 DEF CallJoin, SetOp, Goto, CanCall, InCallback
<1>9. ASSUME NEW t \in Apps \cup Workers, CallShutdown(t) PROVE EventsPlaced'
  BY <1>9 DEF CallShutdown, SetOp, Returned, Goto, CanCall, InCallback
<1>10. ASSUME DeferredTop PROVE EventsPlaced'
  BY <1>10 DEF DeferredTop, Goto
<1>11. ASSUME DeferredTail PROVE EventsPlaced'
  BY <1>11 DEF DeferredTail, Goto
<1>12. ASSUME NEW t \in Runners, Enter(t) PROVE EventsPlaced'
  BY <1>12 DEF Enter, Returned, Goto, InCallback
<1>13. ASSUME NEW t \in Runners, Decide(t) PROVE EventsPlaced'
  BY <1>13 DEF Decide, AfterWorkers, Goto
<1>14. ASSUME NEW t \in Runners, CloseLane(t) PROVE EventsPlaced'
  BY <1>14 DEF CloseLane, Advance, Goto
<1>15. ASSUME NEW t \in Runners, WaitForSyncSends(t) PROVE EventsPlaced'
  BY <1>15 DEF WaitForSyncSends, Advance, Goto
<1>16. ASSUME NEW t \in Runners, FlushLane(t) PROVE EventsPlaced'
  BY <1>16 DEF FlushLane, Advance, Goto, Mark
<1>17. ASSUME NEW t \in Runners, Metrics(t) PROVE EventsPlaced'
  BY <1>17 DEF Metrics, MayFail, AfterWorkers, Goto
<1>18. ASSUME NEW t \in Runners, StopLane(t) PROVE EventsPlaced'
  BY <1>18 DEF StopLane, Goto
<1>19. ASSUME NEW t \in Runners, JoinLane(t) PROVE EventsPlaced'
  BY <1>19 DEF JoinLane, AfterWorkers, Advance, Goto, Mark
<1>20. ASSUME NEW t \in Runners, StopPoller(t) PROVE EventsPlaced'
  BY <1>20 DEF StopPoller, Goto
<1>21. ASSUME NEW t \in Runners, JoinPoller(t) PROVE EventsPlaced'
  BY <1>21 DEF JoinPoller, Goto
<1>22. ASSUME NEW t \in Runners, ShutdownProvider(t) PROVE EventsPlaced'
  BY <1>22 DEF ShutdownProvider, MayFail, Goto
<1>23. ASSUME NEW t \in Runners, Finish(t) PROVE EventsPlaced'
  BY <1>23 DEF Finish, MayFail, Goto
<1>24. ASSUME NEW t \in Runners, Settle(t) PROVE EventsPlaced'
  <2>1. CASE MustGoOn(t)
    BY <1>24, <2>1 DEF Settle, Release, WakeAll, Returned, Goto, InCallback
  <2>2. CASE ~MustGoOn(t) /\ failed[t]
    BY <1>24, <2>2 DEF Settle, Release, WakeAll, Returned, Goto, InCallback
  <2>3. CASE ~MustGoOn(t) /\ ~failed[t]
    BY <1>24, <2>3 DEF Settle, Release, WakeAll, Returned, Goto, InCallback
  <2> QED
    BY <1>24, <2>1, <2>2, <2>3 DEF Settle
<1>25. ASSUME NEW t \in Runners, Abort(t) PROVE EventsPlaced'
  BY <1>25 DEF Abort, Release, WakeAll, Returned, Goto, InCallback
<1>26. ASSUME NEW t \in Runners, Interrupt(t) PROVE EventsPlaced'
  BY <1>26 DEF Interrupt, Goto
<1>27. ASSUME ExitStart PROVE EventsPlaced'
  BY <1>27 DEF ExitStart, Goto
<1>28. ASSUME ExitPause PROVE EventsPlaced'
  BY <1>28 DEF ExitPause, Advance, Goto
<1>29. ASSUME ExitRelease PROVE EventsPlaced'
  BY <1>29 DEF ExitRelease, WakeAll
<1>30. CASE UNCHANGED vars
  BY <1>30 DEF vars
<1> QED
  BY <1>1, <1>2, <1>3, <1>4, <1>5, <1>6, <1>7, <1>8, <1>9, <1>10, <1>11, <1>12, <1>13, <1>14,
     <1>15, <1>16, <1>17, <1>18, <1>19, <1>20, <1>21, <1>22, <1>23, <1>24, <1>25, <1>26, <1>27,
     <1>28, <1>29, <1>30 DEF Next, WorkerStep, RunnerStep, DeferredStep, ExitStep

-----------------------------------------------------------------------------
LanePcs == {"close", "syncs", "flush", "stop", "joining"}
JoinPcs == {"poller", "polled", "provider"}

(* Where the owner is tells which parts of the cleanup are done. *)
Rounds ==
  \A t \in Cleaners :
    /\ pc[t] \in OwnerPcs \ {"settle", "abort"} => ~shutdownComplete
    /\ pc[t] \in LanePcs => ~workersJoined
    /\ pc[t] \in JoinPcs => workersJoined /\ ~joinCleanupComplete
    /\ pc[t] = "provider" => PollerGone
    /\ pc[t] \in {"finish", "settle"} => joinCleanupComplete

(* The parts of the cleanup are completed in order. *)
PhasesInOrder ==
  /\ joinCleanupComplete => workersJoined /\ PollerGone
  /\ shutdownComplete => joinCleanupComplete

(* Every step keeps the flags of finished work in step with the owner. *)
LEMMA RoundsInductive ==
  ASSUME TypeOK, Turns, Rounds, PhasesInOrder, [Next]_vars
  PROVE  (Rounds /\ PhasesInOrder)'
<1> USE Apart DEF Rounds, PhasesInOrder, PollerGone, LanePcs, JoinPcs, OwnerPcs, TypeOK, Turns,
   Places, OneOwner, Cleaners, laneVars, requestVars, doneVars, deferVars, localVars
<1>1. ASSUME NEW l \in Lanes, NEW e \in Events, Capture(l, e) PROVE (Rounds /\ PhasesInOrder)'
  BY <1>1 DEF Capture, Goto, Mark, Workers
<1>2. ASSUME NEW e \in Events, SyncEnd(e) PROVE (Rounds /\ PhasesInOrder)'
  BY <1>2 DEF SyncEnd, Mark
<1>3. ASSUME NEW l \in Lanes, Deliver(l) PROVE (Rounds /\ PhasesInOrder)'
  BY <1>3 DEF Deliver, Goto, Mark, Workers
<1>4. ASSUME NEW t \in Pollers, Poll(t) PROVE (Rounds /\ PhasesInOrder)'
  BY <1>4 DEF Poll, Goto, Workers
<1>5. ASSUME NEW t \in Workers, EndCallback(t) PROVE (Rounds /\ PhasesInOrder)'
  BY <1>5 DEF EndCallback, Goto, Mark
<1>6. ASSUME NEW t \in Workers, WorkerExit(t) PROVE (Rounds /\ PhasesInOrder)'
  BY <1>6 DEF WorkerExit, Goto
<1>7. ASSUME NEW t \in Workers, Defer(t) PROVE (Rounds /\ PhasesInOrder)'
  BY <1>7 DEF Defer
<1>8. ASSUME NEW t \in Apps \cup Workers, CallJoin(t) PROVE (Rounds /\ PhasesInOrder)'
  BY <1>8 DEF CallJoin, SetOp, Goto, CanCall, InCallback
<1>9. ASSUME NEW t \in Apps \cup Workers, CallShutdown(t) PROVE (Rounds /\ PhasesInOrder)'
  BY <1>9 DEF CallShutdown, SetOp, Returned, Goto, CanCall, InCallback
<1>10. ASSUME DeferredTop PROVE (Rounds /\ PhasesInOrder)'
  BY <1>10 DEF DeferredTop, Goto
<1>11. ASSUME DeferredTail PROVE (Rounds /\ PhasesInOrder)'
  BY <1>11 DEF DeferredTail, Goto
<1>12. ASSUME NEW t \in Runners, Enter(t) PROVE (Rounds /\ PhasesInOrder)'
  BY <1>12 DEF Enter, Returned, Goto, InCallback, Satisfied
<1>13. ASSUME NEW t \in Runners, Decide(t) PROVE (Rounds /\ PhasesInOrder)'
  BY <1>13 DEF Decide, AfterWorkers, Goto
<1>14. ASSUME NEW t \in Runners, CloseLane(t) PROVE (Rounds /\ PhasesInOrder)'
  BY <1>14 DEF CloseLane, Advance, Goto
<1>15. ASSUME NEW t \in Runners, WaitForSyncSends(t) PROVE (Rounds /\ PhasesInOrder)'
  BY <1>15 DEF WaitForSyncSends, Advance, Goto
<1>16. ASSUME NEW t \in Runners, FlushLane(t) PROVE (Rounds /\ PhasesInOrder)'
  BY <1>16 DEF FlushLane, Advance, Goto, Mark
<1>17. ASSUME NEW t \in Runners, Metrics(t) PROVE (Rounds /\ PhasesInOrder)'
  BY <1>17 DEF Metrics, MayFail, AfterWorkers, Goto
<1>18. ASSUME NEW t \in Runners, StopLane(t) PROVE (Rounds /\ PhasesInOrder)'
  BY <1>18 DEF StopLane, Goto
<1>19. ASSUME NEW t \in Runners, JoinLane(t) PROVE (Rounds /\ PhasesInOrder)'
  <2>1. CASE at[t] < NumLanes
    <3>1. at[t] # NumLanes
      BY <2>1, LastLane
    <3>2. ~workersJoined' /\ pc' = [pc EXCEPT ![t] = "stop"]
      BY <1>19, <2>1, <3>1 DEF JoinLane, Advance, Goto
    <3> QED
      BY <1>19, <3>2 DEF JoinLane
  <2>2. CASE at[t] = NumLanes /\ ~(at[t] < NumLanes)
    <3>1. workersJoined' /\ ~joinCleanupComplete
      BY <1>19, <2>2 DEF JoinLane
    <3>2. pc' = [pc EXCEPT ![t] = "poller"]
      BY <1>19, <2>2, <3>1 DEF JoinLane, AfterWorkers, Advance, Goto
    <3> QED
      BY <1>19, <3>1, <3>2 DEF JoinLane
  <2> QED
    BY <1>19, LastLane, <2>1, <2>2 DEF JoinLane
<1>20. ASSUME NEW t \in Runners, StopPoller(t) PROVE (Rounds /\ PhasesInOrder)'
  BY <1>20 DEF StopPoller, Goto
<1>21. ASSUME NEW t \in Runners, JoinPoller(t) PROVE (Rounds /\ PhasesInOrder)'
  BY <1>21 DEF JoinPoller, Goto
<1>22. ASSUME NEW t \in Runners, ShutdownProvider(t) PROVE (Rounds /\ PhasesInOrder)'
  BY <1>22 DEF ShutdownProvider, MayFail, Goto
<1>23. ASSUME NEW t \in Runners, Finish(t) PROVE (Rounds /\ PhasesInOrder)'
  BY <1>23 DEF Finish, MayFail, Goto
<1>24. ASSUME NEW t \in Runners, Settle(t) PROVE (Rounds /\ PhasesInOrder)'
  <2>1. CASE MustGoOn(t)
    BY <1>24, <2>1 DEF Settle, Release, WakeAll, Returned, Goto, InCallback, MustGoOn
  <2>2. CASE ~MustGoOn(t) /\ failed[t]
    BY <1>24, <2>2 DEF Settle, Release, WakeAll, Returned, Goto, InCallback, MustGoOn
  <2>3. CASE ~MustGoOn(t) /\ ~failed[t]
    BY <1>24, <2>3 DEF Settle, Release, WakeAll, Returned, Goto, InCallback, MustGoOn
  <2> QED
    BY <1>24, <2>1, <2>2, <2>3 DEF Settle
<1>25. ASSUME NEW t \in Runners, Abort(t) PROVE (Rounds /\ PhasesInOrder)'
  BY <1>25 DEF Abort, Release, WakeAll, Returned, Goto, InCallback
<1>26. ASSUME NEW t \in Runners, Interrupt(t) PROVE (Rounds /\ PhasesInOrder)'
  <2>1. CASE pc[t] \in OwnerPcs
    BY <1>26, <2>1 DEF Interrupt, Goto
  <2>2. CASE pc[t] \in {"enter", "waiting"}
    BY <1>26, <2>2 DEF Interrupt, Goto
  <2> QED
    BY <1>26, <2>1, <2>2 DEF Interrupt
<1>27. ASSUME ExitStart PROVE (Rounds /\ PhasesInOrder)'
  BY <1>27 DEF ExitStart, Goto
<1>28. ASSUME ExitPause PROVE (Rounds /\ PhasesInOrder)'
  BY <1>28 DEF ExitPause, Advance, Goto
<1>29. ASSUME ExitRelease PROVE (Rounds /\ PhasesInOrder)'
  BY <1>29 DEF ExitRelease, WakeAll
<1>30. CASE UNCHANGED vars
  BY <1>30 DEF vars
<1> QED
  BY <1>1, <1>2, <1>3, <1>4, <1>5, <1>6, <1>7, <1>8, <1>9, <1>10, <1>11, <1>12, <1>13, <1>14,
     <1>15, <1>16, <1>17, <1>18, <1>19, <1>20, <1>21, <1>22, <1>23, <1>24, <1>25, <1>26, <1>27,
     <1>28, <1>29, <1>30 DEF Next, WorkerStep, RunnerStep, DeferredStep, ExitStep
(* A closed lane admits nothing: it stays closed, and no event of it becomes
   accepted or enters a synchronous send. *)
LEMMA NothingReopens ==
  ASSUME TypeOK, EventsPlaced, [Next]_vars, NEW l \in Lanes, closed[l]
  PROVE  /\ closed'[l]
         /\ \A e \in On(l) : e \in syncing' => e \in syncing
         /\ \A e \in On(l) : status'[e] = "accepted" => status[e] = "accepted"
<1> DEFINE Stays == /\ closed'[l]
                    /\ \A e \in On(l) : e \in syncing' => e \in syncing
                    /\ \A e \in On(l) : status'[e] = "accepted" => status[e] = "accepted"
<1> USE DEF TypeOK, On, laneVars
<1>1. ASSUME NEW k \in Lanes, NEW e \in Events, Capture(k, e) PROVE Stays
  BY <1>1 DEF Capture, Mark
<1>2. ASSUME NEW e \in Events, SyncEnd(e) PROVE Stays
  BY <1>2 DEF SyncEnd, Mark
<1>3. ASSUME NEW k \in Lanes, Deliver(k) PROVE Stays
  BY <1>3 DEF Deliver, Mark
<1>4. ASSUME NEW t \in Workers, EndCallback(t) PROVE Stays
  BY <1>4 DEF EndCallback, Mark
<1>5. ASSUME NEW t \in Runners, CloseLane(t) PROVE Stays
  BY <1>5 DEF CloseLane
<1>6. ASSUME NEW t \in Runners, FlushLane(t) PROVE Stays
  BY <1>6 DEF FlushLane, Mark
<1>7. ASSUME NEW t \in Runners, StopLane(t) PROVE Stays
  BY <1>7 DEF StopLane
<1>8. ASSUME NEW t \in Runners, JoinLane(t) PROVE Stays
  BY <1>8 DEF JoinLane, Mark
<1>9. ASSUME ExitPause PROVE Stays
  BY <1>9 DEF ExitPause
<1>10. CASE UNCHANGED laneVars
  BY <1>10
<1>11. ASSUME NEW t \in Workers, WorkerExit(t) \/ Defer(t) PROVE UNCHANGED laneVars
  BY <1>11 DEF WorkerExit, Defer
<1>12. ASSUME NEW t, CallJoin(t) \/ CallShutdown(t) \/ Poll(t) PROVE UNCHANGED laneVars
  BY <1>12 DEF CallJoin, CallShutdown, Poll
<1>13. ASSUME NEW t \in Runners,
              \/ Enter(t) \/ Decide(t) \/ WaitForSyncSends(t) \/ Metrics(t) \/ StopPoller(t)
              \/ JoinPoller(t) \/ ShutdownProvider(t) \/ Finish(t) \/ Settle(t)
              \/ Abort(t) \/ Interrupt(t)
       PROVE  UNCHANGED laneVars
  BY <1>13 DEF Enter, Decide, WaitForSyncSends, Metrics, StopPoller, JoinPoller,
               ShutdownProvider, Finish, Settle, Abort, Interrupt
<1>14. ASSUME DeferredTop \/ DeferredTail \/ ExitStart \/ ExitRelease \/ UNCHANGED vars
       PROVE  UNCHANGED laneVars
  BY <1>14 DEF DeferredTop, DeferredTail, ExitStart, ExitRelease, vars
<1> QED
  BY <1>1, <1>2, <1>3, <1>4, <1>5, <1>6, <1>7, <1>8, <1>9, <1>10, <1>11, <1>12, <1>13, <1>14
     DEF Next, WorkerStep, RunnerStep, DeferredStep, ExitStep

(* The lanes a loop has passed, one step later and at its end. *)
LEMMA UpTo ==
  ASSUME TypeOK, NEW t \in Runners, NEW l \in Lanes
  PROVE  /\ ~(l < 1)
         /\ l < at[t] + 1 => l < at[t] \/ l = at[t]
         /\ at[t] = NumLanes => l < at[t] \/ l = at[t]
<1>1. at[t] \in Lanes /\ NumLanes \in Nat
  BY LifecycleAssumption DEF TypeOK
<1> QED
  BY <1>1 DEF Lanes

-----------------------------------------------------------------------------
AllClosed == \A l \in Lanes : closed[l]
AllSettled == \A l \in Lanes : Accepted(l) = {}

(* What a loop over the lanes has achieved at its current lane. *)
Progress(t) ==
  /\ pc[t] = "close" => \A l \in Lanes : l < at[t] => closed[l]
  /\ pc[t] \in {"syncs", "flush", "stop", "joining"} => AllClosed
  /\ pc[t] = "syncs" => \A l \in Lanes : l < at[t] => syncing \cap On(l) = {}
  /\ pc[t] \in {"flush", "stop", "joining"} => syncing = {}
  /\ pc[t] = "flush" => \A l \in Lanes : l < at[t] => Accepted(l) = {}
  /\ pc[t] \in {"stop", "joining"} => AllSettled
  /\ pc[t] = "metrics" /\ ~workersJoined => AllClosed /\ syncing = {} /\ AllSettled

LanesInOrder ==
  /\ workersJoined => AllClosed /\ AllSettled
  /\ \A t \in Cleaners : Progress(t)

(* Every step keeps what the owner's loops over the lanes have achieved:
   no lane is drained before all are closed, none is joined before all are
   drained. *)
LEMMA LanesInOrderInductive ==
  ASSUME TypeOK, Turns, EventsPlaced, Rounds, PhasesInOrder, LanesInOrder, [Next]_vars
  PROVE  LanesInOrder'
<1> USE Apart, NothingReopens DEF LanesInOrder, Progress, AllClosed, AllSettled, Accepted, On,
   Rounds, LanePcs, OwnerPcs, TypeOK, Turns, Places, OneOwner, Cleaners, laneVars, requestVars,
   doneVars, deferVars, localVars
<1>1. ASSUME NEW l \in Lanes, NEW e \in Events, Capture(l, e) PROVE LanesInOrder'
  BY <1>1 DEF Capture, Goto, Mark, Workers
<1>2. ASSUME NEW e \in Events, SyncEnd(e) PROVE LanesInOrder'
  BY <1>2 DEF SyncEnd, Mark
<1>3. ASSUME NEW l \in Lanes, Deliver(l) PROVE LanesInOrder'
  BY <1>3 DEF Deliver, Goto, Mark, Workers
<1>4. ASSUME NEW t \in Pollers, Poll(t) PROVE LanesInOrder'
  BY <1>4 DEF Poll, Goto, Workers
<1>5. ASSUME NEW t \in Workers, EndCallback(t) PROVE LanesInOrder'
  BY <1>5 DEF EndCallback, Goto, Mark
<1>6. ASSUME NEW t \in Workers, WorkerExit(t) PROVE LanesInOrder'
  BY <1>6 DEF WorkerExit, Goto
<1>7. ASSUME NEW t \in Workers, Defer(t) PROVE LanesInOrder'
  BY <1>7 DEF Defer
<1>8. ASSUME NEW t \in Apps \cup Workers, CallJoin(t) PROVE LanesInOrder'
  BY <1>8 DEF CallJoin, SetOp, Goto, CanCall, InCallback
<1>9. ASSUME NEW t \in Apps \cup Workers, CallShutdown(t) PROVE LanesInOrder'
  BY <1>9 DEF CallShutdown, SetOp, Returned, Goto, CanCall, InCallback
<1>10. ASSUME DeferredTop PROVE LanesInOrder'
  BY <1>10 DEF DeferredTop, Goto
<1>11. ASSUME DeferredTail PROVE LanesInOrder'
  BY <1>11 DEF DeferredTail, Goto
<1>12. ASSUME NEW t \in Runners, Enter(t) PROVE LanesInOrder'
  BY <1>12 DEF Enter, Returned, Goto, InCallback
<1>13. ASSUME NEW t \in Runners, Decide(t) PROVE LanesInOrder'
  BY <1>13, UpTo DEF Decide, AfterWorkers, Goto
<1>14. ASSUME NEW t \in Runners, CloseLane(t) PROVE LanesInOrder'
  <2>1. CASE at[t] < NumLanes
    BY <1>14, <2>1, UpTo, LastLane DEF CloseLane, Advance, Goto
  <2>2. CASE ~(at[t] < NumLanes)
    <3>1. AllClosed' \/ t = AtExit
      BY <1>14, <2>2, UpTo, LastLane DEF CloseLane
    <3>2. status' = status /\ syncing' = syncing /\ workersJoined' = workersJoined
      BY <1>14 DEF CloseLane
    <3>3. \A u \in Cleaners : u # t => pc'[u] = pc[u] /\ pc[u] \notin OwnerPcs
      BY <1>14 DEF CloseLane, Advance, Goto
    <3>4. pc'[t] \in {"syncs", "flush"} /\ (t # AtExit => pc'[t] = "syncs") /\ at'[t] = 1
      BY <1>14, <2>2 DEF CloseLane, Advance, Goto
    <3>5. workersJoined => AllClosed' /\ AllSettled'
      BY <3>2
    <3>6. \A u \in Cleaners : u # t => Progress(u)'
      BY <3>3
    <3>7. t \in Cleaners => Progress(t)'
      BY <3>1, <3>4, UpTo
    <3> HIDE DEF Progress, AllClosed, AllSettled, TypeOK
    <3> QED
      BY <3>2, <3>5, <3>6, <3>7
  <2> QED
    BY <1>14, UpTo, LastLane, <2>1, <2>2 DEF CloseLane
<1>15. ASSUME NEW t \in Runners, WaitForSyncSends(t) PROVE LanesInOrder'
  <2>1. CASE at[t] < NumLanes
    BY <1>15, <2>1, UpTo, LastLane DEF WaitForSyncSends, Advance, Goto
  <2>2. CASE ~(at[t] < NumLanes)
    <3>1. t \in Cleaners => syncing = {}
      <4>1. ASSUME t \in Cleaners, NEW e \in syncing PROVE FALSE
        <5>1. e[1] \in Lanes /\ e \in On(e[1])
          BY <4>1, EventLane
        <5>2. e[1] < at[t] \/ e[1] = at[t]
          BY <2>2, <5>1, UpTo, LastLane
        <5> QED
          BY <1>15, <4>1, <5>1, <5>2 DEF WaitForSyncSends
      <4> QED
        BY <4>1
    <3>2. UNCHANGED <<laneVars, doneVars>>
      BY <1>15 DEF WaitForSyncSends
    <3>3. \A u \in Cleaners : u # t => pc'[u] = pc[u] /\ pc[u] \notin OwnerPcs
      BY <1>15 DEF WaitForSyncSends, Advance, Goto
    <3>4. pc'[t] = "flush" /\ at'[t] = 1
      BY <1>15, <2>2 DEF WaitForSyncSends, Advance, Goto
    <3>5. workersJoined => AllClosed' /\ AllSettled'
      BY <3>2
    <3>6. \A u \in Cleaners : u # t => Progress(u)'
      BY <3>3
    <3>7. AllClosed' \/ t = AtExit
      BY <1>15, <3>2 DEF WaitForSyncSends
    <3>8. t \in Cleaners => Progress(t)'
      BY <3>1, <3>2, <3>4, <3>7, UpTo
    <3> HIDE DEF Progress, AllClosed, AllSettled, TypeOK
    <3> QED
      BY <3>2, <3>5, <3>6, <3>8
  <2> QED
    BY <1>15, UpTo, LastLane, <2>1, <2>2 DEF WaitForSyncSends
<1>16. ASSUME NEW t \in Runners, FlushLane(t) PROVE LanesInOrder'
  <2>1. \A l \in Lanes : closed[l] /\ Accepted(l) = {} => Accepted(l)' = {}
    OBVIOUS
  <2>2. ASSUME t \in Cleaners, NEW l \in Lanes, l = at[t] PROVE Accepted(l)' = {}
    <3>1. syncing = {} /\ t # AtExit
      BY <1>16, <2>2 DEF FlushLane
    <3>2. CASE Queued(at[t]) = {} /\ UNCHANGED status
      BY <2>2, <3>1, <3>2 DEF Queued
    <3>3. CASE Mark(Queued(at[t]), "lost")
      BY <2>2, <3>1, <3>3 DEF Queued, Mark
    <3> QED
      BY <1>16, <2>2, <3>1, <3>2, <3>3 DEF FlushLane
  <2> HIDE DEF Accepted
  <2>3. UNCHANGED <<closed, syncing, workersJoined>>
    BY <1>16 DEF FlushLane
  <2>4. \A u \in Cleaners : u # t => pc'[u] = pc[u] /\ pc[u] \notin OwnerPcs
    BY <1>16 DEF FlushLane, Advance, Goto
  <2>5. workersJoined => AllClosed' /\ AllSettled'
    BY <2>1, <2>3
  <2>6. \A u \in Cleaners : u # t => Progress(u)'
    BY <2>4
  <2>7. ASSUME t \in Cleaners PROVE Progress(t)'
    <3>1. AllClosed /\ AllClosed' /\ syncing' = {}
      BY <1>16, <2>3, <2>7 DEF FlushLane
    <3>4. \A l \in Lanes : l < at[t] => Accepted(l) = {}
      BY <1>16, <2>7 DEF FlushLane
    <3>2. CASE at[t] < NumLanes
      <4>1. pc'[t] = "flush" /\ at'[t] = at[t] + 1
        BY <1>16, <3>2 DEF FlushLane, Advance, Goto
      <4>2. \A l \in Lanes : l < at'[t] => Accepted(l)' = {}
        BY <2>1, <2>2, <2>7, <3>1, <3>4, <4>1, UpTo
      <4> QED
        BY <3>1, <4>1, <4>2
    <3>3. CASE ~(at[t] < NumLanes)
      <4>1. pc'[t] \in {"metrics", "stop"}
        BY <1>16, <2>7, <3>3 DEF FlushLane, Advance, Goto
      <4>2. AllSettled'
        BY <2>1, <2>2, <2>7, <3>1, <3>3, <3>4, UpTo, LastLane
      <4> QED
        BY <3>1, <4>1, <4>2
    <3> QED
      BY <3>2, <3>3
  <2> HIDE DEF Progress, AllClosed, AllSettled, TypeOK
  <2> QED
    BY <2>3, <2>5, <2>6, <2>7
<1>17. ASSUME NEW t \in Runners, Metrics(t) PROVE LanesInOrder'
  BY <1>17 DEF Metrics, MayFail, AfterWorkers, Goto
<1>18. ASSUME NEW t \in Runners, StopLane(t) PROVE LanesInOrder'
  BY <1>18 DEF StopLane, Goto
<1>19. ASSUME NEW t \in Runners, JoinLane(t) PROVE LanesInOrder'
  BY <1>19, UpTo, LastLane DEF JoinLane, AfterWorkers, Advance, Goto, Mark
<1>20. ASSUME NEW t \in Runners, StopPoller(t) PROVE LanesInOrder'
  BY <1>20 DEF StopPoller, Goto
<1>21. ASSUME NEW t \in Runners, JoinPoller(t) PROVE LanesInOrder'
  BY <1>21 DEF JoinPoller, Goto
<1>22. ASSUME NEW t \in Runners, ShutdownProvider(t) PROVE LanesInOrder'
  BY <1>22 DEF ShutdownProvider, MayFail, Goto
<1>23. ASSUME NEW t \in Runners, Finish(t) PROVE LanesInOrder'
  BY <1>23 DEF Finish, MayFail, Goto
<1>24. ASSUME NEW t \in Runners, Settle(t) PROVE LanesInOrder'
  <2>1. CASE MustGoOn(t)
    BY <1>24, <2>1 DEF Settle, Release, WakeAll, Returned, Goto, InCallback
  <2>2. CASE ~MustGoOn(t) /\ failed[t]
    BY <1>24, <2>2 DEF Settle, Release, WakeAll, Returned, Goto, InCallback
  <2>3. CASE ~MustGoOn(t) /\ ~failed[t]
    BY <1>24, <2>3 DEF Settle, Release, WakeAll, Returned, Goto, InCallback
  <2> QED
    BY <1>24, <2>1, <2>2, <2>3 DEF Settle
<1>25. ASSUME NEW t \in Runners, Abort(t) PROVE LanesInOrder'
  BY <1>25 DEF Abort, Release, WakeAll, Returned, Goto, InCallback
<1>26. ASSUME NEW t \in Runners, Interrupt(t) PROVE LanesInOrder'
  <2>1. CASE pc[t] \in OwnerPcs
    BY <1>26, <2>1 DEF Interrupt, Goto
  <2>2. CASE pc[t] \in {"enter", "waiting"}
    BY <1>26, <2>2 DEF Interrupt, Goto
  <2> QED
    BY <1>26, <2>1, <2>2 DEF Interrupt
<1>27. ASSUME ExitStart PROVE LanesInOrder'
  BY <1>27 DEF ExitStart, Goto
<1>28. ASSUME ExitPause PROVE LanesInOrder'
  BY <1>28 DEF ExitPause, Advance, Goto
<1>29. ASSUME ExitRelease PROVE LanesInOrder'
  BY <1>29 DEF ExitRelease, WakeAll
<1>30. CASE UNCHANGED vars
  BY <1>30 DEF vars
<1> QED
  BY <1>1, <1>2, <1>3, <1>4, <1>5, <1>6, <1>7, <1>8, <1>9, <1>10, <1>11, <1>12, <1>13, <1>14,
     <1>15, <1>16, <1>17, <1>18, <1>19, <1>20, <1>21, <1>22, <1>23, <1>24, <1>25, <1>26, <1>27,
     <1>28, <1>29, <1>30 DEF Next, WorkerStep, RunnerStep, DeferredStep, ExitStep
-----------------------------------------------------------------------------
(* A call is answered by the work done, its own or another thread's. *)
Answers ==
  /\ \A t \in Cleaners :
       /\ op[t] = "shutdown" => shutdownRequested \/ shutdownComplete
       /\ pc[t] = "settle" /\ runShutdown[t] => shutdownComplete
       /\ pc[t] = "abort" /\ outcome[t] # "interrupted" =>
            joinCleanupComplete /\ (op[t] = "shutdown" => shutdownComplete)
  /\ \A t \in Apps :
       /\ outcome[t] \in {"ok", "raised"} => pc[t] = "done"
       /\ outcome[t] = "interrupted" => pc[t] \in {"abort", "done"}
  /\ CallsBlock

(* Every step keeps a call from reporting more than has been done. *)
LEMMA AnswersInductive ==
  ASSUME TypeOK, Turns, Rounds, PhasesInOrder, Answers, [Next]_vars
  PROVE  Answers'
<1> USE Apart DEF Answers, CallsBlock, Rounds, PhasesInOrder, LanePcs, JoinPcs, OwnerPcs,
   CleanerPcs, TypeOK, Turns, Places, OneOwner, Cleaners, laneVars, requestVars, doneVars,
   deferVars, localVars
<1>1. ASSUME NEW l \in Lanes, NEW e \in Events, Capture(l, e) PROVE Answers'
  BY <1>1 DEF Capture, Goto, Mark, Workers
<1>2. ASSUME NEW e \in Events, SyncEnd(e) PROVE Answers'
  BY <1>2 DEF SyncEnd, Mark
<1>3. ASSUME NEW l \in Lanes, Deliver(l) PROVE Answers'
  BY <1>3 DEF Deliver, Goto, Mark, Workers
<1>4. ASSUME NEW t \in Pollers, Poll(t) PROVE Answers'
  BY <1>4 DEF Poll, Goto, Workers
<1>5. ASSUME NEW t \in Workers, EndCallback(t) PROVE Answers'
  BY <1>5 DEF EndCallback, Goto, Mark
<1>6. ASSUME NEW t \in Workers, WorkerExit(t) PROVE Answers'
  BY <1>6 DEF WorkerExit, Goto
<1>7. ASSUME NEW t \in Workers, Defer(t) PROVE Answers'
  BY <1>7 DEF Defer
<1>8. ASSUME NEW t \in Apps \cup Workers, CallJoin(t) PROVE Answers'
  BY <1>8 DEF CallJoin, SetOp, Goto, CanCall, InCallback
<1>9. ASSUME NEW t \in Apps \cup Workers, CallShutdown(t) PROVE Answers'
  <2>1. CASE shutdownComplete /\ t \in Apps
    <3>1. workersJoined /\ joinCleanupComplete
      BY <2>1
    <3>2. UNCHANGED <<requestVars, doneVars, runShutdown>>
      BY <1>9, <2>1 DEF CallShutdown
    <3>3. /\ \A u \in Runners : u # t => pc'[u] = pc[u] /\ op'[u] = op[u] /\ outcome'[u] = outcome[u]
          /\ pc'[t] = "done" /\ outcome'[t] \in {"ok", "raised"}
      BY <1>9, <2>1 DEF CallShutdown, SetOp, Returned, Goto, CanCall, InCallback
    <3> QED
      BY <2>1, <3>1, <3>2, <3>3
  <2>2. CASE shutdownComplete /\ t \in Workers
    BY <1>9, <2>2 DEF CallShutdown, SetOp, Returned, Goto, CanCall, InCallback
  <2>3. CASE ~shutdownComplete
    BY <1>9, <2>3 DEF CallShutdown, SetOp, Returned, Goto, CanCall, InCallback
  <2> QED
    BY <1>9, <2>1, <2>2, <2>3 DEF CallShutdown
<1>10. ASSUME DeferredTop PROVE Answers'
  BY <1>10 DEF DeferredTop, Goto
<1>11. ASSUME DeferredTail PROVE Answers'
  BY <1>11 DEF DeferredTail, Goto
<1>12. ASSUME NEW t \in Runners, Enter(t) PROVE Answers'
  BY <1>12 DEF Enter, Returned, Goto, InCallback, Satisfied
<1>13. ASSUME NEW t \in Runners, Decide(t) PROVE Answers'
  BY <1>13 DEF Decide, AfterWorkers, Goto
<1>14. ASSUME NEW t \in Runners, CloseLane(t) PROVE Answers'
  BY <1>14 DEF CloseLane, Advance, Goto
<1>15. ASSUME NEW t \in Runners, WaitForSyncSends(t) PROVE Answers'
  BY <1>15 DEF WaitForSyncSends, Advance, Goto
<1>16. ASSUME NEW t \in Runners, FlushLane(t) PROVE Answers'
  BY <1>16 DEF FlushLane, Advance, Goto, Mark
<1>17. ASSUME NEW t \in Runners, Metrics(t) PROVE Answers'
  BY <1>17 DEF Metrics, MayFail, AfterWorkers, Goto
<1>18. ASSUME NEW t \in Runners, StopLane(t) PROVE Answers'
  BY <1>18 DEF StopLane, Goto
<1>19. ASSUME NEW t \in Runners, JoinLane(t) PROVE Answers'
  BY <1>19 DEF JoinLane, AfterWorkers, Advance, Goto, Mark
<1>20. ASSUME NEW t \in Runners, StopPoller(t) PROVE Answers'
  BY <1>20 DEF StopPoller, Goto
<1>21. ASSUME NEW t \in Runners, JoinPoller(t) PROVE Answers'
  BY <1>21 DEF JoinPoller, Goto
<1>22. ASSUME NEW t \in Runners, ShutdownProvider(t) PROVE Answers'
  BY <1>22 DEF ShutdownProvider, MayFail, Goto
<1>23. ASSUME NEW t \in Runners, Finish(t) PROVE Answers'
  BY <1>23 DEF Finish, MayFail, Goto
<1>24. ASSUME NEW t \in Runners, Settle(t) PROVE Answers'
  <2>1. CASE MustGoOn(t)
    BY <1>24, <2>1 DEF Settle, Release, WakeAll, Returned, Goto, InCallback, MustGoOn
  <2>2. CASE ~MustGoOn(t) /\ failed[t]
    BY <1>24, <2>2 DEF Settle, Release, WakeAll, Returned, Goto, InCallback, MustGoOn
  <2>3. CASE ~MustGoOn(t) /\ ~failed[t]
    BY <1>24, <2>3 DEF Settle, Release, WakeAll, Returned, Goto, InCallback, MustGoOn
  <2> QED
    BY <1>24, <2>1, <2>2, <2>3 DEF Settle
<1>25. ASSUME NEW t \in Runners, Abort(t) PROVE Answers'
  BY <1>25 DEF Abort, Release, WakeAll, Returned, Goto, InCallback
<1>26. ASSUME NEW t \in Runners, Interrupt(t) PROVE Answers'
  <2>1. CASE pc[t] \in OwnerPcs \ {"settle", "abort"}
    BY <1>26, <2>1 DEF Interrupt, Goto
  <2>2. CASE pc[t] \in {"enter", "waiting"}
    BY <1>26, <2>2 DEF Interrupt, Goto
  <2> QED
    BY <1>26, <2>1, <2>2 DEF Interrupt
<1>27. ASSUME ExitStart PROVE Answers'
  BY <1>27 DEF ExitStart, Goto
<1>28. ASSUME ExitPause PROVE Answers'
  BY <1>28 DEF ExitPause, Advance, Goto
<1>29. ASSUME ExitRelease PROVE Answers'
  BY <1>29 DEF ExitRelease, WakeAll
<1>30. CASE UNCHANGED vars
  BY <1>30 DEF vars
<1> QED
  BY <1>1, <1>2, <1>3, <1>4, <1>5, <1>6, <1>7, <1>8, <1>9, <1>10, <1>11, <1>12, <1>13, <1>14,
     <1>15, <1>16, <1>17, <1>18, <1>19, <1>20, <1>21, <1>22, <1>23, <1>24, <1>25, <1>26, <1>27,
     <1>28, <1>29, <1>30 DEF Next, WorkerStep, RunnerStep, DeferredStep, ExitStep

-----------------------------------------------------------------------------
(* No call was interrupted and the exit handler has not run. *)
Calm == ~Interrupted /\ pc[AtExit] \in {"idle", "off"}

(* An interrupted call stays interrupted. *)
LEMMA InterruptedStays ==
  ASSUME TypeOK, Turns, Answers, [Next]_vars, Interrupted
  PROVE  Interrupted'
<1> USE Apart DEF TypeOK, Turns, Places, OneOwner, OwnerPcs, CleanerPcs, Answers, Runners
<1>1. ASSUME NEW t \in Apps, outcome[t] = "interrupted" PROVE outcome'[t] = "interrupted"
  <2>1. ASSUME NEW u \in Runners, Enter(u) \/ Settle(u) \/ Abort(u) \/ Interrupt(u)
        PROVE  outcome'[t] = "interrupted"
    BY <1>1, <2>1 DEF Enter, Settle, Abort, Interrupt, Release
  <2>2. ASSUME NEW u, CallShutdown(u) PROVE outcome'[t] = "interrupted"
    BY <1>1, <2>2 DEF CallShutdown, CanCall
  <2>3. CASE UNCHANGED outcome
    BY <1>1, <2>3
  <2>4. ASSUME NEW u \in Runners,
               \/ Decide(u) \/ CloseLane(u) \/ WaitForSyncSends(u) \/ FlushLane(u) \/ Metrics(u)
               \/ StopLane(u) \/ JoinLane(u) \/ StopPoller(u) \/ JoinPoller(u)
               \/ ShutdownProvider(u) \/ Finish(u)
        PROVE  UNCHANGED outcome
    BY <2>4 DEF Decide, CloseLane, WaitForSyncSends, FlushLane, Metrics, StopLane, JoinLane,
                StopPoller, JoinPoller, ShutdownProvider, Finish
  <2>5. ASSUME NEW u, NEW e, \/ Capture(u, e) \/ SyncEnd(e) \/ Deliver(u) \/ Poll(u)
                             \/ EndCallback(u) \/ WorkerExit(u) \/ Defer(u) \/ CallJoin(u)
        PROVE  UNCHANGED outcome
    BY <2>5 DEF Capture, SyncEnd, Deliver, Poll, EndCallback, WorkerExit, Defer, CallJoin
  <2>6. ASSUME \/ DeferredTop \/ DeferredTail \/ ExitStart \/ ExitPause \/ ExitRelease
               \/ UNCHANGED vars
        PROVE  UNCHANGED outcome
    BY <2>6 DEF DeferredTop, DeferredTail, ExitStart, ExitPause, ExitRelease, vars
  <2> QED
    BY <2>1, <2>2, <2>3, <2>4, <2>5, <2>6
       DEF Next, WorkerStep, RunnerStep, DeferredStep, ExitStep
<1> QED
  BY <1>1 DEF Interrupted

(* A lane without a consumer to come has nothing queued: one that was never
   started, or, in an undisturbed client, one that was stopped. *)
Served ==
  /\ \A l \in Lanes : pc[l] = "off" => Accepted(l) \subseteq syncing
  /\ \A l \in Lanes : pc[l] = "exited" => ~running[l]
  /\ Calm => \A l \in Lanes : ~running[l] => closed[l] /\ Accepted(l) = {}

(* Every step of an undisturbed client leaves a consumer to attempt what is
   accepted. *)
LEMMA ServedInductive ==
  ASSUME TypeOK, Turns, EventsPlaced, LanesInOrder, Answers, Served, [Next]_vars
  PROVE  Served'
<1> USE Apart, InterruptedStays DEF Served, Calm, LanesInOrder, Progress, AllClosed,
   AllSettled, Accepted, On, TypeOK, Turns, Places, Cleaners, OwnerPcs, laneVars, requestVars,
   doneVars, deferVars, localVars
<1>1. ASSUME NEW l \in Lanes, NEW e \in Events, Capture(l, e) PROVE Served'
  BY <1>1 DEF Capture, Goto, Mark, Workers
<1>2. ASSUME NEW e \in Events, SyncEnd(e) PROVE Served'
  BY <1>2 DEF SyncEnd, Mark
<1>3. ASSUME NEW l \in Lanes, Deliver(l) PROVE Served'
  BY <1>3 DEF Deliver, Goto, Mark, Workers
<1>4. ASSUME NEW t \in Pollers, Poll(t) PROVE Served'
  BY <1>4 DEF Poll, Goto, Workers
<1>5. ASSUME NEW t \in Workers, EndCallback(t) PROVE Served'
  BY <1>5 DEF EndCallback, Goto, Mark
<1>6. ASSUME NEW t \in Workers, WorkerExit(t) PROVE Served'
  BY <1>6 DEF WorkerExit, Goto
<1>7. ASSUME NEW t \in Workers, Defer(t) PROVE Served'
  BY <1>7 DEF Defer
<1>8. ASSUME NEW t \in Apps \cup Workers, CallJoin(t) PROVE Served'
  BY <1>8 DEF CallJoin, SetOp, Goto, CanCall, InCallback
<1>9. ASSUME NEW t \in Apps \cup Workers, CallShutdown(t) PROVE Served'
  BY <1>9 DEF CallShutdown, SetOp, Returned, Goto, CanCall, InCallback
<1>10. ASSUME DeferredTop PROVE Served'
  BY <1>10 DEF DeferredTop, Goto
<1>11. ASSUME DeferredTail PROVE Served'
  BY <1>11 DEF DeferredTail, Goto
<1>12. ASSUME NEW t \in Runners, Enter(t) PROVE Served'
  BY <1>12 DEF Enter, Returned, Goto, InCallback
<1>13. ASSUME NEW t \in Runners, Decide(t) PROVE Served'
  BY <1>13 DEF Decide, AfterWorkers, Goto
<1>14. ASSUME NEW t \in Runners, CloseLane(t) PROVE Served'
  BY <1>14 DEF CloseLane, Advance, Goto
<1>15. ASSUME NEW t \in Runners, WaitForSyncSends(t) PROVE Served'
  BY <1>15 DEF WaitForSyncSends, Advance, Goto
<1>16. ASSUME NEW t \in Runners, FlushLane(t) PROVE Served'
  BY <1>16, NothingReopens DEF FlushLane, Advance, Goto, Mark
<1>17. ASSUME NEW t \in Runners, Metrics(t) PROVE Served'
  BY <1>17 DEF Metrics, MayFail, AfterWorkers, Goto
<1>18. ASSUME NEW t \in Runners, StopLane(t) PROVE Served'
  BY <1>18 DEF StopLane, Goto
<1>19. ASSUME NEW t \in Runners, JoinLane(t) PROVE Served'
  BY <1>19, NothingReopens DEF JoinLane, AfterWorkers, Advance, Goto, Mark
<1>20. ASSUME NEW t \in Runners, StopPoller(t) PROVE Served'
  BY <1>20 DEF StopPoller, Goto
<1>21. ASSUME NEW t \in Runners, JoinPoller(t) PROVE Served'
  BY <1>21 DEF JoinPoller, Goto
<1>22. ASSUME NEW t \in Runners, ShutdownProvider(t) PROVE Served'
  BY <1>22 DEF ShutdownProvider, MayFail, Goto
<1>23. ASSUME NEW t \in Runners, Finish(t) PROVE Served'
  BY <1>23 DEF Finish, MayFail, Goto
<1>24. ASSUME NEW t \in Runners, Settle(t) PROVE Served'
  <2>1. CASE MustGoOn(t)
    BY <1>24, <2>1 DEF Settle, Release, WakeAll, Returned, Goto, InCallback
  <2>2. CASE ~MustGoOn(t) /\ failed[t]
    BY <1>24, <2>2 DEF Settle, Release, WakeAll, Returned, Goto, InCallback
  <2>3. CASE ~MustGoOn(t) /\ ~failed[t]
    BY <1>24, <2>3 DEF Settle, Release, WakeAll, Returned, Goto, InCallback
  <2> QED
    BY <1>24, <2>1, <2>2, <2>3 DEF Settle
<1>25. ASSUME NEW t \in Runners, Abort(t) PROVE Served'
  BY <1>25 DEF Abort, Release, WakeAll, Returned, Goto, InCallback
<1>26. ASSUME NEW t \in Runners, Interrupt(t) PROVE Served'
  <2>1. CASE pc[t] \in OwnerPcs \ {"settle", "abort"}
    BY <1>26, <2>1 DEF Interrupt, Goto
  <2>2. CASE pc[t] \in {"enter", "waiting"}
    BY <1>26, <2>2 DEF Interrupt, Goto
  <2> QED
    BY <1>26, <2>1, <2>2 DEF Interrupt
<1>27. ASSUME ExitStart PROVE Served'
  BY <1>27 DEF ExitStart, Goto
<1>28. ASSUME ExitPause PROVE Served'
  BY <1>28 DEF ExitPause, Advance, Goto, Calm
<1>29. ASSUME ExitRelease PROVE Served'
  BY <1>29 DEF ExitRelease, WakeAll
<1>30. CASE UNCHANGED vars
  BY <1>30 DEF vars
<1> QED
  BY <1>1, <1>2, <1>3, <1>4, <1>5, <1>6, <1>7, <1>8, <1>9, <1>10, <1>11, <1>12, <1>13, <1>14,
     <1>15, <1>16, <1>17, <1>18, <1>19, <1>20, <1>21, <1>22, <1>23, <1>24, <1>25, <1>26, <1>27,
     <1>28, <1>29, <1>30 DEF Next, WorkerStep, RunnerStep, DeferredStep, ExitStep

(* Marking accepted events is a step of each lane's promise. *)
LEMMA MarkSettles ==
  ASSUME TypeOK, NEW l \in Lanes, NEW S \in SUBSET Events, NEW o \in {"attempted", "lost"},
         Mark(S, o), \A e \in S : status[e] = "accepted", UNCHANGED <<closed, workersJoined>>
  PROVE  Promise(l)!Next
<1>1. Promise(l)!Settle(S \cap On(l), o)
  BY DEF Promise!Settle, Mark, On, TypeOK
<1> QED
  BY <1>1 DEF Promise!Next

(* Every step of the client is, on each lane, a step its promise allows or
   none. *)
LEMMA PromiseStep ==
  ASSUME TypeOK, Turns, EventsPlaced, Rounds, LanesInOrder, [Next]_vars, NEW l \in Lanes
  PROVE  [Promise(l)!Next]_(Promise(l)!vars)
<1> DEFINE Kept == [Promise(l)!Next]_(Promise(l)!vars)
<1> USE DEF TypeOK, On, laneVars
<1>1. ASSUME NEW k \in Lanes, NEW e \in Events, Capture(k, e) PROVE Kept
  <2>1. CASE l = k /\ closed[k]
    <3>1. Promise(l)!Refuse(e) /\ e \in On(l)
      BY <1>1, <2>1 DEF Capture, Mark, Promise!Refuse, doneVars
    <3> QED
      BY <3>1 DEF Promise!Next
  <2>2. CASE l = k /\ ~closed[k]
    <3>1. Promise(l)!Accept(e) /\ e \in On(l)
      BY <1>1, <2>2 DEF Capture, Mark, Promise!Accept, doneVars
    <3> QED
      BY <3>1 DEF Promise!Next
  <2>3. CASE l # k
    BY <1>1, <2>3 DEF Capture, Mark, Promise!vars, doneVars
  <2> QED
    BY <2>1, <2>2, <2>3
<1>2. ASSUME NEW e \in Events, SyncEnd(e) PROVE Kept
  BY <1>2, MarkSettles DEF SyncEnd, EventsPlaced, doneVars
<1>3. ASSUME NEW k \in Lanes, Deliver(k) PROVE Kept
  <2>1. CASE UNCHANGED status
    BY <1>3, <2>1 DEF Deliver, Promise!vars, doneVars
  <2>2. ASSUME NEW e \in Queued(k), Mark({e}, "attempted") PROVE Kept
    BY <1>3, <2>2, MarkSettles DEF Deliver, Queued, Accepted, doneVars
  <2> QED
    BY <1>3, <2>1, <2>2 DEF Deliver
<1>4. ASSUME NEW t \in Workers, EndCallback(t) PROVE Kept
  <2>1. CASE t \in Lanes
    <3>1. held[t] \in Events /\ status[held[t]] = "accepted"
      BY <1>4, <2>1 DEF EndCallback, EventsPlaced, Queued, Accepted
    <3> QED
      BY <1>4, <2>1, <3>1, MarkSettles DEF EndCallback, doneVars
  <2>2. CASE t \notin Lanes
    BY <1>4, <2>2 DEF EndCallback, Promise!vars, doneVars
  <2> QED
    BY <2>1, <2>2
<1>5. ASSUME NEW t \in Runners, CloseLane(t) PROVE Kept
  <2>1. CASE closed'[l] = closed[l]
    BY <1>5, <2>1 DEF CloseLane, Promise!vars, doneVars
  <2>2. CASE closed'[l] # closed[l]
    <3>1. Promise(l)!Close
      BY <1>5, <2>2 DEF CloseLane, Promise!Close, doneVars
    <3> QED
      BY <3>1 DEF Promise!Next
  <2> QED
    BY <2>1, <2>2
<1>6. ASSUME NEW t \in Runners, FlushLane(t) PROVE Kept
  <2>1. CASE UNCHANGED status
    BY <1>6, <2>1 DEF FlushLane, Promise!vars, doneVars
  <2>2. CASE Mark(Queued(at[t]), "lost")
    BY <1>6, <2>2, MarkSettles DEF FlushLane, Queued, Accepted, doneVars
  <2> QED
    BY <1>6, <2>1, <2>2 DEF FlushLane
<1>7. ASSUME NEW t \in Runners, JoinLane(t) PROVE Kept
  <2>1. t \in Cleaners /\ ~workersJoined /\ AllClosed /\ AllSettled
    BY <1>7, Apart DEF JoinLane, Turns, Places, Cleaners, Rounds, LanesInOrder, Progress,
       LanePcs
  <2>2. UNCHANGED <<status, closed>>
    BY <1>7, <2>1 DEF JoinLane, Mark, Queued, AllSettled
  <2>3. CASE workersJoined'
    <3>1. Promise(l)!Finish
      BY <2>1, <2>2, <2>3 DEF Promise!Finish, AllClosed, AllSettled, Accepted
    <3> QED
      BY <3>1 DEF Promise!Next
  <2>4. CASE ~workersJoined'
    BY <1>7, <2>1, <2>2, <2>4 DEF JoinLane, Promise!vars
  <2> QED
    BY <2>3, <2>4
<1>8. CASE UNCHANGED <<status, closed, workersJoined>>
  BY <1>8 DEF Promise!vars
<1>9. ASSUME NEW t \in Workers, WorkerExit(t) \/ Defer(t) PROVE UNCHANGED <<status, closed, workersJoined>>
  BY <1>9 DEF WorkerExit, Defer, doneVars
<1>10. ASSUME NEW t, CallJoin(t) \/ CallShutdown(t) \/ Poll(t) PROVE UNCHANGED <<status, closed, workersJoined>>
  BY <1>10 DEF CallJoin, CallShutdown, Poll, doneVars
<1>11. ASSUME NEW t \in Runners,
              \/ Enter(t) \/ Decide(t) \/ WaitForSyncSends(t) \/ Metrics(t) \/ StopLane(t)
              \/ StopPoller(t) \/ JoinPoller(t) \/ ShutdownProvider(t) \/ Finish(t)
              \/ Settle(t) \/ Abort(t) \/ Interrupt(t)
       PROVE  UNCHANGED <<status, closed, workersJoined>>
  BY <1>11 DEF Enter, Decide, WaitForSyncSends, Metrics, StopLane, StopPoller, JoinPoller,
               ShutdownProvider, Finish, Settle, Abort, Interrupt, doneVars
<1>12. ASSUME DeferredTop \/ DeferredTail \/ ExitStart \/ ExitPause \/ ExitRelease \/ UNCHANGED vars
       PROVE  UNCHANGED <<status, closed, workersJoined>>
  BY <1>12 DEF DeferredTop, DeferredTail, ExitStart, ExitPause, ExitRelease, vars, doneVars
<1> QED
  BY <1>1, <1>2, <1>3, <1>4, <1>5, <1>6, <1>7, <1>8, <1>9, <1>10, <1>11, <1>12
     DEF Next, WorkerStep, RunnerStep, DeferredStep, ExitStep

(* A client that is undisturbed after a step was so before it. *)
LEMMA CalmBefore ==
  ASSUME TypeOK, Turns, Answers, [Next]_vars, Calm'
  PROVE  Calm
<1> DEFINE Unstarted == {"idle", "off"}
<1> SUFFICES ASSUME pc[AtExit] \notin Unstarted PROVE pc'[AtExit] \notin Unstarted
  BY InterruptedStays DEF Calm
<1> USE Apart DEF TypeOK, Goto
<1>1. ASSUME NEW l \in Lanes, NEW e, Capture(l, e) \/ SyncEnd(e) \/ Deliver(l)
      PROVE  pc'[AtExit] = pc[AtExit]
  BY <1>1 DEF Capture, SyncEnd, Deliver
<1>2. ASSUME NEW t \in Workers, EndCallback(t) \/ WorkerExit(t) \/ Defer(t) \/ (t \in Pollers /\ Poll(t))
      PROVE  pc'[AtExit] = pc[AtExit]
  BY <1>2 DEF EndCallback, WorkerExit, Defer, Poll
<1>3. ASSUME NEW t \in Apps \cup Workers, CallJoin(t) \/ CallShutdown(t)
      PROVE  pc'[AtExit] = pc[AtExit]
  BY <1>3 DEF CallJoin, CallShutdown
<1>4. ASSUME NEW t \in Runners,
             \/ Enter(t) \/ Decide(t) \/ CloseLane(t) \/ WaitForSyncSends(t) \/ FlushLane(t)
             \/ Metrics(t) \/ StopLane(t) \/ JoinLane(t)
      PROVE  pc'[AtExit] \notin Unstarted
  BY <1>4 DEF Enter, Decide, CloseLane, WaitForSyncSends, FlushLane, Metrics, StopLane,
     JoinLane,
              Returned, InCallback, AfterWorkers, Advance
<1>5. ASSUME NEW t \in Runners,
             \/ StopPoller(t) \/ JoinPoller(t) \/ ShutdownProvider(t) \/ Finish(t)
             \/ Abort(t) \/ Settle(t) \/ Interrupt(t)
      PROVE  pc'[AtExit] \notin Unstarted
  BY <1>5 DEF StopPoller, JoinPoller, ShutdownProvider, Finish, Abort, Settle, Interrupt,
              Release, WakeAll, Returned, InCallback
<1>6. ASSUME DeferredTop \/ DeferredTail \/ ExitStart \/ ExitPause \/ ExitRelease \/ UNCHANGED vars
      PROVE  pc'[AtExit] \notin Unstarted
  BY <1>6 DEF DeferredTop, DeferredTail, ExitStart, ExitPause, ExitRelease, Advance, WakeAll,
     vars
<1> QED
  BY <1>1, <1>2, <1>3, <1>4, <1>5, <1>6 DEF Next, WorkerStep, RunnerStep, DeferredStep, ExitStep

(* No step of an undisturbed client gives an accepted event up. *)
LEMMA NothingLostInductive ==
  ASSUME TypeOK, Turns, EventsPlaced, LanesInOrder, Answers, Served, NothingLost, [Next]_vars
  PROVE  NothingLost'
<1> DEFINE NoneLost == \A e \in Events : status[e] # "lost"
<1> SUFFICES ASSUME Calm' PROVE NoneLost'
  BY DEF NothingLost, Calm
<1>0. Calm /\ NoneLost
  BY CalmBefore DEF NothingLost, Calm
<1>1. ASSUME NEW t \in Runners, FlushLane(t) PROVE NoneLost'
  <2>1. CASE t # AtExit /\ pc[at[t]] \in {"off", "exited"}
    <3>1. at[t] \in Lanes
      BY DEF TypeOK
    <3>2. Queued(at[t]) = {}
      BY <1>0, <1>1, <2>1, <3>1 DEF Served, Queued
    <3> QED
      BY <1>0, <1>1, <3>2 DEF FlushLane, Mark
  <2> QED
    BY <1>0, <1>1, <2>1 DEF FlushLane
<1>2. ASSUME NEW t \in Runners, JoinLane(t) PROVE NoneLost'
  BY <1>0, <1>2, Apart DEF JoinLane, Mark, Queued, TypeOK, Turns, Places, Cleaners,
     LanesInOrder,
                     Progress, AllSettled
<1>3. ASSUME NEW l, NEW e, Capture(l, e) \/ SyncEnd(e) \/ Deliver(l) PROVE NoneLost'
  BY <1>0, <1>3 DEF Capture, SyncEnd, Deliver, Mark
<1>4. ASSUME NEW t \in Workers, EndCallback(t) PROVE NoneLost'
  BY <1>0, <1>4 DEF EndCallback, Mark
<1>5. CASE UNCHANGED status
  BY <1>0, <1>5
<1>6. ASSUME NEW t, WorkerExit(t) \/ Defer(t) \/ Poll(t) \/ CallJoin(t) \/ CallShutdown(t)
      PROVE  UNCHANGED status
  BY <1>6 DEF WorkerExit, Defer, Poll, CallJoin, CallShutdown, laneVars
<1>7. ASSUME NEW t \in Runners,
             \/ Enter(t) \/ Decide(t) \/ CloseLane(t) \/ WaitForSyncSends(t) \/ Metrics(t)
             \/ StopLane(t) \/ StopPoller(t) \/ JoinPoller(t) \/ ShutdownProvider(t)
             \/ Finish(t) \/ Settle(t) \/ Abort(t) \/ Interrupt(t)
      PROVE  UNCHANGED status
  BY <1>7 DEF Enter, Decide, CloseLane, WaitForSyncSends, Metrics, StopLane, StopPoller,
              JoinPoller, ShutdownProvider, Finish, Settle, Abort, Interrupt, laneVars
<1>8. ASSUME DeferredTop \/ DeferredTail \/ ExitStart \/ ExitPause \/ ExitRelease \/ UNCHANGED vars
      PROVE  UNCHANGED status
  BY <1>8 DEF DeferredTop, DeferredTail, ExitStart, ExitPause, ExitRelease, vars, laneVars
<1> HIDE DEF NoneLost
<1> QED
  BY <1>1, <1>2, <1>3, <1>4, <1>5, <1>6, <1>7, <1>8
     DEF Next, WorkerStep, RunnerStep, DeferredStep, ExitStep

(* The inductive invariant. *)
IInv ==
  /\ TypeOK
  /\ Turns
  /\ EventsPlaced
  /\ Rounds
  /\ PhasesInOrder
  /\ LanesInOrder
  /\ Answers
  /\ Served
  /\ NothingLost

(* The invariant holds at the start. *)
LEMMA InitIInv == Init => IInv
<1> SUFFICES ASSUME Init PROVE IInv
  OBVIOUS
<1>1. TypeOK
  BY TypeInit
<1> USE Apart DEF Init
<1>2. Turns
  BY FirstLane DEF Turns, Places, OneOwner, OwnerPcs
<1>3. EventsPlaced
  BY DEF EventsPlaced
<1>4. Rounds /\ PhasesInOrder
  BY DEF Rounds, PhasesInOrder, OwnerPcs, LanePcs, JoinPcs, Cleaners
<1>5. LanesInOrder
  BY DEF LanesInOrder, Progress, Cleaners
<1>6. Answers
  BY DEF Answers, CallsBlock, Cleaners
<1>7. Served
  BY DEF Served, Accepted, On
<1>8. NothingLost
  BY DEF NothingLost
<1> QED
  BY <1>1, <1>2, <1>3, <1>4, <1>5, <1>6, <1>7, <1>8 DEF IInv

(* The inductive invariant holds in every reachable state. *)
THEOREM Invariance == Spec => []IInv
<1>1. IInv /\ [Next]_vars => IInv'
  BY TypeStep, TurnsInductive, EventsPlacedInductive, RoundsInductive, LanesInOrderInductive,
     AnswersInductive, ServedInductive, NothingLostInductive DEF IInv
<1> QED
  BY InitIInv, <1>1, PTL DEF Spec

(* No two threads are ever inside the cleanup, and _lifecycle_owner names the
   one that is. *)
THEOREM CleanupHasOneOwner == Spec => []OneOwner
<1>1. IInv => OneOwner
  BY DEF IInv, Turns
<1> QED
  BY Invariance, <1>1, PTL

(* However many calls overlap or repeat, and whatever steps of the cleanup
   fail, no part of it runs again once it has been done. *)
THEOREM CleanupIsAttemptedOnce == Spec => []AttemptedOnce
<1>1. IInv => AttemptedOnce
  BY Apart DEF IInv, AttemptedOnce, Rounds, LanePcs, JoinPcs, OwnerPcs, Cleaners
<1> QED
  BY Invariance, <1>1, PTL

(* The workers are reported joined only when every lane is closed and every
   accepted event has its outcome, the join complete only after that and the
   poller's exit, the shutdown complete only after the join. *)
THEOREM CompletionIsOrdered == Spec => []CompletionOrder
<1>1. IInv => CompletionOrder
  BY DEF IInv, CompletionOrder, PhasesInOrder, LanesInOrder, AllClosed, AllSettled
<1> QED
  BY Invariance, <1>1, PTL

(* A join() or shutdown() of the application that ends, in an error or not,
   ends after all it asked for has been done, unless it is interrupted. *)
THEOREM CallsBlockUntilDone == Spec => []CallsBlock
<1>1. IInv => CallsBlock
  BY DEF IInv, Answers
<1> QED
  BY Invariance, <1>1, PTL

(* Without an interrupt or an exit handler no accepted event is given up. *)
THEOREM NothingIsLost == Spec => []NothingLost
<1>1. IInv => NothingLost
  BY DEF IInv
<1> QED
  BY Invariance, <1>1, PTL

(* The client's end refines LaneSpec on every lane: no event is accepted after
   the lane is closed, and the workers are joined only when every accepted
   event of the lane has got the one outcome it keeps. *)
THEOREM EveryLaneKeepsItsPromise == Spec => LanesKeepPromise
<1>1. Init => \A l \in Lanes : Promise(l)!Init
  BY DEF Init, Promise!Init, On
<1>2. IInv /\ [Next]_vars => \A l \in Lanes : [Promise(l)!Next]_(Promise(l)!vars)
  BY PromiseStep DEF IInv
<1> QED
  BY Invariance, <1>1, <1>2, PTL DEF Spec, LanesKeepPromise
------------------------------------------------------------------------------
(* The background event loop of the run: AsyncRunner's proofs, of the      *)
(* runner that MCLifecycle has.                                            *)
R == INSTANCE AsyncRunnerProofs WITH None <- 0, pc <- callPc, outcome <- ending

(* Both instances of AsyncRunner say the same: of the constants, of the    *)
(* initial states, of each kind of step and of what is promised.           *)
LEMMA SameConstants == R!Numbered
<1>1. \A S : (B!IsFiniteSet(S) <=> R!IsFiniteSet(S)) /\ B!Cardinality(S) = R!Cardinality(S)
  BY DEF B!IsFiniteSet, R!IsFiniteSet, B!Cardinality, R!Cardinality
<1> QED
  BY <1>1, RunnerThreads DEF B!Numbered, R!Numbered, B!Actors, R!Actors

LEMMA SameInit == B!Init => R!Init
  BY DEF B!Init, R!Init, B!Actors, R!Actors

LEMMA SameRun == ASSUME NEW t PROVE B!CallRun(t) => R!CallRun(t)
  BY DEF B!CallRun, R!CallRun, B!Goto, R!Goto, B!runnerVars, R!runnerVars, B!loopVars, R!loopVars

LEMMA SameStart == ASSUME NEW t PROVE B!StartThread(t) => R!StartThread(t)
<1>1. \A S : B!Cardinality(S) = R!Cardinality(S)
  BY DEF B!Cardinality, R!Cardinality
<1> QED
  BY <1>1 DEF B!StartThread, R!StartThread, B!Goto, R!Goto, B!Alive, R!Alive

LEMMA SameRunStep == ASSUME NEW t PROVE B!RunStep(t) => R!RunStep(t)
<1>1. B!EnsureLoop(t) => R!EnsureLoop(t)
  BY SameStart DEF B!EnsureLoop, R!EnsureLoop, B!UseLoop, R!UseLoop, B!JoinStartup, R!JoinStartup,
    B!Goto, R!Goto, B!Alive, R!Alive, B!Closed, R!Closed, B!runnerVars, R!runnerVars, B!loopVars, R!loopVars
<1>2. B!StartupDone(t) => R!StartupDone(t)
  BY DEF B!StartupDone, R!StartupDone,
    B!Goto, R!Goto, B!EndCall, R!EndCall, B!Closed, R!Closed, B!runnerVars, R!runnerVars, B!loopVars, R!loopVars
<1>3. B!Schedule(t) => R!Schedule(t)
  BY DEF B!Schedule, R!Schedule,
    B!Goto, R!Goto, B!EndCall, R!EndCall, B!Closed, R!Closed, B!runnerVars, R!runnerVars, B!loopVars, R!loopVars
<1>4. B!Result(t) => R!Result(t)
  BY DEF B!Result, R!Result,
    B!Goto, R!Goto, B!EndCall, R!EndCall, B!Closed, R!Closed, B!runnerVars, R!runnerVars, B!loopVars, R!loopVars
<1> QED
  BY <1>1, <1>2, <1>3, <1>4 DEF B!RunStep, R!RunStep

LEMMA SameClose == ASSUME NEW a PROVE B!Close(a) \/ B!CloseStep(a) => R!Close(a) \/ R!CloseStep(a)
<1> USE DEF B!Goto, R!Goto, B!EndCall, R!EndCall, B!Closed, R!Closed, B!Alive, R!Alive,
            B!runnerVars, R!runnerVars, B!loopVars, R!loopVars, B!callVars, R!callVars
<1>1. B!Close(a) => R!Close(a)
  BY DEF B!Close, R!Close, B!MayClose, R!MayClose
<1>2. B!FoundClosed(a) => R!FoundClosed(a)
  BY DEF B!FoundClosed, R!FoundClosed
<1>3. B!FoundOpen(a) => R!FoundOpen(a)
  BY DEF B!FoundOpen, R!FoundOpen
<1>4. B!AskToStop(a) => R!AskToStop(a)
  BY DEF B!AskToStop, R!AskToStop
<1>5. B!Join(a) => R!Join(a)
  BY DEF B!Join, R!Join
<1> QED
  BY <1>1, <1>2, <1>3, <1>4, <1>5 DEF B!CloseStep, R!CloseStep

LEMMA SameLoop == ASSUME NEW g PROVE B!RunLoop(g) => R!RunLoop(g)
<1> USE DEF B!Goto, R!Goto, B!EndCall, R!EndCall, B!Closed, R!Closed, B!Alive, R!Alive,
            B!runnerVars, R!runnerVars, B!loopVars, R!loopVars, B!callVars, R!callVars
<1>1. B!Fails(g) => R!Fails(g)
  BY DEF B!Fails, R!Fails
<1>2. B!Publish(g) => R!Publish(g)
  BY DEF B!Publish, R!Publish
<1>3. B!Callback(g) => R!Callback(g)
  BY DEF B!Callback, R!Callback
<1>4. B!Cancel(g) => R!Cancel(g)
  BY DEF B!Cancel, R!Cancel, B!Tasks, R!Tasks
<1>5. B!CloseLoop(g) => R!CloseLoop(g)
  BY DEF B!CloseLoop, R!CloseLoop, B!Tasks, R!Tasks
<1>6. B!Forget(g) => R!Forget(g)
  BY DEF B!Forget, R!Forget
<1>7. ASSUME NEW t PROVE (B!Begin(t) => R!Begin(t)) /\ (B!Finish(t) => R!Finish(t))
  BY DEF B!Begin, R!Begin, B!Finish, R!Finish
<1> QED
  BY <1>1, <1>2, <1>3, <1>4, <1>5, <1>6, <1>7 DEF B!RunLoop, R!RunLoop

LEMMA SameStep == ASSUME B!Next \/ UNCHANGED loopVars PROVE [R!Next]_(R!vars)
<1>1. CASE B!Next
  BY <1>1, SameRun, SameRunStep, SameClose, SameLoop DEF B!Next, R!Next, B!Actors, R!Actors
<1>2. CASE UNCHANGED loopVars
  BY <1>2 DEF loopVars, R!vars, R!runnerVars, R!loopVars, R!callVars
<1> QED
  BY <1>1, <1>2

LEMMA SamePromises ==
  ASSUME R!IInv
  PROVE  B!AwaitableSettled /\ B!ThreadsOwned /\ B!CloseWaits /\ B!RunFinds /\ B!Forgotten
<1>1. R!AwaitableSettled /\ R!ThreadsOwned /\ R!CloseWaits /\ R!RunFinds /\ R!Forgotten
  BY SameConstants, R!RunnerSound
<1> QED
  BY <1>1 DEF B!AwaitableSettled, B!ThreadsOwned, B!CloseWaits, B!RunFinds, B!Forgotten,
    R!AwaitableSettled, R!ThreadsOwned, R!CloseWaits, R!RunFinds, R!Forgotten, B!Actors, R!Actors,
    B!Closed, R!Closed, B!Alive, R!Alive

(* Whatever the client's end is, its runner leaves no awaitable behind,    *)
(* knows the threads that awaitables run on, waits in close(), finds its   *)
(* loop in run() and remembers nothing that has ended.                     *)
THEOREM LoopIsOwned == EitherSpec => []LoopOwned
<1> DEFINE Inv == part = "runner" => R!IInv
<1>1. EitherInit => Inv
  BY SameConstants, SameInit, R!InitInvariant DEF EitherInit
<1>2. Inv /\ [EitherNext]_<<part, vars, loopVars>> => Inv'
  <2> SUFFICES ASSUME Inv, [EitherNext]_<<part, vars, loopVars>>, part' = "runner" PROVE R!IInv'
    OBVIOUS
  <2>1. R!IInv /\ (B!Next \/ UNCHANGED loopVars)
    BY DEF EitherNext
  <2>2. [R!Next]_(R!vars)
    BY <2>1, SameStep
  <2> QED
    BY <2>1, <2>2, SameConstants, R!StepInvariant
<1>3. Inv => LoopOwned
  BY SamePromises DEF LoopOwned
<1> QED
  BY <1>1, <1>2, <1>3, PTL DEF EitherSpec
==============================================================================
