------------------------------ MODULE MCLiveness -------------------------------
(***************************************************************************)
(* What must eventually happen, checked in one run: a behaviour is one of  *)
(* the metrics client (Metrics), of a capture lane (Lane), of the end of a *)
(* client (Lifecycle) with an event to send or with a flag poller, of one  *)
(* submission (CaptureV1) or of the background event loop (AsyncRunner),   *)
(* each on a small instance of its own, and leaves the other variables     *)
(* alone.                                                                  *)
(***************************************************************************)
EXTENDS Metrics, Integers, Sequences, TLC

CONSTANTS counter, gauge, f, t1, t2, t3, t4, t5,     \* Metrics
          app, poller, deferred, exit, none           \* Lifecycle

VARIABLES part,
  mode, closed, running, drainOnStop, status, syncing,                            \* Lane, Lifecycle
  started, queue, unfinished, requests, cpc, draining, items, hand, attempt, tpc, stage, toStop, asked,
  held, owner, joinRequested, shutdownRequested, workersJoined, joinCleanupComplete, shutdownComplete,
  cleanupFailed, pending, dirty, pollerStopped, endPc, op, at, runShutdown, failed, outcome,
  max_retries, posting, attempts, toPost, all_drops, heard, told,                 \* CaptureV1
  loop, thread, closing, startup, closeRequested, life, error, done, ready, awaitable, callPc, on, ending   \* AsyncRunner

bothVars == <<mode, closed, running, drainOnStop, status, syncing>>
laneVars == <<started, queue, unfinished, requests, cpc, draining, items, hand, attempt, tpc, stage, toStop, asked>>
endVars == <<held, owner, joinRequested, shutdownRequested, workersJoined, joinCleanupComplete, shutdownComplete,
             cleanupFailed, pending, dirty, pollerStopped, endPc, op, at, runShutdown, failed, outcome>>
submissionVars == <<max_retries, posting, attempts, toPost, all_drops, heard, told>>
loopVars == <<loop, thread, closing, startup, closeRequested, life, error, done, ready, awaitable, callPc, on, ending>>
all == <<part, vars, bothVars, laneVars, endVars, submissionVars, loopVars>>

(* One event, two consumers, a shutdown and an interpreter exit.           *)
L == INSTANCE Lane WITH
  Events <- {"e1"}, Unsendable <- {}, Consumers <- {"c1", "c2"}, Flushers <- {}, TimedFlushers <- {},
  Shutdown <- "shutdown", AtExit <- "exit", FlushAt <- 2, MaxQueueSize <- 0, Retries <- 1, NoEvent <- "no event"

(* One lane, a call of the application, calls from callbacks: an event's   *)
(* on_error or the poller's.                                               *)
E == INSTANCE Lifecycle WITH
  NumLanes <- 1, PerLane <- 1, Apps <- {app}, Interruptible <- {}, Pollers <- {}, Deferred <- deferred,
  AtExit <- exit, NoThread <- none, NoEvent <- none, pc <- endPc
P == INSTANCE Lifecycle WITH
  NumLanes <- 1, PerLane <- 0, Apps <- {app}, Interruptible <- {}, Pollers <- {poller}, Deferred <- deferred,
  AtExit <- exit, NoThread <- none, NoEvent <- none, pc <- endPc

(* A batch of two events.                                                  *)
S == INSTANCE CaptureV1 WITH
  Events <- {"e1", "e2"}, Retries <- {-1, 0, 3}, at <- posting, attempt <- attempts, pending <- toPost, outcome <- told

(* Two threads that run an awaitable or close the loop; an awaitable may   *)
(* close its own.                                                          *)
B == INSTANCE AsyncRunner WITH Callers <- {11, 12}, Loops <- {1, 2, 3}, None <- 0, pc <- callPc, outcome <- ending
------------------------------------------------------------------------------
NoLane ==
  /\ started = 0 /\ queue = 0 /\ unfinished = 0 /\ requests = 0 /\ cpc = 0 /\ draining = 0
  /\ items = 0 /\ hand = 0 /\ attempt = 0 /\ tpc = 0 /\ stage = 0 /\ toStop = 0 /\ asked = 0
NoEnd ==
  /\ held = 0 /\ owner = 0 /\ joinRequested = 0 /\ shutdownRequested = 0 /\ workersJoined = 0
  /\ joinCleanupComplete = 0 /\ shutdownComplete = 0 /\ cleanupFailed = 0 /\ pending = 0
  /\ dirty = 0 /\ pollerStopped = 0 /\ endPc = 0 /\ op = 0 /\ at = 0 /\ runShutdown = 0
  /\ failed = 0 /\ outcome = 0
NoSubmission ==
  /\ max_retries = 0 /\ posting = 0 /\ attempts = 0 /\ toPost = 0 /\ all_drops = 0 /\ heard = 0 /\ told = 0
NoLoop ==
  /\ loop = 0 /\ thread = 0 /\ closing = 0 /\ startup = 0 /\ closeRequested = 0 /\ life = 0 /\ error = 0
  /\ done = 0 /\ ready = 0 /\ awaitable = 0 /\ callPc = 0 /\ on = 0 /\ ending = 0
Neither == mode = 0 /\ closed = 0 /\ running = 0 /\ drainOnStop = 0 /\ status = 0 /\ syncing = 0
SumInit ==
  /\ part \in {"metrics", "lane", "event", "poller", "submission", "runner"}
  /\ Init /\ (part # "metrics" => sends)
  /\ IF part = "lane" THEN L!Init ELSE NoLane
  /\ IF part = "event" THEN E!Init ELSE IF part = "poller" THEN P!Init ELSE NoEnd
  /\ part \in {"metrics", "submission", "runner"} => Neither
  /\ IF part = "submission" THEN S!Init ELSE NoSubmission
  /\ IF part = "runner" THEN B!Init ELSE NoLoop

Either(inMetrics, inLane, withEvent, withPoller, inSubmission, inRunner) ==
  \/ part = "metrics" /\ inMetrics /\ UNCHANGED <<part, bothVars, laneVars, endVars, submissionVars, loopVars>>
  \/ part = "lane" /\ inLane /\ UNCHANGED <<part, vars, endVars, submissionVars, loopVars>>
  \/ part = "event" /\ withEvent /\ UNCHANGED <<part, vars, laneVars, submissionVars, loopVars>>
  \/ part = "poller" /\ withPoller /\ UNCHANGED <<part, vars, laneVars, submissionVars, loopVars>>
  \/ part = "submission" /\ inSubmission /\ UNCHANGED <<part, vars, bothVars, laneVars, endVars, loopVars>>
  \/ part = "runner" /\ inRunner /\ UNCHANGED <<part, vars, bothVars, laneVars, endVars, submissionVars>>
SumNext == Either(Next, L!Next, E!Next, P!Next, S!Next, B!Next)

(* The fairness of the modules.  A behaviour is of one part, so one fair   *)
(* action of each part makes one condition: it is that of the part.        *)
SumFairness ==
  /\ WF_all(Either(\E t \in Threads : FlushStep(t), L!ConsumerStep("c1"), E!WorkerStep(1), P!WorkerStep(1), S!Next, B!CallerStep(11)))
  /\ WF_all(Either(TimerStep(t1), L!ConsumerStep("c2"), E!Deliver(1), P!WorkerStep(poller), FALSE, B!CallerStep(12)))
  /\ WF_all(Either(TimerStep(t2), L!Called("shutdown") /\ L!CallerStep("shutdown"), E!SyncEnd(<<1, 1>>), FALSE, FALSE, B!LoopStep))
  /\ WF_all(Either(TimerStep(t3), L!Called("exit") /\ L!CallerStep("exit"), E!RunnerStep(app), P!RunnerStep(app), FALSE, FALSE))
  /\ WF_all(Either(TimerStep(t4), L!SyncEnd("e1"), E!RunnerStep(deferred), P!RunnerStep(deferred), FALSE, FALSE))
  /\ WF_all(Either(TimerStep(t5), L!ShutdownStep, E!RunnerStep(exit), P!RunnerStep(exit), FALSE, FALSE))
  /\ WF_all(Either(FALSE, FALSE, E!DeferredStep, P!DeferredStep, FALSE, FALSE))
  /\ WF_all(Either(FALSE, FALSE, E!ExitStep, P!ExitStep, FALSE, FALSE))
  /\ SF_all(Either(FALSE, L!FlushTimeout("exit"), FALSE, FALSE, FALSE, FALSE))
  /\ \A c \in {"c1", "c2"} : SF_all(Either(FALSE, L!CheckRunning(c) /\ cpc'[c] = "get", FALSE, FALSE, FALSE, FALSE))
SumSpec == SumInit /\ [][SumNext]_all /\ SumFairness
------------------------------------------------------------------------------
(* Lane, Lifecycle and AsyncRunner, CallsReturn: every flush, shutdown and *)
(* exit handler of a lane returns; every join() and shutdown() does, and   *)
(* one made in a callback never waits for a cleanup that waits for the     *)
(* callback; and run() and close() of the background loop return, however  *)
(* they meet.                                                              *)
Called(i) ==
  CASE part = "lane" -> L!Called(<<"shutdown", "exit">>[i])
    [] part = "event" -> E!CallMade(<<app, 1>>[i])
    [] part = "poller" -> P!CallMade(<<app, poller>>[i])
    [] part = "runner" -> B!Called(10 + i)
    [] OTHER -> FALSE
Returned(i) ==
  CASE part = "lane" -> L!Returned(<<"shutdown", "exit">>[i])
    [] part = "event" -> E!CallOver(<<app, 1>>[i])
    [] part = "poller" -> P!CallOver(<<app, poller>>[i])
    [] part = "runner" -> B!Over(10 + i)
    [] OTHER -> FALSE
CallsReturn == \A i \in 1..2 : Called(i) ~> Returned(i)

(* Metrics, Settles; Lane, EventsSettle; Lifecycle, RequestsHonoured;      *)
(* CaptureV1, Ends: what was asked for is done.  Every sample leaves the   *)
(* client, an event does not stay in its lane while a consumer runs, the   *)
(* cleanup that was requested is carried out, whoever requested it and     *)
(* when, and a submission ends whatever the server answers.                *)
Due(i) ==
  CASE part = "metrics" -> i <= captured
    [] part = "lane" -> L!Waiting("e1")
    [] part = "submission" -> TRUE
    [] part = "runner" -> FALSE
    [] OTHER -> <<joinRequested, shutdownRequested>>[i]
Done(i) ==
  CASE part = "metrics" -> Gone(i)
    [] part = "lane" -> L!Settled("e1")
    [] part = "submission" -> S!Ended
    [] part = "runner" -> TRUE
    [] OTHER -> <<E!JoinDone, E!ShutdownDone>>[i]
WorkIsDone == \A i \in 1..2 : Due(i) ~> Done(i)
================================================================================
