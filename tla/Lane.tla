-------------------------------- MODULE Lane --------------------------------
(***************************************************************************)
(* A capture lane of the client: a bounded queue, the pool of consumer     *)
(* threads that drains it in batches, the drain signal they share, and the *)
(* threads that flush the lane, shut it down or leave it at interpreter    *)
(* exit (client.py, class _Lane; consumer.py).                             *)
(*                                                                         *)
(* A step is what one thread does while it holds a lock (the queue's mutex *)
(* or the lane's _start_lock), or one read it does without one.  Time is   *)
(* abstract: a timed wait may end at any moment.  The payload of an event  *)
(* is abstract too: some events (Unsendable) fail to serialize or exceed   *)
(* the per-event limit, and any batch may reach BATCH_SIZE_LIMIT.          *)
(***************************************************************************)
EXTENDS Integers, FiniteSets, Sequences, Functions

CONSTANTS
  Events,          \* events captured on this lane, each captured once
  Unsendable,      \* those that do not serialize or exceed max_msg_size
  Consumers,       \* the consumer threads of the lane
  Flushers,        \* user threads in flush(None)
  TimedFlushers,   \* user threads in flush(timeout)
  Shutdown,        \* the thread that runs the lifecycle: close, flush, join
  AtExit,          \* the interpreter-exit handler: close, timed flush, pause
  FlushAt,         \* Consumer.flush_at, the largest batch
  MaxQueueSize,    \* the queue's maxsize, 0 for no limit
  Retries,         \* Consumer.retries
  NoEvent          \* the empty hand of a thread

Callers == Flushers \cup TimedFlushers \cup {Shutdown, AtExit}
Threads == Consumers \cup Callers

ASSUME LaneAssumption ==
  /\ IsFiniteSet(Events) /\ IsFiniteSet(Consumers)
  /\ IsFiniteSet(Flushers) /\ IsFiniteSet(TimedFlushers)
  /\ Unsendable \subseteq Events
  /\ NoEvent \notin Events
  /\ FlushAt \in Nat \ {0}
  /\ MaxQueueSize \in Nat
  /\ Retries \in Nat
  /\ Shutdown # AtExit
  /\ Flushers \cap TimedFlushers = {}
  /\ {Shutdown, AtExit} \cap (Flushers \cup TimedFlushers) = {}
  /\ Consumers \cap Callers = {}

Outcomes == {"sent", "failed", "dropped", "withheld", "discarded"}

VARIABLES
  mode,          \* "async", "sync" (sync_mode) or "unsent" (send=False)
  started,       \* _started
  closed,        \* _closed
  queue,         \* queue.queue
  unfinished,    \* queue.unfinished_tasks
  requests,      \* _DrainSignal._requests
  running,       \* Consumer.running
  drainOnStop,   \* Consumer._drain_on_stop
  cpc,           \* where each consumer is in run(), upload() and next()
  draining,      \* the local `draining` of next()
  items,         \* the batch each consumer has taken off the queue
  hand,          \* the event a thread has just dequeued
  attempt,       \* the local `attempt` of _send()
  tpc,           \* where each calling thread is
  stage,         \* which part of its call a calling thread runs
  toStop,        \* consumers a calling thread has yet to pause
  syncing,       \* events inside run_sync_if_open
  status,        \* what has become of each event
  asked          \* history: the events a flush(None) found accepted

laneVars == <<mode, started, closed>>
queueVars == <<queue, unfinished>>
stopVars == <<running, drainOnStop>>
consumerVars == <<draining, items, attempt>>
callerVars == <<tpc, stage, toStop, asked>>
vars == <<laneVars, queueVars, requests, stopVars, cpc, consumerVars, hand,
          callerVars, syncing, status>>

ConsumerPcs == {"off", "loop", "next", "check", "get", "late", "wait", "size",
                "admit", "upload", "post", "ack", "crash", "idle", "doze",
                "exited", "crashed"}
CallerPcs == {"call", "syncs", "drain", "request", "check", "alive", "wait",
              "discard", "balance", "complete", "pause", "join", "done"}

\* That the two counters are never negative is Accounting and RequestsBalanced.
TypeOK ==
  /\ mode \in {"async", "sync", "unsent"}
  /\ started \in BOOLEAN
  /\ closed \in BOOLEAN
  /\ queue \in Seq(Events)
  /\ unfinished \in Int
  /\ requests \in Int
  /\ running \in [Consumers -> BOOLEAN]
  /\ drainOnStop \in [Consumers -> BOOLEAN]
  /\ cpc \in [Consumers -> ConsumerPcs]
  /\ draining \in [Consumers -> BOOLEAN]
  /\ items \in [Consumers -> SUBSET Events]
  /\ hand \in [Threads -> Events \cup {NoEvent}]
  /\ attempt \in [Consumers -> 0..Retries]
  /\ tpc \in [Callers -> CallerPcs]
  /\ stage \in [Callers -> {"flush", "skip", "join"}]
  /\ toStop \in [Callers -> SUBSET Consumers]
  /\ syncing \subseteq Events
  /\ status \in [Events -> {"new", "refused", "accepted"} \cup Outcomes]
  /\ asked \in [Callers -> SUBSET Events]

\* No consumer before the lane starts; and a thread holds a dequeued event
\* exactly while it examines or discards it.
HandsFull ==
  /\ ~started => \A c \in Consumers : cpc[c] = "off"
  /\ \A c \in Consumers : hand[c] # NoEvent <=> cpc[c] = "size"
  /\ \A t \in Callers : hand[t] # NoEvent <=> tpc[t] = "balance"

Init ==
  /\ mode \in {"async", "sync", "unsent"}
  /\ started = FALSE
  /\ closed = FALSE
  /\ queue = <<>>
  /\ unfinished = 0
  /\ requests = 0
  /\ running = [c \in Consumers |-> TRUE]
  /\ drainOnStop = [c \in Consumers |-> FALSE]
  /\ cpc = [c \in Consumers |-> "off"]
  /\ draining = [c \in Consumers |-> FALSE]
  /\ items = [c \in Consumers |-> {}]
  /\ hand = [t \in Threads |-> NoEvent]
  /\ attempt = [c \in Consumers |-> 0]
  /\ tpc = [t \in Callers |-> "call"]
  /\ stage = [t \in Callers |-> "flush"]
  /\ toStop = [t \in Callers |-> {}]
  /\ syncing = {}
  /\ status = [e \in Events |-> "new"]
  /\ asked = [t \in Callers |-> {}]

-----------------------------------------------------------------------------
(* The condition queue.not_empty.  A parked consumer sleeps in get() or in *)
(* wait_until_inactive_or_work(); a notification sends it back to the test *)
(* it slept on.                                                            *)

Parked(c) == cpc[c] \in {"wait", "doze"}
\* Mutant: a sleeper in wait_until_inactive_or_work misses its notification.
ResumedFromGetOnly(p) == IF p = "wait" THEN "get" ELSE p

Resumed(p) == IF p = "wait" THEN "get" ELSE IF p = "doze" THEN "idle" ELSE p

NotifyAll == cpc' = [c \in Consumers |-> Resumed(cpc[c])]
\* Mutant: put() without the notification.
NotifyNobody == cpc' = cpc

NotifyOne ==
  \/ /\ \A c \in Consumers : ~Parked(c)
     /\ cpc' = cpc
  \/ \E c \in Consumers :
       /\ Parked(c)
       /\ cpc' = [cpc EXCEPT ![c] = Resumed(cpc[c])]

Alive(c) == cpc[c] \notin {"off", "exited", "crashed"}
AnyAlive == \E c \in Consumers : Alive(c)

Mark(S, o) == status' = [e \in Events |-> IF e \in S THEN o ELSE status[e]]

-----------------------------------------------------------------------------
(* Admission *)

\* _start_locked: an eager lane starts with the client, a lazy one inside its
\* first enqueue, before the put.
Start ==
  /\ mode # "sync" /\ ~started /\ ~closed
  /\ started' = TRUE
  /\ cpc' = IF mode = "async" THEN [c \in Consumers |-> "loop"] ELSE cpc
  /\ UNCHANGED <<mode, closed, queueVars, requests, stopVars, consumerVars, hand,
                 callerVars, syncing, status>>

Full == MaxQueueSize > 0 /\ Len(queue) >= MaxQueueSize
\* Mutant: the closed test is made before the lock, and is stale.
EnqueueUnchecked(e) ==
  /\ mode = "async" /\ status[e] = "new"
  /\ started /\ ~Full
  /\ queue' = Append(queue, e)
  /\ unfinished' = unfinished + 1
  /\ status' = [status EXCEPT ![e] = "accepted"]
  /\ NotifyOne
  /\ UNCHANGED <<laneVars, requests, stopVars, consumerVars, hand, callerVars, syncing>>

Enqueue(e) ==
  /\ mode = "async" /\ status[e] = "new"
  /\ started /\ ~closed /\ ~Full
  /\ queue' = Append(queue, e)
  /\ unfinished' = unfinished + 1
  /\ status' = [status EXCEPT ![e] = "accepted"]
  /\ NotifyOne
  /\ UNCHANGED <<laneVars, requests, stopVars, consumerVars, hand, callerVars, syncing>>

EnqueueRefused(e) ==
  /\ mode = "async" /\ status[e] = "new"
  /\ closed \/ (started /\ Full)
  /\ status' = [status EXCEPT ![e] = "refused"]
  /\ UNCHANGED <<laneVars, queueVars, requests, stopVars, cpc, consumerVars, hand,
                 callerVars, syncing>>

\* run_sync_if_open: the admission, under the lock.  A client that does not send
\* takes this path too, with nothing to run.
SyncBegin(e) ==
  /\ mode # "async" /\ status[e] = "new"
  /\ IF closed
       THEN status' = [status EXCEPT ![e] = "refused"] /\ UNCHANGED syncing
       ELSE status' = [status EXCEPT ![e] = "accepted"] /\ syncing' = syncing \cup {e}
  /\ UNCHANGED <<laneVars, queueVars, requests, stopVars, cpc, consumerVars, hand,
                 callerVars>>

\* The end of that call, whether send() returned or raised.
SyncEnd(e) ==
  /\ e \in syncing
  /\ syncing' = syncing \ {e}
  /\ \E o \in IF mode = "sync" THEN {"sent", "failed"} ELSE {"withheld"} :
       status' = [status EXCEPT ![e] = o]
  /\ UNCHANGED <<laneVars, queueVars, requests, stopVars, cpc, consumerVars, hand,
                 callerVars>>

-----------------------------------------------------------------------------
(* Consumer *)

\* The queue's mutex is taken for each of these tests.
Draining(c) == requests > 0 /\ (running[c] \/ drainOnStop[c])

\* Mutant: no admission test once a batch has been taken.
CanAlwaysUpload(c) == TRUE

CanUpload(c) == running[c] \/ drainOnStop[c]

Goto(c, p) == cpc' = [cpc EXCEPT ![c] = p]

\* run: test `running`, then enter upload() and next().
Loop(c) ==
  /\ cpc[c] = "loop"
  /\ Goto(c, IF running[c] THEN "next" ELSE "exited")
  /\ UNCHANGED <<laneVars, queueVars, requests, stopVars, consumerVars, hand,
                 callerVars, syncing, status>>

\* next: `draining` is read under the mutex ...
ReadDraining(c) ==
  /\ cpc[c] = "next"
  /\ draining' = [draining EXCEPT ![c] = Draining(c)]
  /\ Goto(c, "check")
  /\ UNCHANGED <<laneVars, queueVars, requests, stopVars, items, attempt, hand,
                 callerVars, syncing, status>>

\* ... and `running` afterwards, without it; flush_interval may have elapsed.
CheckRunning(c) ==
  /\ cpc[c] = "check"
  /\ \/ ~draining[c] /\ Goto(c, "admit")
     \/ (running[c] \/ draining[c]) /\ Goto(c, "get")
  /\ UNCHANGED <<laneVars, queueVars, requests, stopVars, consumerVars, hand,
                 callerVars, syncing, status>>

\* Mutant: the event is read but stays in the queue.
TakePeek(c) ==
  /\ cpc[c] \in {"get", "late"}
  /\ queue # <<>>
  /\ running[c] \/ Draining(c)
  /\ hand' = [hand EXCEPT ![c] = Head(queue)]
  /\ draining' = [draining EXCEPT ![c] = FALSE]
  /\ Goto(c, "size")
  /\ UNCHANGED <<laneVars, queueVars, requests, stopVars, items, attempt, callerVars,
                 syncing, status>>

\* _DrainSignal.get: take the oldest event ...
Take(c) ==
  /\ cpc[c] \in {"get", "late"}
  /\ queue # <<>>
  /\ running[c] \/ Draining(c)
  /\ hand' = [hand EXCEPT ![c] = Head(queue)]
  /\ queue' = Tail(queue)
  /\ draining' = [draining EXCEPT ![c] = FALSE]
  /\ Goto(c, "size")
  /\ UNCHANGED <<laneVars, unfinished, requests, stopVars, items, attempt, callerVars,
                 syncing, status>>

\* ... or raise Empty when stopped, draining or out of time, which ends next() ...
GetEmpty(c) ==
  /\ cpc[c] \in {"get", "late"}
  /\ \/ ~running[c] /\ ~Draining(c)
     \/ queue = <<>>
  /\ draining' = [draining EXCEPT ![c] = FALSE]
  /\ Goto(c, "admit")
  /\ UNCHANGED <<laneVars, queueVars, requests, stopVars, items, attempt, hand,
                 callerVars, syncing, status>>

\* ... or wait on not_empty for the time that remains.
Park(c) ==
  /\ cpc[c] = "get" /\ ~draining[c]
  /\ queue = <<>> /\ running[c] /\ ~Draining(c)
  /\ Goto(c, "wait")
  /\ UNCHANGED <<laneVars, queueVars, requests, stopVars, consumerVars, hand,
                 callerVars, syncing, status>>

\* The timed wait ends by itself.
WaitTimeout(c) ==
  /\ cpc[c] = "wait"
  /\ Goto(c, "late")
  /\ UNCHANGED <<laneVars, queueVars, requests, stopVars, consumerVars, hand,
                 callerVars, syncing, status>>

\* Mutant: the dropped event is not acknowledged.
DropUnacknowledged(c) ==
  /\ cpc[c] = "size" /\ hand[c] \in Unsendable
  /\ Mark({hand[c]}, "dropped")
  /\ hand' = [hand EXCEPT ![c] = NoEvent]
  /\ Goto(c, "next")
  /\ UNCHANGED <<laneVars, queueVars, requests, stopVars, consumerVars, callerVars,
                 syncing>>

\* An event that cannot be sent is acknowledged and dropped, the loop goes on.
DropUnsendable(c) ==
  /\ cpc[c] = "size" /\ hand[c] \in Unsendable
  /\ unfinished' = unfinished - 1
  /\ Mark({hand[c]}, "dropped")
  /\ hand' = [hand EXCEPT ![c] = NoEvent]
  /\ Goto(c, "next")
  /\ UNCHANGED <<laneVars, queue, requests, stopVars, consumerVars, callerVars, syncing>>

\* Any other event joins the batch, which may now be full or large enough.
Collect(c) ==
  /\ cpc[c] = "size" /\ hand[c] \notin Unsendable
  /\ items' = [items EXCEPT ![c] = @ \cup {hand[c]}]
  /\ hand' = [hand EXCEPT ![c] = NoEvent]
  /\ \/ Goto(c, "admit")
     \/ Cardinality(items'[c]) < FlushAt /\ Goto(c, "next")
  /\ UNCHANGED <<laneVars, queueVars, requests, stopVars, draining, attempt,
                 callerVars, syncing, status>>

\* An exception that escapes the sizing ends the thread once what next() had
\* taken is acknowledged.
CrashInNext(c) ==
  /\ cpc[c] = "size"
  /\ Mark(items[c] \cup {hand[c]}, "dropped")
  /\ items' = [items EXCEPT ![c] = @ \cup {hand[c]}]
  /\ hand' = [hand EXCEPT ![c] = NoEvent]
  /\ Goto(c, "crash")
  /\ UNCHANGED <<laneVars, queueVars, requests, stopVars, draining, attempt,
                 callerVars, syncing>>

\* The admission test at the end of next() and the one in upload().
Admit(c) ==
  /\ cpc[c] \in {"admit", "upload"}
  /\ \/ /\ items[c] = {}
        /\ Goto(c, "idle")
        /\ UNCHANGED status
     \/ /\ items[c] # {} /\ CanUpload(c)
        /\ Goto(c, IF cpc[c] = "admit" THEN "upload" ELSE "post")
        /\ UNCHANGED status
     \/ /\ items[c] # {} /\ ~CanUpload(c)
        /\ Goto(c, "ack")
        /\ Mark(items[c], "withheld")
  /\ UNCHANGED <<laneVars, queueVars, requests, stopVars, consumerVars, hand,
                 callerVars, syncing>>

\* _send: the server takes the batch ...
PostSent(c) ==
  /\ cpc[c] = "post"
  /\ Mark(items[c], "sent")
  /\ attempt' = [attempt EXCEPT ![c] = 0]
  /\ Goto(c, "ack")
  /\ UNCHANGED <<laneVars, queueVars, requests, stopVars, draining, items, hand,
                 callerVars, syncing>>

\* ... or fails in a way worth another attempt ...
PostRetry(c) ==
  /\ cpc[c] = "post" /\ attempt[c] < Retries
  /\ attempt' = [attempt EXCEPT ![c] = @ + 1]
  /\ UNCHANGED <<laneVars, queueVars, requests, stopVars, cpc, draining, items, hand,
                 callerVars, syncing, status>>

\* ... or for good, and on_error has the batch; what on_error raises beyond
\* Exception kills the thread.
PostFailed(c) ==
  /\ cpc[c] = "post"
  /\ Mark(items[c], "failed")
  /\ attempt' = [attempt EXCEPT ![c] = 0]
  /\ \E p \in {"ack", "crash"} : Goto(c, p)
  /\ UNCHANGED <<laneVars, queueVars, requests, stopVars, draining, items, hand,
                 callerVars, syncing>>

\* task_done for each item, one lock acquisition each.
Ack(c) ==
  /\ cpc[c] \in {"ack", "crash"}
  /\ \E e \in items[c] :
       /\ items' = [items EXCEPT ![c] = @ \ {e}]
       /\ unfinished' = unfinished - 1
  /\ Goto(c, IF items'[c] # {} THEN cpc[c]
             ELSE IF cpc[c] = "ack" THEN "idle" ELSE "crashed")
  /\ UNCHANGED <<laneVars, queue, requests, stopVars, draining, attempt, hand,
                 callerVars, syncing, status>>

\* wait_until_inactive_or_work
Idle(c) ==
  /\ cpc[c] = "idle"
  /\ Goto(c, IF requests > 0 /\ queue = <<>> /\ running[c] THEN "doze" ELSE "loop")
  /\ UNCHANGED <<laneVars, queueVars, requests, stopVars, consumerVars, hand,
                 callerVars, syncing, status>>

ConsumerStep(c) ==
  \/ Loop(c) \/ ReadDraining(c) \/ CheckRunning(c)
  \/ Take(c) \/ GetEmpty(c) \/ Park(c) \/ WaitTimeout(c)
  \/ DropUnsendable(c) \/ Collect(c) \/ CrashInNext(c)
  \/ Admit(c) \/ PostSent(c) \/ PostRetry(c) \/ PostFailed(c)
  \/ Ack(c) \/ Idle(c)

-----------------------------------------------------------------------------
(* Callers: Client.flush, Client._run_lifecycle and Client._atexit as far  *)
(* as one lane sees them.  The lifecycle owner is exclusive, so Shutdown   *)
(* and AtExit never run at once.                                           *)

CallerGoto(t, p) == tpc' = [tpc EXCEPT ![t] = p]

Owner(t) == t \in {Shutdown, AtExit}

\* Owner: close the lane.  Only a client with consumers has an exit handler.
Close(t) ==
  /\ Owner(t) /\ tpc[t] = "call"
  /\ t = AtExit => mode = "async"
  /\ \A o \in {Shutdown, AtExit} \ {t} : tpc[o] \in {"call", "done"}
  /\ closed' = TRUE
  /\ CallerGoto(t, IF t = Shutdown THEN "syncs" ELSE "request")
  /\ UNCHANGED <<mode, started, queueVars, requests, stopVars, cpc, consumerVars, hand,
                 stage, toStop, asked, syncing, status>>

\* wait_for_sync_sends
WaitForSyncSends ==
  /\ tpc[Shutdown] = "syncs" /\ syncing = {}
  /\ CallerGoto(Shutdown, "drain")
  /\ UNCHANGED <<laneVars, queueVars, requests, stopVars, cpc, consumerVars, hand,
                 stage, toStop, asked, syncing, status>>

\* Mutant: the shutdown goes straight to the join.
JoinWithoutFlush ==
  /\ tpc[Shutdown] = "drain"
  /\ CallerGoto(Shutdown, "request")
  /\ stage' = [stage EXCEPT ![Shutdown] = "join"]
  /\ UNCHANGED <<laneVars, queueVars, requests, stopVars, cpc, consumerVars, hand,
                 toStop, asked, syncing, status>>

\* _flush_or_discard_queues
FlushOrDiscard ==
  /\ tpc[Shutdown] = "drain"
  /\ IF AnyAlive
       THEN CallerGoto(Shutdown, "request") /\ UNCHANGED stage
       ELSE CallerGoto(Shutdown, "discard") /\ stage' = [stage EXCEPT ![Shutdown] = "skip"]
  /\ UNCHANGED <<laneVars, queueVars, requests, stopVars, cpc, consumerVars, hand,
                 toStop, asked, syncing, status>>

\* _DrainSignal.request, the first step of flush() and of join()
Request(t) ==
  /\ \/ tpc[t] = "request"
     \/ tpc[t] = "call" /\ ~Owner(t)
  /\ requests' = requests + 1
  /\ NotifyAll
  /\ IF stage[t] = "join"
       THEN /\ CallerGoto(t, "pause")
            /\ toStop' = [toStop EXCEPT ![t] = IF started THEN Consumers ELSE {}]
       ELSE CallerGoto(t, "check") /\ UNCHANGED toStop
  /\ asked' = [asked EXCEPT ![t] = IF t \in Flushers
                                     THEN {e \in Events : status[e] = "accepted"} ELSE {}]
  /\ UNCHANGED <<laneVars, queueVars, stopVars, consumerVars, hand, stage, syncing,
                 status>>

Timed(t) == t \in TimedFlushers \cup {AtExit}

\* Mutant: the flush looks at the queue's size instead of the unfinished tasks.
CheckQueueSize(t) ==
  /\ tpc[t] = "check"
  /\ CallerGoto(t, IF queue = <<>> THEN "complete"
                   ELSE IF Timed(t) THEN "wait" ELSE "alive")
  /\ UNCHANGED <<laneVars, queueVars, requests, stopVars, cpc, consumerVars, hand,
                 stage, toStop, asked, syncing, status>>

\* flush: `while queue.unfinished_tasks`, read without the lock
CheckUnfinished(t) ==
  /\ tpc[t] = "check"
  /\ CallerGoto(t, IF unfinished = 0 THEN "complete"
                   ELSE IF Timed(t) THEN "wait" ELSE "alive")
  /\ UNCHANGED <<laneVars, queueVars, requests, stopVars, cpc, consumerVars, hand,
                 stage, toStop, asked, syncing, status>>

CheckAlive(t) ==
  /\ tpc[t] = "alive"
  /\ CallerGoto(t, IF AnyAlive THEN "wait" ELSE "discard")
  /\ UNCHANGED <<laneVars, queueVars, requests, stopVars, cpc, consumerVars, hand,
                 stage, toStop, asked, syncing, status>>

\* all_tasks_done.wait(at most 0.05), then the loop test again
FlushWait(t) ==
  /\ tpc[t] = "wait"
  /\ CallerGoto(t, IF unfinished = 0 THEN "complete" ELSE "check")
  /\ UNCHANGED <<laneVars, queueVars, requests, stopVars, cpc, consumerVars, hand,
                 stage, toStop, asked, syncing, status>>

FlushTimeout(t) ==
  /\ tpc[t] = "wait" /\ Timed(t)
  /\ CallerGoto(t, "complete")
  /\ UNCHANGED <<laneVars, queueVars, requests, stopVars, cpc, consumerVars, hand,
                 stage, toStop, asked, syncing, status>>

\* discard_undrainable_queued_work: get_nowait ...
DiscardTake(t) ==
  /\ tpc[t] = "discard" /\ ~AnyAlive /\ queue # <<>>
  /\ hand' = [hand EXCEPT ![t] = Head(queue)]
  /\ queue' = Tail(queue)
  /\ Mark({Head(queue)}, "discarded")
  /\ CallerGoto(t, "balance")
  /\ UNCHANGED <<laneVars, unfinished, requests, stopVars, cpc, consumerVars, stage,
                 toStop, asked, syncing>>

\* ... and task_done, until the queue is empty.
DiscardBalance(t) ==
  /\ tpc[t] = "balance"
  /\ unfinished' = unfinished - 1
  /\ hand' = [hand EXCEPT ![t] = NoEvent]
  /\ CallerGoto(t, "discard")
  /\ UNCHANGED <<laneVars, queue, requests, stopVars, cpc, consumerVars, stage,
                 toStop, asked, syncing, status>>

\* Outside a flush the discard is followed by the lane's join.
DiscardEnd(t) ==
  /\ tpc[t] = "discard" /\ (AnyAlive \/ queue = <<>>)
  /\ IF stage[t] = "skip"
       THEN CallerGoto(t, "request") /\ stage' = [stage EXCEPT ![t] = "join"]
       ELSE CallerGoto(t, "complete") /\ UNCHANGED stage
  /\ UNCHANGED <<laneVars, queueVars, requests, stopVars, cpc, consumerVars, hand,
                 toStop, asked, syncing, status>>

\* _DrainSignal.complete, and what the caller does next
Complete(t) ==
  /\ tpc[t] = "complete"
  /\ requests' = requests - 1
  /\ NotifyAll
  /\ \/ /\ t = Shutdown /\ stage[t] = "flush"
        /\ stage' = [stage EXCEPT ![t] = "join"]
        /\ CallerGoto(t, "request")
        /\ UNCHANGED toStop
     \/ /\ t = AtExit
        /\ toStop' = [toStop EXCEPT ![t] = IF started THEN Consumers ELSE {}]
        /\ CallerGoto(t, "pause")
        /\ UNCHANGED stage
     \/ /\ t # AtExit /\ ~(t = Shutdown /\ stage[t] = "flush")
        /\ CallerGoto(t, "done")
        /\ UNCHANGED <<stage, toStop>>
  /\ UNCHANGED <<laneVars, queueVars, stopVars, consumerVars, hand, asked, syncing,
                 status>>

\* _DrainSignal.stop on one consumer after the other, draining only in join()
Pause(t) ==
  /\ tpc[t] = "pause"
  /\ \E c \in toStop[t] :
       /\ toStop' = [toStop EXCEPT ![t] = @ \ {c}]
       /\ running' = [running EXCEPT ![c] = FALSE]
       /\ drainOnStop' = [drainOnStop EXCEPT ![c] = (t = Shutdown)]
  /\ NotifyAll
  /\ UNCHANGED <<laneVars, queueVars, requests, consumerVars, hand, tpc, stage, asked,
                 syncing, status>>

PauseEnd(t) ==
  /\ tpc[t] = "pause" /\ toStop[t] = {}
  /\ CallerGoto(t, IF t = Shutdown THEN "join" ELSE "done")
  /\ UNCHANGED <<laneVars, queueVars, requests, stopVars, cpc, consumerVars, hand,
                 stage, toStop, asked, syncing, status>>

\* consumer.join for each; a thread that never started raises and is passed over.
JoinConsumers ==
  /\ tpc[Shutdown] = "join" /\ ~AnyAlive
  /\ CallerGoto(Shutdown, "discard")
  /\ UNCHANGED <<laneVars, queueVars, requests, stopVars, cpc, consumerVars, hand,
                 stage, toStop, asked, syncing, status>>

CallerStep(t) ==
  \/ Request(t) \/ CheckUnfinished(t) \/ CheckAlive(t) \/ FlushWait(t)
  \/ FlushTimeout(t) \/ DiscardTake(t) \/ DiscardBalance(t) \/ DiscardEnd(t)
  \/ Complete(t) \/ Pause(t) \/ PauseEnd(t)

ShutdownStep == WaitForSyncSends \/ FlushOrDiscard \/ JoinConsumers

Next ==
  \/ Start
  \/ \E e \in Events : Enqueue(e) \/ EnqueueRefused(e) \/ SyncBegin(e) \/ SyncEnd(e)
  \/ \E c \in Consumers : ConsumerStep(c)
  \/ \E t \in Callers : Close(t) \/ CallerStep(t)
  \/ ShutdownStep

Spec == Init /\ [][Next]_vars

\* Threads that have something to do are scheduled, requests and sends end, a
\* batch is not retried without end (attempt is bounded), a flush that polls
\* reaches its deadline, and flush_interval leaves a consumer time to look at
\* the queue.  Nothing makes anybody capture, flush or shut down.
Fairness ==
  /\ \A c \in Consumers : WF_vars(ConsumerStep(c))
  /\ \A e \in Events : WF_vars(SyncEnd(e))
  /\ \A t \in Callers :
       WF_vars(tpc[t] # "call" /\ CallerStep(t))
  /\ \A t \in TimedFlushers \cup {AtExit} : SF_vars(FlushTimeout(t))
  /\ \A c \in Consumers : SF_vars(CheckRunning(c) /\ cpc'[c] = "get")
  /\ WF_vars(ShutdownStep)

FairSpec == Spec /\ Fairness

-----------------------------------------------------------------------------
(* Properties *)

\* Put and not yet acknowledged.
Outstanding ==
  {e \in Events :
     \/ e \in Range(queue)
     \/ \E c \in Consumers : e \in items[c]
     \/ \E t \in Threads : e = hand[t]}

(* Every event that was put and not yet acknowledged is in exactly one     *)
(* place: once in the queue, or in one consumer's batch, or in the hand of *)
(* one thread.  Two consumers never post the same event, and no event is   *)
(* left without an owner that will acknowledge it.                         *)
OneOwner ==
  /\ IsInjective(queue)
  /\ \A c \in Consumers :
       /\ items[c] \cap Range(queue) = {}
       /\ \A d \in Consumers \ {c} : items[c] \cap items[d] = {}
  /\ \A t \in Threads : hand[t] # NoEvent =>
       /\ hand[t] \notin Range(queue)
       /\ \A c \in Consumers : hand[t] \notin items[c]
       /\ \A u \in Threads \ {t} : hand[u] # hand[t]

\* An event that was not captured yet is nowhere in the lane.
NewIsNowhere == \A e \in Outstanding : status[e] # "new"

(* unfinished_tasks counts exactly the events that are queued or held:     *)
(* task_done is called once for each put on every path out of next(),      *)
(* upload() and the discard, so that a flush neither hangs on a count that *)
(* stays up nor returns early, and task_done is never called too often.    *)
Accounting == unfinished = Cardinality(Outstanding)

(* shutdown "blocks until queued events have been attempted": when it      *)
(* returns, on a client that sends and has consumers, none of them killed  *)
(* and no exit handler before it, every event that was accepted was        *)
(* posted, but for those that cannot be sent at all.                       *)
AttemptedByShutdown ==
  /\ tpc[Shutdown] = "done" /\ tpc[AtExit] = "call"
  /\ mode # "unsent" /\ Consumers # {}
  /\ \A c \in Consumers : cpc[c] # "crashed"
  => \A e \in Events :
       \/ status[e] \in {"new", "refused", "sent", "failed"}
       \/ status[e] = "dropped" /\ e \in Unsendable

(* flush(None) that returns has covered every event accepted before it was *)
(* called, whoever was holding it; it gives events up only when no         *)
(* consumer is left to send them.                                          *)
FlushCovers ==
  \A t \in Flushers : tpc[t] = "done" /\ mode = "async" =>
    \A e \in asked[t] :
      /\ status[e] # "accepted"
      /\ status[e] = "discarded" => ~AnyAlive

(* The notifications suffice: while there is work in the queue and some    *)
(* consumer sleeps, another consumer is awake to take it.  put() notifies  *)
(* a single sleeper and wait_until_inactive_or_work has no timeout, so a   *)
(* lost notification would hang flush(None) and shutdown.                  *)
NoStrandedWork ==
  queue # <<>> /\ (\E c \in Consumers : Parked(c))
    => \E c \in Consumers : Alive(c) /\ ~Parked(c)

\* Only a shutdown goes beyond a flush, and it discards without a request only
\* before the join.
StagesOK ==
  /\ \A t \in Callers : stage[t] # "flush" => t = Shutdown
  /\ \A t \in Callers : stage[t] = "skip" => tpc[t] \in {"discard", "balance"}
  /\ tpc[Shutdown] \in {"pause", "join"} => stage[Shutdown] = "join"

(* Every drain request is withdrawn: the number of active requests is the  *)
(* number of threads between request() and complete().  A request that     *)
(* leaked would leave the lane draining, without batches, for good.        *)
Requesting(t) ==
  \/ tpc[t] \in {"check", "alive", "wait", "complete", "balance", "discard"}
       /\ stage[t] # "skip"
  \/ tpc[t] \in {"pause", "join"} /\ t = Shutdown
Requesters == {t \in Callers : Requesting(t)}
RequestsBalanced == requests = Cardinality(Requesters)

(* Once the exit handler has returned, no consumer admits another batch:   *)
(* what is posted was admitted before the stop.  (A shutdown() after the   *)
(* exit handler stops the consumers again, draining.)                      *)
QuietAfterExit ==
  [][ tpc[AtExit] = "done" /\ tpc[Shutdown] \in {"call", "done"}
      => \A c \in Consumers : cpc'[c] = "post" => cpc[c] = "post" ]_vars

(* The lane is an implementation of LaneSpec: see there.                   *)
Abs == INSTANCE LaneSpec WITH finished <- (tpc[Shutdown] = "done")
ImplementsLaneSpec == Abs!Spec

(* Every flush, shutdown and exit handler returns, whatever the consumers  *)
(* do, crashes included.                                                   *)
Called(t) == tpc[t] # "call"
Returned(t) == tpc[t] = "done"
CallsReturn == \A t \in Callers : Called(t) ~> Returned(t)

(* An accepted event does not stay in the lane for ever while a consumer   *)
(* runs, even when nobody flushes.                                         *)
Waiting(e) == status[e] = "accepted" /\ mode = "async"
Settled(e) == status[e] # "accepted" \/ ~ \E c \in Consumers : Alive(c) /\ running[c]
EventsSettle == \A e \in Events : Waiting(e) ~> Settled(e)
=============================================================================
