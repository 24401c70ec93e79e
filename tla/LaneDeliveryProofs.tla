------------------------- MODULE LaneDeliveryProofs -------------------------
(***************************************************************************)
(* What a lane delivers (Lane), proved for any number of events, consumers *)
(* and flushing threads: what a shutdown has attempted and a flush has     *)
(* covered when it returns, that no queued event is left to sleepers, that *)
(* nothing new is posted after the interpreter's exit, and that the lane   *)
(* implements LaneSpec.  The inductive invariant is OwnerInv and StagesOK  *)
(* of LaneProofs with these parts:                                         *)
(*   EventsPlaced      an accepted event is queued, held or being sent     *)
(*                     synchronously, and what is there is accepted        *)
(*   CallsOrdered      what a caller's position says of the lane           *)
(*   ShutdownOrdered   what the parts of a shutdown have achieved          *)
(*   Stopped           which consumers are stopped, by whom and how        *)
(*   Fates             why an event ended the way it did                   *)
(*   Flushed           what has become of the events a flush found         *)
(*   Woken             enough consumers are awake for the queued events    *)
(***************************************************************************)
EXTENDS LaneProofs

\* No consumer is alive and none will be: an open lane that has not started
\* may still start its own.
Dead == ~AnyAlive /\ (started \/ closed)

\* Where a consumer's batch is still to be sent, and where it has its outcome.
Batching == {"next", "check", "get", "late", "wait", "size", "admit", "upload", "post"}
Acking == {"ack", "crash"}

\* Nothing is queued before an asynchronous lane starts; a consumer has a batch
\* between the first event it collects and the last it acknowledges.
EventsPlaced ==
  /\ mode # "async" \/ ~started => queue = <<>> /\ \A c \in Consumers : cpc[c] = "off"
  /\ mode = "async" /\ started => \A c \in Consumers : cpc[c] # "off"
  /\ \A e \in Range(queue) : status[e] = "accepted"
  /\ \A c \in Consumers : items[c] # {} => cpc[c] \in Batching \cup Acking
  /\ \A c \in Consumers : \A e \in items[c] :
       IF cpc[c] \in Acking THEN status[e] \in Outcomes ELSE status[e] = "accepted"
  /\ \A c \in Consumers : hand[c] # NoEvent => status[hand[c]] = "accepted"
  /\ \A t \in Callers : hand[t] # NoEvent => status[hand[t]] = "discarded"
  /\ \A e \in syncing : status[e] = "accepted" /\ mode # "async"
  /\ \A e \in Events : status[e] = "accepted" => e \in Outstanding \cup syncing

\* Only an owner closes and pauses, only a shutdown waits and joins, and a
\* caller discards for a dead lane.
CallsOrdered ==
  /\ \A t \in Callers : Owner(t) /\ tpc[t] # "call" => closed
  /\ \A t \in Callers : tpc[t] \in {"request", "pause"} => Owner(t)
  /\ \A t \in Callers : tpc[t] \in {"syncs", "drain", "join"} => t = Shutdown
  /\ \A t \in Callers : tpc[t] = "alive" => started \/ closed
  /\ \A t \in Callers : tpc[t] \in {"discard", "balance"} => Dead
  /\ tpc[Shutdown] \in {"call", "done"} \/ tpc[AtExit] \in {"call", "done"}

\* The flush before the join leaves an empty queue, which stays empty since the
\* lane is closed, and the join leaves a dead lane.
ShutdownOrdered ==
  /\ tpc[Shutdown] \notin {"call", "syncs"} => syncing = {}
  /\ stage[Shutdown] = "join" =>
       tpc[Shutdown] \in {"request", "pause", "join", "discard", "balance", "complete", "done"}
  /\ stage[Shutdown] = "join" \/ tpc[Shutdown] = "complete" => queue = <<>>
  /\ stage[Shutdown] = "join" /\ tpc[Shutdown] = "complete" => Dead
  /\ tpc[Shutdown] = "done" => stage[Shutdown] = "join" /\ Dead

\* Before the exit handler comes, a consumer is stopped by a shutdown's join
\* only, draining; after it, a consumer that is left alive may not upload.
Stopped ==
  /\ \A c \in Consumers : cpc[c] = "exited" => ~running[c]
  /\ \A c \in Consumers : ~running[c] => closed
  /\ tpc[AtExit] = "call" =>
       \A c \in Consumers : ~running[c] => drainOnStop[c] /\ stage[Shutdown] = "join"
  /\ tpc[AtExit] = "done" => toStop[AtExit] = {}
  /\ tpc[AtExit] \in {"pause", "done"} /\ tpc[Shutdown] \in {"call", "done"} =>
       \A c \in Consumers \ toStop[AtExit] : ~(Alive(c) /\ CanUpload(c))

\* Each way to lose an event has its cause.
Fates ==
  /\ \A e \in Events : status[e] = "discarded" => Dead
  /\ \A e \in Events : status[e] = "withheld" /\ mode = "async" => tpc[AtExit] # "call"
  /\ mode = "sync" => \A e \in Events : status[e] # "withheld"
  /\ \A e \in Events : status[e] = "dropped" =>
       e \in Unsendable \/ \E c \in Consumers : cpc[c] \in {"crash", "crashed"}
  /\ \A e \in Events : status[e] = "discarded" /\ tpc[AtExit] = "call" /\ Consumers # {} =>
       \E c \in Consumers : cpc[c] = "crashed"

\* An event a flush found stays with the lane until it has an outcome, which
\* it has when the flush completes.
Flushed ==
  \A t \in Flushers : \A e \in asked[t] :
    /\ status[e] \in {"accepted"} \cup Outcomes
    /\ tpc[t] \in {"complete", "done"} /\ mode = "async" => status[e] # "accepted"

\* A consumer that will look at the queue before it sleeps again.
Heading(c) ==
  \/ cpc[c] \in {"get", "late"}
  \/ cpc[c] \in {"idle", "loop", "next", "check", "admit"} /\ items[c] = {}

\* The induction for NoStrandedWork: one consumer awake would not be enough,
\* since it may take one event of several.
Woken ==
  queue # <<>> /\ (\E c \in Consumers : Parked(c)) =>
    /\ \A c \in Consumers : running[c]
    /\ Len(queue) <= Cardinality({c \in Consumers : Heading(c)})

\* The part of the inductive invariant that is about delivery.
PInv ==
  /\ EventsPlaced
  /\ CallsOrdered
  /\ ShutdownOrdered
  /\ Stopped
  /\ Fates
  /\ Flushed
  /\ Woken

-----------------------------------------------------------------------------
(* What each kind of step leaves alone *)

(* A step of a consumer is one of a live consumer, and touches no other    *)
(* thread and nothing of the lane but its queue and its events.            *)
LEMMA ConsumerFrame ==
  ASSUME TypeOK, NEW c \in Consumers, ConsumerStep(c)
  PROVE  /\ UNCHANGED <<mode, started, closed, requests, running, drainOnStop, tpc, stage,
                        toStop, asked, syncing>>
         /\ (Alive(c) /\ ~Parked(c)) \/ cpc[c] = "wait"
         /\ cpc'[c] # "off"
         /\ \A d \in Consumers \ {c} : cpc'[d] = cpc[d] /\ items'[d] = items[d]
         /\ \A t \in Threads \ {c} : hand'[t] = hand[t]
<1> USE DEF TypeOK, laneVars, queueVars, stopVars, consumerVars, callerVars, Goto, Alive, Parked,
            Threads
<1>1. CASE Loop(c)
  BY <1>1 DEF Loop
<1>2. CASE ReadDraining(c)
  BY <1>2 DEF ReadDraining
<1>3. CASE CheckRunning(c)
  BY <1>3 DEF CheckRunning
<1>4. CASE Take(c)
  BY <1>4 DEF Take
<1>5. CASE GetEmpty(c)
  BY <1>5 DEF GetEmpty
<1>6. CASE Park(c) \/ WaitTimeout(c)
  BY <1>6 DEF Park, WaitTimeout
<1>7. CASE DropUnsendable(c)
  BY <1>7 DEF DropUnsendable
<1>8. CASE Collect(c)
  BY <1>8 DEF Collect
<1>9. CASE CrashInNext(c)
  BY <1>9 DEF CrashInNext
<1>10. CASE Admit(c)
  BY <1>10 DEF Admit
<1>11. CASE PostSent(c)
  BY <1>11 DEF PostSent
<1>12. CASE PostRetry(c)
  BY <1>12 DEF PostRetry
<1>13. CASE PostFailed(c)
  BY <1>13 DEF PostFailed
<1>14. CASE Ack(c)
  BY <1>14 DEF Ack
<1>15. CASE Idle(c)
  BY <1>15 DEF Idle
<1> QED
  BY <1>1, <1>2, <1>3, <1>4, <1>5, <1>6, <1>7, <1>8, <1>9, <1>10, <1>11, <1>12, <1>13, <1>14,
     <1>15 DEF ConsumerStep

(* A notification sends a sleeper back to the test it slept on.            *)
LEMMA Wakes ==
  ASSUME TypeOK, NotifyAll \/ NotifyOne \/ cpc' = cpc
  PROVE  \A c \in Consumers : \/ cpc'[c] = cpc[c]
                              \/ cpc[c] = "wait" /\ cpc'[c] = "get"
                              \/ cpc[c] = "doze" /\ cpc'[c] = "idle"
BY DEF TypeOK, NotifyAll, NotifyOne, Resumed, Parked

(* A step of a caller touches no other caller and no batch, and moves      *)
(* consumers by notifications only.                                        *)
LEMMA CallerFrame ==
  ASSUME TypeOK, NEW t \in Callers, Close(t) \/ CallerStep(t)
  PROVE  /\ UNCHANGED <<mode, started, items, draining, syncing>>
         /\ \A u \in Callers \ {t} : /\ tpc'[u] = tpc[u] /\ stage'[u] = stage[u]
                                     /\ toStop'[u] = toStop[u] /\ asked'[u] = asked[u]
         /\ cpc' = cpc \/ (NotifyAll /\ UNCHANGED queue)
<1> USE DEF TypeOK, laneVars, queueVars, stopVars, consumerVars, callerVars, CallerGoto
<1>1. CASE Close(t)
  BY <1>1 DEF Close
<1>2. CASE Request(t)
  BY <1>2 DEF Request
<1>3. CASE CheckUnfinished(t) \/ CheckAlive(t) \/ FlushWait(t) \/ FlushTimeout(t)
  BY <1>3 DEF CheckUnfinished, CheckAlive, FlushWait, FlushTimeout
<1>4. CASE DiscardTake(t) \/ DiscardBalance(t)
  BY <1>4 DEF DiscardTake, DiscardBalance
<1>5. CASE DiscardEnd(t)
  BY <1>5 DEF DiscardEnd
<1>6. CASE Complete(t)
  BY <1>6 DEF Complete
<1>7. CASE Pause(t)
  BY <1>7 DEF Pause
<1>8. CASE PauseEnd(t)
  BY <1>8 DEF PauseEnd
<1> QED
  BY <1>1, <1>2, <1>3, <1>4, <1>5, <1>6, <1>7, <1>8 DEF CallerStep

(* The lifecycle's own steps move the shutdown only.                       *)
LEMMA ShutdownFrame ==
  ASSUME TypeOK, ShutdownStep
  PROVE  /\ UNCHANGED <<mode, started, closed, queue, unfinished, requests, running,
                        drainOnStop, cpc, items, hand, toStop, asked, syncing, status>>
         /\ \A u \in Callers \ {Shutdown} : tpc'[u] = tpc[u] /\ stage'[u] = stage[u]
<1> USE DEF TypeOK, laneVars, queueVars, stopVars, consumerVars, callerVars, CallerGoto
<1>1. CASE WaitForSyncSends
  BY <1>1 DEF WaitForSyncSends
<1>2. CASE FlushOrDiscard
  BY <1>2 DEF FlushOrDiscard
<1>3. CASE JoinConsumers
  BY <1>3 DEF JoinConsumers
<1> QED
  BY <1>1, <1>2, <1>3 DEF ShutdownStep

(* Captures and the start of the lane leave the callers alone.             *)
LEMMA CaptureFrame ==
  ASSUME TypeOK,
         Start \/ \E e \in Events : Enqueue(e) \/ EnqueueRefused(e) \/ SyncBegin(e) \/ SyncEnd(e)
  PROVE  /\ UNCHANGED <<mode, closed, requests, running, drainOnStop, items, hand, tpc, stage,
                        toStop, asked>>
         /\ Start \/ UNCHANGED started
         /\ Start \/ cpc' = cpc \/ NotifyOne
BY DEF Start, Enqueue, EnqueueRefused, SyncBegin, SyncEnd, laneVars, queueVars, stopVars,
       consumerVars, callerVars

(* The last live consumer is never followed by another one.                *)
LEMMA DeadStays == TypeOK /\ HandsFull /\ Dead /\ [Next]_vars => Dead'
<1> SUFFICES ASSUME TypeOK, HandsFull, Dead, [Next]_vars PROVE Dead'
  OBVIOUS
<1> USE DEF Dead, AnyAlive, Alive
<1>1. CASE Start
  BY <1>1 DEF Start
<1>2. CASE \E e \in Events : Enqueue(e) \/ EnqueueRefused(e) \/ SyncBegin(e) \/ SyncEnd(e)
  <2>1. CASE Start
    BY <2>1, <1>1
  <2> QED
    BY <1>2, <2>1, CaptureFrame, Wakes
<1>3. ASSUME NEW c \in Consumers, ConsumerStep(c) PROVE Dead'
  BY <1>3, ConsumerFrame
<1>4. ASSUME NEW t \in Callers, Close(t) \/ CallerStep(t) PROVE Dead'
  <2>1. closed => closed'
    BY <1>4 DEF Close, CallerStep, Request, CheckUnfinished, CheckAlive, FlushWait, FlushTimeout,
                DiscardTake, DiscardBalance, DiscardEnd, Complete, Pause, PauseEnd, laneVars
  <2> QED
    BY <1>4, <2>1, CallerFrame, Wakes
<1>5. CASE ShutdownStep
  BY <1>5, ShutdownFrame
<1>6. CASE UNCHANGED vars
  BY <1>6 DEF vars, laneVars
<1> QED
  BY <1>1, <1>2, <1>3, <1>4, <1>5, <1>6 DEF Next

-----------------------------------------------------------------------------
(* Where the accepted events are *)

(* An event that is queued, in a batch or in a hand is in one place.       *)
LEMMA OnePlace ==
  ASSUME TypeOK, HandsFull, OneOwner, EventsPlaced
  PROVE  /\ \A c, d \in Consumers : c # d => items[c] \cap items[d] = {}
         /\ \A c \in Consumers : items[c] \cap Range(queue) = {}
         /\ \A t \in Threads : hand[t] # NoEvent =>
              /\ hand[t] \in Events /\ hand[t] \notin Range(queue)
              /\ \A c \in Consumers : hand[t] \notin items[c]
              /\ \A u \in Threads \ {t} : hand[u] # hand[t]
         /\ \A e \in syncing : /\ e \notin Range(queue)
                               /\ \A c \in Consumers : e \notin items[c] /\ hand[c] # e
         /\ Consumers \subseteq Threads /\ Callers \subseteq Threads
         /\ Consumers \cap Callers = {}
         /\ \A c \in Consumers : items[c] \subseteq Events
         /\ Range(queue) \subseteq Events
<1>1. /\ Consumers \subseteq Threads /\ Callers \subseteq Threads
      /\ Consumers \cap Callers = {}
  BY LaneAssumption DEF Threads
<1>2. /\ \A c \in Consumers : items[c] \subseteq Events
      /\ \A t \in Threads : hand[t] \in Events \cup {NoEvent}
      /\ Range(queue) \subseteq Events
  BY DEF TypeOK, Range
<1>3. /\ \A c, d \in Consumers : c # d => items[c] \cap items[d] = {}
      /\ \A c \in Consumers : items[c] \cap Range(queue) = {}
      /\ \A t \in Threads : hand[t] # NoEvent =>
           /\ hand[t] \in Events /\ hand[t] \notin Range(queue)
           /\ \A c \in Consumers : hand[t] \notin items[c]
           /\ \A u \in Threads \ {t} : hand[u] # hand[t]
  BY <1>2 DEF OneOwner
<1>4. ASSUME NEW e \in syncing
      PROVE  /\ e \notin Range(queue)
             /\ \A c \in Consumers : e \notin items[c] /\ hand[c] # e
  <2>1. mode # "async" /\ e \in Events /\ e # NoEvent
    BY LaneAssumption DEF EventsPlaced, TypeOK
  <2>2. queue = <<>> /\ \A c \in Consumers : cpc[c] = "off"
    BY <2>1 DEF EventsPlaced
  <2>3. Range(queue) = {}
    BY <2>2 DEF Range
  <2>4. \A c \in Consumers : items[c] = {} /\ hand[c] = NoEvent
    BY <2>2 DEF EventsPlaced, HandsFull, Batching, Acking
  <2> QED
    BY <2>1, <2>3, <2>4
<1> QED
  BY <1>1, <1>2, <1>3, <1>4

(* A step that moves no event keeps the events in their places, if it      *)
(* moves no consumer out of the steps in which it has a batch.             *)
LEMMA NoEventMoves ==
  ASSUME EventsPlaced,
         UNCHANGED <<mode, started, queue, items, hand, status, syncing>>,
         \A d \in Consumers : /\ cpc'[d] = "off" <=> cpc[d] = "off"
                              /\ cpc'[d] \in Acking <=> cpc[d] \in Acking
                              /\ items[d] # {} => cpc'[d] \in Batching \cup Acking
  PROVE  EventsPlaced'
<1>1. Outstanding' = Outstanding
  BY DEF Outstanding
<1>2. /\ mode # "async" \/ ~started => queue = <<>> /\ \A c \in Consumers : cpc'[c] = "off"
      /\ mode = "async" /\ started => \A c \in Consumers : cpc'[c] # "off"
  BY DEF EventsPlaced
<1>3. \A c \in Consumers : \A e \in items[c] :
        IF cpc'[c] \in Acking THEN status[e] \in Outcomes ELSE status[e] = "accepted"
  BY DEF EventsPlaced
<1> QED
  BY <1>1, <1>2, <1>3 DEF EventsPlaced

(* The steps of a consumer that move no event.                             *)
LEMMA PlacedQuietly ==
  ASSUME TypeOK, EventsPlaced, NEW c \in Consumers,
         \/ Loop(c) \/ ReadDraining(c) \/ CheckRunning(c) \/ GetEmpty(c) \/ Park(c)
         \/ WaitTimeout(c) \/ PostRetry(c) \/ Idle(c)
         \/ Admit(c) /\ (items[c] = {} \/ CanUpload(c))
  PROVE  EventsPlaced'
<1> USE DEF laneVars, queueVars, stopVars, consumerVars, callerVars, Goto, TypeOK
<1>1. UNCHANGED <<mode, started, queue, items, hand, status, syncing>>
  BY DEF Loop, ReadDraining, CheckRunning, GetEmpty, Park, WaitTimeout, PostRetry, Idle, Admit
<1>2. items[c] # {} => cpc[c] \in Batching \cup Acking
  BY DEF EventsPlaced
<1>3. /\ cpc[c] \notin {"off", "ack", "crash"}
      /\ cpc'[c] \notin {"off", "ack", "crash"}
      /\ items[c] # {} => cpc'[c] \in Batching
      /\ \A d \in Consumers \ {c} : cpc'[d] = cpc[d]
  <2> USE <1>2 DEF Batching, Acking
  <2>1. CASE Loop(c)
    BY <2>1 DEF Loop
  <2>2. CASE ReadDraining(c)
    BY <2>2 DEF ReadDraining
  <2>3. CASE CheckRunning(c)
    BY <2>3 DEF CheckRunning
  <2>4. CASE GetEmpty(c) \/ Park(c) \/ WaitTimeout(c)
    BY <2>4 DEF GetEmpty, Park, WaitTimeout
  <2>5. CASE PostRetry(c) \/ Idle(c)
    BY <2>5 DEF PostRetry, Idle
  <2>6. CASE Admit(c) /\ (items[c] = {} \/ CanUpload(c))
    BY <2>6 DEF Admit
  <2> QED
    BY <2>1, <2>2, <2>3, <2>4, <2>5, <2>6
<1>4. \A d \in Consumers : /\ cpc'[d] = "off" <=> cpc[d] = "off"
                           /\ cpc'[d] \in Acking <=> cpc[d] \in Acking
                           /\ items[d] # {} => cpc'[d] \in Batching \cup Acking
  BY <1>3 DEF Acking, EventsPlaced
<1> QED
  BY <1>1, <1>4, NoEventMoves

(* A consumer that takes an event off the queue has it in its hand.        *)
LEMMA PlacedTake ==
  ASSUME TypeOK, HandsFull, OneOwner, EventsPlaced, NEW c \in Consumers, Take(c)
  PROVE  EventsPlaced'
<1> DEFINE h == Head(queue)
<1> USE OnePlace
<1>1. /\ UNCHANGED <<mode, started, items, status, syncing>>
      /\ cpc[c] \in {"get", "late"} /\ cpc' = [cpc EXCEPT ![c] = "size"]
      /\ hand' = [hand EXCEPT ![c] = h] /\ queue # <<>> /\ queue' = Tail(queue)
  BY DEF Take, laneVars, consumerVars, callerVars, Goto
<1>2. h \in Range(queue) /\ Range(queue') = Range(queue) \ {h}
  BY <1>1, TailFacts DEF TypeOK, OneOwner
<1>3. /\ cpc'[c] = "size" /\ hand'[c] = h
      /\ \A d \in Consumers \ {c} : cpc'[d] = cpc[d]
      /\ \A t \in Threads \ {c} : hand'[t] = hand[t]
      /\ hand[c] = NoEvent
  BY <1>1 DEF TypeOK, HandsFull
<1> HIDE DEF h
<1>4. \A e \in Events : e \in Outstanding => e \in Outstanding'
  <2> SUFFICES ASSUME NEW e \in Events, e \in Outstanding PROVE e \in Outstanding'
    OBVIOUS
  <2>1. CASE e \in Range(queue)
    BY <1>2, <1>3, <2>1 DEF Outstanding
  <2>2. CASE \E d \in Consumers : e \in items[d]
    BY <1>1, <2>2 DEF Outstanding
  <2>3. CASE \E t \in Threads : e = hand[t]
    BY <1>3, <2>3, LaneAssumption DEF Outstanding
  <2> QED
    BY <2>1, <2>2, <2>3, WhereOutstanding
<1>5. /\ mode = "async" /\ started
      /\ \A d \in Consumers : cpc'[d] # "off"
  BY <1>1, <1>3 DEF EventsPlaced
<1>6. \A e \in Range(queue') : status[e] = "accepted"
  BY <1>2 DEF EventsPlaced
<1>7. \A d \in Consumers : items[d] # {} => cpc'[d] \in Batching \cup Acking
  BY <1>3 DEF EventsPlaced, Batching
<1>8. \A d \in Consumers : \A e \in items[d] :
        IF cpc'[d] \in Acking THEN status[e] \in Outcomes ELSE status[e] = "accepted"
  BY <1>1, <1>3 DEF EventsPlaced, Acking
<1>9. /\ \A d \in Consumers : hand'[d] # NoEvent => status[hand'[d]] = "accepted"
      /\ \A t \in Callers : hand'[t] # NoEvent => status[hand'[t]] = "discarded"
  BY <1>2, <1>3 DEF EventsPlaced
<1> QED
  BY <1>1, <1>4, <1>5, <1>6, <1>7, <1>8, <1>9 DEF EventsPlaced

(* A consumer that ends the events it holds marks no other event.          *)
LEMMA OwnEvents ==
  ASSUME TypeOK, HandsFull, OneOwner, EventsPlaced, NEW c \in Consumers,
         NEW S \in SUBSET Events, \A e \in S : e \in items[c] \/ e = hand[c],
         NEW o \in Outcomes, Mark(S, o), cpc[c] \notin Acking, cpc[c] # "off"
  PROVE  /\ \A e \in S : status[e] = "accepted" /\ status'[e] = o
         /\ \A e \in Events \ S : status'[e] = status[e]
         /\ \A d \in Consumers \ {c} : \A e \in items[d] : status'[e] = status[e]
         /\ \A t \in Threads \ {c} : hand[t] # NoEvent => status'[hand[t]] = status[hand[t]]
         /\ \A e \in Range(queue) : status'[e] = status[e]
         /\ \A e \in syncing : status'[e] = status[e]
<1> USE OnePlace
<1>1. \A e \in S : status'[e] = o
  BY DEF Mark, TypeOK
<1>2. \A e \in Events \ S : status'[e] = status[e]
  BY DEF Mark, TypeOK
<1>3. \A e \in S : status[e] = "accepted"
  BY LaneAssumption DEF EventsPlaced
<1>4. ASSUME NEW d \in Consumers \ {c}, NEW e \in items[d] PROVE e \in Events \ S
  <2>1. e \notin items[c]
    OBVIOUS
  <2>2. hand[c] # NoEvent => e # hand[c]
    OBVIOUS
  <2>3. e \in Events /\ e # NoEvent
    BY LaneAssumption
  <2> QED
    BY <2>1, <2>2, <2>3
<1>5. ASSUME NEW t \in Threads \ {c}, hand[t] # NoEvent PROVE hand[t] \in Events \ S
  BY <1>5
<1>6. Range(queue) \subseteq Events \ S
  BY LaneAssumption
<1>7. syncing \subseteq Events \ S
  BY DEF TypeOK
<1> QED
  BY <1>1, <1>2, <1>3, <1>4, <1>5, <1>6, <1>7

(* A step in which a consumer ends the events S and keeps the others it    *)
(* holds.                                                                  *)
LEMMA PlacedKeeps ==
  ASSUME TypeOK, HandsFull, OneOwner, EventsPlaced, NEW c \in Consumers,
         NEW S \in SUBSET Events, \A e \in S : e \in items[c] \/ e = hand[c],
         NEW o \in Outcomes, Mark(S, o),
         cpc[c] \notin Acking, cpc[c] # "off", cpc'[c] # "off",
         UNCHANGED <<mode, started, queue, syncing>>,
         \A d \in Consumers \ {c} : cpc'[d] = cpc[d] /\ items'[d] = items[d],
         \A t \in Threads \ {c} : hand'[t] = hand[t],
         hand'[c] = NoEvent \/ (hand'[c] = hand[c] /\ hand[c] \notin S),
         \A e \in Events : e \in items[c] \/ e = hand[c] =>
                             e \in S \/ e \in items'[c] \/ e = hand'[c],
         items'[c] # {} => cpc'[c] \in Batching \cup Acking,
         \A e \in items'[c] :
           IF cpc'[c] \in Acking THEN status'[e] \in Outcomes ELSE status'[e] = "accepted"
  PROVE  EventsPlaced'
<1> USE OnePlace
<1>1. /\ \A e \in S : status[e] = "accepted" /\ status'[e] = o
      /\ \A e \in Events \ S : status'[e] = status[e]
      /\ \A d \in Consumers \ {c} : \A e \in items[d] : status'[e] = status[e]
      /\ \A t \in Threads \ {c} : hand[t] # NoEvent => status'[hand[t]] = status[hand[t]]
      /\ \A e \in Range(queue) : status'[e] = status[e]
      /\ \A e \in syncing : status'[e] = status[e]
  BY OwnEvents
<1>2. mode = "async" /\ started /\ \A d \in Consumers : cpc'[d] # "off"
  BY DEF EventsPlaced
<1>3. \A e \in Range(queue) : status'[e] = "accepted"
  BY <1>1 DEF EventsPlaced
<1>4. \A d \in Consumers : items'[d] # {} => cpc'[d] \in Batching \cup Acking
  BY DEF EventsPlaced
<1>5. ASSUME NEW d \in Consumers, NEW e \in items'[d]
      PROVE  IF cpc'[d] \in Acking THEN status'[e] \in Outcomes ELSE status'[e] = "accepted"
  <2>1. CASE d = c
    BY <2>1, <1>5
  <2>2. CASE d # c
    <3>1. e \in items[d] /\ cpc'[d] = cpc[d] /\ status'[e] = status[e]
      BY <1>1, <1>5, <2>2
    <3> QED
      BY <3>1 DEF EventsPlaced
  <2> QED
    BY <2>1, <2>2
<1>6. ASSUME NEW d \in Consumers, hand'[d] # NoEvent PROVE status'[hand'[d]] = "accepted"
  <2>1. CASE d = c
    <3>1. hand[c] \in Events \ S /\ hand'[c] = hand[c]
      BY <1>6, <2>1
    <3> QED
      BY <1>1, <1>6, <2>1, <3>1 DEF EventsPlaced
  <2>2. CASE d # c
    BY <1>1, <1>6, <2>2 DEF EventsPlaced
  <2> QED
    BY <2>1, <2>2
<1>7. ASSUME NEW t \in Callers, hand'[t] # NoEvent PROVE status'[hand'[t]] = "discarded"
  BY <1>1, <1>7 DEF EventsPlaced
<1>8. \A e \in syncing : status'[e] = "accepted" /\ mode # "async"
  BY <1>1 DEF EventsPlaced
<1>9. ASSUME NEW e \in Events, status'[e] = "accepted" PROVE e \in Outstanding' \cup syncing
  <2>1. e \notin S /\ status[e] = "accepted"
    BY <1>1, <1>9 DEF Outcomes
  <2>2. e \in Outstanding \cup syncing
    BY <2>1 DEF EventsPlaced
  <2>3. CASE e \in Range(queue)
    BY <2>3 DEF Outstanding
  <2>4. ASSUME NEW d \in Consumers, e \in items[d] PROVE e \in Outstanding'
    <3>1. CASE d = c
      BY <2>1, <2>4, <3>1 DEF Outstanding
    <3>2. CASE d # c
      BY <2>4, <3>2 DEF Outstanding
    <3> QED
      BY <3>1, <3>2
  <2>5. ASSUME NEW t \in Threads, e = hand[t] PROVE e \in Outstanding'
    <3>1. CASE t = c
      BY <2>1, <2>5, <3>1 DEF Outstanding
    <3>2. CASE t # c
      BY <2>5, <3>2 DEF Outstanding
    <3> QED
      BY <3>1, <3>2
  <2> QED
    BY <2>2, <2>3, <2>4, <2>5, WhereOutstanding
<1> QED
  BY <1>2, <1>3, <1>4, <1>5, <1>6, <1>7, <1>8, <1>9 DEF EventsPlaced

(* The steps in which a consumer ends events or moves them into its batch. *)
LEMMA PlacedEnds ==
  ASSUME TypeOK, HandsFull, OneOwner, EventsPlaced, NEW c \in Consumers,
         \/ DropUnsendable(c) \/ Collect(c) \/ CrashInNext(c)
         \/ Admit(c) /\ items[c] # {} /\ ~CanUpload(c)
         \/ PostSent(c) \/ PostFailed(c)
  PROVE  EventsPlaced'
<1> USE OnePlace, LaneAssumption DEF Outcomes, Acking, Batching, Goto
<1>0. /\ UNCHANGED <<mode, started, queue, syncing>>
      /\ \A d \in Consumers \ {c} : cpc'[d] = cpc[d] /\ items'[d] = items[d]
      /\ \A t \in Threads \ {c} : hand'[t] = hand[t]
  <2>1. ConsumerStep(c)
    BY DEF ConsumerStep
  <2>2. UNCHANGED queue
    BY DEF DropUnsendable, Collect, CrashInNext, Admit, PostSent, PostFailed, queueVars
  <2> QED
    BY <2>1, <2>2, ConsumerFrame
<1>a. /\ c \in Threads /\ hand[c] \in Events \cup {NoEvent}
      /\ items[c] \in SUBSET Events
      /\ hand[c] # NoEvent <=> cpc[c] = "size"
      /\ \A e \in items[c] : cpc[c] \notin Acking => status[e] = "accepted"
      /\ hand[c] # NoEvent => status[hand[c]] = "accepted"
  BY DEF TypeOK, HandsFull, EventsPlaced
<1>1. CASE DropUnsendable(c)
  <2>1. /\ cpc[c] = "size" /\ cpc'[c] = "next" /\ hand'[c] = NoEvent
        /\ items' = items /\ Mark({hand[c]}, "dropped")
    BY <1>1 DEF DropUnsendable, TypeOK, consumerVars
  <2>2. /\ {hand[c]} \in SUBSET Events
        /\ \A e \in items[c] : status'[e] = "accepted"
    BY <1>a, <2>1 DEF Mark, TypeOK
  <2> QED
    BY <1>0, <1>a, <2>1, <2>2, PlacedKeeps
<1>2. CASE Collect(c)
  <2>1. /\ cpc[c] = "size" /\ cpc'[c] \in {"admit", "next"} /\ hand'[c] = NoEvent
        /\ items'[c] = items[c] \cup {hand[c]} /\ status' = status
    BY <1>2 DEF Collect, TypeOK
  <2>2. Mark({}, "sent")
    BY <2>1 DEF Mark, TypeOK
  <2>3. \A e \in items'[c] : status'[e] = "accepted"
    BY <1>a, <2>1
  <2> QED
    BY <1>0, <1>a, <2>1, <2>2, <2>3, PlacedKeeps
<1>3. CASE CrashInNext(c)
  <2> DEFINE S == items[c] \cup {hand[c]}
  <2>1. /\ cpc[c] = "size" /\ cpc'[c] = "crash" /\ hand'[c] = NoEvent
        /\ items'[c] = S /\ Mark(S, "dropped")
    BY <1>3 DEF CrashInNext, TypeOK
  <2>2. S \in SUBSET Events /\ \A e : e \in S <=> e \in items[c] \/ e = hand[c]
    BY <1>a, <2>1
  <2>3. \A e \in S : status'[e] = "dropped"
    BY <2>1, <2>2 DEF Mark
  <2>4. \A e \in items'[c] : IF cpc'[c] \in Acking THEN status'[e] \in Outcomes
                                                 ELSE status'[e] = "accepted"
    BY <2>1, <2>3
  <2>5. cpc[c] \notin Acking /\ cpc[c] # "off" /\ cpc'[c] # "off" /\ "dropped" \in Outcomes
    BY <2>1
  <2> HIDE DEF S, Outcomes, Acking, Batching
  <2>6. items'[c] # {} => cpc'[c] \in Batching \cup Acking
    BY <2>1 DEF Acking
  <2> QED
    BY <1>0, <1>a, <2>1, <2>2, <2>4, <2>5, <2>6, PlacedKeeps
<1>4. CASE Admit(c) /\ items[c] # {} /\ ~CanUpload(c)
  <2>1. /\ cpc[c] \in {"admit", "upload"} /\ cpc'[c] = "ack"
        /\ items' = items /\ hand' = hand /\ Mark(items[c], "withheld")
    BY <1>4 DEF Admit, TypeOK, consumerVars
  <2>2. \A e \in items[c] : status'[e] = "withheld"
    BY <1>a, <2>1 DEF Mark
  <2> QED
    BY <1>0, <1>a, <2>1, <2>2, PlacedKeeps
<1>5. ASSUME NEW o \in {"sent", "failed"}, cpc[c] = "post", cpc'[c] \in {"ack", "crash"},
             items' = items, hand' = hand, Mark(items[c], o)
      PROVE  EventsPlaced'
  <2>1. \A e \in items[c] : status'[e] = o
    BY <1>a, <1>5 DEF Mark
  <2> QED
    BY <1>0, <1>a, <1>5, <2>1, PlacedKeeps
<1>6. CASE PostSent(c)
  BY <1>5, <1>6 DEF PostSent, TypeOK
<1>7. CASE PostFailed(c)
  BY <1>5, <1>7 DEF PostFailed, TypeOK
<1> QED
  BY <1>1, <1>2, <1>3, <1>4, <1>6, <1>7

(* A consumer acknowledges an event that has its outcome.                  *)
LEMMA PlacedAck ==
  ASSUME TypeOK, HandsFull, OneOwner, EventsPlaced, NEW c \in Consumers, Ack(c)
  PROVE  EventsPlaced'
<1> USE OnePlace DEF Acking
<1>1. PICK e \in items[c] : items' = [items EXCEPT ![c] = @ \ {e}]
  BY DEF Ack
<1>2. /\ UNCHANGED <<mode, started, queue, hand, status, syncing>>
      /\ cpc[c] \in {"ack", "crash"}
      /\ cpc' = [cpc EXCEPT ![c] = IF items'[c] # {} THEN cpc[c]
                                   ELSE IF cpc[c] = "ack" THEN "idle" ELSE "crashed"]
  BY DEF Ack, Goto, laneVars, queueVars, callerVars
<1>3. /\ items'[c] = items[c] \ {e}
      /\ items'[c] # {} => cpc'[c] = cpc[c]
      /\ cpc'[c] # "off"
      /\ \A d \in Consumers \ {c} : cpc'[d] = cpc[d] /\ items'[d] = items[d]
  BY <1>1, <1>2 DEF TypeOK
<1>4. e \in Events /\ status[e] # "accepted"
  BY <1>2 DEF EventsPlaced, Outcomes
<1>5. \A f \in Events : f \in Outstanding /\ f # e => f \in Outstanding'
  BY <1>2, <1>3 DEF Outstanding
<1>6. /\ mode # "async" \/ ~started => queue = <<>> /\ \A d \in Consumers : cpc'[d] = "off"
      /\ mode = "async" /\ started => \A d \in Consumers : cpc'[d] # "off"
  BY <1>2, <1>3 DEF EventsPlaced
<1>7. \A d \in Consumers : items'[d] # {} => cpc'[d] \in Batching \cup Acking
  BY <1>2, <1>3 DEF EventsPlaced
<1>8. \A d \in Consumers : \A f \in items'[d] :
        IF cpc'[d] \in Acking THEN status[f] \in Outcomes ELSE status[f] = "accepted"
  BY <1>2, <1>3 DEF EventsPlaced
<1> QED
  BY <1>2, <1>4, <1>5, <1>6, <1>7, <1>8 DEF EventsPlaced

(* A caller that discards takes an event that no consumer will take.       *)
LEMMA PlacedDiscard ==
  ASSUME TypeOK, HandsFull, OneOwner, EventsPlaced, NEW t \in Callers,
         DiscardTake(t) \/ DiscardBalance(t)
  PROVE  EventsPlaced'
<1> USE OnePlace
<1>1. CASE DiscardTake(t)
  <2> DEFINE h == Head(queue)
  <2>1. /\ UNCHANGED <<mode, started, items, cpc, syncing>>
        /\ tpc[t] = "discard" /\ queue # <<>> /\ queue' = Tail(queue)
        /\ hand' = [hand EXCEPT ![t] = h] /\ Mark({h}, "discarded")
    BY <1>1 DEF DiscardTake, laneVars, consumerVars
  <2>2. h \in Events /\ h \in Range(queue) /\ Range(queue') = Range(queue) \ {h}
    BY <2>1, TailFacts DEF TypeOK, OneOwner
  <2>3. /\ hand'[t] = h /\ hand[t] = NoEvent
        /\ \A u \in Threads \ {t} : hand'[u] = hand[u]
    BY <2>1 DEF TypeOK, HandsFull
  <2>4. /\ status'[h] = "discarded"
        /\ \A e \in Events \ {h} : status'[e] = status[e]
    BY <2>1, <2>2 DEF Mark, TypeOK
  <2>5. /\ \A u \in Threads : hand[u] # h
        /\ \A c \in Consumers : h \notin items[c]
        /\ h \notin syncing /\ h # NoEvent
    BY <2>2, LaneAssumption
  <2> HIDE DEF h
  <2>6. \A e \in Events : e \in Outstanding => e \in Outstanding'
    <3> SUFFICES ASSUME NEW e \in Events, e \in Outstanding PROVE e \in Outstanding'
      OBVIOUS
    <3>1. CASE e \in Range(queue)
      BY <2>2, <2>3, <3>1 DEF Outstanding
    <3>2. CASE \E c \in Consumers : e \in items[c]
      BY <2>1, <3>2 DEF Outstanding
    <3>3. CASE \E u \in Threads : e = hand[u]
      BY <2>3, <3>3, LaneAssumption DEF Outstanding
    <3> QED
      BY <3>1, <3>2, <3>3, WhereOutstanding
  <2>7. /\ mode = "async" /\ started /\ \A c \in Consumers : cpc[c] # "off"
        /\ \A c \in Consumers : items[c] # {} => cpc[c] \in Batching \cup Acking
    BY <2>1 DEF EventsPlaced
  <2>8. \A e \in Range(queue') : status'[e] = "accepted"
    BY <2>2, <2>4 DEF EventsPlaced
  <2>9. \A c \in Consumers : \A e \in items[c] :
          IF cpc[c] \in Acking THEN status'[e] \in Outcomes ELSE status'[e] = "accepted"
    BY <2>4, <2>5 DEF EventsPlaced
  <2>10. /\ \A c \in Consumers : hand'[c] # NoEvent => status'[hand'[c]] = "accepted"
         /\ \A u \in Callers : hand'[u] # NoEvent => status'[hand'[u]] = "discarded"
    BY <2>3, <2>4, <2>5 DEF EventsPlaced
  <2>11. /\ \A e \in syncing : status'[e] = "accepted" /\ mode # "async"
         /\ \A e \in Events : status'[e] = "accepted" => status[e] = "accepted"
    BY <2>4, <2>5 DEF EventsPlaced, TypeOK
  <2> QED
    BY <2>1, <2>6, <2>7, <2>8, <2>9, <2>10, <2>11 DEF EventsPlaced
<1>2. CASE DiscardBalance(t)
  <2>1. /\ UNCHANGED <<mode, started, queue, items, cpc, status, syncing>>
        /\ tpc[t] = "balance" /\ hand' = [hand EXCEPT ![t] = NoEvent]
    BY <1>2 DEF DiscardBalance, laneVars, consumerVars
  <2>2. /\ hand'[t] = NoEvent
        /\ \A u \in Threads \ {t} : hand'[u] = hand[u]
        /\ hand[t] # NoEvent
    BY <2>1 DEF TypeOK, HandsFull
  <2>3. status[hand[t]] = "discarded"
    BY <2>2 DEF EventsPlaced
  <2>4. \A e \in Events : e \in Outstanding /\ status[e] = "accepted" => e \in Outstanding'
    BY <2>1, <2>2, <2>3 DEF Outstanding
  <2>5. /\ \A c \in Consumers : hand'[c] # NoEvent => status[hand'[c]] = "accepted"
        /\ \A u \in Callers : hand'[u] # NoEvent => status[hand'[u]] = "discarded"
    BY <2>2 DEF EventsPlaced
  <2> QED
    BY <2>1, <2>4, <2>5 DEF EventsPlaced
<1> QED
  BY <1>1, <1>2

(* Captures put events in their places.                                    *)
LEMMA PlacedCapture ==
  ASSUME TypeOK, HandsFull, OneOwner, NewIsNowhere, EventsPlaced,
         Start \/ \E e \in Events : Enqueue(e) \/ EnqueueRefused(e) \/ SyncBegin(e) \/ SyncEnd(e)
  PROVE  EventsPlaced'
<1> USE OnePlace
<1>1. CASE Start
  <2>1. /\ UNCHANGED <<mode, queue, items, hand, status, syncing>>
        /\ ~started /\ started' /\ mode # "sync"
        /\ cpc' = IF mode = "async" THEN [c \in Consumers |-> "loop"] ELSE cpc
    BY <1>1 DEF Start, queueVars, consumerVars
  <2>2. Outstanding' = Outstanding
    BY <2>1 DEF Outstanding
  <2>3. /\ queue = <<>> /\ \A c \in Consumers : cpc[c] = "off" /\ items[c] = {}
    BY <2>1 DEF EventsPlaced, Batching, Acking
  <2>4. /\ mode # "async" => \A c \in Consumers : cpc'[c] = "off"
        /\ mode = "async" => \A c \in Consumers : cpc'[c] # "off"
    BY <2>1, <2>3
  <2> QED
    BY <2>1, <2>2, <2>3, <2>4 DEF EventsPlaced
<1>2. ASSUME NEW e \in Events, Enqueue(e) PROVE EventsPlaced'
  <2>1. /\ UNCHANGED <<mode, started, items, hand, syncing>>
        /\ mode = "async" /\ started /\ status[e] = "new"
        /\ queue' = Append(queue, e) /\ status' = [status EXCEPT ![e] = "accepted"]
        /\ NotifyOne
    BY <1>2 DEF Enqueue, laneVars, consumerVars
  <2>2. Range(queue') = Range(queue) \cup {e}
    BY <2>1, AppendFacts DEF TypeOK
  <2>3. /\ status'[e] = "accepted" /\ \A f \in Events \ {e} : status'[f] = status[f]
    BY <2>1 DEF TypeOK
  <2>4. \A f \in Events : f \in Outstanding \/ f = e => f \in Outstanding'
    BY <2>1, <2>2 DEF Outstanding
  <2>5. \A c \in Consumers : /\ cpc'[c] = "off" <=> cpc[c] = "off"
                             /\ cpc'[c] \in Acking <=> cpc[c] \in Acking
                             /\ cpc[c] \in Batching => cpc'[c] \in Batching
    BY <2>1, Wakes DEF Batching, Acking
  <2>6. e \notin Outstanding
    BY <2>1 DEF NewIsNowhere
  <2>7. /\ \A c \in Consumers : e \notin items[c]
        /\ \A t \in Threads : hand[t] # e
    BY <2>6, WhereOutstanding
  <2>8. \A c \in Consumers : \A f \in items[c] :
          IF cpc'[c] \in Acking THEN status'[f] \in Outcomes ELSE status'[f] = "accepted"
    BY <2>3, <2>5, <2>7 DEF EventsPlaced
  <2>9. /\ \A c \in Consumers : hand[c] # NoEvent => status'[hand[c]] = "accepted"
        /\ \A t \in Callers : hand[t] # NoEvent => status'[hand[t]] = "discarded"
    BY <2>3, <2>7 DEF EventsPlaced
  <2>10. \A f \in Range(queue') : status'[f] = "accepted"
    BY <2>2, <2>3 DEF EventsPlaced
  <2>11. syncing = {}
    BY <2>1 DEF EventsPlaced
  <2>12. /\ \A c \in Consumers : cpc'[c] # "off"
         /\ \A c \in Consumers : items[c] # {} => cpc'[c] \in Batching \cup Acking
    BY <2>1, <2>5 DEF EventsPlaced
  <2>13. \A f \in Events : status'[f] = "accepted" => f \in Outstanding'
    BY <2>3, <2>4, <2>11 DEF EventsPlaced
  <2> QED
    BY <2>1, <2>8, <2>9, <2>10, <2>11, <2>12, <2>13 DEF EventsPlaced
<1>3. ASSUME NEW e \in Events, EnqueueRefused(e) \/ SyncBegin(e) PROVE EventsPlaced'
  <2>1. /\ UNCHANGED <<mode, started, queue, items, hand, cpc>> /\ status[e] = "new"
        /\ \/ status' = [status EXCEPT ![e] = "refused"] /\ UNCHANGED syncing
           \/ /\ status' = [status EXCEPT ![e] = "accepted"] /\ syncing' = syncing \cup {e}
              /\ mode # "async"
    BY <1>3 DEF EnqueueRefused, SyncBegin, laneVars, queueVars, consumerVars
  <2>2. /\ \A f \in Events \ {e} : status'[f] = status[f]
        /\ \/ status'[e] = "refused" /\ syncing' = syncing
           \/ status'[e] = "accepted" /\ syncing' = syncing \cup {e} /\ mode # "async"
    BY <2>1 DEF TypeOK
  <2>3. Outstanding' = Outstanding /\ e \notin Outstanding
    BY <2>1 DEF Outstanding, NewIsNowhere
  <2>4. /\ e \notin Range(queue) /\ \A c \in Consumers : e \notin items[c]
        /\ \A t \in Threads : hand[t] # e
    BY <2>3, WhereOutstanding
  <2>5. \A c \in Consumers : \A f \in items[c] :
          IF cpc[c] \in Acking THEN status'[f] \in Outcomes ELSE status'[f] = "accepted"
    BY <2>2, <2>4 DEF EventsPlaced
  <2>6. /\ \A c \in Consumers : hand[c] # NoEvent => status'[hand[c]] = "accepted"
        /\ \A t \in Callers : hand[t] # NoEvent => status'[hand[t]] = "discarded"
    BY <2>2, <2>4 DEF EventsPlaced
  <2>7. /\ \A f \in Range(queue) : status'[f] = "accepted"
        /\ \A f \in syncing' : status'[f] = "accepted" /\ mode # "async"
        /\ \A f \in Events : status'[f] = "accepted" => f \in Outstanding \cup syncing'
    <3>1. \A f \in syncing : f # e
      BY <2>1 DEF EventsPlaced
    <3>2. syncing \subseteq Events
      BY DEF TypeOK
    <3> QED
      BY <2>2, <2>4, <3>1, <3>2 DEF EventsPlaced
  <2> QED
    BY <2>1, <2>3, <2>5, <2>6, <2>7 DEF EventsPlaced
<1>4. ASSUME NEW e \in Events, SyncEnd(e) PROVE EventsPlaced'
  <2>1. /\ UNCHANGED <<mode, started, queue, items, hand, cpc>>
        /\ e \in syncing /\ syncing' = syncing \ {e}
        /\ \E o \in Outcomes : status' = [status EXCEPT ![e] = o]
    BY <1>4 DEF SyncEnd, laneVars, queueVars, consumerVars, Outcomes
  <2>2. /\ \A f \in Events \ {e} : status'[f] = status[f]
        /\ status'[e] # "accepted"
    BY <2>1 DEF TypeOK, Outcomes
  <2>3. Outstanding' = Outstanding
    BY <2>1 DEF Outstanding
  <2>4. /\ e \notin Range(queue)
        /\ \A c \in Consumers : e \notin items[c] /\ hand[c] # e
        /\ status[e] = "accepted"
    BY <2>1 DEF EventsPlaced
  <2>5. \A t \in Callers : hand[t] # NoEvent => hand[t] \in Events /\ hand[t] # e
    BY <2>4 DEF EventsPlaced
  <2>6. \A c \in Consumers : \A f \in items[c] :
          IF cpc[c] \in Acking THEN status'[f] \in Outcomes ELSE status'[f] = "accepted"
    BY <2>2, <2>4 DEF EventsPlaced
  <2>7. /\ \A c \in Consumers : hand[c] # NoEvent => status'[hand[c]] = "accepted"
        /\ \A t \in Callers : hand[t] # NoEvent => status'[hand[t]] = "discarded"
    BY <2>2, <2>4, <2>5 DEF EventsPlaced
  <2>8. /\ \A f \in Range(queue) : status'[f] = "accepted"
        /\ \A f \in syncing' : status'[f] = "accepted" /\ mode # "async"
        /\ \A f \in Events : status'[f] = "accepted" => f \in Outstanding \cup syncing'
    BY <2>1, <2>2, <2>4 DEF EventsPlaced, TypeOK
  <2> QED
    BY <2>1, <2>3, <2>6, <2>7, <2>8 DEF EventsPlaced
<1> QED
  BY <1>1, <1>2, <1>3, <1>4

(* Every step keeps the accepted events in their places.                   *)
LEMMA PlacedStep ==
  ASSUME TypeOK, HandsFull, OneOwner, NewIsNowhere, EventsPlaced, [Next]_vars
  PROVE  EventsPlaced'
<1>1. CASE Start \/ \E e \in Events : Enqueue(e) \/ EnqueueRefused(e) \/ SyncBegin(e)
                                       \/ SyncEnd(e)
  BY <1>1, PlacedCapture
<1>2. ASSUME NEW c \in Consumers, ConsumerStep(c) PROVE EventsPlaced'
  <2>1. CASE Take(c)
    BY <2>1, PlacedTake
  <2>2. CASE Ack(c)
    BY <2>2, PlacedAck
  <2>3. CASE \/ DropUnsendable(c) \/ Collect(c) \/ CrashInNext(c)
             \/ Admit(c) /\ items[c] # {} /\ ~CanUpload(c)
             \/ PostSent(c) \/ PostFailed(c)
    BY <2>3, PlacedEnds
  <2>4. CASE \/ Loop(c) \/ ReadDraining(c) \/ CheckRunning(c) \/ GetEmpty(c) \/ Park(c)
             \/ WaitTimeout(c) \/ PostRetry(c) \/ Idle(c)
             \/ Admit(c) /\ (items[c] = {} \/ CanUpload(c))
    BY <2>4, PlacedQuietly
  <2> QED
    BY <1>2, <2>1, <2>2, <2>3, <2>4 DEF ConsumerStep
<1>3. ASSUME NEW t \in Callers, Close(t) \/ CallerStep(t) PROVE EventsPlaced'
  <2>1. CASE DiscardTake(t) \/ DiscardBalance(t)
    BY <2>1, PlacedDiscard
  <2>2. CASE \/ Close(t) \/ Request(t) \/ CheckUnfinished(t) \/ CheckAlive(t) \/ FlushWait(t)
             \/ FlushTimeout(t) \/ DiscardEnd(t) \/ Complete(t) \/ Pause(t) \/ PauseEnd(t)
    <3>1. UNCHANGED <<queue, hand, status>>
      BY <2>2 DEF Close, Request, CheckUnfinished, CheckAlive, FlushWait, FlushTimeout,
                  DiscardEnd, Complete, Pause, PauseEnd, queueVars
    <3>2. UNCHANGED <<mode, started, items, syncing>> /\ (cpc' = cpc \/ NotifyAll)
      BY <1>3, CallerFrame
    <3>3. \A d \in Consumers : /\ cpc'[d] = "off" <=> cpc[d] = "off"
                               /\ cpc'[d] \in Acking <=> cpc[d] \in Acking
                               /\ cpc[d] \in Batching => cpc'[d] \in Batching
      BY <3>2, Wakes DEF Batching, Acking
    <3>4. \A d \in Consumers : items[d] # {} => cpc'[d] \in Batching \cup Acking
      BY <3>3 DEF EventsPlaced
    <3> QED
      BY <3>1, <3>2, <3>3, <3>4, NoEventMoves
  <2> QED
    BY <1>3, <2>1, <2>2 DEF CallerStep
<1>4. ASSUME UNCHANGED <<mode, started, queue, items, hand, status, syncing, cpc>>
      PROVE  EventsPlaced'
  <2>1. \A d \in Consumers : items[d] # {} => cpc'[d] \in Batching \cup Acking
    BY <1>4 DEF EventsPlaced
  <2> QED
    BY <1>4, <2>1, NoEventMoves
<1>5. CASE ShutdownStep
  BY <1>4, <1>5, ShutdownFrame
<1>6. CASE UNCHANGED vars
  BY <1>4, <1>6 DEF vars, laneVars, queueVars, consumerVars
<1> QED
  BY <1>1, <1>2, <1>3, <1>5, <1>6 DEF Next

-----------------------------------------------------------------------------
(* Where the callers are *)

(* What is set for good: the mode, a start and a close.                    *)
LEMMA ForGood ==
  ASSUME TypeOK, [Next]_vars
  PROVE  mode' = mode /\ (started => started') /\ (closed => closed')
<1>1. CASE Start \/ \E e \in Events : Enqueue(e) \/ EnqueueRefused(e) \/ SyncBegin(e)
                                       \/ SyncEnd(e)
  <2>1. Start => started'
    BY DEF Start
  <2> QED
    BY <1>1, <2>1, CaptureFrame
<1>2. ASSUME NEW t \in Callers, Close(t) \/ CallerStep(t)
      PROVE  closed => closed'
  BY <1>2 DEF Close, CallerStep, Request, CheckUnfinished, CheckAlive, FlushWait, FlushTimeout,
              DiscardTake, DiscardBalance, DiscardEnd, Complete, Pause, PauseEnd, laneVars
<1> QED
  BY <1>1, <1>2, ConsumerFrame, CallerFrame, ShutdownFrame DEF Next, vars, laneVars

(* The moves of a caller, with what it saw or did at each.                 *)
Move(t, from, to) == tpc[t] \in from /\ tpc'[t] = to

CallerMove(t) ==
  \/ /\ Move(t, {"call"}, IF t = Shutdown THEN "syncs" ELSE "request")
     /\ Owner(t) /\ closed' /\ \A o \in {Shutdown, AtExit} \ {t} : tpc[o] \in {"call", "done"}
     /\ stage'[t] = stage[t]
  \/ /\ Move(t, {"call", "request"}, IF stage[t] = "join" THEN "pause" ELSE "check")
     /\ tpc[t] = "call" => ~Owner(t)
     /\ stage'[t] = stage[t]
  \/ /\ Move(t, {"check", "wait"}, "complete")
     /\ unfinished = 0 \/ Timed(t)
     /\ stage'[t] = stage[t]
  \/ /\ Move(t, {"check"}, "alive")
     /\ unfinished # 0
     /\ stage'[t] = stage[t]
  \/ /\ Move(t, {"check", "alive"}, "wait")
     /\ stage'[t] = stage[t]
  \/ /\ Move(t, {"wait"}, "check")
     /\ stage'[t] = stage[t]
  \/ /\ Move(t, {"alive"}, "discard")
     /\ ~AnyAlive /\ stage'[t] = stage[t]
  \/ /\ Move(t, {"discard"}, "balance")
     /\ stage'[t] = stage[t]
  \/ /\ Move(t, {"balance"}, "discard")
     /\ stage'[t] = stage[t]
  \/ /\ Move(t, {"discard"}, "request")
     /\ AnyAlive \/ queue = <<>>
     /\ stage[t] = "skip" /\ stage'[t] = "join"
  \/ /\ Move(t, {"discard"}, "complete")
     /\ AnyAlive \/ queue = <<>>
     /\ stage[t] # "skip" /\ stage'[t] = stage[t]
  \/ /\ Move(t, {"complete"}, "request")
     /\ t = Shutdown /\ stage[t] = "flush" /\ stage'[t] = "join"
  \/ /\ Move(t, {"complete"}, "pause")
     /\ t = AtExit /\ stage'[t] = stage[t]
  \/ /\ Move(t, {"complete"}, "done")
     /\ t # AtExit /\ ~(t = Shutdown /\ stage[t] = "flush")
     /\ stage'[t] = stage[t]
  \/ /\ Move(t, {"pause"}, "pause")
     /\ stage'[t] = stage[t]
  \/ /\ Move(t, {"pause"}, IF t = Shutdown THEN "join" ELSE "done")
     /\ toStop[t] = {} /\ stage'[t] = stage[t]

(* Every step of a caller is one of these moves.                           *)
LEMMA CallerMoves ==
  ASSUME TypeOK, NEW t \in Callers, Close(t) \/ CallerStep(t)
  PROVE  CallerMove(t) /\ UNCHANGED syncing
<1> USE DEF TypeOK, CallerGoto, CallerMove, Move
<1>1. CASE Close(t)
  BY <1>1 DEF Close
<1>2. CASE Request(t)
  BY <1>2 DEF Request
<1>3. CASE CheckUnfinished(t)
  BY <1>3 DEF CheckUnfinished
<1>4. CASE CheckAlive(t)
  BY <1>4 DEF CheckAlive
<1>5. CASE FlushWait(t)
  BY <1>5 DEF FlushWait
<1>6. CASE FlushTimeout(t)
  BY <1>6 DEF FlushTimeout
<1>7. CASE DiscardTake(t)
  BY <1>7 DEF DiscardTake
<1>8. CASE DiscardBalance(t)
  BY <1>8 DEF DiscardBalance
<1>9. CASE DiscardEnd(t)
  BY <1>9 DEF DiscardEnd
<1>10. CASE Complete(t)
  BY <1>10 DEF Complete
<1>11. CASE Pause(t)
  BY <1>11 DEF Pause
<1>12. CASE PauseEnd(t)
  BY <1>12 DEF PauseEnd
<1>13. UNCHANGED syncing
  BY CallerFrame
<1> QED
  BY <1>1, <1>2, <1>3, <1>4, <1>5, <1>6, <1>7, <1>8, <1>9, <1>10, <1>11, <1>12, <1>13
     DEF CallerStep

(* The moves of the shutdown between its parts.                            *)
LEMMA ShutdownMoves ==
  ASSUME TypeOK, ShutdownStep
  PROVE  \/ Move(Shutdown, {"syncs"}, "drain") /\ syncing = {} /\ UNCHANGED stage
         \/ Move(Shutdown, {"drain"}, "request") /\ UNCHANGED stage
         \/ /\ Move(Shutdown, {"drain"}, "discard")
            /\ ~AnyAlive /\ stage'[Shutdown] = "skip"
         \/ Move(Shutdown, {"join"}, "discard") /\ ~AnyAlive /\ UNCHANGED stage
<1> USE DEF TypeOK, CallerGoto, Move, Callers
<1>1. CASE WaitForSyncSends
  BY <1>1 DEF WaitForSyncSends
<1>2. CASE FlushOrDiscard
  BY <1>2 DEF FlushOrDiscard
<1>3. CASE JoinConsumers
  BY <1>3 DEF JoinConsumers
<1> QED
  BY <1>1, <1>2, <1>3 DEF ShutdownStep

(* No unfinished task means that nothing is queued, in a batch or in a     *)
(* hand; and an unfinished task means that the lane has started.           *)
LEMMA Unfinished ==
  ASSUME TypeOK, HandsFull, OneOwner, Accounting, EventsPlaced
  PROVE  /\ unfinished = 0 => Outstanding = {} /\ queue = <<>>
         /\ unfinished # 0 => started \/ \E t \in Callers : tpc[t] = "balance"
<1>1. unfinished = 0 => Outstanding = {}
  BY OutstandingFinite, FS_EmptySet DEF Accounting
<1>2. Outstanding = {} => queue = <<>>
  <2>1. queue # <<>> => Head(queue) \in Range(queue) /\ Head(queue) \in Events
    BY TailFacts DEF TypeOK
  <2> QED
    BY <2>1 DEF Outstanding
<1>3. ASSUME ~started, \A t \in Callers : tpc[t] # "balance" PROVE unfinished = 0
  <2>1. queue = <<>> /\ \A c \in Consumers : cpc[c] = "off"
    BY <1>3 DEF EventsPlaced
  <2>2. Range(queue) = {}
    BY <2>1 DEF Range
  <2>3. \A c \in Consumers : items[c] = {}
    BY <2>1 DEF EventsPlaced, Batching, Acking
  <2>4. \A t \in Threads : hand[t] = NoEvent
    BY <1>3, <2>1 DEF HandsFull, Threads
  <2>5. Outstanding = {}
    BY <2>2, <2>3, <2>4, LaneAssumption DEF Outstanding
  <2> QED
    BY <2>5, FS_EmptySet DEF Accounting
<1> QED
  BY <1>1, <1>2, <1>3

(* An empty queue is filled by a capture only.                             *)
LEMMA QueueStaysEmpty ==
  ASSUME TypeOK, [Next]_vars, queue = <<>>
  PROVE  queue' = <<>> \/ ~closed
<1> USE DEF laneVars, queueVars
<1>1. CASE Start \/ \E e \in Events : Enqueue(e) \/ EnqueueRefused(e) \/ SyncBegin(e)
                                       \/ SyncEnd(e)
  BY <1>1 DEF Start, Enqueue, EnqueueRefused, SyncBegin, SyncEnd
<1>2. ASSUME NEW c \in Consumers, ConsumerStep(c) PROVE queue' = <<>>
  BY <1>2 DEF ConsumerStep, Loop, ReadDraining, CheckRunning, Take, GetEmpty, Park, WaitTimeout,
              DropUnsendable, Collect, CrashInNext, Admit, PostSent, PostRetry, PostFailed, Ack,
              Idle
<1>3. ASSUME NEW t \in Callers, Close(t) \/ CallerStep(t) PROVE queue' = <<>>
  BY <1>3 DEF Close, CallerStep, Request, CheckUnfinished, CheckAlive, FlushWait, FlushTimeout,
              DiscardTake, DiscardBalance, DiscardEnd, Complete, Pause, PauseEnd
<1> QED
  BY <1>1, <1>2, <1>3, ShutdownFrame DEF Next, vars

(* The order of the steps of a call is kept.                               *)
LEMMA CallsOrderedStep ==
  ASSUME OwnerInv, StagesOK, EventsPlaced, CallsOrdered, [Next]_vars
  PROVE  CallsOrdered'
<1>0. TypeOK /\ HandsFull /\ OneOwner /\ Accounting
  BY DEF OwnerInv
<1>1. mode' = mode /\ (started => started') /\ (closed => closed')
  BY <1>0, ForGood
<1>2. Dead => Dead'
  BY <1>0, DeadStays
<1>3. ASSUME NEW t \in Callers, Close(t) \/ CallerStep(t) PROVE CallsOrdered'
  <2>1. CallerMove(t)
    BY <1>0, <1>3, CallerMoves
  <2>2. \A u \in Callers \ {t} : tpc'[u] = tpc[u]
    BY <1>0, <1>3, CallerFrame
  <2>3. Owner(t) /\ tpc'[t] # "call" => closed'
    BY <1>1, <2>1 DEF CallerMove, Move, CallsOrdered
  <2>4. tpc'[t] \in {"request", "pause"} => Owner(t)
    BY <2>1 DEF CallerMove, Move, CallsOrdered, StagesOK, Owner
  <2>5. tpc'[t] \in {"syncs", "drain", "join"} => t = Shutdown
    BY <2>1 DEF CallerMove, Move, CallsOrdered
  <2>6. tpc'[t] = "alive" => started \/ closed
    <3>1. unfinished # 0 => started \/ \E u \in Callers : tpc[u] = "balance"
      BY <1>0, Unfinished
    <3> QED
      BY <2>1, <3>1 DEF CallerMove, Move, CallsOrdered, Dead
  <2>7. tpc'[t] \in {"discard", "balance"} => Dead
    BY <2>1 DEF CallerMove, Move, CallsOrdered, Dead
  <2>8. Owner(t) => \/ tpc'[t] = "done"
                    \/ \A o \in {Shutdown, AtExit} \ {t} : tpc[o] \in {"call", "done"}
    <3>1. tpc[t] # "done" /\ (Owner(t) /\ tpc[t] = "call"
                                => \A o \in {Shutdown, AtExit} \ {t} : tpc[o] \in {"call", "done"})
      BY <2>1 DEF CallerMove, Move
    <3> QED
      BY <3>1, LaneAssumption DEF CallsOrdered, Owner
  <2>9. tpc'[Shutdown] \in {"call", "done"} \/ tpc'[AtExit] \in {"call", "done"}
    BY <2>2, <2>8, LaneAssumption DEF CallsOrdered, Owner, Callers
  <2> QED
    BY <1>1, <1>2, <2>2, <2>3, <2>4, <2>5, <2>6, <2>7, <2>9 DEF CallsOrdered, Owner
<1>4. CASE ShutdownStep
  <2>1. \A u \in Callers \ {Shutdown} : tpc'[u] = tpc[u]
    BY <1>0, <1>4, ShutdownFrame
  <2>2. /\ tpc[Shutdown] \in {"syncs", "drain", "join"}
        /\ tpc'[Shutdown] \in {"drain", "request", "discard"}
        /\ tpc'[Shutdown] = "discard" => ~AnyAlive
    BY <1>0, <1>4, ShutdownMoves DEF Move
  <2>3. closed
    BY <2>2 DEF CallsOrdered, Callers, Owner
  <2>4. tpc[AtExit] \in {"call", "done"} /\ tpc'[AtExit] = tpc[AtExit]
    BY <2>1, <2>2, LaneAssumption DEF CallsOrdered, Callers
  <2> QED
    BY <1>1, <1>2, <2>1, <2>2, <2>3, <2>4 DEF CallsOrdered, Owner, Dead
<1>5. ASSUME UNCHANGED tpc PROVE CallsOrdered'
  BY <1>1, <1>2, <1>5 DEF CallsOrdered, Owner
<1>6. ASSUME NEW c \in Consumers, ConsumerStep(c) PROVE UNCHANGED tpc
  BY <1>0, <1>6, ConsumerFrame
<1>7. CASE Start \/ \E e \in Events : Enqueue(e) \/ EnqueueRefused(e) \/ SyncBegin(e)
                                       \/ SyncEnd(e)
  BY <1>0, <1>5, <1>7, CaptureFrame
<1>8. CASE UNCHANGED vars
  BY <1>5, <1>8 DEF vars, callerVars
<1> QED
  BY <1>3, <1>4, <1>5, <1>6, <1>7, <1>8 DEF Next

(* A shutdown that has passed its flush or its join has emptied the lane.  *)
LEMMA ShutdownOrderedStep ==
  ASSUME OwnerInv, StagesOK, EventsPlaced, CallsOrdered, ShutdownOrdered, [Next]_vars
  PROVE  ShutdownOrdered'
<1>0. TypeOK /\ HandsFull /\ OneOwner /\ Accounting
  BY DEF OwnerInv
<1> Shutdown \in Callers
  BY DEF Callers
<1>1. Dead => Dead'
  BY <1>0, DeadStays
<1>2. tpc[Shutdown] # "call" => closed
  BY DEF CallsOrdered, Owner
<1>3. queue = <<>> /\ tpc[Shutdown] # "call" => queue' = <<>>
  BY <1>0, <1>2, QueueStaysEmpty
<1>4. tpc[Shutdown] \notin {"call", "syncs"} => syncing' = {}
  <2>1. CASE \E e \in Events : SyncBegin(e) \/ SyncEnd(e)
    BY <1>2, <2>1 DEF SyncBegin, SyncEnd, ShutdownOrdered
  <2>2. CASE Start \/ \E e \in Events : Enqueue(e) \/ EnqueueRefused(e)
    BY <2>2 DEF Start, Enqueue, EnqueueRefused, ShutdownOrdered
  <2>3. CASE UNCHANGED vars
    BY <2>3 DEF vars, ShutdownOrdered
  <2> QED
    BY <1>0, <2>1, <2>2, <2>3, ConsumerFrame, CallerFrame, ShutdownFrame
       DEF Next, ShutdownOrdered
<1>5. ASSUME tpc'[Shutdown] = tpc[Shutdown], stage'[Shutdown] = stage[Shutdown]
      PROVE  ShutdownOrdered'
  BY <1>1, <1>3, <1>4, <1>5 DEF ShutdownOrdered
<1>6. CASE Close(Shutdown) \/ CallerStep(Shutdown)
  <2>1. CallerMove(Shutdown) /\ UNCHANGED syncing
    BY <1>0, <1>6, CallerMoves
  <2>2. unfinished = 0 => queue = <<>>
    BY <1>0, Unfinished
  <2>3. ~Timed(Shutdown) /\ Owner(Shutdown) /\ Shutdown # AtExit
    BY LaneAssumption DEF Timed, Owner
  <2>4. tpc[Shutdown] \in {"discard", "balance"} => Dead
    BY DEF CallsOrdered
  <2>5. tpc[Shutdown] = "call" => tpc'[Shutdown] = "syncs" /\ stage'[Shutdown] = stage[Shutdown]
    BY <2>1, <2>3 DEF CallerMove, Move
  <2>6. tpc[Shutdown] \notin {"call", "syncs"} \/ tpc[Shutdown] = "call"
    BY <2>1 DEF CallerMove, Move
  <2>7. stage[Shutdown] = "skip" => tpc[Shutdown] \in {"discard", "balance"}
    BY DEF StagesOK
  <2>8. stage'[Shutdown] = "join" =>
          tpc'[Shutdown] \in {"request", "pause", "join", "discard", "balance", "complete", "done"}
    BY <2>1, <2>3 DEF CallerMove, Move, ShutdownOrdered
  <2>9. stage'[Shutdown] = "join" \/ tpc'[Shutdown] = "complete" => queue = <<>>
    BY <2>1, <2>2, <2>3, <2>4 DEF CallerMove, Move, ShutdownOrdered, Dead
  <2>10. stage'[Shutdown] = "join" /\ tpc'[Shutdown] = "complete" => Dead
    BY <2>1, <2>3, <2>4 DEF CallerMove, Move, ShutdownOrdered
  <2>11. tpc'[Shutdown] = "done" => stage'[Shutdown] = "join" /\ Dead
    BY <1>0, <2>1, <2>3, <2>7 DEF CallerMove, Move, ShutdownOrdered, TypeOK
  <2> QED
    BY <1>1, <1>3, <1>4, <2>5, <2>6, <2>8, <2>9, <2>10, <2>11 DEF ShutdownOrdered
<1>7. ASSUME NEW t \in Callers, t # Shutdown, Close(t) \/ CallerStep(t)
      PROVE  tpc'[Shutdown] = tpc[Shutdown] /\ stage'[Shutdown] = stage[Shutdown]
  BY <1>0, <1>7, CallerFrame
<1>8. CASE ShutdownStep
  <2>1. /\ tpc[Shutdown] \in {"syncs", "drain", "join"}
        /\ tpc'[Shutdown] \in {"drain", "request", "discard"}
        /\ tpc[Shutdown] = "syncs" => syncing = {}
        /\ stage'[Shutdown] = "join" =>
             stage[Shutdown] = "join" /\ tpc[Shutdown] \notin {"syncs", "drain"}
    BY <1>0, <1>8, ShutdownMoves DEF Move, ShutdownOrdered
  <2>2. stage'[Shutdown] = "join" => tpc'[Shutdown] = "discard"
    BY <1>0, <1>8, <2>1, ShutdownMoves DEF Move
  <2>3. UNCHANGED syncing
    BY <1>0, <1>8, ShutdownFrame
  <2> QED
    BY <1>3, <1>4, <2>1, <2>2, <2>3 DEF ShutdownOrdered
<1>9. ASSUME NEW c \in Consumers, ConsumerStep(c)
      PROVE  tpc'[Shutdown] = tpc[Shutdown] /\ stage'[Shutdown] = stage[Shutdown]
  BY <1>0, <1>9, ConsumerFrame
<1>10. CASE Start \/ \E e \in Events : Enqueue(e) \/ EnqueueRefused(e) \/ SyncBegin(e)
                                        \/ SyncEnd(e)
  BY <1>0, <1>5, <1>10, CaptureFrame
<1>11. CASE UNCHANGED vars
  BY <1>5, <1>11 DEF vars, callerVars
<1> QED
  BY <1>5, <1>6, <1>7, <1>8, <1>9, <1>10, <1>11 DEF Next

-----------------------------------------------------------------------------
(* What becomes of the consumers and of the events *)

(* Only a pause stops a consumer, and only a lifecycle owner pauses.       *)
LEMMA RunningChanges ==
  ASSUME TypeOK, CallsOrdered, StagesOK, [Next]_vars
  PROVE  \/ UNCHANGED <<running, drainOnStop>>
         \/ \E t \in {Shutdown, AtExit} : \E c \in toStop[t] :
              /\ tpc[t] = "pause" /\ closed
              /\ t = Shutdown => stage[t] = "join" /\ stage' = stage
              /\ toStop' = [toStop EXCEPT ![t] = @ \ {c}]
              /\ running' = [running EXCEPT ![c] = FALSE]
              /\ drainOnStop' = [drainOnStop EXCEPT ![c] = (t = Shutdown)]
              /\ tpc' = tpc
              /\ NotifyAll
<1>1. ASSUME NEW t \in Callers, Pause(t)
      PROVE  \E c \in toStop[t] :
               /\ tpc[t] = "pause" /\ closed /\ Owner(t)
               /\ t = Shutdown => stage[t] = "join" /\ stage' = stage
               /\ toStop' = [toStop EXCEPT ![t] = @ \ {c}]
               /\ running' = [running EXCEPT ![c] = FALSE]
               /\ drainOnStop' = [drainOnStop EXCEPT ![c] = (t = Shutdown)]
               /\ tpc' = tpc
               /\ NotifyAll
  <2>1. tpc[t] = "pause" /\ Owner(t)
    BY <1>1 DEF Pause, CallsOrdered
  <2>2. closed /\ (t = Shutdown => stage[t] = "join")
    BY <2>1 DEF CallsOrdered, StagesOK
  <2> QED
    BY <1>1, <2>1, <2>2 DEF Pause
<1>2. ASSUME NEW t \in Callers, Close(t) \/ CallerStep(t), ~Pause(t)
      PROVE  UNCHANGED <<running, drainOnStop>>
  BY <1>2 DEF Close, CallerStep, Request, CheckUnfinished, CheckAlive, FlushWait, FlushTimeout,
              DiscardTake, DiscardBalance, DiscardEnd, Complete, PauseEnd, stopVars
<1>3. ASSUME NEW c \in Consumers, ConsumerStep(c) PROVE UNCHANGED <<running, drainOnStop>>
  BY <1>3, ConsumerFrame
<1>4. CASE Start \/ \E e \in Events : Enqueue(e) \/ EnqueueRefused(e) \/ SyncBegin(e)
                                       \/ SyncEnd(e)
  BY <1>4, CaptureFrame
<1>5. CASE ShutdownStep
  BY <1>5, ShutdownFrame
<1>6. CASE UNCHANGED vars
  BY <1>6 DEF vars, stopVars
<1>7. ASSUME NEW t \in Callers, Pause(t)
      PROVE  \E u \in {Shutdown, AtExit} : \E c \in toStop[u] :
              /\ tpc[u] = "pause" /\ closed
              /\ u = Shutdown => stage[u] = "join" /\ stage' = stage
              /\ toStop' = [toStop EXCEPT ![u] = @ \ {c}]
              /\ running' = [running EXCEPT ![c] = FALSE]
              /\ drainOnStop' = [drainOnStop EXCEPT ![c] = (u = Shutdown)]
              /\ tpc' = tpc
              /\ NotifyAll
  BY <1>1, <1>7 DEF Owner
<1> QED
  BY <1>2, <1>3, <1>4, <1>5, <1>6, <1>7 DEF Next

(* What a step does to a consumer that sleeps, has ended, or is alive.     *)
LEMMA ConsumersMove ==
  ASSUME TypeOK, HandsFull, [Next]_vars, NEW c \in Consumers
  PROVE  /\ Alive(c)' => Alive(c) \/ ~closed
         /\ cpc'[c] = "exited" => cpc[c] = "exited" \/ ~running[c]
         /\ cpc[c] = "crash" => cpc'[c] \in {"crash", "crashed"}
         /\ cpc[c] = "crashed" => cpc'[c] = "crashed"
<1> USE DEF Alive
<1>1. CASE Start
  BY <1>1 DEF Start, HandsFull
<1>2. ASSUME cpc' = cpc \/ NotifyOne \/ NotifyAll
      PROVE  /\ Alive(c)' => Alive(c)
             /\ cpc'[c] = "exited" => cpc[c] = "exited"
             /\ cpc[c] \in {"crash", "crashed"} => cpc'[c] = cpc[c]
  BY <1>2, Wakes
<1>3. CASE \E e \in Events : Enqueue(e) \/ EnqueueRefused(e) \/ SyncBegin(e) \/ SyncEnd(e)
  BY <1>1, <1>2, <1>3, CaptureFrame
<1>4. CASE ConsumerStep(c)
  <2>1. Alive(c) /\ cpc[c] # "crashed"
    BY <1>4, ConsumerFrame DEF Parked
  <2>2. cpc'[c] = "exited" => ~running[c]
    BY <1>4 DEF TypeOK, ConsumerStep, Loop, ReadDraining, CheckRunning, Take, GetEmpty, Park,
                WaitTimeout, DropUnsendable, Collect, CrashInNext, Admit, PostSent, PostRetry,
                PostFailed, Ack, Idle, Goto
  <2>3. cpc[c] = "crash" => cpc'[c] \in {"crash", "crashed"}
    BY <1>4 DEF TypeOK, ConsumerStep, Loop, ReadDraining, CheckRunning, Take, GetEmpty, Park,
                WaitTimeout, DropUnsendable, Collect, CrashInNext, Admit, PostSent, PostRetry,
                PostFailed, Ack, Idle, Goto
  <2> QED
    BY <2>1, <2>2, <2>3
<1>5. ASSUME NEW d \in Consumers, ConsumerStep(d), d # c PROVE cpc'[c] = cpc[c]
  BY <1>5, ConsumerFrame
<1>6. ASSUME NEW t \in Callers, Close(t) \/ CallerStep(t)
      PROVE  cpc' = cpc \/ NotifyAll
  BY <1>6, CallerFrame
<1>7. CASE ShutdownStep \/ UNCHANGED vars
  BY <1>7, ShutdownFrame DEF vars
<1>8. ASSUME cpc'[c] = cpc[c]
      PROVE  /\ Alive(c)' => Alive(c)
             /\ cpc'[c] = "exited" => cpc[c] = "exited"
             /\ cpc[c] \in {"crash", "crashed"} => cpc'[c] = cpc[c]
  BY <1>8
<1>9. ASSUME NEW t \in Callers, Close(t) \/ CallerStep(t)
      PROVE  /\ Alive(c)' => Alive(c)
             /\ cpc'[c] = "exited" => cpc[c] = "exited"
             /\ cpc[c] \in {"crash", "crashed"} => cpc'[c] = cpc[c]
  BY <1>2, <1>6, <1>9
<1> HIDE DEF Alive
<1> QED
  BY <1>1, <1>3, <1>4, <1>5, <1>7, <1>8, <1>9 DEF Next

(* The moves of the exit handler between the flush, the stop and the end.  *)
LEMMA AtExitMoves ==
  ASSUME TypeOK, StagesOK, CallsOrdered, [Next]_vars
  PROVE  \/ tpc'[AtExit] = tpc[AtExit] /\ toStop'[AtExit] = toStop[AtExit]
         \/ tpc[AtExit] \notin {"pause", "done"} /\ tpc'[AtExit] \notin {"call", "pause", "done"}
         \/ /\ tpc[AtExit] = "complete" /\ tpc'[AtExit] = "pause"
            /\ toStop'[AtExit] = IF started THEN Consumers ELSE {}
         \/ /\ tpc[AtExit] = "pause" /\ tpc'[AtExit] = "pause"
            /\ \E c \in toStop[AtExit] : /\ toStop'[AtExit] = toStop[AtExit] \ {c}
                                         /\ ~running'[c] /\ ~drainOnStop'[c]
         \/ /\ tpc[AtExit] = "pause" /\ tpc'[AtExit] = "done"
            /\ toStop[AtExit] = {} /\ toStop'[AtExit] = {}
<1> AtExit \in Callers /\ Shutdown # AtExit /\ AtExit \notin Flushers /\ stage[AtExit] = "flush"
  BY LaneAssumption DEF Callers, StagesOK
<1> USE DEF TypeOK, CallerGoto
<1>1. CASE Close(AtExit)
  BY <1>1 DEF Close
<1>2. CASE Request(AtExit) \/ CheckUnfinished(AtExit)
  BY <1>2 DEF Request, CheckUnfinished
<1>3. CASE CheckAlive(AtExit) \/ FlushWait(AtExit) \/ FlushTimeout(AtExit)
  BY <1>3 DEF CheckAlive, FlushWait, FlushTimeout
<1>4. CASE DiscardTake(AtExit) \/ DiscardBalance(AtExit) \/ DiscardEnd(AtExit)
  BY <1>4 DEF DiscardTake, DiscardBalance, DiscardEnd
<1>5. CASE Complete(AtExit)
  BY <1>5 DEF Complete
<1>6. CASE Pause(AtExit)
  BY <1>6 DEF Pause
<1>7. CASE PauseEnd(AtExit)
  BY <1>7 DEF PauseEnd
<1>8. ASSUME NEW t \in Callers, t # AtExit, Close(t) \/ CallerStep(t)
      PROVE  tpc'[AtExit] = tpc[AtExit] /\ toStop'[AtExit] = toStop[AtExit]
  BY <1>8, CallerFrame
<1>9. ASSUME NEW c \in Consumers, ConsumerStep(c) PROVE UNCHANGED <<tpc, toStop>>
  BY <1>9, ConsumerFrame
<1>10. CASE Start \/ \E e \in Events : Enqueue(e) \/ EnqueueRefused(e) \/ SyncBegin(e)
                                        \/ SyncEnd(e)
  BY <1>10, CaptureFrame
<1>11. CASE ShutdownStep
  BY <1>11, ShutdownFrame
<1>12. CASE UNCHANGED vars
  BY <1>12 DEF vars, callerVars
<1> QED
  BY <1>1, <1>2, <1>3, <1>4, <1>5, <1>6, <1>7, <1>8, <1>9, <1>10, <1>11, <1>12
     DEF Next, CallerStep

(* The consumers stop in the order the shutdown and the exit handler stop  *)
(* them in.                                                                *)
LEMMA StoppedStep ==
  ASSUME OwnerInv, StagesOK, EventsPlaced, CallsOrdered, ShutdownOrdered, Stopped, [Next]_vars
  PROVE  Stopped'
<1>0. TypeOK /\ HandsFull /\ OneOwner /\ Accounting
  BY DEF OwnerInv
<1> Shutdown \in Callers /\ AtExit \in Callers /\ Shutdown # AtExit
  BY LaneAssumption DEF Callers
<1>1. closed => closed'
  BY <1>0, ForGood
<1>2. \A c \in Consumers : cpc'[c] = "exited" => ~running[c]
  BY <1>0, ConsumersMove DEF Stopped
<1>3. \A c \in Consumers : running'[c] => running[c]
  BY <1>0, RunningChanges DEF TypeOK
<1>4. \A c \in Consumers : ~running'[c] => closed
  BY <1>0, RunningChanges DEF TypeOK, Stopped
<1>5. stage[Shutdown] = "join" => stage'[Shutdown] = "join"
  <2>1. ASSUME Close(Shutdown) \/ CallerStep(Shutdown), stage[Shutdown] = "join"
        PROVE  stage'[Shutdown] = "join"
    BY <1>0, <2>1, CallerMoves DEF CallerMove
  <2>2. ASSUME ShutdownStep, stage[Shutdown] = "join"
        PROVE  stage'[Shutdown] = "join"
    BY <1>0, <2>2, ShutdownMoves DEF Move, ShutdownOrdered
  <2>3. ASSUME NEW t \in Callers, t # Shutdown, Close(t) \/ CallerStep(t)
        PROVE  stage'[Shutdown] = stage[Shutdown]
    BY <1>0, <2>3, CallerFrame
  <2>4. ASSUME NEW c \in Consumers, ConsumerStep(c) PROVE stage' = stage
    BY <1>0, <2>4, ConsumerFrame
  <2>5. CASE Start \/ \E e \in Events : Enqueue(e) \/ EnqueueRefused(e) \/ SyncBegin(e)
                                        \/ SyncEnd(e)
    BY <1>0, <2>5, CaptureFrame
  <2>6. CASE UNCHANGED vars
    BY <2>6 DEF vars, callerVars
  <2> QED
    BY <2>1, <2>2, <2>3, <2>4, <2>5, <2>6 DEF Next
<1>6. tpc'[AtExit] = "call" => tpc[AtExit] = "call"
  BY <1>0, AtExitMoves
<1>7. ASSUME tpc'[AtExit] = "call", NEW c \in Consumers, ~running'[c]
      PROVE  drainOnStop'[c] /\ stage'[Shutdown] = "join"
  <2>1. CASE UNCHANGED <<running, drainOnStop>>
    BY <1>5, <1>6, <1>7, <2>1 DEF Stopped
  <2>2. ASSUME NEW d \in toStop[Shutdown], tpc[Shutdown] = "pause",
               stage[Shutdown] = "join" /\ stage' = stage,
               running' = [running EXCEPT ![d] = FALSE],
               drainOnStop' = [drainOnStop EXCEPT ![d] = TRUE]
        PROVE  drainOnStop'[c] /\ stage'[Shutdown] = "join"
    BY <1>0, <1>6, <1>7, <2>2 DEF Stopped, TypeOK
  <2>3. tpc[AtExit] # "pause"
    BY <1>6, <1>7
  <2> QED
    BY <1>0, <2>1, <2>2, <2>3, RunningChanges
<1>8. tpc'[AtExit] = "done" => toStop'[AtExit] = {}
  BY <1>0, AtExitMoves DEF Stopped
<1>9. ASSUME tpc'[AtExit] \in {"pause", "done"}, tpc'[Shutdown] \in {"call", "done"},
             NEW c \in Consumers, c \notin toStop'[AtExit], Alive(c)', CanUpload(c)'
      PROVE  FALSE
  <2>1. tpc[AtExit] # "call"
    BY <1>0, <1>9, AtExitMoves
  <2>2. closed
    BY <2>1 DEF CallsOrdered, Owner
  <2>3. Alive(c)
    BY <1>0, <1>9, <2>2, ConsumersMove
  <2>4. tpc[Shutdown] = "call" \/ tpc'[Shutdown] = "done"
    <3>1. tpc'[Shutdown] = "call" => tpc[Shutdown] = "call"
      <4>1. ASSUME Close(Shutdown) \/ CallerStep(Shutdown) PROVE tpc'[Shutdown] # "call"
        BY <1>0, <4>1, CallerMoves DEF CallerMove, Move
      <4>2. ASSUME ShutdownStep PROVE tpc'[Shutdown] # "call"
        BY <1>0, <4>2, ShutdownMoves DEF Move
      <4>3. ASSUME NEW t \in Callers, t # Shutdown, Close(t) \/ CallerStep(t)
            PROVE  tpc'[Shutdown] = tpc[Shutdown]
        BY <1>0, <4>3, CallerFrame
      <4>4. ASSUME NEW d \in Consumers, ConsumerStep(d) PROVE tpc' = tpc
        BY <1>0, <4>4, ConsumerFrame
      <4>5. CASE Start \/ \E e \in Events : Enqueue(e) \/ EnqueueRefused(e) \/ SyncBegin(e)
                                            \/ SyncEnd(e)
        BY <1>0, <4>5, CaptureFrame
      <4>6. CASE UNCHANGED vars
        BY <4>6 DEF vars, callerVars
      <4> QED
        BY <4>1, <4>2, <4>3, <4>4, <4>5, <4>6 DEF Next
    <3> QED
      BY <1>9, <3>1
  <2>5. tpc'[Shutdown] # "done"
    BY <1>9, ShutdownOrderedStep DEF ShutdownOrdered, Dead, AnyAlive
  <2>6. tpc[Shutdown] = "call"
    BY <2>4, <2>5
  <2>7. CanUpload(c)
    <3>1. ASSUME NEW t \in {Shutdown, AtExit}, NEW d \in toStop[t], tpc[t] = "pause",
                 running' = [running EXCEPT ![d] = FALSE],
                 drainOnStop' = [drainOnStop EXCEPT ![d] = (t = Shutdown)]
          PROVE  CanUpload(c)
      BY <1>0, <1>9, <2>6, <3>1 DEF CanUpload, TypeOK
    <3> QED
      BY <1>0, <1>9, <3>1, RunningChanges DEF CanUpload
  <2>8. started
    BY <1>0, <2>3 DEF HandsFull, Alive
  <2> QED
    BY <1>0, <1>9, <2>3, <2>6, <2>7, <2>8, AtExitMoves DEF Stopped, CanUpload, TypeOK
<1> QED
  BY <1>1, <1>2, <1>3, <1>4, <1>7, <1>8, <1>9 DEF Stopped

(* Why a batch or an event can end in a given way.                         *)
Cause(S, o) ==
  \/ o \in {"sent", "failed"}
  \/ /\ o = "withheld"
     /\ mode = "unsent" \/ (mode = "async" /\ \E c \in Consumers : ~CanUpload(c))
  \/ /\ o = "dropped"
     /\ S \subseteq Unsendable \/ \E c \in Consumers : cpc'[c] = "crash"
  \/ /\ o = "discarded"
     /\ Dead /\ queue # <<>>

(* A step refuses one new event, accepts one new event of an open lane, or *)
(* ends some accepted events, all in the same way and for a cause; or it   *)
(* leaves the events alone.  Nothing else goes on in such a step that the  *)
(* client could see.                                                       *)
LEMMA EventsMove ==
  ASSUME OwnerInv, EventsPlaced, CallsOrdered, [Next]_vars
  PROVE  \/ status' = status
         \/ /\ \/ \E e \in Events :
                    /\ status[e] = "new"
                    /\ \/ status' = [status EXCEPT ![e] = "refused"]
                       \/ ~closed /\ status' = [status EXCEPT ![e] = "accepted"]
               \/ \E S \in SUBSET Events, o \in Outcomes :
                    (\A e \in S : status[e] = "accepted") /\ Mark(S, o) /\ Cause(S, o)
            /\ closed' = closed
            /\ tpc'[Shutdown] = "done" <=> tpc[Shutdown] = "done"
<1> DEFINE Quiet == closed' = closed /\ (tpc'[Shutdown] = "done" <=> tpc[Shutdown] = "done")
           New == \E e \in Events :
                    /\ status[e] = "new"
                    /\ \/ status' = [status EXCEPT ![e] = "refused"]
                       \/ ~closed /\ status' = [status EXCEPT ![e] = "accepted"]
           Ends == \E S \in SUBSET Events, o \in Outcomes :
                    (\A e \in S : status[e] = "accepted") /\ Mark(S, o) /\ Cause(S, o)
<1>0. TypeOK /\ HandsFull
  BY DEF OwnerInv
<1>1. ASSUME NEW e \in Events, Enqueue(e) \/ EnqueueRefused(e) PROVE New
  BY <1>1 DEF Enqueue, EnqueueRefused
<1>2. ASSUME NEW e \in Events, SyncBegin(e) PROVE New
  BY <1>2 DEF SyncBegin
<1>3. ASSUME NEW e \in Events, SyncEnd(e) PROVE Ends
  <2>1. status[e] = "accepted" /\ mode # "async"
    BY <1>3 DEF SyncEnd, EventsPlaced
  <2>2. PICK o \in Outcomes : /\ status' = [status EXCEPT ![e] = o]
                              /\ Cause({e}, o)
    BY <1>0, <1>3, <2>1 DEF SyncEnd, Outcomes, Cause, TypeOK
  <2>3. Mark({e}, o)
    BY <1>0, <2>2 DEF Mark, TypeOK
  <2> QED
    BY <2>1, <2>2, <2>3
<1>4. ASSUME NEW e \in Events,
             Start \/ Enqueue(e) \/ EnqueueRefused(e) \/ SyncBegin(e) \/ SyncEnd(e)
      PROVE  Quiet
  BY <1>0, <1>4, CaptureFrame
<1>5. ASSUME NEW c \in Consumers, ConsumerStep(c) PROVE Quiet
  BY <1>0, <1>5, ConsumerFrame
<1>6. ASSUME NEW c \in Consumers, ConsumerStep(c) PROVE status' = status \/ Ends
  <2>1. /\ items[c] \in SUBSET Events
        /\ hand[c] # NoEvent => hand[c] \in Events /\ status[hand[c]] = "accepted"
        /\ cpc[c] \notin Acking => \A e \in items[c] : status[e] = "accepted"
        /\ cpc[c] = "size" => hand[c] # NoEvent
        /\ c \in Threads
    BY <1>0 DEF TypeOK, EventsPlaced, HandsFull, Threads
  <2>2. CASE DropUnsendable(c)
    <3>1. Mark({hand[c]}, "dropped") /\ hand[c] \in Unsendable /\ cpc[c] = "size"
      BY <2>2 DEF DropUnsendable
    <3>2. Cause({hand[c]}, "dropped")
      BY <3>1 DEF Cause
    <3> QED
      BY <2>1, <3>1, <3>2 DEF Outcomes
  <2>3. CASE CrashInNext(c)
    <3>1. /\ Mark(items[c] \cup {hand[c]}, "dropped") /\ cpc[c] = "size"
          /\ cpc'[c] = "crash"
      BY <1>0, <2>3 DEF CrashInNext, Goto, TypeOK
    <3>2. Cause(items[c] \cup {hand[c]}, "dropped")
      BY <3>1 DEF Cause
    <3> QED
      BY <2>1, <3>1, <3>2 DEF Outcomes, Acking
  <2>4. CASE Admit(c)
    <3>1. CASE items[c] # {} /\ ~CanUpload(c)
      <4>1. Mark(items[c], "withheld") /\ cpc[c] \in {"admit", "upload"}
        BY <2>4, <3>1 DEF Admit
      <4>2. mode = "async"
        BY <4>1 DEF EventsPlaced
      <4>3. Cause(items[c], "withheld")
        BY <3>1, <4>2 DEF Cause
      <4> QED
        BY <2>1, <4>1, <4>3 DEF Outcomes, Acking
    <3> QED
      BY <2>4, <3>1 DEF Admit
  <2>5. CASE PostSent(c) \/ PostFailed(c)
    <3>1. PICK o \in {"sent", "failed"} : Mark(items[c], o) /\ cpc[c] = "post"
      BY <2>5 DEF PostSent, PostFailed
    <3>2. Cause(items[c], o)
      BY DEF Cause
    <3> QED
      BY <2>1, <3>1, <3>2 DEF Outcomes, Acking
  <2>6. CASE \/ Loop(c) \/ ReadDraining(c) \/ CheckRunning(c) \/ Take(c) \/ GetEmpty(c)
             \/ Park(c) \/ WaitTimeout(c) \/ Collect(c) \/ PostRetry(c) \/ Ack(c) \/ Idle(c)
    BY <2>6 DEF Loop, ReadDraining, CheckRunning, Take, GetEmpty, Park, WaitTimeout, Collect,
                PostRetry, Ack, Idle
  <2> HIDE DEF Ends
  <2> QED
    BY <1>6, <2>2, <2>3, <2>4, <2>5, <2>6 DEF ConsumerStep
<1>7. ASSUME NEW t \in Callers, DiscardTake(t) PROVE Ends /\ Quiet
  <2>1. Head(queue) \in Events /\ status[Head(queue)] = "accepted"
    BY <1>0, <1>7, TailFacts DEF DiscardTake, EventsPlaced, TypeOK
  <2>2. Mark({Head(queue)}, "discarded") /\ tpc[t] = "discard" /\ queue # <<>>
    BY <1>7 DEF DiscardTake
  <2>3. Cause({Head(queue)}, "discarded")
    BY <2>2 DEF Cause, CallsOrdered
  <2>4. Quiet
    BY <1>0, <1>7 DEF DiscardTake, CallerGoto, TypeOK, laneVars
  <2> QED
    BY <2>1, <2>2, <2>3, <2>4 DEF Outcomes
<1>8. ASSUME NEW t \in Callers, Close(t) \/ CallerStep(t), ~DiscardTake(t)
      PROVE  status' = status
  BY <1>8 DEF Close, CallerStep, Request, CheckUnfinished, CheckAlive, FlushWait, FlushTimeout,
              DiscardBalance, DiscardEnd, Complete, Pause, PauseEnd
<1>9. ASSUME Start \/ ShutdownStep \/ UNCHANGED vars PROVE status' = status
  BY <1>0, <1>9, ShutdownFrame DEF Start, vars
<1> HIDE DEF Quiet, New, Ends
<1>10. status' = status \/ ((New \/ Ends) /\ Quiet)
  BY <1>1, <1>2, <1>3, <1>4, <1>5, <1>6, <1>7, <1>8, <1>9 DEF Next
<1> QED
  BY <1>10 DEF Quiet, New, Ends

(* Every event ends as the state of the lane explains.                     *)
LEMMA FatesStep ==
  ASSUME OwnerInv, StagesOK, EventsPlaced, CallsOrdered, ShutdownOrdered, Stopped, Fates,
         [Next]_vars
  PROVE  Fates'
<1>0. TypeOK /\ HandsFull
  BY DEF OwnerInv
<1>1. mode' = mode
  BY <1>0, ForGood
<1>2. Dead => Dead'
  BY <1>0, DeadStays
<1>3. tpc'[AtExit] = "call" => tpc[AtExit] = "call"
  BY <1>0, AtExitMoves
<1>4. \A c \in Consumers : /\ cpc[c] \in {"crash", "crashed"} => cpc'[c] \in {"crash", "crashed"}
                           /\ cpc[c] = "crashed" => cpc'[c] = "crashed"
  BY <1>0, ConsumersMove
<1>5. ASSUME Dead, queue # <<>>, tpc[AtExit] = "call", Consumers # {}
      PROVE  \E c \in Consumers : cpc[c] = "crashed"
  <2>1. PICK c \in Consumers : TRUE
    BY <1>5
  <2>2. cpc[c] \in {"off", "exited", "crashed"}
    BY <1>5 DEF Dead, AnyAlive, Alive
  <2>3. cpc[c] # "off"
    BY <1>5 DEF EventsPlaced
  <2>4. cpc[c] # "exited"
    BY <1>5 DEF Stopped, ShutdownOrdered
  <2> QED
    BY <2>2, <2>3, <2>4
<1>6. ASSUME NEW e \in Events, status'[e] \in Outcomes
      PROVE  \/ status'[e] = status[e]
             \/ \E S \in SUBSET Events : e \in S /\ Cause(S, status'[e])
  BY <1>0, <1>6, EventsMove DEF Mark, TypeOK, Outcomes
<1>7. ASSUME NEW e \in Events, status'[e] = "discarded"
      PROVE  /\ Dead'
             /\ tpc'[AtExit] = "call" /\ Consumers # {} => \E c \in Consumers : cpc'[c] = "crashed"
  <2>1. status[e] = "discarded" \/ (Dead /\ queue # <<>>)
    BY <1>6, <1>7 DEF Outcomes, Cause
  <2> QED
    BY <1>2, <1>3, <1>4, <1>5, <2>1 DEF Fates
<1>8. ASSUME NEW e \in Events, status'[e] = "withheld"
      PROVE  /\ mode' = "async" => tpc'[AtExit] # "call"
             /\ mode' # "sync"
  <2>1. \/ status[e] = "withheld" \/ mode = "unsent"
        \/ mode = "async" /\ \E c \in Consumers : ~CanUpload(c)
    BY <1>6, <1>8 DEF Outcomes, Cause
  <2>2. (\E c \in Consumers : ~CanUpload(c)) => tpc[AtExit] # "call"
    BY DEF Stopped, CanUpload
  <2> QED
    BY <1>1, <1>3, <2>1, <2>2 DEF Fates
<1>9. ASSUME NEW e \in Events, status'[e] = "dropped"
      PROVE  e \in Unsendable \/ \E c \in Consumers : cpc'[c] \in {"crash", "crashed"}
  <2>1. \/ status[e] = "dropped" \/ e \in Unsendable
        \/ \E c \in Consumers : cpc'[c] = "crash"
    BY <1>6, <1>9 DEF Outcomes, Cause
  <2> QED
    BY <1>4, <2>1 DEF Fates
<1> QED
  BY <1>7, <1>8, <1>9 DEF Fates

(* A lane with no unfinished task, or with an empty queue and nobody left  *)
(* to fill a batch, holds no accepted event.                               *)
LEMMA NothingLeft ==
  ASSUME TypeOK, HandsFull, OneOwner, Accounting, EventsPlaced, syncing = {},
         unfinished = 0 \/ (Dead /\ queue = <<>>)
  PROVE  \A e \in Events : status[e] # "accepted"
<1>1. CASE unfinished = 0
  BY <1>1, Unfinished DEF EventsPlaced
<1>2. CASE Dead /\ queue = <<>>
  <2>1. Range(queue) = {}
    BY <1>2 DEF Range
  <2>2. \A c \in Consumers : items[c] = {} /\ hand[c] = NoEvent
    BY <1>2 DEF Dead, AnyAlive, Alive, EventsPlaced, HandsFull, Batching, Acking
  <2>3. \A t \in Threads : hand[t] # NoEvent => status[hand[t]] = "discarded"
    BY <2>2 DEF EventsPlaced, Threads
  <2>4. \A e \in Outstanding : status[e] # "accepted"
    BY <2>1, <2>2, <2>3, LaneAssumption DEF Outstanding
  <2> QED
    BY <2>4 DEF EventsPlaced
<1> QED
  BY <1>1, <1>2

(* A flush gives up none of the events it found accepted.                  *)
LEMMA FlushedStep ==
  ASSUME OwnerInv, StagesOK, EventsPlaced, CallsOrdered, Flushed, [Next]_vars
  PROVE  Flushed'
<1>0. TypeOK /\ HandsFull /\ OneOwner /\ Accounting
  BY DEF OwnerInv
<1>1. mode' = mode
  BY <1>0, ForGood
<1>2. ASSUME NEW e \in Events
      PROVE  /\ status[e] \in {"accepted"} \cup Outcomes
                  => status'[e] \in {"accepted"} \cup Outcomes
             /\ status'[e] = "accepted" => status[e] \in {"new", "accepted"}
  BY <1>0, <1>2, EventsMove DEF Mark, TypeOK, Outcomes
<1>3. ASSUME NEW t \in Flushers, tpc'[t] = tpc[t] \/ tpc'[t] \notin {"complete", "done"}
                                  \/ tpc[t] = "complete",
             asked'[t] = asked[t], NEW e \in asked'[t]
      PROVE  /\ status'[e] \in {"accepted"} \cup Outcomes
             /\ tpc'[t] \in {"complete", "done"} /\ mode' = "async" => status'[e] # "accepted"
  <2>1. e \in Events
    BY <1>0, <1>3 DEF TypeOK, Callers
  <2> QED
    BY <1>1, <1>2, <1>3, <2>1 DEF Flushed, Outcomes
<1>4. ASSUME NEW t \in Flushers, Close(t) \/ CallerStep(t), NEW e \in asked'[t]
      PROVE  /\ status'[e] \in {"accepted"} \cup Outcomes
             /\ tpc'[t] \in {"complete", "done"} /\ mode' = "async" => status'[e] # "accepted"
  <2>0. t \in Callers /\ ~Timed(t) /\ ~Owner(t) /\ stage[t] = "flush" /\ t # AtExit
    BY LaneAssumption DEF Callers, Timed, Owner, StagesOK
  <2>1. CASE Request(t)
    <3>1. /\ status' = status /\ tpc'[t] = "check"
          /\ asked'[t] = {d \in Events : status[d] = "accepted"}
      BY <1>0, <2>0, <2>1 DEF Request, CallerGoto, TypeOK
    <3> QED
      BY <1>4, <3>1
  <2>2. ASSUME ~Request(t) PROVE asked'[t] = asked[t]
    BY <1>4, <2>2 DEF Close, CallerStep, CheckUnfinished, CheckAlive, FlushWait, FlushTimeout,
              DiscardTake, DiscardBalance, DiscardEnd, Complete, Pause, PauseEnd, callerVars
  <2>3. CASE tpc'[t] = tpc[t] \/ tpc'[t] \notin {"complete", "done"} \/ tpc[t] = "complete"
    BY <1>3, <1>4, <2>1, <2>2, <2>3
  <2>4. ASSUME ~Request(t), tpc'[t] \in {"complete", "done"}, tpc'[t] # tpc[t],
               tpc[t] # "complete", mode' = "async", status'[e] = "accepted"
        PROVE  FALSE
    <3>1. CallerMove(t)
      BY <1>0, <1>4, <2>0, CallerMoves
    <3>2. tpc[t] # "pause"
      BY <2>0 DEF CallsOrdered
    <3>3. unfinished = 0 \/ (Dead /\ queue = <<>>)
      BY <2>0, <2>4, <3>1, <3>2 DEF CallerMove, Move, CallsOrdered, Dead
    <3>4. syncing = {}
      BY <1>0, <1>1, <2>4 DEF EventsPlaced, TypeOK
    <3>5. \A d \in Events : status[d] # "accepted"
      BY <1>0, <3>3, <3>4, NothingLeft
    <3>6. e \in asked[t] /\ e \in Events
      BY <1>0, <1>4, <2>0, <2>2, <2>4 DEF TypeOK
    <3>7. status[e] \in Outcomes
      BY <3>5, <3>6 DEF Flushed
    <3> QED
      BY <1>2, <2>4, <3>6, <3>7 DEF Outcomes
  <2>5. ASSUME ~Request(t) PROVE status'[e] \in {"accepted"} \cup Outcomes
    BY <1>0, <1>2, <1>4, <2>0, <2>2, <2>5 DEF Flushed, TypeOK
  <2> QED
    BY <2>1, <2>3, <2>4, <2>5
<1>5. ASSUME NEW t \in Flushers
      PROVE  \/ Close(t) \/ CallerStep(t)
             \/ tpc'[t] = tpc[t] /\ asked'[t] = asked[t]
  <2>0. t \in Callers /\ t # Shutdown
    BY LaneAssumption DEF Callers
  <2>1. ASSUME NEW u \in Callers, u # t, Close(u) \/ CallerStep(u)
        PROVE  tpc'[t] = tpc[t] /\ asked'[t] = asked[t]
    BY <1>0, <2>0, <2>1, CallerFrame
  <2>2. ASSUME NEW c \in Consumers, ConsumerStep(c) PROVE UNCHANGED <<tpc, asked>>
    BY <1>0, <2>2, ConsumerFrame
  <2>3. CASE Start \/ \E e \in Events : Enqueue(e) \/ EnqueueRefused(e) \/ SyncBegin(e)
                                         \/ SyncEnd(e)
    BY <1>0, <2>3, CaptureFrame
  <2>4. ASSUME ShutdownStep PROVE tpc'[t] = tpc[t] /\ asked' = asked
    BY <1>0, <2>0, <2>4, ShutdownFrame
       DEF ShutdownStep, WaitForSyncSends, FlushOrDiscard, JoinConsumers
  <2>5. CASE UNCHANGED vars
    BY <2>5 DEF vars, callerVars
  <2> QED
    BY <2>0, <2>1, <2>2, <2>3, <2>4, <2>5 DEF Next
<1> QED
  BY <1>3, <1>4, <1>5 DEF Flushed

-----------------------------------------------------------------------------
(* Sleepers and work *)

\* The consumers Woken counts.
Headed == {c \in Consumers : Heading(c)}

(* The consumers on their way to the queue are finitely many, and more of  *)
(* them if one joins them.                                                 *)
LEMMA HeadedFinite ==
  /\ IsFiniteSet(Headed) /\ Cardinality(Headed) \in Nat
  /\ \A c \in Consumers : ~Heading(c) => Cardinality(Headed \cup {c}) = Cardinality(Headed) + 1
  /\ \A c \in Consumers : Heading(c) => Cardinality(Headed \ {c}) = Cardinality(Headed) - 1
<1>1. IsFiniteSet(Headed)
  BY LaneAssumption, FS_Subset DEF Headed
<1> QED
  BY <1>1, FS_CardinalityType, FS_AddElement, FS_RemoveElement DEF Headed

(* A running consumer on its way to the queue stays on its way until it    *)
(* has looked at the queue, and takes an event if there is one.            *)
LEMMA HeadingStays ==
  ASSUME TypeOK, EventsPlaced, NEW c \in Consumers, ConsumerStep(c), running[c], queue # <<>>
  PROVE  /\ Parked(c)' => Parked(c)
         /\ \/ Take(c) /\ Heading(c) /\ Len(queue') = Len(queue) - 1
            \/ queue' = queue /\ (Heading(c) => Heading(c)')
<1>1. cpc[c] \in {"idle", "loop"} => items[c] = {}
  <2>1. items[c] # {} => cpc[c] \in Batching \cup Acking
    BY DEF EventsPlaced
  <2> QED
    BY <2>1 DEF Batching, Acking
<1> USE DEF TypeOK, Goto, queueVars, consumerVars, Heading, Parked
<1>2. CASE Loop(c) \/ ReadDraining(c)
  BY <1>1, <1>2 DEF Loop, ReadDraining
<1>3. CASE CheckRunning(c)
  BY <1>3 DEF CheckRunning
<1>4. CASE Take(c)
  <2>1. queue' = Tail(queue) /\ cpc[c] \in {"get", "late"} /\ cpc'[c] = "size"
    BY <1>4 DEF Take
  <2>2. Len(Tail(queue)) = Len(queue) - 1
    <3>1. queue \in Seq(Events) /\ queue # <<>>
      OBVIOUS
    <3> HIDE DEF TypeOK
    <3> QED
      BY <3>1
  <2> QED
    BY <1>4, <2>1, <2>2
<1>5. CASE GetEmpty(c)
  BY <1>5 DEF GetEmpty
<1>6. CASE Park(c) \/ WaitTimeout(c)
  BY <1>6 DEF Park, WaitTimeout
<1>7. CASE DropUnsendable(c)
  BY <1>7 DEF DropUnsendable
<1>8. CASE Collect(c) \/ CrashInNext(c)
  BY <1>8 DEF Collect, CrashInNext
<1>9. CASE Admit(c)
  BY <1>9 DEF Admit
<1>10. CASE PostSent(c) \/ PostRetry(c) \/ PostFailed(c)
  BY <1>10 DEF PostSent, PostRetry, PostFailed
<1>11. CASE Ack(c)
  BY <1>11 DEF Ack
<1>12. CASE Idle(c)
  BY <1>1, <1>12 DEF Idle
<1> QED
  BY <1>2, <1>3, <1>4, <1>5, <1>6, <1>7, <1>8, <1>9, <1>10, <1>11, <1>12 DEF ConsumerStep

(* While consumers sleep, as many others as there are events in the queue  *)
(* are on their way to it, all of them running.                            *)
LEMMA WokenStep ==
  ASSUME OwnerInv, EventsPlaced, CallsOrdered, StagesOK, Stopped, Woken, [Next]_vars
  PROVE  Woken'
<1>0. TypeOK /\ HandsFull
  BY DEF OwnerInv
<1>1. ASSUME UNCHANGED <<queue, running, cpc, items>> PROVE Woken'
  BY <1>1 DEF Woken, Parked, Heading
<1>2. ASSUME queue = <<>> \/ UNCHANGED queue, queue' = <<>> PROVE Woken'
  BY <1>2 DEF Woken
<1>3. CASE Start
  <2>1. queue' = <<>>
    BY <1>3 DEF Start, EventsPlaced, queueVars
  <2> QED
    BY <2>1 DEF Woken
<1>4. ASSUME NEW e \in Events, Enqueue(e) PROVE Woken'
  <2>1. /\ ~closed /\ queue' = Append(queue, e) /\ UNCHANGED <<running, items>>
        /\ NotifyOne
    BY <1>4 DEF Enqueue, stopVars, consumerVars
  <2>2. \A c \in Consumers : running'[c]
    BY <2>1 DEF Stopped
  <2>3. Len(queue') = Len(queue) + 1 /\ Len(queue) \in Nat
    BY <1>0, <2>1 DEF TypeOK
  <2>4. CASE \A c \in Consumers : ~Parked(c) /\ cpc' = cpc
    BY <2>4 DEF Woken, Parked
  <2>5. ASSUME NEW c \in Consumers, Parked(c), cpc' = [cpc EXCEPT ![c] = Resumed(cpc[c])]
        PROVE  Woken'
    <3>1. ~Heading(c) /\ Heading(c)'
      <4>1. cpc[c] = "doze" => items[c] = {}
        BY DEF EventsPlaced, Batching, Acking
      <4> QED
        BY <1>0, <2>1, <2>5, <4>1 DEF Heading, Parked, Resumed, TypeOK
    <3>2. \A d \in Consumers \ {c} : Heading(d) <=> Heading(d)'
      BY <1>0, <2>1, <2>5 DEF Heading, TypeOK
    <3>3. Headed' = Headed \cup {c}
      BY <3>1, <3>2 DEF Headed
    <3>4. Cardinality(Headed') = Cardinality(Headed) + 1
      BY <3>1, <3>3, HeadedFinite
    <3>5. Len(queue) <= Cardinality(Headed)
      BY <1>0, <2>5, HeadedFinite DEF Woken, Headed, TypeOK
    <3> QED
      BY <2>2, <2>3, <3>4, <3>5, HeadedFinite DEF Woken, Headed
  <2> QED
    BY <2>1, <2>4, <2>5 DEF NotifyOne
<1>5. ASSUME NEW c \in Consumers, ConsumerStep(c), queue = <<>> PROVE Woken'
  <2>1. queue' = <<>>
    BY <1>5 DEF ConsumerStep, Loop, ReadDraining, CheckRunning, Take, GetEmpty, Park, WaitTimeout,
              DropUnsendable, Collect, CrashInNext, Admit, PostSent, PostRetry, PostFailed, Ack,
              Idle,
              queueVars
  <2> QED
    BY <2>1 DEF Woken
<1>6. ASSUME NEW c \in Consumers, ConsumerStep(c), queue # <<>>,
             NEW d \in Consumers, Parked(d)'
      PROVE  (\A b \in Consumers : running[b])' /\ Len(queue') <= Cardinality(Headed')
  <2>0. /\ \A b \in Consumers \ {c} : cpc'[b] = cpc[b] /\ items'[b] = items[b]
        /\ running' = running
    BY <1>0, <1>6, ConsumerFrame
  <2>1. \E b \in Consumers : Parked(b)
    <3>1. CASE d # c
      BY <1>6, <2>0, <3>1 DEF Parked
    <3>2. CASE d = c
      <4>1. ASSUME ~Parked(c) PROVE FALSE
        BY <1>0, <1>6, <3>2, <4>1
           DEF TypeOK, Goto, Parked, ConsumerStep, Loop, ReadDraining, CheckRunning, Take, GetEmpty,
               Park, WaitTimeout, DropUnsendable, Collect, CrashInNext, Admit, PostSent, PostRetry,
               PostFailed, Ack, Idle
      <4> QED
        BY <4>1
    <3> QED
      BY <3>1, <3>2
  <2>2. (\A b \in Consumers : running[b]) /\ Len(queue) <= Cardinality(Headed)
    BY <1>6, <2>1 DEF Woken, Headed
  <2>3. \/ Take(c) /\ Heading(c) /\ Len(queue') = Len(queue) - 1
        \/ queue' = queue /\ (Heading(c) => Heading(c)')
    BY <1>0, <1>6, <2>2, HeadingStays
  <2>4. \A b \in Consumers \ {c} : Heading(b) => Heading(b)'
    BY <2>0 DEF Heading
  <2>5. IsFiniteSet(Headed') /\ Cardinality(Headed') \in Nat
    <3>1. Headed' \subseteq Consumers
      BY DEF Headed
    <3> QED
      BY <3>1, LaneAssumption, FS_Subset, FS_CardinalityType
  <2>6. CASE Heading(c) /\ Len(queue') = Len(queue) - 1
    <3>1. Headed \ {c} \subseteq Headed'
      BY <2>4 DEF Headed
    <3>2. Cardinality(Headed \ {c}) <= Cardinality(Headed')
      BY <2>5, <3>1, FS_Subset
    <3> QED
      <4>1. Cardinality(Headed \ {c}) = Cardinality(Headed) - 1 /\ Cardinality(Headed) \in Nat
        BY <2>6, HeadedFinite
      <4>2. Len(queue) \in Nat
        BY <1>0 DEF TypeOK
      <4>3. Len(queue') <= Cardinality(Headed')
        BY <2>2, <2>5, <2>6, <3>2, <4>1, <4>2
      <4> QED
        BY <2>0, <2>2, <4>3
  <2>7. CASE queue' = queue /\ (Heading(c) => Heading(c)')
    <3>1. Headed \subseteq Headed'
      BY <2>4, <2>7 DEF Headed
    <3>2. Cardinality(Headed) <= Cardinality(Headed')
      BY <2>5, <3>1, FS_Subset
    <3> QED
      BY <1>0, <2>0, <2>2, <2>3, <2>5, <2>7, <3>2, HeadedFinite DEF TypeOK
  <2> QED
    BY <2>3, <2>6, <2>7
<1>7. ASSUME NEW c \in Consumers, ConsumerStep(c), queue # <<>> PROVE Woken'
  BY <1>6, <1>7 DEF Woken, Headed
<1>8. ASSUME NotifyAll PROVE Woken'
  BY <1>0, <1>8 DEF NotifyAll, Woken, Parked, Resumed, TypeOK
<1>9. ASSUME NEW t \in Callers, Close(t) \/ CallerStep(t) PROVE Woken'
  <2>1. UNCHANGED items /\ (cpc' = cpc \/ NotifyAll)
    BY <1>0, <1>9, CallerFrame
  <2>2. CASE DiscardTake(t)
    <3>1. Dead
      BY <2>2 DEF DiscardTake, CallsOrdered
    <3>2. cpc' = cpc
      BY <2>2 DEF DiscardTake
    <3> QED
      BY <3>1, <3>2 DEF Dead, AnyAlive, Alive, Parked, Woken
  <2>3. ASSUME ~DiscardTake(t) PROVE NotifyAll \/ UNCHANGED <<queue, running>>
    BY <1>9, <2>3 DEF Close, CallerStep, Request, CheckUnfinished, CheckAlive, FlushWait,
              FlushTimeout, DiscardBalance, DiscardEnd, Complete, Pause, PauseEnd, queueVars,
              stopVars
  <2> QED
    BY <1>1, <1>8, <2>1, <2>2, <2>3
<1>10. CASE \E e \in Events : EnqueueRefused(e) \/ SyncBegin(e) \/ SyncEnd(e)
  BY <1>1, <1>10 DEF EnqueueRefused, SyncBegin, SyncEnd, queueVars, stopVars, consumerVars
<1>11. CASE ShutdownStep
  BY <1>0, <1>1, <1>11, ShutdownFrame
<1>12. CASE UNCHANGED vars
  BY <1>1, <1>12 DEF vars, queueVars, stopVars, consumerVars
<1> QED
  BY <1>3, <1>4, <1>5, <1>7, <1>9, <1>10, <1>11, <1>12 DEF Next

-----------------------------------------------------------------------------
(* The inductive invariant *)

\* The inductive invariant.
IInv == OwnerInv /\ StagesOK /\ PInv

(* The inductive invariant holds at the start.                             *)
LEMMA InitIInv == Init => IInv
<1> SUFFICES ASSUME Init PROVE IInv
  OBVIOUS
<1>1. OwnerInv
  BY OwnerInit
<1> Shutdown \in Callers /\ AtExit \in Callers
  BY DEF Callers
<1>2. \A t \in Callers : tpc[t] = "call" /\ stage[t] = "flush"
  BY DEF Init
<1>3. \A c \in Consumers : cpc[c] = "off" /\ running[c] /\ items[c] = {}
  BY DEF Init
<1>4. Range(queue) = {} /\ queue = <<>>
  BY DEF Init, Range
<1>5. EventsPlaced
  <2>1. \A t \in Threads : hand[t] = NoEvent
    BY DEF Init
  <2>2. ~started /\ syncing = {} /\ \A e \in Events : status[e] = "new"
    BY DEF Init
  <2> QED
    BY <1>3, <1>4, <2>1, <2>2 DEF EventsPlaced, Threads
<1>6. StagesOK /\ CallsOrdered /\ ShutdownOrdered
  BY <1>2 DEF StagesOK, CallsOrdered, ShutdownOrdered
<1>7. Stopped
  BY <1>2, <1>3 DEF Stopped
<1>8. Fates
  BY DEF Init, Fates
<1>9. Flushed
  BY DEF Init, Flushed, Callers
<1>10. Woken
  BY <1>4 DEF Woken
<1> QED
  BY <1>1, <1>5, <1>6, <1>7, <1>8, <1>9, <1>10 DEF IInv, PInv

(* The inductive invariant holds in every reachable state.                 *)
THEOREM Invariance == Spec => []IInv
<1>1. IInv /\ [Next]_vars => IInv'
  <2> SUFFICES ASSUME IInv, [Next]_vars PROVE IInv'
    OBVIOUS
  <2>0. /\ OwnerInv /\ StagesOK /\ EventsPlaced /\ CallsOrdered /\ ShutdownOrdered /\ Stopped
        /\ Fates /\ Flushed /\ Woken
        /\ TypeOK /\ HandsFull /\ OneOwner /\ NewIsNowhere
    BY DEF IInv, PInv, OwnerInv
  <2>1. OwnerInv'
    BY <2>0, TypeStep, HandsStep, OwnerStep DEF OwnerInv
  <2>2. StagesOK'
    BY <2>0, StagesStep
  <2>3. EventsPlaced'
    BY <2>0, PlacedStep
  <2>4. CallsOrdered'
    BY <2>0, CallsOrderedStep
  <2>5. ShutdownOrdered'
    BY <2>0, ShutdownOrderedStep
  <2>6. Stopped'
    BY <2>0, StoppedStep
  <2>7. Fates'
    BY <2>0, FatesStep
  <2>8. Flushed'
    BY <2>0, FlushedStep
  <2>9. Woken'
    BY <2>0, WokenStep
  <2> QED
    BY <2>1, <2>2, <2>3, <2>4, <2>5, <2>6, <2>7, <2>8, <2>9 DEF IInv, PInv
<1> QED
  BY InitIInv, <1>1, PTL DEF Spec

(* A shutdown that has returned leaves no event without its outcome.       *)
LEMMA NothingPending ==
  ASSUME IInv, tpc[Shutdown] \in {"complete", "done"}, stage[Shutdown] = "join"
  PROVE  Dead /\ \A e \in Events : status[e] # "accepted"
BY NothingLeft DEF IInv, PInv, OwnerInv, ShutdownOrdered

(* A shutdown() that returns, on a client that sends and has consumers,    *)
(* none of them killed and no exit handler before it, has posted every     *)
(* event that was accepted and could be sent: whatever the number of       *)
(* consumers, of flushes that run beside it and of batches in flight.      *)
THEOREM ShutdownAttempts == Spec => []AttemptedByShutdown
<1>1. IInv => AttemptedByShutdown
  <2> SUFFICES ASSUME IInv, tpc[Shutdown] = "done", tpc[AtExit] = "call", mode # "unsent",
                      Consumers # {}, \A c \in Consumers : cpc[c] # "crashed",
                      NEW e \in Events
               PROVE  \/ status[e] \in {"new", "refused", "sent", "failed"}
                      \/ status[e] = "dropped" /\ e \in Unsendable
    BY DEF AttemptedByShutdown
  <2>1. TypeOK /\ ShutdownOrdered /\ Fates
    BY DEF IInv, PInv, OwnerInv
  <2>2. Dead /\ status[e] # "accepted"
    BY <2>1, NothingPending DEF ShutdownOrdered
  <2>3. status[e] # "withheld"
    BY <2>1 DEF Fates, TypeOK
  <2>4. status[e] # "discarded"
    BY <2>1 DEF Fates
  <2>5. status[e] = "dropped" => e \in Unsendable
    <3>1. \A c \in Consumers : cpc[c] # "crash"
      BY <2>2 DEF Dead, AnyAlive, Alive
    <3> QED
      BY <2>1, <3>1 DEF Fates
  <2> QED
    BY <2>1, <2>2, <2>3, <2>4, <2>5 DEF TypeOK, Outcomes
<1> QED
  BY Invariance, <1>1, PTL

(* flush(None) covers every event accepted before it, whoever holds it     *)
(* when the flush begins, and gives one up only when no consumer is left.  *)
THEOREM FlushesCover == Spec => []FlushCovers
<1>1. IInv => FlushCovers
  <2> SUFFICES ASSUME IInv, NEW t \in Flushers, tpc[t] = "done", mode = "async",
                      NEW e \in asked[t]
               PROVE  status[e] # "accepted" /\ (status[e] = "discarded" => ~AnyAlive)
    BY DEF FlushCovers
  <2>1. TypeOK /\ Flushed /\ Fates
    BY DEF IInv, PInv, OwnerInv
  <2>2. e \in Events
    BY <2>1 DEF TypeOK, Callers
  <2> QED
    BY <2>1, <2>2 DEF Flushed, Fates, Dead
<1> QED
  BY Invariance, <1>1, PTL

(* No notification is lost: while an event waits and a consumer sleeps,    *)
(* another consumer is awake to take it, for any number of consumers.      *)
THEOREM NoWorkIsStranded == Spec => []NoStrandedWork
<1>1. IInv => NoStrandedWork
  <2> SUFFICES ASSUME IInv, queue # <<>>, \E c \in Consumers : Parked(c)
               PROVE  \E c \in Consumers : Alive(c) /\ ~Parked(c)
    BY DEF NoStrandedWork
  <2>1. queue \in Seq(Events) /\ Woken
    BY DEF IInv, PInv, OwnerInv, TypeOK
  <2>2. Len(queue) \in Nat \ {0}
    BY <2>1
  <2>3. Len(queue) <= Cardinality(Headed)
    BY <2>1 DEF Woken, Headed
  <2>4. Headed # {}
    <3>1. Headed = {} => Cardinality(Headed) = 0
      BY FS_EmptySet
    <3>2. Cardinality(Headed) # 0
      BY <2>2, <2>3, HeadedFinite
    <3> QED
      BY <3>1, <3>2
  <2> QED
    BY <2>4 DEF Headed, Heading, Alive, Parked
<1> QED
  BY Invariance, <1>1, PTL

(* Once the exit handler has returned, no consumer begins to post another  *)
(* batch, unless a shutdown() stops the consumers again.                   *)
THEOREM QuietOnceExited == Spec => QuietAfterExit
<1>1. ASSUME IInv, [Next]_vars, tpc[AtExit] = "done", tpc[Shutdown] \in {"call", "done"},
             NEW c \in Consumers, cpc'[c] = "post"
      PROVE  cpc[c] = "post"
  <2>0. TypeOK /\ Stopped
    BY <1>1 DEF IInv, PInv, OwnerInv
  <2>1. ~(Alive(c) /\ CanUpload(c))
    BY <1>1, <2>0 DEF Stopped
  <2>2. CASE Start \/ \E e \in Events : Enqueue(e) \/ EnqueueRefused(e) \/ SyncBegin(e)
                                         \/ SyncEnd(e)
    <3>1. ASSUME Start PROVE cpc'[c] # "post" \/ cpc'[c] = cpc[c]
      BY <2>0, <3>1 DEF Start, TypeOK
    <3> QED
      BY <1>1, <2>0, <2>2, <3>1, CaptureFrame, Wakes
  <2>3. CASE ConsumerStep(c)
    BY <1>1, <2>0, <2>1, <2>3
       DEF TypeOK, Goto, Alive, ConsumerStep, Loop, ReadDraining, CheckRunning, Take, GetEmpty,
           Park, WaitTimeout, DropUnsendable, Collect, CrashInNext, Admit, PostSent, PostRetry,
           PostFailed, Ack, Idle
  <2>4. ASSUME NEW d \in Consumers, ConsumerStep(d), d # c PROVE cpc'[c] = cpc[c]
    BY <2>0, <2>4, ConsumerFrame
  <2>5. ASSUME NEW t \in Callers, Close(t) \/ CallerStep(t)
        PROVE  cpc'[c] # "post" \/ cpc'[c] = cpc[c]
    BY <2>0, <2>5, CallerFrame, Wakes
  <2>6. CASE ShutdownStep \/ UNCHANGED vars
    BY <1>1, <2>0, <2>6, ShutdownFrame DEF vars
  <2> QED
    BY <1>1, <2>2, <2>3, <2>4, <2>5, <2>6 DEF Next
<1>2. IInv /\ [Next]_vars =>
        [ tpc[AtExit] = "done" /\ tpc[Shutdown] \in {"call", "done"}
            => \A c \in Consumers : cpc'[c] = "post" => cpc[c] = "post" ]_vars
  BY <1>1
<1> QED
  BY Invariance, <1>2, PTL DEF Spec, QuietAfterExit

-----------------------------------------------------------------------------
(* The lane implements LaneSpec *)

(* A step of the lane is a step of LaneSpec, or one it does not see.       *)
LEMMA PromiseStep ==
  ASSUME IInv, [Next]_vars
  PROVE  [Abs!Next]_(Abs!vars)
<1>0. TypeOK /\ OwnerInv /\ StagesOK /\ EventsPlaced /\ CallsOrdered /\ ShutdownOrdered
  BY DEF IInv, PInv, OwnerInv
<1> Shutdown \in Callers
  BY DEF Callers
<1> DEFINE Quiet == closed' = closed /\ (tpc'[Shutdown] = "done") = (tpc[Shutdown] = "done")
<1>1. ASSUME Quiet, NEW e \in Events, status[e] = "new",
             status' = [status EXCEPT ![e] = "refused"]
      PROVE  Abs!Next
  BY <1>1 DEF Abs!Next, Abs!Refuse
<1>2. ASSUME Quiet, NEW e \in Events, status[e] = "new", ~closed,
             status' = [status EXCEPT ![e] = "accepted"]
      PROVE  Abs!Next
  BY <1>2 DEF Abs!Next, Abs!Accept
<1>3. ASSUME Quiet, NEW S \in SUBSET Events, NEW o \in Outcomes,
             \A e \in S : status[e] = "accepted", Mark(S, o)
      PROVE  Abs!Next
  BY <1>3 DEF Abs!Next, Abs!Settle, Mark
<1>4. ASSUME Quiet, status' = status PROVE UNCHANGED Abs!vars
  BY <1>4 DEF Abs!vars
<1>5. CASE status' # status
  <2>1. Quiet
    BY <1>0, <1>5, EventsMove
  <2> HIDE DEF Quiet
  <2> QED
    BY <1>0, <1>1, <1>2, <1>3, <1>5, <2>1, EventsMove
<1>6. ASSUME NEW t \in Callers, Close(t), status' = status PROVE [Abs!Next]_(Abs!vars)
  <2>1. /\ closed' = TRUE /\ tpc[t] = "call"
        /\ (tpc'[Shutdown] = "done") = (tpc[Shutdown] = "done")
    BY <1>0, <1>6 DEF Close, CallerGoto, TypeOK
  <2>2. CASE closed
    BY <1>0, <1>6, <2>1, <2>2 DEF Abs!vars, TypeOK
  <2>3. CASE ~closed
    BY <1>6, <2>1, <2>3 DEF Abs!Next, Abs!Close
  <2> QED
    BY <2>2, <2>3
<1>7. ASSUME NEW t \in Callers, CallerStep(t), status' = status PROVE [Abs!Next]_(Abs!vars)
  <2>1. closed' = closed
    BY <1>7 DEF CallerStep, Request, CheckUnfinished, CheckAlive, FlushWait, FlushTimeout,
                DiscardTake, DiscardBalance, DiscardEnd, Complete, Pause, PauseEnd, laneVars
  <2>2. CASE (tpc'[Shutdown] = "done") = (tpc[Shutdown] = "done")
    BY <1>4, <1>7, <2>1, <2>2
  <2>3. CASE (tpc'[Shutdown] = "done") # (tpc[Shutdown] = "done")
    <3>1. t = Shutdown
      BY <1>0, <1>7, <2>3, CallerFrame
    <3>2. CallerMove(Shutdown)
      BY <1>0, <1>7, <3>1, CallerMoves
    <3>3. Owner(Shutdown) /\ Shutdown # AtExit
      BY LaneAssumption DEF Owner
    <3>4. /\ tpc[Shutdown] = "complete" /\ tpc'[Shutdown] = "done"
          /\ stage[Shutdown] # "flush"
      BY <2>3, <3>2, <3>3 DEF CallerMove, Move
    <3>5. stage[Shutdown] = "join" /\ closed
      BY <1>0, <3>3, <3>4 DEF TypeOK, StagesOK, CallsOrdered
    <3>6. \A e \in Events : status[e] # "accepted"
      BY <3>4, <3>5, NothingPending
    <3> QED
      BY <1>7, <2>1, <3>4, <3>5, <3>6 DEF Abs!Next, Abs!Finish
  <2> QED
    BY <2>2, <2>3
<1>8. ASSUME NEW c \in Consumers, ConsumerStep(c), status' = status PROVE Quiet
  BY <1>0, <1>8, ConsumerFrame
<1>9. ASSUME status' = status,
             Start \/ \E e \in Events : Enqueue(e) \/ EnqueueRefused(e) \/ SyncBegin(e)
                                         \/ SyncEnd(e)
      PROVE  Quiet
  BY <1>0, <1>9, CaptureFrame
<1>10. ASSUME ShutdownStep PROVE Quiet
  <2>1. tpc[Shutdown] # "done" /\ tpc'[Shutdown] # "done"
    BY <1>0, <1>10, ShutdownMoves DEF Move
  <2>2. closed' = closed
    BY <1>0, <1>10, ShutdownFrame
  <2> QED
    BY <2>1, <2>2
<1>11. ASSUME UNCHANGED vars PROVE Quiet
  BY <1>11 DEF vars, laneVars, callerVars
<1> HIDE DEF Quiet
<1>12. CASE status' = status
  BY <1>4, <1>6, <1>7, <1>8, <1>9, <1>10, <1>11, <1>12 DEF Next
<1> QED
  BY <1>5, <1>12

(* The lane refines LaneSpec: whatever its threads do, every event that is *)
(* accepted gets one outcome and keeps it, none is accepted once the lane  *)
(* is closed, and a shutdown returns when none is left without one.        *)
THEOREM LaneKeepsItsPromise == Spec => ImplementsLaneSpec
<1>1. Init => Abs!Init
  BY DEF Init, Abs!Init, Callers
<1>2. IInv /\ [Next]_vars => [Abs!Next]_(Abs!vars)
  BY PromiseStep
<1> QED
  BY Invariance, <1>1, <1>2, PTL DEF Spec, ImplementsLaneSpec, Abs!Spec
=============================================================================
