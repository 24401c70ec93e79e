----------------------------- MODULE LaneProofs -----------------------------
(***************************************************************************)
(* Theorems about Lane, for any number of events, consumers and flushing   *)
(* threads and any batch size, queue size and number of retries.           *)
(***************************************************************************)
EXTENDS Lane, TLAPS, FiniteSetTheorems

-----------------------------------------------------------------------------
(* Lemmas on the helpers *)

(* put(): the queue gains the event at its end and nothing else.           *)
LEMMA AppendFacts ==
  ASSUME NEW S, NEW q \in Seq(S), NEW e \in S
  PROVE  /\ Append(q, e) \in Seq(S)
         /\ Range(Append(q, e)) = Range(q) \cup {e}
         /\ IsInjective(q) /\ e \notin Range(q) => IsInjective(Append(q, e))
<1>1. /\ DOMAIN q = 1..Len(q) /\ Len(q) \in Nat
      /\ DOMAIN Append(q, e) = 1..(Len(q) + 1)
      /\ \A i \in 1..Len(q) : Append(q, e)[i] = q[i]
      /\ Append(q, e)[Len(q) + 1] = e
      /\ Append(q, e) \in Seq(S)
  OBVIOUS
<1>2. Range(Append(q, e)) = Range(q) \cup {e}
  <2>1. 1..(Len(q) + 1) = 1..Len(q) \cup {Len(q) + 1}
    BY <1>1
  <2> QED
    BY <1>1, <2>1 DEF Range
<1>3. ASSUME IsInjective(q), e \notin Range(q)
      PROVE  IsInjective(Append(q, e))
  BY <1>1, <1>3 DEF IsInjective, Range
<1> QED
  BY <1>1, <1>2, <1>3

(* get(): the queue loses its head, which it no longer holds.              *)
LEMMA TailFacts ==
  ASSUME NEW S, NEW q \in Seq(S), q # <<>>
  PROVE  /\ Head(q) \in S /\ Head(q) \in Range(q)
         /\ Tail(q) \in Seq(S)
         /\ IsInjective(q) => /\ Range(Tail(q)) = Range(q) \ {Head(q)}
                              /\ IsInjective(Tail(q))
<1>1. /\ DOMAIN q = 1..Len(q) /\ Len(q) \in Nat /\ Len(q) # 0
      /\ Tail(q) \in Seq(S)
      /\ DOMAIN Tail(q) = 1..(Len(q) - 1)
      /\ \A i \in 1..(Len(q) - 1) : Tail(q)[i] = q[i + 1]
      /\ Head(q) = q[1]
      /\ \A i \in 1..Len(q) : q[i] \in S
  OBVIOUS
<1>2. Head(q) \in S /\ Head(q) \in Range(q)
  BY <1>1 DEF Range
<1>3. ASSUME IsInjective(q)
      PROVE  /\ Range(Tail(q)) = Range(q) \ {Head(q)}
             /\ IsInjective(Tail(q))
  <2>1. ASSUME NEW x \in Range(Tail(q))
        PROVE  x \in Range(q) \ {Head(q)}
    BY <1>1, <1>3, <2>1 DEF IsInjective, Range
  <2>2. ASSUME NEW x \in Range(q) \ {Head(q)}
        PROVE  x \in Range(Tail(q))
    <3>1. PICK i \in 1..Len(q) : x = q[i]
      BY <1>1, <2>2 DEF Range
    <3>2. i - 1 \in 1..(Len(q) - 1) /\ Tail(q)[i - 1] = x
      BY <1>1, <2>2, <3>1
    <3> QED
      BY <1>1, <3>2 DEF Range
  <2>3. IsInjective(Tail(q))
    BY <1>1, <1>3 DEF IsInjective
  <2> QED
    BY <2>1, <2>2, <2>3
<1> QED
  BY <1>1, <1>2, <1>3

(* An event that is marked gets its outcome, the others keep their status. *)
LEMMA MarkType ==
  ASSUME TypeOK, NEW S, NEW o \in Outcomes, Mark(S, o)
  PROVE  /\ status' \in [Events -> {"new", "refused", "accepted"} \cup Outcomes]
         /\ \A e \in Events : status'[e] = "new" => status[e] = "new"
  BY DEF TypeOK, Mark, Outcomes

(* Notifications move sleepers only.                                       *)
LEMMA NotifyType ==
  ASSUME TypeOK, NotifyAll \/ NotifyOne
  PROVE  cpc' \in [Consumers -> ConsumerPcs]
  BY DEF TypeOK, NotifyAll, NotifyOne, Resumed, Parked, ConsumerPcs

-----------------------------------------------------------------------------
(* Type correctness *)

LEMMA TypeStep ==
  ASSUME TypeOK, HandsFull, [Next]_vars
  PROVE  TypeOK'
<1> USE LaneAssumption DEF TypeOK, laneVars, queueVars, stopVars, consumerVars, callerVars
<1>1. CASE UNCHANGED vars
  BY <1>1 DEF vars
<1>2. CASE Start
  BY <1>2 DEF Start, ConsumerPcs
<1>3. ASSUME NEW e \in Events,
             Enqueue(e) \/ EnqueueRefused(e) \/ SyncBegin(e) \/ SyncEnd(e)
      PROVE  TypeOK'
  <2>1. CASE Enqueue(e)
    <3>1. cpc' \in [Consumers -> ConsumerPcs]
      BY <2>1, NotifyType DEF Enqueue
    <3>2. queue' \in Seq(Events)
      BY <2>1, AppendFacts DEF Enqueue
    <3> QED
      BY <2>1, <3>1, <3>2 DEF Enqueue
  <2>2. CASE EnqueueRefused(e)
    BY <2>2 DEF EnqueueRefused
  <2>3. CASE SyncBegin(e)
    BY <2>3 DEF SyncBegin
  <2>4. CASE SyncEnd(e)
    BY <2>4 DEF SyncEnd, Outcomes
  <2> QED
    BY <1>3, <2>1, <2>2, <2>3, <2>4
<1>4. ASSUME NEW c \in Consumers, ConsumerStep(c)
      PROVE  TypeOK'
  <2> USE DEF Goto, ConsumerPcs
  <2>1. CASE Loop(c)
    BY <2>1 DEF Loop
  <2>2. CASE ReadDraining(c)
    BY <2>2 DEF ReadDraining, Draining
  <2>3. CASE CheckRunning(c)
    BY <2>3 DEF CheckRunning
  <2>4. CASE Take(c)
    <3>1. Head(queue) \in Events /\ queue' \in Seq(Events)
      BY <2>4, TailFacts DEF Take
    <3>2. hand' \in [Threads -> Events \cup {NoEvent}]
      BY <2>4, <3>1 DEF Take
    <3> QED
      BY <2>4, <3>1, <3>2 DEF Take
  <2>5. CASE GetEmpty(c)
    BY <2>5 DEF GetEmpty
  <2>6. CASE Park(c)
    BY <2>6 DEF Park
  <2>7. CASE WaitTimeout(c)
    BY <2>7 DEF WaitTimeout
  <2>8. CASE DropUnsendable(c)
    <3>1. status' \in [Events -> {"new", "refused", "accepted"} \cup Outcomes]
      BY <2>8, MarkType DEF DropUnsendable, Outcomes
    <3>2. unfinished' \in Int
      BY <2>8 DEF DropUnsendable
    <3>3. hand' \in [Threads -> Events \cup {NoEvent}]
      BY <2>8 DEF DropUnsendable
    <3> QED
      BY <2>8, <3>1, <3>2, <3>3 DEF DropUnsendable
  <2>9. CASE Collect(c)
    <3>1. hand[c] \in Events
      BY <2>9 DEF Collect, HandsFull, Threads
    <3>2. items' \in [Consumers -> SUBSET Events]
      BY <2>9, <3>1 DEF Collect
    <3>3. hand' \in [Threads -> Events \cup {NoEvent}]
      BY <2>9 DEF Collect
    <3> QED
      BY <2>9, <3>2, <3>3 DEF Collect
  <2>10. CASE CrashInNext(c)
    <3>1. status' \in [Events -> {"new", "refused", "accepted"} \cup Outcomes]
      BY <2>10, MarkType DEF CrashInNext, Outcomes
    <3>2. hand[c] \in Events
      BY <2>10 DEF CrashInNext, HandsFull, Threads
    <3>3. items' \in [Consumers -> SUBSET Events]
      BY <2>10, <3>2 DEF CrashInNext
    <3>4. hand' \in [Threads -> Events \cup {NoEvent}]
      BY <2>10 DEF CrashInNext
    <3> QED
      BY <2>10, <3>1, <3>3, <3>4 DEF CrashInNext
  <2>11. CASE Admit(c)
    <3>1. status' \in [Events -> {"new", "refused", "accepted"} \cup Outcomes]
      BY <2>11, MarkType DEF Admit, Outcomes
    <3> QED
      BY <2>11, <3>1 DEF Admit
  <2>12. CASE PostSent(c)
    <3>1. status' \in [Events -> {"new", "refused", "accepted"} \cup Outcomes]
      BY <2>12, MarkType DEF PostSent, Outcomes
    <3> QED
      BY <2>12, <3>1 DEF PostSent
  <2>13. CASE PostRetry(c)
    BY <2>13 DEF PostRetry
  <2>14. CASE PostFailed(c)
    <3>1. status' \in [Events -> {"new", "refused", "accepted"} \cup Outcomes]
      BY <2>14, MarkType DEF PostFailed, Outcomes
    <3> QED
      BY <2>14, <3>1 DEF PostFailed
  <2>15. CASE Ack(c)
    BY <2>15 DEF Ack
  <2>16. CASE Idle(c)
    BY <2>16 DEF Idle
  <2> QED
    BY <1>4, <2>1, <2>2, <2>3, <2>4, <2>5, <2>6, <2>7, <2>8, <2>9, <2>10, <2>11, <2>12, <2>13, <2>14, <2>15, <2>16 DEF ConsumerStep
<1>5. ASSUME NEW t \in Callers, Close(t) \/ CallerStep(t)
      PROVE  TypeOK'
  <2> USE DEF CallerGoto, CallerPcs
  <2>1. CASE Request(t)
    <3>1. cpc' \in [Consumers -> ConsumerPcs]
      BY <2>1, NotifyType DEF Request
    <3>2. requests' \in Int
      BY <2>1 DEF Request
    <3>4. /\ toStop' \in [Callers -> SUBSET Consumers]
          /\ tpc' \in [Callers -> CallerPcs]
      <4>1. CASE stage[t] = "join"
        <5>1. /\ toStop' = [toStop EXCEPT ![t] = IF started THEN Consumers ELSE {}]
              /\ tpc' = [tpc EXCEPT ![t] = "pause"]
          BY <2>1, <4>1 DEF Request
        <5>2. (IF started THEN Consumers ELSE {}) \in SUBSET Consumers
          OBVIOUS
        <5> QED
          BY <5>1, <5>2
      <4>2. CASE stage[t] # "join"
        BY <2>1, <4>2 DEF Request
      <4> QED
        BY <4>1, <4>2
    <3>3. asked' \in [Callers -> SUBSET Events]
      BY <2>1 DEF Request
    <3> QED
      BY <2>1, <3>1, <3>2, <3>3, <3>4 DEF Request
  <2>2. CASE CheckUnfinished(t)
    BY <2>2 DEF CheckUnfinished
  <2>3. CASE CheckAlive(t)
    BY <2>3 DEF CheckAlive
  <2>4. CASE FlushWait(t)
    BY <2>4 DEF FlushWait
  <2>5. CASE FlushTimeout(t)
    BY <2>5 DEF FlushTimeout
  <2>6. CASE DiscardTake(t)
    <3>1. Head(queue) \in Events /\ queue' \in Seq(Events)
      BY <2>6, TailFacts DEF DiscardTake
    <3>2. status' \in [Events -> {"new", "refused", "accepted"} \cup Outcomes]
      BY <2>6, MarkType DEF DiscardTake, Outcomes
    <3> QED
      BY <2>6, <3>1, <3>2 DEF DiscardTake
  <2>7. CASE DiscardBalance(t)
    <3>1. unfinished' \in Int
      BY <2>7 DEF DiscardBalance
    <3>2. hand' \in [Threads -> Events \cup {NoEvent}]
      BY <2>7 DEF DiscardBalance
    <3> QED
      BY <2>7, <3>1, <3>2 DEF DiscardBalance
  <2>8. CASE DiscardEnd(t)
    BY <2>8 DEF DiscardEnd
  <2>9. CASE Complete(t)
    <3>1. cpc' \in [Consumers -> ConsumerPcs]
      BY <2>9, NotifyType DEF Complete
    <3>2. requests' \in Int /\ toStop' \in [Callers -> SUBSET Consumers]
      BY <2>9 DEF Complete
    <3> QED
      BY <2>9, <3>1, <3>2 DEF Complete
  <2>10. CASE Pause(t)
    <3>1. cpc' \in [Consumers -> ConsumerPcs]
      BY <2>10, NotifyType DEF Pause
    <3>2. toStop' \in [Callers -> SUBSET Consumers]
      BY <2>10 DEF Pause
    <3>3. /\ running' \in [Consumers -> BOOLEAN]
          /\ drainOnStop' \in [Consumers -> BOOLEAN]
      BY <2>10 DEF Pause
    <3> QED
      BY <2>10, <3>1, <3>2, <3>3 DEF Pause
  <2>11. CASE PauseEnd(t)
    BY <2>11 DEF PauseEnd
  <2>12. CASE Close(t)
    BY <2>12 DEF Close
  <2> QED
    BY <1>5, <2>1, <2>2, <2>3, <2>4, <2>5, <2>6, <2>7, <2>8, <2>9, <2>10, <2>11, <2>12 DEF CallerStep
<1>6. CASE ShutdownStep
  BY <1>6 DEF ShutdownStep, WaitForSyncSends, FlushOrDiscard, JoinConsumers,
              CallerGoto, CallerPcs, Callers
<1> QED
  BY <1>1, <1>2, <1>3, <1>4, <1>5, <1>6 DEF Next

-----------------------------------------------------------------------------
(* Ownership and accounting *)

OwnerInv == TypeOK /\ HandsFull /\ OneOwner /\ Accounting /\ NewIsNowhere

(* Where an event under way can be.                                        *)
LEMMA WhereOutstanding ==
  ASSUME NEW e \in Events
  PROVE  e \in Outstanding <=>
           \/ e \in Range(queue)
           \/ \E c \in Consumers : e \in items[c]
           \/ \E t \in Threads : e = hand[t]
  BY DEF Outstanding

(* The events under way are finitely many, so that one more or one less    *)
(* changes their number by one.                                            *)
LEMMA OutstandingFinite ==
  /\ IsFiniteSet(Outstanding)
  /\ Cardinality(Outstanding) \in Nat
  /\ \A e : Cardinality(Outstanding \cup {e})
           = IF e \in Outstanding THEN Cardinality(Outstanding)
                                 ELSE Cardinality(Outstanding) + 1
  /\ \A e : Cardinality(Outstanding \ {e})
           = IF e \in Outstanding THEN Cardinality(Outstanding) - 1
                                 ELSE Cardinality(Outstanding)
<1>1. Outstanding \in SUBSET Events
  BY DEF Outstanding
<1>2. IsFiniteSet(Outstanding)
  BY <1>1, FS_Subset, LaneAssumption DEF LaneAssumption
<1> QED
  BY <1>2, FS_AddElement, FS_RemoveElement, FS_CardinalityType

(* A step that moves no event and marks none "new" keeps the invariant.    *)
LEMMA NothingMoves ==
  ASSUME OneOwner, Accounting, NewIsNowhere,
         UNCHANGED <<queue, unfinished, items, hand>>,
         \A e \in Events : status'[e] = "new" => status[e] = "new"
  PROVE  OneOwner' /\ Accounting' /\ NewIsNowhere'
<1>1. Outstanding' = Outstanding
  BY DEF Outstanding
<1>2. Outstanding \subseteq Events
  BY DEF Outstanding
<1> QED
  BY <1>1, <1>2 DEF OneOwner, Accounting, NewIsNowhere

LEMMA EnqueueOwner ==
  ASSUME OwnerInv, NEW e \in Events, Enqueue(e)
  PROVE  OneOwner' /\ Accounting' /\ NewIsNowhere'
<1> USE DEF OwnerInv
<1>1. e \notin Outstanding
  BY DEF Enqueue, NewIsNowhere
<1>2. /\ e \notin Range(queue)
      /\ \A c \in Consumers : e \notin items[c]
      /\ \A t \in Threads : e # hand[t]
  BY <1>1, WhereOutstanding
<1>3. Range(queue') = Range(queue) \cup {e} /\ IsInjective(queue')
  BY <1>2, AppendFacts DEF Enqueue, TypeOK, OneOwner
<1>4. UNCHANGED <<items, hand>> /\ unfinished' = unfinished + 1
  BY DEF Enqueue, consumerVars
<1>5. Outstanding' = Outstanding \cup {e}
  BY <1>3, <1>4 DEF Outstanding
<1>6. OneOwner'
  BY <1>2, <1>3, <1>4, LaneAssumption DEF OneOwner, LaneAssumption
<1>7. Accounting'
  BY <1>1, <1>4, <1>5, OutstandingFinite DEF Accounting
<1>8. NewIsNowhere'
  BY <1>5 DEF NewIsNowhere, Enqueue, TypeOK, Outstanding
<1> QED
  BY <1>6, <1>7, <1>8

(* A thread with an empty hand takes the head of the queue, whether to     *)
(* send it or to discard it.                                               *)
LEMMA TakeOwner ==
  ASSUME OwnerInv, NEW t \in Threads, hand[t] = NoEvent, queue # <<>>,
         hand' = [hand EXCEPT ![t] = Head(queue)], queue' = Tail(queue),
         UNCHANGED <<items, unfinished>>,
         \A e \in Events : status'[e] = "new" => status[e] = "new"
  PROVE  OneOwner' /\ Accounting' /\ NewIsNowhere'
<1> DEFINE h == Head(queue)
<1> USE DEF OwnerInv
<1>1. /\ h \in Events /\ h \in Range(queue)
      /\ Range(queue') = Range(queue) \ {h}
      /\ IsInjective(queue')
  BY TailFacts DEF TypeOK, OneOwner
<1>2. /\ \A c \in Consumers : h \notin items[c]
      /\ \A u \in Threads : hand[u] # h
      /\ h # NoEvent
  BY <1>1, LaneAssumption DEF OneOwner, LaneAssumption
<1>3. hand'[t] = h /\ \A u \in Threads \ {t} : hand'[u] = hand[u]
  BY DEF TypeOK
<1> HIDE DEF h
<1>4. Outstanding' = Outstanding
  <2>1. ASSUME NEW e \in Events
        PROVE  /\ e \in Range(queue') <=> e \in Range(queue) /\ e # h
               /\ (\E u \in Threads : e = hand'[u])
                    <=> (\E u \in Threads : e = hand[u]) \/ e = h
    BY <1>1, <1>3, LaneAssumption DEF LaneAssumption
  <2> QED
    BY <1>1, <2>1 DEF Outstanding
<1>5. OneOwner'
  BY <1>1, <1>2, <1>3 DEF OneOwner
<1>6. Outstanding \subseteq Events
  BY DEF Outstanding
<1> QED
  BY <1>4, <1>5, <1>6 DEF Accounting, NewIsNowhere

(* A thread acknowledges the event in its hand.                            *)
LEMMA ReleaseOwner ==
  ASSUME OwnerInv, NEW t \in Threads, hand[t] # NoEvent,
         hand' = [hand EXCEPT ![t] = NoEvent], unfinished' = unfinished - 1,
         UNCHANGED <<items, queue>>,
         \A e \in Events : status'[e] = "new" => status[e] = "new"
  PROVE  OneOwner' /\ Accounting' /\ NewIsNowhere'
<1> DEFINE h == hand[t]
<1> USE DEF OwnerInv
<1>1. h \in Events /\ h \in Outstanding
  <2>1. h \in Events
    BY DEF TypeOK
  <2> QED
    BY <2>1, WhereOutstanding
<1>2. /\ h \notin Range(queue)
      /\ \A c \in Consumers : h \notin items[c]
      /\ \A u \in Threads \ {t} : hand[u] # h
  BY DEF OneOwner
<1>3. hand'[t] = NoEvent /\ \A u \in Threads \ {t} : hand'[u] = hand[u]
  BY DEF TypeOK
<1>4. Outstanding' = Outstanding \ {h}
  BY <1>2, <1>3, LaneAssumption DEF Outstanding, LaneAssumption
<1>5. OneOwner'
  BY <1>3 DEF OneOwner
<1>6. Accounting'
  BY <1>1, <1>4, OutstandingFinite DEF Accounting
<1>7. NewIsNowhere'
  BY <1>4 DEF NewIsNowhere, Outstanding
<1> QED
  BY <1>5, <1>6, <1>7

(* A consumer puts the event in its hand into its batch.                   *)
LEMMA CollectOwner ==
  ASSUME OwnerInv, NEW c \in Consumers, hand[c] # NoEvent,
         hand' = [hand EXCEPT ![c] = NoEvent],
         items' = [items EXCEPT ![c] = @ \cup {hand[c]}],
         UNCHANGED <<queue, unfinished>>,
         \A e \in Events : status'[e] = "new" => status[e] = "new"
  PROVE  OneOwner' /\ Accounting' /\ NewIsNowhere'
<1> DEFINE h == hand[c]
<1> USE DEF OwnerInv
<1>1. c \in Threads /\ h \in Events /\ h # NoEvent
  BY DEF TypeOK, Threads
<1>2. /\ h \notin Range(queue)
      /\ \A d \in Consumers : h \notin items[d]
      /\ \A u \in Threads \ {c} : hand[u] # h
  BY <1>1 DEF OneOwner
<1>3. /\ hand'[c] = NoEvent /\ \A u \in Threads \ {c} : hand'[u] = hand[u]
      /\ items'[c] = items[c] \cup {h}
      /\ \A d \in Consumers \ {c} : items'[d] = items[d]
  BY <1>1 DEF TypeOK
<1>4. h = hand[c]
  OBVIOUS
<1> HIDE DEF h
<1>5. Outstanding' = Outstanding
  BY <1>1, <1>3, <1>4, LaneAssumption DEF Outstanding, LaneAssumption
<1>6. OneOwner'
  BY <1>1, <1>2, <1>3 DEF OneOwner
<1>7. Outstanding \subseteq Events
  BY DEF Outstanding
<1> QED
  BY <1>5, <1>6, <1>7 DEF Accounting, NewIsNowhere

(* A consumer acknowledges one event of its batch.                         *)
LEMMA AckOwner ==
  ASSUME OwnerInv, NEW c \in Consumers, NEW e \in items[c],
         items' = [items EXCEPT ![c] = @ \ {e}], unfinished' = unfinished - 1,
         UNCHANGED <<queue, hand, status>>
  PROVE  OneOwner' /\ Accounting' /\ NewIsNowhere'
<1> USE DEF OwnerInv
<1>1. e \in Events /\ e \in Outstanding
  BY DEF TypeOK, Outstanding
<1>2. /\ e \notin Range(queue)
      /\ \A d \in Consumers \ {c} : e \notin items[d]
      /\ \A u \in Threads : hand[u] # e
  BY <1>1, LaneAssumption DEF OneOwner, LaneAssumption
<1>3. /\ items'[c] = items[c] \ {e}
      /\ \A d \in Consumers \ {c} : items'[d] = items[d]
  BY DEF TypeOK
<1>4. Outstanding' = Outstanding \ {e}
  BY <1>2, <1>3 DEF Outstanding
<1>5. OneOwner'
  BY <1>3 DEF OneOwner
<1>6. Accounting'
  BY <1>1, <1>4, OutstandingFinite DEF Accounting
<1>7. NewIsNowhere'
  BY <1>4 DEF NewIsNowhere, Outstanding
<1> QED
  BY <1>5, <1>6, <1>7

(* Hands are filled and emptied where the code dequeues and acknowledges.  *)
LEMMA HandsStep ==
  ASSUME TypeOK, HandsFull, [Next]_vars
  PROVE  HandsFull'
<1> USE LaneAssumption DEF TypeOK, HandsFull, laneVars, queueVars, stopVars, consumerVars,
        callerVars, LaneAssumption, Threads
<1>1. CASE UNCHANGED vars
  BY <1>1 DEF vars
<1>2. CASE Start
  BY <1>2 DEF Start
<1>3. ASSUME NEW e \in Events,
             Enqueue(e) \/ EnqueueRefused(e) \/ SyncBegin(e) \/ SyncEnd(e)
      PROVE  HandsFull'
  BY <1>3 DEF Enqueue, NotifyOne, Resumed, Parked, EnqueueRefused, SyncBegin, SyncEnd
<1>4. ASSUME NEW c \in Consumers, ConsumerStep(c)
      PROVE  HandsFull'
  <2> USE DEF Goto
  <2>1. CASE Take(c)
    <3>1. Head(queue) \in Events
      BY <2>1, TailFacts DEF Take
    <3> QED
      BY <2>1, <3>1 DEF Take
  <2>2. CASE DropUnsendable(c) \/ Collect(c) \/ CrashInNext(c)
    <3>1. /\ hand' = [hand EXCEPT ![c] = NoEvent] /\ UNCHANGED <<tpc, started>>
          /\ cpc[c] = "size"
          /\ \E p \in {"next", "admit", "crash"} : cpc' = [cpc EXCEPT ![c] = p]
      BY <2>2 DEF DropUnsendable, Collect, CrashInNext
    <3> QED
      BY <3>1
  <2>3. CASE Loop(c)
    BY <2>3 DEF Loop
  <2>4. CASE ReadDraining(c)
    BY <2>4 DEF ReadDraining
  <2>5. CASE CheckRunning(c)
    BY <2>5 DEF CheckRunning
  <2>6. CASE GetEmpty(c)
    BY <2>6 DEF GetEmpty
  <2>7. CASE Park(c)
    BY <2>7 DEF Park
  <2>8. CASE WaitTimeout(c)
    BY <2>8 DEF WaitTimeout
  <2>9. CASE Admit(c)
    BY <2>9 DEF Admit
  <2>10. CASE PostSent(c)
    BY <2>10 DEF PostSent
  <2>11. CASE PostRetry(c)
    BY <2>11 DEF PostRetry
  <2>12. CASE PostFailed(c)
    BY <2>12 DEF PostFailed
  <2>13. CASE Idle(c)
    BY <2>13 DEF Idle
  <2>14. CASE Ack(c)
    BY <2>14 DEF Ack
  <2> QED
    BY <1>4, <2>1, <2>2, <2>3, <2>4, <2>5, <2>6, <2>7, <2>8, <2>9, <2>10, <2>11, <2>12, <2>13, <2>14 DEF ConsumerStep
<1>5. ASSUME NEW t \in Callers, Close(t) \/ CallerStep(t)
      PROVE  HandsFull'
  <2> USE DEF CallerGoto
  <2>1. CASE DiscardTake(t)
    <3>1. Head(queue) \in Events
      BY <2>1, TailFacts DEF DiscardTake
    <3> QED
      BY <2>1, <3>1 DEF DiscardTake
  <2>2. CASE DiscardBalance(t)
    BY <2>2 DEF DiscardBalance
  <2>3. CASE Request(t) \/ Complete(t)
    <3>1. /\ UNCHANGED <<hand, started>> /\ NotifyAll /\ tpc[t] # "balance"
          /\ \E p \in CallerPcs \ {"balance"} : tpc' = [tpc EXCEPT ![t] = p]
      BY <2>3 DEF Request, Complete, CallerPcs
    <3> QED
      BY <3>1 DEF NotifyAll, Resumed
  <2>4. CASE Pause(t)
    BY <2>4 DEF Pause, NotifyAll, Resumed
  <2>5. CASE Close(t)
    BY <2>5 DEF Close
  <2>6. CASE CheckUnfinished(t) \/ CheckAlive(t) \/ FlushWait(t) \/ FlushTimeout(t)
             \/ DiscardEnd(t) \/ PauseEnd(t)
    <3>1. /\ UNCHANGED <<hand, cpc, started>> /\ tpc[t] # "balance"
          /\ \E p \in CallerPcs \ {"balance"} : tpc' = [tpc EXCEPT ![t] = p]
      BY <2>6 DEF CheckUnfinished, CheckAlive, FlushWait, FlushTimeout, DiscardEnd,
                  PauseEnd, CallerPcs
    <3> QED
      BY <3>1
  <2> QED
    BY <1>5, <2>1, <2>2, <2>3, <2>4, <2>5, <2>6 DEF CallerStep
<1>6. CASE ShutdownStep
  BY <1>6 DEF ShutdownStep, WaitForSyncSends, FlushOrDiscard, JoinConsumers,
              CallerGoto, Callers
<1> QED
  BY <1>1, <1>2, <1>3, <1>4, <1>5, <1>6 DEF Next

LEMMA OwnerStep ==
  ASSUME OwnerInv, [Next]_vars
  PROVE  OneOwner' /\ Accounting' /\ NewIsNowhere'
<1> USE DEF laneVars, queueVars, stopVars, consumerVars, callerVars
<1>0. TypeOK /\ HandsFull /\ OneOwner /\ Accounting /\ NewIsNowhere
  BY DEF OwnerInv
<1>1. CASE UNCHANGED vars
  BY <1>0, <1>1, NothingMoves DEF vars
<1>2. CASE Start
  BY <1>0, <1>2, NothingMoves DEF Start
<1>3. ASSUME NEW e \in Events,
             Enqueue(e) \/ EnqueueRefused(e) \/ SyncBegin(e) \/ SyncEnd(e)
      PROVE  OneOwner' /\ Accounting' /\ NewIsNowhere'
  <2>1. CASE Enqueue(e)
    BY <2>1, EnqueueOwner
  <2>2. CASE EnqueueRefused(e) \/ SyncBegin(e) \/ SyncEnd(e)
    <3>1. UNCHANGED <<queue, unfinished, items, hand>>
      BY <2>2 DEF EnqueueRefused, SyncBegin, SyncEnd
    <3>2. \A f \in Events : status'[f] = "new" => status[f] = "new"
      BY <1>0, <2>2 DEF EnqueueRefused, SyncBegin, SyncEnd, TypeOK
    <3> QED
      BY <1>0, <3>1, <3>2, NothingMoves
  <2> QED
    BY <1>3, <2>1, <2>2
<1>4. ASSUME NEW c \in Consumers, ConsumerStep(c)
      PROVE  OneOwner' /\ Accounting' /\ NewIsNowhere'
  <2>0. c \in Threads
    BY DEF Threads
  <2>1. CASE Take(c)
    BY <1>0, <2>0, <2>1, TakeOwner DEF Take, OwnerInv, HandsFull
  <2>2. CASE DropUnsendable(c)
    <3>1. \A f \in Events : status'[f] = "new" => status[f] = "new"
      BY <1>0, <2>2, MarkType DEF DropUnsendable, Outcomes
    <3> QED
      BY <1>0, <2>0, <2>2, <3>1, ReleaseOwner DEF DropUnsendable, OwnerInv, HandsFull
  <2>3. CASE Collect(c)
    BY <1>0, <2>3, CollectOwner DEF Collect, OwnerInv, HandsFull
  <2>4. CASE CrashInNext(c)
    <3>1. \A f \in Events : status'[f] = "new" => status[f] = "new"
      BY <1>0, <2>4, MarkType DEF CrashInNext, Outcomes
    <3> QED
      BY <1>0, <2>4, <3>1, CollectOwner DEF CrashInNext, OwnerInv, HandsFull
  <2>5. CASE Ack(c)
    BY <2>5, AckOwner DEF Ack
  <2>6. CASE Admit(c) \/ PostSent(c) \/ PostFailed(c)
    <3>1. UNCHANGED <<queue, unfinished, items, hand>>
      BY <2>6 DEF Admit, PostSent, PostFailed
    <3>2. \A f \in Events : status'[f] = "new" => status[f] = "new"
      BY <1>0, <2>6, MarkType DEF Admit, PostSent, PostFailed, Outcomes
    <3> QED
      BY <1>0, <3>1, <3>2, NothingMoves
  <2>7. CASE Loop(c) \/ ReadDraining(c) \/ CheckRunning(c) \/ GetEmpty(c) \/ Park(c)
             \/ WaitTimeout(c) \/ PostRetry(c) \/ Idle(c)
    <3>1. UNCHANGED <<queue, unfinished, items, hand, status>>
      BY <2>7 DEF Loop, ReadDraining, CheckRunning, GetEmpty, Park, WaitTimeout, PostRetry,
                  Idle
    <3> QED
      BY <1>0, <3>1, NothingMoves
  <2> QED
    BY <1>4, <2>1, <2>2, <2>3, <2>4, <2>5, <2>6, <2>7 DEF ConsumerStep
<1>5. ASSUME NEW t \in Callers, Close(t) \/ CallerStep(t)
      PROVE  OneOwner' /\ Accounting' /\ NewIsNowhere'
  <2>0. t \in Threads
    BY DEF Threads
  <2>1. CASE DiscardTake(t)
    <3>1. \A f \in Events : status'[f] = "new" => status[f] = "new"
      BY <1>0, <2>1, MarkType DEF DiscardTake, Outcomes
    <3> QED
      BY <1>0, <2>0, <2>1, <3>1, TakeOwner DEF DiscardTake, OwnerInv, HandsFull
  <2>2. CASE DiscardBalance(t)
    BY <1>0, <2>0, <2>2, ReleaseOwner DEF DiscardBalance, OwnerInv, HandsFull
  <2>3. CASE \/ Close(t) \/ Request(t) \/ CheckUnfinished(t) \/ CheckAlive(t)
             \/ FlushWait(t) \/ FlushTimeout(t) \/ DiscardEnd(t) \/ Complete(t)
             \/ Pause(t) \/ PauseEnd(t)
    <3>1. UNCHANGED <<queue, unfinished, items, hand, status>>
      BY <2>3 DEF Close, Request, CheckUnfinished, CheckAlive, FlushWait, FlushTimeout,
                  DiscardEnd, Complete, Pause, PauseEnd
    <3> QED
      BY <1>0, <3>1, NothingMoves
  <2> QED
    BY <1>5, <2>1, <2>2, <2>3 DEF CallerStep
<1>6. CASE ShutdownStep
  <2>1. UNCHANGED <<queue, unfinished, items, hand, status>>
    BY <1>6 DEF ShutdownStep, WaitForSyncSends, FlushOrDiscard, JoinConsumers
  <2> QED
    BY <1>0, <2>1, NothingMoves
<1> QED
  BY <1>1, <1>2, <1>3, <1>4, <1>5, <1>6 DEF Next

LEMMA OwnerInit == Init => OwnerInv
<1> SUFFICES ASSUME Init
             PROVE  OwnerInv
  OBVIOUS
<1>1. TypeOK
  <2>1. queue \in Seq(Events) /\ unfinished \in Int /\ requests \in Int
    BY DEF Init
  <2>2. attempt \in [Consumers -> 0..Retries]
    BY LaneAssumption DEF Init, LaneAssumption
  <2>3. /\ running \in [Consumers -> BOOLEAN] /\ drainOnStop \in [Consumers -> BOOLEAN]
        /\ draining \in [Consumers -> BOOLEAN]
        /\ cpc \in [Consumers -> ConsumerPcs]
        /\ items \in [Consumers -> SUBSET Events]
        /\ hand \in [Threads -> Events \cup {NoEvent}]
    BY DEF Init, ConsumerPcs
  <2>4. /\ tpc \in [Callers -> CallerPcs]
        /\ stage \in [Callers -> {"flush", "skip", "join"}]
        /\ toStop \in [Callers -> SUBSET Consumers]
        /\ asked \in [Callers -> SUBSET Events]
    BY DEF Init, CallerPcs
  <2> QED
    BY <2>1, <2>2, <2>3, <2>4 DEF Init, TypeOK
<1>2. HandsFull
  BY DEF Init, HandsFull, Threads
<1>3. Range(queue) = {} /\ IsInjective(queue)
  BY DEF Init, Range, IsInjective
<1>4. OneOwner
  BY <1>3 DEF Init, OneOwner, Threads
<1>5. Outstanding = {}
  BY <1>3, LaneAssumption DEF Init, Outstanding, LaneAssumption
<1>6. Accounting
  BY <1>5, FS_EmptySet DEF Init, Accounting
<1>7. NewIsNowhere
  BY <1>5 DEF NewIsNowhere
<1> QED
  BY <1>1, <1>2, <1>4, <1>6, <1>7 DEF OwnerInv

LEMMA OwnerInvariant == Spec => []OwnerInv
<1>1. OwnerInv /\ [Next]_vars => OwnerInv'
  BY TypeStep, HandsStep, OwnerStep DEF OwnerInv
<1> QED
  BY OwnerInit, <1>1, PTL DEF Spec

(* Every variable of the lane keeps its type.                              *)
THEOREM TypeCorrect == Spec => []TypeOK
<1>1. OwnerInv => TypeOK
  BY DEF OwnerInv
<1> QED
  BY OwnerInvariant, <1>1, PTL

(* No event has two owners, none that is under way has no owner: whatever  *)
(* the number of consumers and of concurrent flushes and discards.         *)
THEOREM EventsHaveOneOwner == Spec => []OneOwner
<1>1. OwnerInv => OneOwner
  BY DEF OwnerInv
<1> QED
  BY OwnerInvariant, <1>1, PTL

(* unfinished_tasks is at all times the number of events queued or held.   *)
THEOREM UnfinishedIsExact == Spec => []Accounting
<1>1. OwnerInv => Accounting
  BY DEF OwnerInv
<1> QED
  BY OwnerInvariant, <1>1, PTL

-----------------------------------------------------------------------------
(* Drain requests *)

LEMMA RequestersFinite ==
  /\ IsFiniteSet(Requesters)
  /\ \A t \in Callers : /\ Cardinality(Requesters \cup {t})
                           = IF t \in Requesters THEN Cardinality(Requesters)
                                                ELSE Cardinality(Requesters) + 1
                        /\ Cardinality(Requesters \ {t})
                           = IF t \in Requesters THEN Cardinality(Requesters) - 1
                                                ELSE Cardinality(Requesters)
<1>1. IsFiniteSet({Shutdown} \cup {AtExit})
  BY FS_Singleton, FS_Union
<1>2. IsFiniteSet(Callers)
  BY <1>1, FS_Union, LaneAssumption DEF LaneAssumption, Callers
<1>3. IsFiniteSet(Requesters)
  BY <1>2, FS_Subset DEF Requesters
<1> QED
  BY <1>3, FS_AddElement, FS_RemoveElement

(* What a step of one caller does to the set of requesters follows from    *)
(* what it does to that caller.                                            *)
LEMMA RequestersChange ==
  ASSUME TypeOK, NEW t \in Callers,
         \A u \in Callers \ {t} : tpc'[u] = tpc[u] /\ stage'[u] = stage[u]
  PROVE  /\ Requesting(t) /\ Requesting(t)' => Requesters' = Requesters
         /\ ~Requesting(t) /\ ~Requesting(t)' => Requesters' = Requesters
         /\ ~Requesting(t) /\ Requesting(t)' => Requesters' = Requesters \cup {t}
         /\ Requesting(t) /\ ~Requesting(t)' => Requesters' = Requesters \ {t}
<1>1. \A u \in Callers \ {t} : Requesting(u)' <=> Requesting(u)
  BY DEF Requesting
<1> QED
  BY <1>1 DEF Requesters

LEMMA StagesStep ==
  ASSUME TypeOK, StagesOK, [Next]_vars
  PROVE  StagesOK'
<1> USE LaneAssumption DEF TypeOK, StagesOK, callerVars, LaneAssumption, Callers
<1>1. CASE UNCHANGED <<tpc, stage>>
  BY <1>1
<1>2. ASSUME NEW t \in Callers, Close(t) \/ CallerStep(t)
      PROVE  StagesOK'
  <2> USE DEF CallerGoto
  <2>1. CASE Request(t)
    <3>1. /\ tpc[t] \in {"request", "call"}
          /\ stage' = stage
          /\ tpc' = [tpc EXCEPT ![t] = IF stage[t] = "join" THEN "pause" ELSE "check"]
      BY <2>1 DEF Request
    <3> QED
      BY <3>1
  <2>2. CASE Complete(t)
    BY <2>2 DEF Complete
  <2>3. CASE DiscardEnd(t)
    BY <2>3 DEF DiscardEnd
  <2>4. CASE PauseEnd(t)
    BY <2>4 DEF PauseEnd
  <2>5. CASE DiscardTake(t) \/ DiscardBalance(t)
    BY <2>5 DEF DiscardTake, DiscardBalance
  <2>6. CASE Pause(t)
    BY <2>6 DEF Pause
  <2>7. CASE Close(t) \/ CheckUnfinished(t) \/ CheckAlive(t) \/ FlushWait(t)
             \/ FlushTimeout(t)
    <3>1. /\ tpc[t] \in {"call", "check", "alive", "wait"}
          /\ stage' = stage
          /\ \E p \in {"syncs", "request", "complete", "wait", "alive", "discard", "check"} :
               tpc' = [tpc EXCEPT ![t] = p]
      BY <2>7 DEF Close, CheckUnfinished, CheckAlive, FlushWait, FlushTimeout
    <3> QED
      BY <3>1
  <2> QED
    BY <1>2, <2>1, <2>2, <2>3, <2>4, <2>5, <2>6, <2>7 DEF CallerStep
<1>3. CASE ShutdownStep
  BY <1>3 DEF ShutdownStep, WaitForSyncSends, FlushOrDiscard, JoinConsumers, CallerGoto
<1>4. ASSUME NEW c \in Consumers, ConsumerStep(c)
      PROVE  UNCHANGED <<tpc, stage>>
  BY <1>4 DEF ConsumerStep, Loop, ReadDraining, CheckRunning, Take, GetEmpty, Park,
              WaitTimeout, DropUnsendable, Collect, CrashInNext, Admit, PostSent, PostRetry,
              PostFailed, Ack, Idle
<1>5. CASE Start \/ \E e \in Events : Enqueue(e) \/ EnqueueRefused(e) \/ SyncBegin(e)
                                      \/ SyncEnd(e)
  BY <1>1, <1>5 DEF Start, Enqueue, EnqueueRefused, SyncBegin, SyncEnd
<1> QED
  BY <1>1, <1>2, <1>3, <1>4, <1>5 DEF Next, vars

LEMMA RequestsStep ==
  ASSUME TypeOK, StagesOK, RequestsBalanced, [Next]_vars
  PROVE  RequestsBalanced'
<1> USE LaneAssumption DEF TypeOK, StagesOK, callerVars, LaneAssumption
<1>1. CASE UNCHANGED <<tpc, stage, requests>>
  BY <1>1 DEF RequestsBalanced, Requesters, Requesting
<1>2. ASSUME NEW t \in Callers, Close(t) \/ CallerStep(t)
      PROVE  RequestsBalanced'
  <2> USE DEF CallerGoto
  <2>1. CASE Request(t)
    <3>1. /\ tpc[t] \in {"request", "call"}
          /\ UNCHANGED stage /\ requests' = requests + 1
          /\ tpc' = [tpc EXCEPT ![t] = IF stage[t] = "join" THEN "pause" ELSE "check"]
      BY <2>1 DEF Request
    <3>2. ~Requesting(t) /\ Requesting(t)'
      BY <3>1 DEF Requesting
    <3>3. Requesters' = Requesters \cup {t} /\ t \notin Requesters
      BY <3>1, <3>2, RequestersChange DEF Requesters
    <3> QED
      BY <3>1, <3>3, RequestersFinite DEF RequestsBalanced
  <2>2. CASE Complete(t)
    <3>1. /\ tpc[t] = "complete" /\ stage[t] # "skip" /\ requests' = requests - 1
          /\ \A u \in Callers \ {t} : tpc'[u] = tpc[u] /\ stage'[u] = stage[u]
          /\ \/ tpc'[t] \in {"request", "done"}
             \/ t = AtExit /\ tpc'[t] = "pause"
      BY <2>2 DEF Complete
    <3>2. Requesting(t) /\ ~Requesting(t)'
      BY <3>1 DEF Requesting
    <3>3. Requesters' = Requesters \ {t} /\ t \in Requesters
      BY <3>1, <3>2, RequestersChange DEF Requesters
    <3> QED
      BY <3>1, <3>3, RequestersFinite DEF RequestsBalanced
  <2>3. CASE \/ CheckUnfinished(t) \/ CheckAlive(t) \/ FlushWait(t) \/ FlushTimeout(t)
             \/ DiscardTake(t) \/ DiscardBalance(t)
    <3>1. /\ tpc[t] \in {"check", "alive", "wait", "discard", "balance"}
          /\ UNCHANGED <<stage, requests>>
          /\ \E p \in {"complete", "wait", "alive", "discard", "check", "balance"} :
               tpc' = [tpc EXCEPT ![t] = p]
      BY <2>3 DEF CheckUnfinished, CheckAlive, FlushWait, FlushTimeout, DiscardTake,
                  DiscardBalance
    <3>2. Requesting(t)' <=> Requesting(t)
      BY <3>1 DEF Requesting
    <3> QED
      BY <3>1, <3>2, RequestersChange DEF RequestsBalanced
  <2>4. CASE DiscardEnd(t)
    <3>1. /\ tpc[t] = "discard" /\ UNCHANGED requests
          /\ \A u \in Callers \ {t} : tpc'[u] = tpc[u] /\ stage'[u] = stage[u]
          /\ \/ stage[t] = "skip" /\ tpc'[t] = "request"
             \/ stage[t] # "skip" /\ tpc'[t] = "complete" /\ stage'[t] = stage[t]
      BY <2>4 DEF DiscardEnd
    <3>2. Requesting(t)' <=> Requesting(t)
      BY <3>1 DEF Requesting
    <3> QED
      BY <3>1, <3>2, RequestersChange DEF RequestsBalanced
  <2>5. CASE Close(t) \/ Pause(t) \/ PauseEnd(t)
    <3>1. /\ UNCHANGED <<stage, requests>>
          /\ \/ UNCHANGED tpc
             \/ tpc[t] = "call" /\ tpc' = [tpc EXCEPT ![t] = "syncs"]
             \/ tpc[t] = "call" /\ tpc' = [tpc EXCEPT ![t] = "request"]
             \/ tpc[t] = "pause" /\ t = Shutdown /\ tpc' = [tpc EXCEPT ![t] = "join"]
             \/ tpc[t] = "pause" /\ t # Shutdown /\ tpc' = [tpc EXCEPT ![t] = "done"]
      BY <2>5 DEF Close, Pause, PauseEnd
    <3>2. Requesting(t)' <=> Requesting(t)
      BY <3>1 DEF Requesting
    <3> QED
      BY <3>1, <3>2, RequestersChange DEF RequestsBalanced
  <2> QED
    BY <1>2, <2>1, <2>2, <2>3, <2>4, <2>5 DEF CallerStep
<1>3. CASE ShutdownStep
  <2>1. Shutdown \in Callers
    BY DEF Callers
  <2>2. /\ UNCHANGED requests
        /\ \A u \in Callers \ {Shutdown} : tpc'[u] = tpc[u] /\ stage'[u] = stage[u]
        /\ \/ tpc[Shutdown] = "syncs" /\ tpc'[Shutdown] = "drain"
           \/ tpc[Shutdown] = "drain" /\ tpc'[Shutdown] = "request"
           \/ tpc[Shutdown] = "drain" /\ tpc'[Shutdown] = "discard"
              /\ stage'[Shutdown] = "skip"
           \/ tpc[Shutdown] = "join" /\ tpc'[Shutdown] = "discard"
              /\ stage'[Shutdown] = "join"
    BY <1>3, <2>1 DEF ShutdownStep, WaitForSyncSends, FlushOrDiscard, JoinConsumers, CallerGoto
  <2>3. Requesting(Shutdown)' <=> Requesting(Shutdown)
    BY <2>2 DEF Requesting
  <2> QED
    BY <2>1, <2>2, <2>3, RequestersChange DEF RequestsBalanced
<1>4. ASSUME NEW c \in Consumers, ConsumerStep(c)
      PROVE  UNCHANGED <<tpc, stage, requests>>
  BY <1>4 DEF ConsumerStep, Loop, ReadDraining, CheckRunning, Take, GetEmpty, Park,
              WaitTimeout, DropUnsendable, Collect, CrashInNext, Admit, PostSent, PostRetry,
              PostFailed, Ack, Idle
<1>5. CASE Start \/ \E e \in Events : Enqueue(e) \/ EnqueueRefused(e) \/ SyncBegin(e)
                                      \/ SyncEnd(e)
  BY <1>1, <1>5 DEF Start, Enqueue, EnqueueRefused, SyncBegin, SyncEnd
<1> QED
  BY <1>1, <1>2, <1>3, <1>4, <1>5 DEF Next, vars

(* The number of active drain requests is the number of callers between    *)
(* request() and complete(), for any number of concurrent flushes.         *)
THEOREM DrainRequestsBalanced == Spec => []RequestsBalanced
<1> DEFINE Inv == TypeOK /\ StagesOK /\ RequestsBalanced
<1>1. Init => StagesOK /\ RequestsBalanced
  <2> SUFFICES ASSUME Init
               PROVE  StagesOK /\ RequestsBalanced
    OBVIOUS
  <2>1. StagesOK
    BY DEF Init, StagesOK, Callers
  <2>2. Requesters = {}
    BY DEF Init, Requesters, Requesting
  <2> QED
    BY <2>1, <2>2, FS_EmptySet DEF Init, RequestsBalanced
<1>2. TypeOK /\ TypeOK' /\ StagesOK /\ RequestsBalanced /\ [Next]_vars
        => StagesOK' /\ RequestsBalanced'
  BY StagesStep, RequestsStep
<1> QED
  BY <1>1, <1>2, TypeCorrect, PTL DEF Spec
=============================================================================
