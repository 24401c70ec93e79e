---------------------------- MODULE MetricsProofs ----------------------------
(***************************************************************************)
(* Proofs about the metrics client (Metrics), for any number of series,    *)
(* samples, flushing threads and timers: that it is well typed, that every *)
(* sample is accounted for once, that none waits for a flush nobody will   *)
(* make, that the live window stays within its limit through every merge,  *)
(* and that no retry sends a gauge back.  They are parts of one inductive  *)
(* invariant, IInv, which adds to them                                     *)
(*   LockHeld    _flush_lock is held exactly while a window is under way   *)
(*   Watched     the timer of _flush_timer has still to look at the window *)
(*   Apart       no sample is in two series of a window                    *)
(*   Finite      a window holds finitely many series                       *)
(*   GaugeOrder  a gauge has one value per window, newer when it is live,  *)
(*               and never older than the last one the server received     *)
(***************************************************************************)
EXTENDS Metrics, FiniteSetTheorems, TLAPS

Posting == {"send", "ok", "retry", "gone"}

LockHeld ==
  /\ \A t \in Threads : pc[t] \in Posting <=> flushLock = t
  /\ flushLock = NoThread => window = NoSeries

Watched ==
  /\ flushTimer # NoThread => pc[flushTimer] \in {"armed", "fired"}
  /\ Live # {} => flushTimer # NoThread \/ \E t \in Threads : pc[t] = "lock"

Apart(w) == \A s, r \in Series : s # r => w[s] \cap w[r] = {}

Finite == IsFiniteSet(Used(series)) /\ IsFiniteSet(Used(window))

Ordered(s) ==
  /\ \A m, n \in series[s] : m = n
  /\ \A m, n \in window[s] : m = n
  /\ \A n \in series[s] : \A m \in window[s] : m < n
  /\ \A n \in series[s] \cup window[s] : posted[s] <= n
  /\ posted[s] <= captured

GaugeOrder == \A s \in Gauges : Ordered(s)

IInv ==
  /\ TypeOK
  /\ LockHeld
  /\ Watched
  /\ Apart(series) /\ Apart(window)
  /\ Conservation
  /\ Finite /\ SeriesBounded
  /\ GaugeOrder

-----------------------------------------------------------------------------
(* The operators of the model *)

(* The samples of a window are those of its series. *)
LEMMA Members == \A w, n : n \in In(w) <=> \E s \in Series : n \in w[s]
BY DEF In

(* A window without series has no samples, and no series in use. *)
LEMMA Empty ==
  ASSUME NEW w, w = NoSeries
  PROVE  In(w) = {} /\ Used(w) = {} /\ \A s \in Series : w[s] = {}
BY DEF In, Used, NoSeries

(* Conservation, sample by sample. *)
SampleOnce ==
  /\ \A n : n \in 1..captured <=> \/ n \in Live \/ n \in In(window) \/ n \in delivered
                                  \/ n \in discarded \/ n \in In(replaced)
  /\ \A n \in Live : n \notin In(window) \cup delivered \cup discarded \cup In(replaced)
  /\ \A n \in In(window) : n \notin delivered \cup discarded \cup In(replaced)
  /\ \A n \in delivered : n \notin discarded \cup In(replaced)
  /\ \A n \in discarded : n \notin In(replaced)

(* It says the same of the samples as Conservation of the sets they are in.*)
LEMMA Accounted == Conservation <=> SampleOnce
<1> DEFINE places == <<Live, In(window), delivered, discarded, In(replaced)>>
<1>1. /\ places[1] = Live /\ places[2] = In(window) /\ places[3] = delivered
      /\ places[4] = discarded /\ places[5] = In(replaced)
  OBVIOUS
<1>2. 1..5 = {1, 2, 3, 4, 5}
  OBVIOUS
<1>3. UNION {places[i] : i \in 1..5}
        = Live \cup In(window) \cup delivered \cup discarded \cup In(replaced)
  <2> HIDE DEF places
  <2>1. UNION {places[i] : i \in {1, 2, 3, 4, 5}}
          = places[1] \cup places[2] \cup places[3] \cup places[4] \cup places[5]
    OBVIOUS
  <2> QED
    BY <2>1, <1>1, <1>2
<1>4. (\A i, j \in 1..5 : i # j => places[i] \cap places[j] = {})
      <=> /\ \A n \in Live : n \notin In(window) \cup delivered \cup discarded \cup In(replaced)
          /\ \A n \in In(window) : n \notin delivered \cup discarded \cup In(replaced)
          /\ \A n \in delivered : n \notin discarded \cup In(replaced)
          /\ \A n \in discarded : n \notin In(replaced)
  <2> DEFINE apart(i, j) == places[i] \cap places[j] = {}
  <2>1. (\A i, j \in 1..5 : i # j => apart(i, j))
        <=> /\ apart(1, 2) /\ apart(1, 3) /\ apart(1, 4) /\ apart(1, 5) /\ apart(2, 3)
            /\ apart(2, 4) /\ apart(2, 5) /\ apart(3, 4) /\ apart(3, 5) /\ apart(4, 5)
    <3>1. \A i, j : apart(i, j) <=> apart(j, i)
      OBVIOUS
    <3> HIDE DEF apart
    <3> QED
      BY <3>1, <1>2
  <2>2. /\ apart(1, 2) <=> Live \cap In(window) = {}
        /\ apart(1, 3) <=> Live \cap delivered = {}
        /\ apart(1, 4) <=> Live \cap discarded = {}
        /\ apart(1, 5) <=> Live \cap In(replaced) = {}
        /\ apart(2, 3) <=> In(window) \cap delivered = {}
        /\ apart(2, 4) <=> In(window) \cap discarded = {}
        /\ apart(2, 5) <=> In(window) \cap In(replaced) = {}
        /\ apart(3, 4) <=> delivered \cap discarded = {}
        /\ apart(3, 5) <=> delivered \cap In(replaced) = {}
        /\ apart(4, 5) <=> discarded \cap In(replaced) = {}
    BY <1>1
  <2>3. (\A i, j \in 1..5 : i # j => places[i] \cap places[j] = {})
        <=> (\A i, j \in 1..5 : i # j => apart(i, j))
    OBVIOUS
  <2> HIDE DEF apart, places
  <2> QED
    BY <2>1, <2>2, <2>3
<1>5. Conservation <=>
        /\ UNION {places[i] : i \in 1..5} = 1..captured
        /\ \A i, j \in 1..5 : i # j => places[i] \cap places[j] = {}
  BY DEF Conservation
<1> HIDE DEF places
<1> QED
  BY <1>3, <1>4, <1>5 DEF SampleOnce

(* The threads and the timers are threads, and NoThread is none of them. *)
LEMMA ThreadFacts ==
  /\ Timers \subseteq Threads /\ Flushers \subseteq Threads
  /\ NoThread \notin Threads
BY MetricsAssumption DEF Threads

(* _arm_flush_timer starts one idle timer, cancels the one it replaces if  *)
(* that one has not fired yet, and leaves the other threads where they are.*)
LEMMA ArmStarts ==
  ASSUME TypeOK, NEW t, NEW done \in Pcs, NEW replace \in BOOLEAN,
         Arm(t, done, replace), replace \/ flushTimer = NoThread
  PROVE  /\ flushTimer' \in Timers /\ backoff' \subseteq Timers
         /\ pc[flushTimer'] = "idle" /\ pc'[flushTimer'] = "armed"
         /\ pc' \in [Threads -> Pcs]
         /\ \A u \in Threads \ {flushTimer', t} :
              pc'[u] = pc[u] \/ (pc[u] = "armed" /\ pc'[u] = "idle")
         /\ t \in Threads \ {flushTimer'} => pc'[t] = done
<1> DEFINE k == FreeTimer
<1>1. /\ k \in Timers /\ pc[k] = "idle" /\ flushTimer' = k
      /\ backoff' = IF replace THEN backoff \cup {k} ELSE backoff \ {k}
      /\ pc' = [u \in Threads |->
                  IF u = k THEN "armed"
                  ELSE IF u = t THEN done
                  ELSE IF u = flushTimer /\ pc[u] = "armed" THEN "idle" ELSE pc[u]]
  BY DEF Arm
<1> HIDE DEF k
<1>2. pc' \in [Threads -> Pcs]
  BY <1>1 DEF TypeOK, Pcs
<1>3. backoff' \subseteq Timers
  BY <1>1 DEF TypeOK
<1> QED
  BY <1>1, <1>2, <1>3, ThreadFacts

(* The newest of the values of a gauge, where there is only one. *)
LEMMA NewestOfOne ==
  ASSUME NEW S \in SUBSET Nat, \A m, n \in S : m = n, NEW v \in S
  PROVE  Newest(S) = v
<1>1. v \in S /\ \A m \in S : m <= v
  OBVIOUS
<1>2. Newest(S) \in S
  BY <1>1 DEF Newest
<1> QED
  BY <1>2

(* What a flush ends with is no wait, and holds no lock. *)
LEMMA OverIs == \A t : Over(t) \in {"idle", "done"}
BY DEF Over

-----------------------------------------------------------------------------
(* Type correctness *)

(* The initial state is well typed. *)
LEMMA TypeInit == Init => TypeOK
<1> SUFFICES ASSUME Init PROVE TypeOK
  OBVIOUS
<1>1. captured \in 0..MaxSamples /\ failures \in 0..(MaxFailures - 1)
  BY MetricsAssumption DEF Init
<1>2. pc \in [Threads -> Pcs]
  BY DEF Init, Pcs
<1>3. /\ NoSeries \in [Series -> SUBSET Samples]
      /\ [s \in Series |-> 0] \in [Series -> Samples \cup {0}]
  BY DEF NoSeries
<1> QED
  BY <1>1, <1>2, <1>3 DEF Init, TypeOK

(* The merged window is a window. *)
LEMMA MergedType ==
  ASSUME TypeOK, NEW K
  PROVE  Merged(K) \in [Series -> SUBSET Samples]
BY DEF TypeOK, Merged

(* The samples of a window are samples. *)
LEMMA InType ==
  ASSUME NEW w \in [Series -> SUBSET Samples]
  PROVE  In(w) \subseteq Samples
BY Members

(* Every step keeps the types. *)
LEMMA TypeStep == TypeOK /\ GaugeOrder /\ [Next]_vars => TypeOK'
<1> SUFFICES ASSUME TypeOK, GaugeOrder, [Next]_vars PROVE TypeOK'
  OBVIOUS
<1> USE ThreadFacts, OverIs
<1>0. Live \subseteq Samples /\ In(window) \subseteq Samples
  BY InType DEF TypeOK, Live
<1>1. ASSUME NEW s \in Series, Capture(s) PROVE TypeOK'
  <2> DEFINE n == captured + 1
  <2>1. captured' = n /\ n \in Samples /\ captured' \in 0..MaxSamples
    BY <1>1, MetricsAssumption DEF Capture, TypeOK, Samples
  <2>2. CASE series[s] = {} /\ Cardinality(Used(series)) >= MaxSeries
    BY <1>1, <2>1, <2>2 DEF Capture, TypeOK, outcomes, timerVars
  <2>3. CASE ~(series[s] = {} /\ Cardinality(Used(series)) >= MaxSeries)
    <3>1. /\ series' \in [Series -> SUBSET Samples]
          /\ replaced' \in [Series -> SUBSET Samples]
          /\ discarded' = discarded
      <4>1. /\ \/ series' = [series EXCEPT ![s] = {n}]
               \/ series' = [series EXCEPT ![s] = series[s] \cup {n}]
            /\ \/ replaced' = [replaced EXCEPT ![s] = replaced[s] \cup series[s]]
               \/ replaced' = replaced
            /\ discarded' = discarded
        BY <1>1, <2>3 DEF Capture
      <4> HIDE DEF n
      <4> QED
        BY <2>1, <4>1 DEF TypeOK
    <3>2. /\ flushTimer' \in Timers \cup {NoThread} /\ backoff' \subseteq Timers
          /\ pc' \in [Threads -> Pcs]
      <4>1. CASE flushTimer # NoThread
        BY <1>1, <2>3, <4>1 DEF Capture, TypeOK, timerVars
      <4>2. CASE flushTimer = NoThread
        <5>1. Arm(FreeTimer, "armed", FALSE) /\ "armed" \in Pcs
          BY <1>1, <2>3, <4>2 DEF Capture, Pcs
        <5> QED
          BY <5>1, <4>2, ArmStarts
      <4> QED
        BY <4>1, <4>2
    <3> QED
      BY <1>1, <2>1, <3>1, <3>2 DEF Capture, TypeOK
  <2> QED
    BY <2>2, <2>3
<1>2. ASSUME Reset PROVE TypeOK'
  <2>1. series' \in [Series -> SUBSET Samples]
    BY <1>2 DEF Reset, NoSeries
  <2>2. discarded' \subseteq Samples
    BY <1>0, <1>2 DEF Reset, TypeOK
  <2>3. pc' \in [Threads -> Pcs]
    BY <1>2 DEF Reset, TypeOK, Pcs
  <2> QED
    BY <1>2, <2>1, <2>2, <2>3 DEF Reset, TypeOK
<1>3. ASSUME NEW t \in Flushers, Flush(t) PROVE TypeOK'
  BY <1>3 DEF Flush, TypeOK, Pcs, outcomes, timerVars
<1>4. ASSUME NEW t \in Threads, TakeWindow(t) PROVE TypeOK'
  <2>1. series' \in [Series -> SUBSET Samples]
    BY <1>4 DEF TakeWindow, NoSeries
  <2>2. discarded' \subseteq Samples
    BY <1>0, <1>4 DEF TakeWindow, TypeOK
  <2>3. pc' \in [Threads -> Pcs]
    BY <1>4 DEF TakeWindow, TypeOK, Pcs
  <2>4. window' \in [Series -> SUBSET Samples] /\ flushLock' \in Threads \cup {NoThread}
    BY <1>4 DEF TakeWindow, TypeOK
  <2> QED
    BY <1>4, <2>1, <2>2, <2>3, <2>4 DEF TakeWindow, TypeOK, timerVars
<1>5. ASSUME NEW t \in Threads, Send(t) PROVE TypeOK'
  <2>1. ASSUME Received PROVE posted' \in [Series -> Samples \cup {0}]
    <3>1. ASSUME NEW s \in Gauges, window[s] # {} PROVE Newest(window[s]) \in Samples
      <4>1. PICK v \in window[s] : TRUE
        BY <3>1
      <4>2. window[s] \in SUBSET Nat /\ v \in Samples
        BY MetricsAssumption DEF TypeOK, Samples
      <4>3. \A m, n \in window[s] : m = n
        BY DEF GaugeOrder, Ordered
      <4> QED
        BY <4>1, <4>2, <4>3, NewestOfOne
    <3> QED
      BY <2>1, <3>1 DEF Received, TypeOK
  <2>2. posted' \in [Series -> Samples \cup {0}]
    BY <1>5, <2>1 DEF Send, TypeOK
  <2>3. pc' \in [Threads -> Pcs]
    BY <1>5 DEF Send, TypeOK, Pcs
  <2> QED
    BY <1>5, <2>2, <2>3 DEF Send, TypeOK, outcomes, timerVars
<1>6. ASSUME NEW t \in Threads, Sent(t) \/ GiveUp(t) PROVE TypeOK'
  <2>1. window' \in [Series -> SUBSET Samples]
    BY <1>6 DEF Sent, GiveUp, EndFlush, NoSeries
  <2>2. {delivered', discarded'} \subseteq SUBSET Samples
    BY <1>0, <1>6 DEF Sent, GiveUp, TypeOK
  <2>3. pc' \in [Threads -> Pcs]
    BY <1>6 DEF Sent, GiveUp, TypeOK, Pcs
  <2>4. failures' \in 0..(MaxFailures - 1)
    BY <1>6, MetricsAssumption DEF Sent, GiveUp
  <2> QED
    BY <1>6, <2>1, <2>2, <2>3, <2>4 DEF Sent, GiveUp, EndFlush, TypeOK, timerVars
<1>7. ASSUME NEW t \in Threads, MergeBack(t) PROVE TypeOK'
  <2>1. PICK K \in Admitted :
          /\ series' = Merged(K)
          /\ discarded' = discarded \cup UNION {window[s] : s \in Absent \ K}
    BY <1>7 DEF MergeBack
  <2>2. series' \in [Series -> SUBSET Samples]
    BY <2>1, MergedType
  <2>3. discarded' \subseteq Samples
    <3>1. Absent \subseteq Series
      BY DEF Absent, Used
    <3> QED
      BY <2>1, <3>1 DEF TypeOK
  <2>4. window' \in [Series -> SUBSET Samples]
    BY <1>7 DEF MergeBack, EndFlush, NoSeries
  <2>5. failures' \in 0..(MaxFailures - 1)
    BY <1>7, MetricsAssumption DEF MergeBack, LastFailure, TypeOK
  <2>6. replaced' \in [Series -> SUBSET Samples]
    BY <1>7 DEF MergeBack, TypeOK
  <2>7. /\ flushTimer' \in Timers \cup {NoThread} /\ backoff' \subseteq Timers
        /\ pc' \in [Threads -> Pcs]
    <3>1. Arm(t, Over(t), TRUE) /\ Over(t) \in Pcs
      BY <1>7 DEF MergeBack, Pcs
    <3> QED
      BY <3>1, ArmStarts
  <2> QED
    BY <1>7, <2>2, <2>3, <2>4, <2>5, <2>6, <2>7 DEF MergeBack, EndFlush, TypeOK
<1>8. ASSUME NEW k \in Timers, TimerStep(k) PROVE TypeOK'
  <2>1. pc' \in [Threads -> Pcs]
    BY <1>8 DEF TimerStep, Fire, TimerFlush, TypeOK, Pcs
  <2> QED
    BY <1>8, <2>1 DEF TimerStep, Fire, TimerFlush, TypeOK, outcomes, timerVars
<1>9. CASE UNCHANGED vars
  BY <1>9 DEF TypeOK, vars, outcomes, timerVars
<1> QED
  BY <1>1, <1>2, <1>3, <1>4, <1>5, <1>6, <1>7, <1>8, <1>9 DEF Next, FlushStep

-----------------------------------------------------------------------------
(* The locks and the timers *)

(* What a capture does with the timers. *)
LEMMA CaptureArms ==
  ASSUME TypeOK, NEW s \in Series, Capture(s)
  PROVE  \/ UNCHANGED <<flushTimer, pc>> /\ (flushTimer # NoThread \/ series' = series)
         \/ flushTimer = NoThread /\ Arm(FreeTimer, "armed", FALSE)
BY DEF Capture, timerVars

(* No capture, reset or start of a flush, and no timer, touches the lock,  *)
(* the window under way or the threads that post it.                       *)
LEMMA PostsAlone ==
  ASSUME TypeOK,
         \/ \E s \in Series : Capture(s)
         \/ Reset
         \/ \E t \in Flushers : Flush(t)
         \/ \E k \in Timers : TimerStep(k)
  PROVE  /\ UNCHANGED <<flushLock, window>>
         /\ \A u \in Threads : /\ pc[u] \in Posting => pc'[u] = pc[u]
                               /\ pc'[u] \in Posting => pc'[u] = pc[u]
<1> USE ThreadFacts DEF Posting
<1>1. ASSUME NEW s \in Series, Capture(s)
      PROVE  \A u \in Threads : /\ pc[u] \in Posting => pc'[u] = pc[u]
                                /\ pc'[u] \in Posting => pc'[u] = pc[u]
  <2>1. CASE pc' = pc
    BY <2>1
  <2>2. CASE flushTimer = NoThread /\ Arm(FreeTimer, "armed", FALSE)
    <3>1. "armed" \in Pcs
      BY DEF Pcs
    <3>2. FreeTimer = flushTimer'
      BY <2>2 DEF Arm
    <3> QED
      BY <2>2, <3>1, <3>2, ArmStarts
  <2> QED
    BY <1>1, <2>1, <2>2, CaptureArms
<1>2. ASSUME NEW s \in Series, Capture(s) PROVE UNCHANGED <<flushLock, window>>
  BY <1>2 DEF Capture
<1>3. CASE Reset
  BY <1>3 DEF Reset, TypeOK
<1>4. CASE \E t \in Flushers : Flush(t)
  BY <1>4 DEF Flush, TypeOK
<1>5. CASE \E k \in Timers : TimerStep(k)
  BY <1>5 DEF TimerStep, Fire, TimerFlush, TypeOK
<1> QED
  BY <1>1, <1>2, <1>3, <1>4, <1>5

(* What a merge does with the timers and the threads. *)
LEMMA MergeArms ==
  ASSUME TypeOK, NEW t \in Threads, MergeBack(t)
  PROVE  /\ flushTimer' \in Timers \ {t}
         /\ pc[flushTimer'] = "idle" /\ pc'[flushTimer'] = "armed"
         /\ pc'[t] = Over(t)
         /\ \A u \in Threads \ {flushTimer', t} :
              pc'[u] = pc[u] \/ (pc[u] = "armed" /\ pc'[u] = "idle")
<1>1. Arm(t, Over(t), TRUE) /\ pc[t] = "retry"
  BY DEF MergeBack
<1>2. Over(t) \in Pcs
  BY OverIs DEF Pcs
<1> QED
  BY <1>1, <1>2, ArmStarts

(* _flush_lock is held exactly while a window is under way. *)
LEMMA LockStep == TypeOK /\ LockHeld /\ [Next]_vars => LockHeld'
<1> SUFFICES ASSUME TypeOK, LockHeld, [Next]_vars PROVE LockHeld'
  OBVIOUS
<1> USE ThreadFacts, OverIs DEF Posting, LockHeld
<1>1. ASSUME \/ \E s \in Series : Capture(s)
             \/ Reset
             \/ \E t \in Flushers : Flush(t)
             \/ \E k \in Timers : TimerStep(k)
      PROVE  LockHeld'
  <2>1. /\ UNCHANGED <<flushLock, window>>
        /\ \A u \in Threads : /\ pc[u] \in Posting => pc'[u] = pc[u]
                              /\ pc'[u] \in Posting => pc'[u] = pc[u]
    BY <1>1, PostsAlone
  <2>2. \A u \in Threads : pc'[u] \in Posting <=> flushLock' = u
    BY <2>1
  <2>3. flushLock' = NoThread => window' = NoSeries
    BY <2>1
  <2> QED
    BY <2>2, <2>3
<1>2. ASSUME NEW t \in Threads, TakeWindow(t) PROVE LockHeld'
  BY <1>2 DEF TakeWindow, TypeOK
<1>3. ASSUME NEW t \in Threads, Send(t) PROVE LockHeld'
  BY <1>3 DEF Send, TypeOK
<1>4. ASSUME NEW t \in Threads, Sent(t) \/ GiveUp(t) PROVE LockHeld'
  BY <1>4 DEF Sent, GiveUp, EndFlush, TypeOK
<1>5. ASSUME NEW t \in Threads, MergeBack(t) PROVE LockHeld'
  <2>1. flushLock = t /\ flushLock' = NoThread /\ window' = NoSeries
    BY <1>5 DEF MergeBack, EndFlush
  <2>2. \A u \in Threads : pc'[u] \notin Posting
    BY <1>5, <2>1, MergeArms
  <2> QED
    BY <2>1, <2>2
<1>6. CASE UNCHANGED vars
  BY <1>6 DEF vars
<1> QED
  BY <1>1, <1>2, <1>3, <1>4, <1>5, <1>6 DEF Next, FlushStep

(* A timer waits for what is live, or a flush is at the lock. *)
LEMMA WatchedStep == TypeOK /\ LockHeld /\ Watched /\ [Next]_vars => Watched'
<1> SUFFICES ASSUME TypeOK, LockHeld, Watched, [Next]_vars PROVE Watched'
  OBVIOUS
<1> USE ThreadFacts, OverIs DEF Watched
<1>0. flushTimer # NoThread => flushTimer \in Timers
  BY DEF TypeOK
<1>1. ASSUME NEW s \in Series, Capture(s) PROVE Watched'
  <2>1. CASE UNCHANGED <<flushTimer, pc>> /\ (flushTimer # NoThread \/ series' = series)
    BY <2>1 DEF Live
  <2>2. CASE flushTimer = NoThread /\ Arm(FreeTimer, "armed", FALSE)
    BY <2>2, ArmStarts DEF Pcs
  <2> QED
    BY <1>1, <2>1, <2>2, CaptureArms
<1>2. CASE Reset
  BY <1>2, Empty DEF Reset, Live
<1>3. ASSUME NEW t \in Flushers, Flush(t) PROVE Watched'
  BY <1>0, <1>3 DEF Flush, Live, TypeOK, timerVars
<1>4. ASSUME NEW t \in Threads, TakeWindow(t) PROVE Watched'
  <2>1. Live' = {}
    BY <1>4, Empty DEF TakeWindow, Live
  <2> QED
    BY <1>0, <1>4, <2>1 DEF TakeWindow, TypeOK, timerVars
<1>5. ASSUME NEW t \in Threads, Send(t) \/ Sent(t) \/ GiveUp(t) PROVE Watched'
  <2>1. /\ UNCHANGED <<flushTimer, series>>
        /\ pc[t] \in Posting
        /\ \A u \in Threads \ {t} : pc'[u] = pc[u]
    BY <1>5 DEF Send, Sent, GiveUp, TypeOK, timerVars, Posting
  <2> QED
    BY <1>0, <2>1 DEF Live, Posting
<1>6. ASSUME NEW t \in Threads, MergeBack(t) PROVE Watched'
  BY <1>6, MergeArms
<1>7. ASSUME NEW k \in Timers, TimerStep(k) PROVE Watched'
  BY <1>0, <1>7 DEF TimerStep, Fire, TimerFlush, Live, TypeOK, timerVars
<1>8. CASE UNCHANGED vars
  BY <1>8 DEF vars, timerVars, Live
<1> QED
  BY <1>1, <1>2, <1>3, <1>4, <1>5, <1>6, <1>7, <1>8 DEF Next, FlushStep

-----------------------------------------------------------------------------
(* What the steps do with the samples *)

(* A capture drops its sample at the limit, or folds it into its series,   *)
(* where a gauge replaces what it had.                                     *)
LEMMA CaptureFolds ==
  ASSUME TypeOK, NEW s \in Series, Capture(s)
  PROVE  /\ captured' = captured + 1
         /\ UNCHANGED <<window, delivered, posted>>
         /\ \/ /\ Cardinality(Used(series)) >= MaxSeries
               /\ discarded' = discarded \cup {captured'}
               /\ UNCHANGED <<series, replaced>>
            \/ /\ s \in Used(series) \/ ~(Cardinality(Used(series)) >= MaxSeries)
               /\ series' = [series EXCEPT ![s] = (IF s \in Gauges THEN {} ELSE series[s])
                                                     \cup {captured'}]
               /\ replaced' = [replaced EXCEPT ![s] = replaced[s] \cup
                                               IF s \in Gauges THEN series[s] ELSE {}]
               /\ discarded' = discarded
<1>1. captured' = captured + 1 /\ UNCHANGED <<window, delivered, posted>>
  BY DEF Capture
<1>2. CASE series[s] = {} /\ Cardinality(Used(series)) >= MaxSeries
  BY <1>1, <1>2 DEF Capture
<1>3. CASE ~(series[s] = {} /\ Cardinality(Used(series)) >= MaxSeries)
  <2>1. CASE s \in Gauges
    BY <1>1, <1>3, <2>1 DEF Capture, Used, TypeOK
  <2>2. CASE s \notin Gauges
    <3>1. /\ series' = [series EXCEPT ![s] = series[s] \cup {captured'}]
          /\ replaced' = replaced /\ discarded' = discarded
      BY <1>1, <1>3, <2>2 DEF Capture
    <3>2. replaced = [replaced EXCEPT ![s] = replaced[s] \cup {}]
      BY DEF TypeOK
    <3> QED
      BY <1>1, <1>3, <2>2, <3>1, <3>2 DEF Used
  <2> QED
    BY <2>1, <2>2
<1> QED
  BY <1>2, <1>3

(* A merge keeps the live series and adds to them the window's, those that *)
(* are not live as far as the limit lets it.                               *)
LEMMA MergeFolds ==
  ASSUME TypeOK, NEW t \in Threads, MergeBack(t)
  PROVE  /\ UNCHANGED <<captured, delivered, posted>>
         /\ window' = NoSeries
         /\ \E K \in Admitted :
              /\ \A s \in Series :
                   /\ series'[s] = IF s \in Absent
                                     THEN (IF s \in K THEN window[s] ELSE {})
                                   ELSE IF s \in Gauges THEN series[s]
                                   ELSE series[s] \cup window[s]
                   /\ replaced'[s] = replaced[s] \cup
                                     IF s \in Gauges \ Absent THEN window[s] ELSE {}
              /\ discarded' = discarded \cup UNION {window[s] : s \in Absent \ K}
<1>1. /\ UNCHANGED <<captured, delivered, posted>>
      /\ window' = NoSeries
  BY DEF MergeBack, EndFlush
<1>2. PICK K \in Admitted :
        /\ series' = Merged(K)
        /\ discarded' = discarded \cup UNION {window[s] : s \in Absent \ K}
  BY DEF MergeBack
<1>3. \A s \in Series : replaced'[s] = replaced[s] \cup
                            IF s \in Gauges \ Absent THEN window[s] ELSE {}
  BY DEF MergeBack
<1> QED
  BY <1>1, <1>2, <1>3 DEF Merged

(* The next sample is in no place yet.                                     *)
LEMMA Fresh ==
  ASSUME TypeOK, Conservation
  PROVE  LET n == captured + 1 IN
         /\ n \notin Live \cup In(window) \cup delivered \cup discarded \cup In(replaced)
         /\ \A s \in Series : n \notin series[s] \cup window[s] \cup replaced[s]
         /\ \A m : m \in 1..n <=> m \in 1..captured \/ m = n
<1> DEFINE n == captured + 1
<1>1. captured \in Nat
  BY MetricsAssumption DEF TypeOK
<1>2. n \notin 1..captured
  BY <1>1
<1>3. n \notin Live \cup In(window) \cup delivered \cup discarded \cup In(replaced)
  <2> HIDE DEF n
  <2> QED
    BY <1>2, Accounted DEF SampleOnce
<1>4. \A s \in Series : n \notin series[s] \cup window[s] \cup replaced[s]
  <2> HIDE DEF n
  <2> QED
    BY <1>3, Members DEF Live
<1>5. \A m : m \in 1..n <=> m \in 1..captured \/ m = n
  BY <1>1
<1> QED
  BY <1>3, <1>4, <1>5

-----------------------------------------------------------------------------
(* Conservation *)

(* No step puts a sample in two series of a window. *)
LEMMA ApartStep ==
  TypeOK /\ Conservation /\ Apart(series) /\ Apart(window) /\ [Next]_vars
    => Apart(series)' /\ Apart(window)'
<1> SUFFICES ASSUME TypeOK, Conservation, Apart(series), Apart(window), [Next]_vars
             PROVE  Apart(series)' /\ Apart(window)'
  OBVIOUS
<1> USE DEF Apart
<1>1. ASSUME NEW s \in Series, Capture(s) PROVE Apart(series)' /\ Apart(window)'
  <2> DEFINE n == captured + 1
  <2>1. UNCHANGED window /\ \/ series' = series
                            \/ series' = [series EXCEPT ![s] =
                                   (IF s \in Gauges THEN {} ELSE series[s]) \cup {n}]
    BY <1>1, CaptureFolds
  <2>2. \A r \in Series : n \notin series[r]
    BY Fresh
  <2> HIDE DEF n
  <2> QED
    BY <2>1, <2>2 DEF TypeOK
<1>2. CASE Reset
  BY <1>2, Empty DEF Reset
<1>3. ASSUME NEW t \in Threads, TakeWindow(t) PROVE Apart(series)' /\ Apart(window)'
  BY <1>3, Empty DEF TakeWindow
<1>4. ASSUME NEW t \in Threads, Sent(t) \/ GiveUp(t)
      PROVE  Apart(series)' /\ Apart(window)'
  BY <1>4, Empty DEF Sent, GiveUp, EndFlush
<1>5. ASSUME NEW t \in Threads, MergeBack(t) PROVE Apart(series)' /\ Apart(window)'
  <2>1. PICK K \in Admitted :
          \A s \in Series :
            series'[s] = IF s \in Absent THEN (IF s \in K THEN window[s] ELSE {})
                         ELSE IF s \in Gauges THEN series[s]
                         ELSE series[s] \cup window[s]
    BY <1>5, MergeFolds
  <2>2. \A s \in Series : series'[s] \subseteq series[s] \cup window[s]
    BY <2>1
  <2>3. \A s, r \in Series : series[s] \cap window[r] = {}
    BY Accounted, Members DEF Live, SampleOnce
  <2> QED
    BY <1>5, <2>2, <2>3, MergeFolds, Empty
<1>6. CASE UNCHANGED <<series, window>>
  BY <1>6
<1>7. ASSUME \/ \E t \in Flushers : Flush(t)
             \/ \E t \in Threads : Send(t)
             \/ \E k \in Timers : TimerStep(k)
             \/ UNCHANGED vars
      PROVE  UNCHANGED <<series, window>>
  BY <1>7 DEF Flush, Send, TimerStep, Fire, TimerFlush, vars
<1> QED
  BY <1>1, <1>2, <1>3, <1>4, <1>5, <1>6, <1>7 DEF Next, FlushStep

(* Every step keeps the samples in their places, each in one. *)
LEMMA ConservationStep ==
  TypeOK /\ LockHeld /\ Conservation /\ Apart(series) /\ Apart(window) /\ [Next]_vars
    => Conservation'
<1> SUFFICES ASSUME TypeOK, LockHeld, Conservation, Apart(series), Apart(window),
                    [Next]_vars
             PROVE  SampleOnce'
  BY Accounted, PTL
<1>0. SampleOnce
  BY Accounted
<1> DEFINE in(w, n) == \E s \in Series : n \in w[s]
<1>a. /\ \A n : n \in Live <=> in(series, n)
      /\ \A n : n \in In(window) <=> in(window, n)
      /\ \A n : n \in In(replaced) <=> in(replaced, n)
  BY Members DEF Live
<1>b. /\ \A n : n \in Live' <=> in(series', n)
      /\ \A n : n \in In(window)' <=> in(window', n)
      /\ \A n : n \in In(replaced)' <=> in(replaced', n)
  BY Members DEF Live, In
<1>1. ASSUME NEW s \in Series, Capture(s) PROVE SampleOnce'
  <2> DEFINE n == captured + 1
  <2>1. /\ captured' = n
        /\ UNCHANGED <<window, delivered>>
        /\ \/ /\ discarded' = discarded \cup {n}
              /\ UNCHANGED <<series, replaced>>
           \/ /\ series' = [series EXCEPT ![s] = (IF s \in Gauges THEN {} ELSE series[s])
                                                  \cup {n}]
              /\ replaced' = [replaced EXCEPT ![s] = replaced[s] \cup
                                              IF s \in Gauges THEN series[s] ELSE {}]
              /\ discarded' = discarded
    BY <1>1, CaptureFolds
  <2>2. /\ n \notin Live \cup In(window) \cup delivered \cup discarded \cup In(replaced)
        /\ \A m : m \in 1..n <=> m \in 1..captured \/ m = n
    BY Fresh
  <2> HIDE DEF n
  <2>3. CASE UNCHANGED <<series, replaced>> /\ discarded' = discarded \cup {n}
    BY <1>0, <2>1, <2>2, <2>3 DEF SampleOnce, Live, In
  <2>4. CASE /\ series' = [series EXCEPT ![s] = (IF s \in Gauges THEN {} ELSE series[s])
                                                  \cup {n}]
             /\ replaced' = [replaced EXCEPT ![s] = replaced[s] \cup
                                              IF s \in Gauges THEN series[s] ELSE {}]
             /\ discarded' = discarded
    <3>0. captured' = n /\ In(window)' = In(window) /\ UNCHANGED <<delivered, discarded>>
      BY <2>1, <2>4 DEF In
    <3>1. CASE s \in Gauges
      <4>1. /\ \A m : in(series', m) <=> m = n \/ (in(series, m) /\ m \notin series[s])
            /\ \A m : in(replaced', m) <=> in(replaced, m) \/ m \in series[s]
        BY <2>4, <3>1 DEF TypeOK, Apart
      <4>2. \A m \in series[s] : in(series, m)
        OBVIOUS
      <4> HIDE DEF in
      <4>3. /\ \A m : m \in Live' <=> m = n \/ (m \in Live /\ m \notin series[s])
            /\ \A m : m \in In(replaced)' <=> m \in In(replaced) \/ m \in series[s]
            /\ series[s] \subseteq Live
        BY <1>a, <1>b, <4>1, <4>2
      <4> QED
        BY <1>0, <2>2, <3>0, <4>3 DEF SampleOnce
    <3>2. CASE s \notin Gauges
      <4>1. /\ \A m : in(series', m) <=> m = n \/ in(series, m)
            /\ \A m : in(replaced', m) <=> in(replaced, m)
        BY <2>4, <3>2 DEF TypeOK
      <4> HIDE DEF in
      <4>2. /\ \A m : m \in Live' <=> m = n \/ m \in Live
            /\ \A m : m \in In(replaced)' <=> m \in In(replaced)
        BY <1>a, <1>b, <4>1
      <4> QED
        BY <1>0, <2>2, <3>0, <4>2 DEF SampleOnce
    <3> QED
      BY <3>1, <3>2
  <2> QED
    BY <2>1, <2>3, <2>4
<1>2. CASE Reset
  <2>1. /\ UNCHANGED <<captured, window, delivered, replaced>>
        /\ series' = NoSeries /\ discarded' = discarded \cup Live
    BY <1>2 DEF Reset
  <2>2. Live' = {}
    BY <2>1, Empty DEF Live
  <2> QED
    BY <1>0, <2>1, <2>2 DEF SampleOnce
<1>3. ASSUME NEW t \in Threads, TakeWindow(t) PROVE SampleOnce'
  <2>1. /\ UNCHANGED <<captured, delivered, replaced>>
        /\ series' = NoSeries /\ window = NoSeries
        /\ \/ window' = series /\ discarded' = discarded
           \/ window' = window /\ discarded' = discarded \cup Live
    BY <1>3 DEF TakeWindow, LockHeld
  <2>2. Live' = {} /\ In(window) = {} /\ (In(window)' = Live \/ In(window)' = {})
    BY <2>1, Empty DEF Live
  <2> QED
    BY <1>0, <2>1, <2>2, Empty DEF SampleOnce, Live
<1>4. ASSUME NEW t \in Threads, Sent(t) \/ GiveUp(t) PROVE SampleOnce'
  <2>1. /\ UNCHANGED <<captured, series, replaced>>
        /\ window' = NoSeries
        /\ \/ delivered' = delivered \cup In(window) /\ discarded' = discarded
           \/ discarded' = discarded \cup In(window) /\ delivered' = delivered
    BY <1>4 DEF Sent, GiveUp, EndFlush
  <2>2. In(window)' = {}
    BY <2>1, Empty
  <2> QED
    BY <1>0, <2>1, <2>2 DEF SampleOnce, Live
<1>5. ASSUME NEW t \in Threads, MergeBack(t) PROVE SampleOnce'
  <2>1. /\ UNCHANGED <<captured, delivered>>
        /\ window' = NoSeries
    BY <1>5, MergeFolds
  <2>2. PICK K \in Admitted :
          /\ \A s \in Series :
               /\ series'[s] = IF s \in Absent
                                 THEN (IF s \in K THEN window[s] ELSE {})
                               ELSE IF s \in Gauges THEN series[s]
                               ELSE series[s] \cup window[s]
               /\ replaced'[s] = replaced[s] \cup
                                 IF s \in Gauges \ Absent THEN window[s] ELSE {}
          /\ discarded' = discarded \cup UNION {window[s] : s \in Absent \ K}
    BY <1>5, MergeFolds
  <2>3. In(window)' = {}
    BY <2>1, Empty
  <2>4. Absent \subseteq Series /\ \A s \in Absent : series[s] = {}
    BY DEF Absent, Used
  <2> DEFINE back(n) == \E s \in Series : n \in window[s] /\ IF s \in Absent THEN s \in K
                                                             ELSE s \notin Gauges
             lost(n) == \E s \in Absent \ K : n \in window[s]
             old(n)  == \E s \in Gauges \ Absent : n \in window[s]
  <2>5. /\ \A n : in(series', n) <=> in(series, n) \/ back(n)
        /\ \A n : n \in discarded' <=> n \in discarded \/ lost(n)
        /\ \A n : in(replaced', n) <=> in(replaced, n) \/ old(n)
    BY <2>2, <2>4, MetricsAssumption
  <2>6. /\ \A n : in(window, n) <=> back(n) \/ lost(n) \/ old(n)
        /\ \A n : ~(back(n) /\ lost(n)) /\ ~(back(n) /\ old(n)) /\ ~(lost(n) /\ old(n))
    BY <2>4, MetricsAssumption DEF Apart
  <2> HIDE DEF in, back, lost, old
  <2> QED
    BY <1>0, <1>a, <1>b, <2>1, <2>3, <2>5, <2>6 DEF SampleOnce
<1>6. CASE UNCHANGED <<captured, series, window, delivered, discarded, replaced>>
  BY <1>0, <1>6 DEF SampleOnce, Live, In
<1>7. ASSUME \/ \E t \in Flushers : Flush(t)
             \/ \E t \in Threads : Send(t)
             \/ \E k \in Timers : TimerStep(k)
             \/ UNCHANGED vars
      PROVE  UNCHANGED <<captured, series, window, delivered, discarded, replaced>>
  BY <1>7 DEF Flush, Send, TimerStep, Fire, TimerFlush, vars, outcomes
<1> QED
  BY <1>1, <1>2, <1>3, <1>4, <1>5, <1>6, <1>7 DEF Next, FlushStep

-----------------------------------------------------------------------------
(* The limit on the series *)

(* A merge uses the live series and those of K. *)
LEMMA MergeUses ==
  ASSUME TypeOK, NEW t \in Threads, MergeBack(t)
  PROVE  \E K \in Admitted : Used(series)' = Used(series) \cup K
<1>1. PICK K \in Admitted :
        \A s \in Series :
          series'[s] = IF s \in Absent THEN (IF s \in K THEN window[s] ELSE {})
                       ELSE IF s \in Gauges THEN series[s]
                       ELSE series[s] \cup window[s]
  BY MergeFolds
<1>2. K \subseteq Absent
  BY DEF Admitted
<1>3. Absent = {s \in Series : window[s] # {} /\ series[s] = {}}
  BY DEF Absent, Used
<1>4. ASSUME NEW s \in Series PROVE series'[s] # {} <=> series[s] # {} \/ s \in K
  BY <1>1, <1>2, <1>3
<1>5. K \subseteq Series
  BY <1>2, <1>3
<1>6. Used(series)' = {s \in Series : series'[s] # {}}
  BY DEF Used
<1> QED
  BY <1>4, <1>5, <1>6 DEF Used

(* No series beyond the limit is admitted by a capture or by a merge. *)
LEMMA BoundedStep ==
  TypeOK /\ Finite /\ SeriesBounded /\ [Next]_vars => Finite' /\ SeriesBounded'
<1> SUFFICES ASSUME TypeOK, Finite, SeriesBounded, [Next]_vars
             PROVE  Finite' /\ SeriesBounded'
  OBVIOUS
<1> USE DEF Finite, SeriesBounded
<1>0. /\ MaxSeries \in Nat /\ Cardinality(Used(series)) \in Nat
      /\ IsFiniteSet({}) /\ Cardinality({}) = 0
  BY MetricsAssumption, FS_CardinalityType, FS_EmptySet
<1>1. ASSUME NEW s \in Series, Capture(s) PROVE Finite' /\ SeriesBounded'
  <2>1. UNCHANGED window /\
        \/ UNCHANGED series
        \/ /\ s \in Used(series) \/ ~(Cardinality(Used(series)) >= MaxSeries)
           /\ Used(series)' = Used(series) \cup {s}
    BY <1>1, CaptureFolds DEF Used, TypeOK
  <2>2. /\ IsFiniteSet(Used(series) \cup {s})
        /\ Cardinality(Used(series) \cup {s}) =
             IF s \in Used(series) THEN Cardinality(Used(series))
                                   ELSE Cardinality(Used(series)) + 1
    BY FS_AddElement
  <2>3. CASE UNCHANGED series
    BY <2>1, <2>3 DEF Used
  <2>4. CASE /\ s \in Used(series) \/ ~(Cardinality(Used(series)) >= MaxSeries)
             /\ Used(series)' = Used(series) \cup {s}
    <3>1. Used(window)' = Used(window)
      BY <2>1 DEF Used
    <3> QED
      BY <1>0, <2>2, <2>4, <3>1
  <2> QED
    BY <2>1, <2>3, <2>4
<1>2. ASSUME \/ Reset
             \/ \E t \in Threads : TakeWindow(t) \/ Sent(t) \/ GiveUp(t)
      PROVE  Finite' /\ SeriesBounded'
  <2>1. /\ series' = series \/ series' = NoSeries
        /\ window' = window \/ window' = series \/ window' = NoSeries
    BY <1>2 DEF Reset, TakeWindow, Sent, GiveUp, EndFlush
  <2>2. /\ Used(series)' = Used(series) \/ Used(series)' = {}
        /\ Used(window)' = Used(window) \/ Used(window)' = Used(series)
             \/ Used(window)' = {}
    BY <2>1, Empty DEF Used
  <2> QED
    BY <1>0, <2>2
<1>3. ASSUME NEW t \in Threads, MergeBack(t) PROVE Finite' /\ SeriesBounded'
  <2>1. PICK K \in Admitted : Used(series)' = Used(series) \cup K
    BY <1>3, MergeUses
  <2>2. IsFiniteSet(Absent)
    BY FS_Subset DEF Absent
  <2>3. K \subseteq Absent /\ IsFiniteSet(K)
    BY <2>2, FS_Subset DEF Admitted
  <2>4. Cardinality(K) <= MaxSeries - Cardinality(Used(series))
    <3>1. Cardinality(Absent) \in Nat
      BY <2>2, FS_CardinalityType
    <3> QED
      BY <1>0, <3>1 DEF Admitted
  <2>5. Cardinality(K) \in Nat /\ Cardinality(Used(series) \cap K) \in Nat
    BY <2>3, FS_CardinalityType, FS_Subset
  <2>6. /\ IsFiniteSet(Used(series) \cup K)
        /\ Cardinality(Used(series) \cup K) =
             Cardinality(Used(series)) + Cardinality(K) - Cardinality(Used(series) \cap K)
    BY <2>3, FS_Union
  <2>7. Used(window)' = {}
    BY <1>3, MergeFolds, Empty
  <2> QED
    BY <1>0, <2>1, <2>4, <2>5, <2>6, <2>7
<1>4. CASE UNCHANGED <<series, window>>
  BY <1>4 DEF Used
<1>5. ASSUME \/ \E t \in Flushers : Flush(t)
             \/ \E t \in Threads : Send(t)
             \/ \E k \in Timers : TimerStep(k)
             \/ UNCHANGED vars
      PROVE  UNCHANGED <<series, window>>
  BY <1>5 DEF Flush, Send, TimerStep, Fire, TimerFlush, vars
<1> QED
  BY <1>1, <1>2, <1>3, <1>4, <1>5 DEF Next, FlushStep

-----------------------------------------------------------------------------
(* The gauges *)

(* The samples of a series were captured. *)
LEMMA Captured ==
  ASSUME TypeOK, Conservation, NEW s \in Series
  PROVE  /\ captured \in Nat
         /\ \A n \in series[s] \cup window[s] : n \in Nat /\ n <= captured
<1>1. captured \in Nat
  BY MetricsAssumption DEF TypeOK
<1>2. series[s] \cup window[s] \subseteq 1..captured
  BY Accounted, Members DEF SampleOnce, Live
<1> QED
  BY <1>1, <1>2

(* Every step keeps the values of a gauge in the order of their capture. *)
LEMMA GaugeStep ==
  TypeOK /\ Conservation /\ GaugeOrder /\ [Next]_vars => GaugeOrder'
<1> SUFFICES ASSUME TypeOK, Conservation, GaugeOrder, [Next]_vars,
                    NEW s \in Gauges
             PROVE  Ordered(s)'
  BY DEF GaugeOrder
<1> USE DEF Ordered
<1>0. /\ s \in Series /\ captured \in Nat /\ posted[s] \in Nat
      /\ \A n \in series[s] \cup window[s] : n \in Nat /\ n <= captured
      /\ Ordered(s)
  BY MetricsAssumption, Captured DEF GaugeOrder, TypeOK, Samples
<1>1. ASSUME NEW r \in Series, Capture(r) PROVE Ordered(s)'
  <2>1. /\ captured' = captured + 1
        /\ UNCHANGED <<window, posted>>
        /\ series'[s] = series[s] \/ series'[s] = {captured'}
    BY <1>0, <1>1, CaptureFolds DEF TypeOK
  <2> QED
    BY <1>0, <2>1
<1>2. CASE Reset
  <2>1. UNCHANGED <<window, posted, captured>> /\ series'[s] = {}
    BY <1>0, <1>2, Empty DEF Reset
  <2> QED
    BY <1>0, <2>1
<1>3. ASSUME NEW t \in Threads, TakeWindow(t) PROVE Ordered(s)'
  <2>1. /\ UNCHANGED <<posted, captured>>
        /\ series'[s] = {} /\ (window'[s] = series[s] \/ window'[s] = window[s])
    BY <1>0, <1>3, Empty DEF TakeWindow
  <2> QED
    BY <1>0, <2>1
<1>4. ASSUME NEW t \in Threads, Send(t) PROVE Ordered(s)'
  <2>1. UNCHANGED <<captured, series, window>> /\ (Received \/ UNCHANGED posted)
    BY <1>4 DEF Send
  <2>2. posted'[s] = posted[s] \/ posted'[s] \in window[s]
    <3>1. ASSUME NEW v \in window[s] PROVE Newest(window[s]) = v
      BY <1>0, NewestOfOne
    <3> QED
      BY <1>0, <2>1, <3>1 DEF Received
  <2> QED
    BY <1>0, <2>1, <2>2
<1>5. ASSUME NEW t \in Threads, Sent(t) \/ GiveUp(t) PROVE Ordered(s)'
  <2>1. UNCHANGED <<captured, series, posted>> /\ window'[s] = {}
    BY <1>0, <1>5, Empty DEF Sent, GiveUp, EndFlush
  <2> QED
    BY <1>0, <2>1
<1>6. ASSUME NEW t \in Threads, MergeBack(t) PROVE Ordered(s)'
  <2>1. /\ UNCHANGED <<captured, posted>> /\ window'[s] = {}
        /\ series'[s] = series[s] \/ series'[s] = window[s] \/ series'[s] = {}
    BY <1>0, <1>6, MergeFolds, Empty
  <2> QED
    BY <1>0, <2>1
<1>7. ASSUME \/ \E t \in Flushers : Flush(t)
             \/ \E k \in Timers : TimerStep(k)
             \/ UNCHANGED vars
      PROVE  Ordered(s)'
  <2>1. UNCHANGED <<captured, series, window, posted>>
    BY <1>7 DEF Flush, TimerStep, Fire, TimerFlush, vars
  <2> QED
    BY <1>0, <2>1
<1> HIDE DEF Ordered
<1> QED
  BY <1>1, <1>2, <1>3, <1>4, <1>5, <1>6, <1>7 DEF Next, FlushStep

-----------------------------------------------------------------------------
(* The theorems *)

(* The initial state satisfies the inductive invariant. *)
LEMMA InvInit == Init => IInv
<1> SUFFICES ASSUME Init PROVE IInv
  OBVIOUS
<1>1. TypeOK
  BY TypeInit
<1>2. /\ Live = {} /\ In(window) = {} /\ In(replaced) = {}
      /\ Used(series) = {} /\ Used(window) = {}
      /\ \A s \in Series : series[s] = {} /\ window[s] = {}
  BY Empty DEF Init, Live
<1>3. LockHeld /\ Watched
  BY <1>2, ThreadFacts DEF Init, LockHeld, Watched, Posting
<1>4. Apart(series) /\ Apart(window)
  BY <1>2 DEF Apart
<1>5. Conservation
  <2>1. captured = 0 /\ delivered = {} /\ discarded = {}
    BY DEF Init
  <2> QED
    BY <1>2, <2>1, Accounted DEF SampleOnce
<1>6. Finite /\ SeriesBounded
  BY <1>2, FS_EmptySet, MetricsAssumption DEF Finite, SeriesBounded
<1>7. GaugeOrder
  BY <1>2, MetricsAssumption DEF Init, GaugeOrder, Ordered
<1> QED
  BY <1>1, <1>3, <1>4, <1>5, <1>6, <1>7 DEF IInv

(* Every reachable state satisfies the inductive invariant. *)
THEOREM Invariance == Spec => []IInv
<1>1. IInv /\ [Next]_vars => IInv'
  BY TypeStep, LockStep, WatchedStep, ApartStep, ConservationStep, BoundedStep, GaugeStep
     DEF IInv
<1> QED
  BY InvInit, <1>1, PTL DEF Spec

(* Every reachable state is well typed: in particular the failures in a    *)
(* row stay below the limit at which a window is dropped.                  *)
THEOREM TypeCorrect == Spec => []TypeOK
BY Invariance, PTL DEF IInv

(* Whatever captures, flushes, failures, merges, resets and stale timers   *)
(* meet, each captured sample is in one place: _series, the window of the  *)
(* flush under way, delivered, discarded, or replaced in its gauge.        *)
THEOREM SamplesConserved == Spec => []Conservation
BY Invariance, PTL DEF IInv

(* What is live in _series always has a timer that has yet to look at it,  *)
(* or a flush about to take it.                                            *)
THEOREM NothingIsStranded == Spec => []NothingStranded
<1>1. IInv => NothingStranded
  BY DEF IInv, Watched, NothingStranded
<1> QED
  BY Invariance, <1>1, PTL

(* In a capture and in a merge alike, a gauge's value gives way only to a  *)
(* newer one.                                                              *)
THEOREM GaugesMoveForward == Spec => ReplacedByNewer
<1> DEFINE Newer == \A s \in Gauges : \A m \in replaced'[s] \ replaced[s] :
                      \E n \in series'[s] : m < n
<1>1. ASSUME IInv, [Next]_vars, NEW s \in Gauges, NEW m \in replaced'[s] \ replaced[s]
      PROVE  \E n \in series'[s] : m < n
  <2>1. /\ TypeOK /\ Conservation /\ Ordered(s) /\ s \in Series
        /\ captured \in Nat
        /\ \A n \in series[s] : n \in Nat /\ n <= captured
    BY <1>1, Captured, MetricsAssumption DEF IInv, GaugeOrder
  <2>2. ASSUME NEW r \in Series, Capture(r) PROVE \E n \in series'[s] : m < n
    <3>1. r = s /\ m \in series[s] /\ series'[s] = {captured'} /\ captured' = captured + 1
      BY <1>1, <2>1, <2>2, CaptureFolds DEF TypeOK
    <3> QED
      BY <2>1, <3>1
  <2>3. ASSUME NEW t \in Threads, MergeBack(t) PROVE \E n \in series'[s] : m < n
    <3>1. s \notin Absent /\ m \in window[s] /\ series'[s] = series[s]
      BY <1>1, <2>1, <2>3, MergeFolds
    <3>2. PICK n \in series[s] : TRUE
      BY <2>1, <3>1 DEF Absent, Used
    <3> QED
      BY <2>1, <3>1, <3>2 DEF Ordered
  <2>4. ASSUME \/ Reset
               \/ \E t \in Flushers : Flush(t)
               \/ \E t \in Threads : TakeWindow(t) \/ Send(t) \/ Sent(t) \/ GiveUp(t)
               \/ \E k \in Timers : TimerStep(k)
               \/ UNCHANGED vars
        PROVE  replaced' = replaced
    BY <2>4 DEF Reset, Flush, TakeWindow, Send, Sent, GiveUp, TimerStep, Fire, TimerFlush,
                vars, outcomes
  <2> QED
    BY <1>1, <2>2, <2>3, <2>4 DEF Next, FlushStep
<1>2. IInv /\ [Next]_vars => [Newer]_vars
  BY <1>1
<1> QED
  BY Invariance, <1>2, PTL DEF Spec, ReplacedByNewer

(* max_series_per_flush bounds the live window through every merge of a    *)
(* failed one; the live value of a gauge is newer than the one under way   *)
(* and not older than the last one received; and what replaces it is newer.*)
THEOREM SeriesAreKept == Spec => SeriesKept
<1>1. IInv => SeriesBounded /\ GaugeNewest
  BY DEF IInv, GaugeNewest, GaugeOrder, Ordered
<1> QED
  BY Invariance, GaugesMoveForward, <1>1, PTL DEF SeriesKept
=============================================================================
