------------------------------- MODULE Metrics -------------------------------
(***************************************************************************)
(* The pre-aggregating metrics client (metrics_capture.py).  Samples fold  *)
(* into the series of a window; an explicit flush or the flush timer takes *)
(* the window and posts it without the lock, while captures fill the next  *)
(* one; a window that could not be posted is merged back and retried by a  *)
(* timer with a longer delay.                                              *)
(*                                                                         *)
(* A sample is a number, in the order of the captures, and a series is the *)
(* set of the samples folded into it: a counter and a histogram add them   *)
(* up, a gauge keeps the last one.  A step is one critical section of      *)
(* _lock, or the post.                                                     *)
(***************************************************************************)
EXTENDS Naturals, FiniteSets

CONSTANTS
  Series,       \* what _series_key tells apart
  Gauges,       \* those of type gauge
  MaxSamples,   \* bound on the samples captured
  MaxSeries,    \* max_series_per_flush
  MaxFailures,  \* _MAX_CONSECUTIVE_SEND_FAILURES
  Flushers,     \* threads that call flush(), once each
  Timers,       \* bound on the threading.Timers alive at a time
  NoThread

ASSUME MetricsAssumption ==
  /\ Gauges \subseteq Series
  /\ MaxSamples \in Nat
  /\ MaxSeries \in Nat \ {0}
  /\ MaxFailures \in Nat \ {0}
  /\ Flushers \cap Timers = {}
  /\ NoThread \notin Flushers \cup Timers

Samples == 1..MaxSamples
Threads == Flushers \cup Timers

VARIABLES
  sends,        \* the client's `send` option
  captured,     \* samples captured so far
  series,       \* _series
  window,       \* the window a flush has taken
  flushTimer,   \* _flush_timer
  backoff,      \* the timers armed after a failed flush
  failures,     \* _consecutive_send_failures
  flushLock,    \* who holds _flush_lock
  pc,           \* where each flusher and each timer is
  delivered,    \* samples in windows whose post succeeded
  discarded,    \* samples given up, with a warning or by reset or send=False
  replaced,     \* per gauge, the samples a newer one has replaced
  posted        \* the last gauge sample of each series the server received

outcomes == <<delivered, discarded, replaced>>
timerVars == <<flushTimer, backoff>>
vars == <<sends, captured, series, window, timerVars, failures, flushLock, pc, outcomes,
          posted>>

\* A timer is idle until it is armed, and again after it is cancelled.
Pcs == {"idle", "done", "armed", "fired", "lock", "send", "ok", "retry", "gone"}

TypeOK ==
  /\ sends \in BOOLEAN
  /\ captured \in 0..MaxSamples
  /\ series \in [Series -> SUBSET Samples]
  /\ window \in [Series -> SUBSET Samples]
  /\ flushTimer \in Timers \cup {NoThread}
  /\ backoff \subseteq Timers
  /\ failures \in 0..(MaxFailures - 1)
  /\ flushLock \in Threads \cup {NoThread}
  /\ pc \in [Threads -> Pcs]
  /\ {delivered, discarded} \subseteq SUBSET Samples
  /\ replaced \in [Series -> SUBSET Samples]
  /\ posted \in [Series -> Samples \cup {0}]

NoSeries == [s \in Series |-> {}]

Init ==
  /\ sends \in BOOLEAN
  /\ captured = 0
  /\ series = NoSeries
  /\ window = NoSeries
  /\ flushTimer = NoThread
  /\ backoff = {}
  /\ failures = 0
  /\ flushLock = NoThread
  /\ pc = [t \in Threads |-> "idle"]
  /\ delivered = {} /\ discarded = {} /\ replaced = NoSeries
  /\ posted = [s \in Series |-> 0]

Used(w) == {s \in Series : w[s] # {}}
In(w) == UNION {w[s] : s \in Series}
Live == In(series)

-----------------------------------------------------------------------------
(* Timers *)

FreeTimer == CHOOSE k \in Timers : pc[k] = "idle"

\* _arm_flush_timer by t, which goes on at `done`.  A timer that has fired can
\* no longer be cancelled.
Arm(t, done, replace) ==
  IF flushTimer # NoThread /\ ~replace
    THEN pc' = [pc EXCEPT ![t] = done] /\ UNCHANGED timerVars
    ELSE LET k == FreeTimer IN
           /\ k \in Timers /\ pc[k] = "idle"      \* the bound on Timers
           /\ flushTimer' = k
           /\ backoff' = IF replace THEN backoff \cup {k} ELSE backoff \ {k}
           /\ pc' = [u \in Threads |->
                       IF u = k THEN "armed"
                       ELSE IF u = t THEN done
                       ELSE IF u = flushTimer /\ pc[u] = "armed" THEN "idle" ELSE pc[u]]

\* The interval is over: the timer's thread is past its last look at `finished`.
Fire(k) ==
  /\ pc[k] = "armed"
  /\ pc' = [pc EXCEPT ![k] = "fired"]
  /\ UNCHANGED <<sends, captured, series, window, timerVars, failures, flushLock,
                 outcomes, posted>>

\* _timer_flush
TimerFlush(k) ==
  /\ pc[k] = "fired"
  /\ IF flushTimer = k
       THEN flushTimer' = NoThread /\ pc' = [pc EXCEPT ![k] = "lock"]
       ELSE pc' = [pc EXCEPT ![k] = "idle"] /\ UNCHANGED flushTimer
  /\ UNCHANGED <<sends, captured, series, window, backoff, failures, flushLock, outcomes,
                 posted>>

-----------------------------------------------------------------------------
(* Captures *)

\* A sample of s is admitted unless it needs a series beyond the limit.
Capture(s) ==
  /\ captured < MaxSamples
  /\ LET n == captured + 1 IN
       /\ captured' = n
       /\ IF series[s] = {} /\ Cardinality(Used(series)) >= MaxSeries
            THEN /\ discarded' = discarded \cup {n}
                 /\ UNCHANGED <<series, replaced, timerVars, pc>>
            ELSE /\ IF s \in Gauges
                      THEN /\ series' = [series EXCEPT ![s] = {n}]
                           /\ replaced' = [replaced EXCEPT ![s] = @ \cup series[s]]
                      ELSE /\ series' = [series EXCEPT ![s] = @ \cup {n}]
                           /\ UNCHANGED replaced
                 /\ IF flushTimer # NoThread
                      THEN UNCHANGED <<timerVars, pc>>
                      ELSE Arm(FreeTimer, "armed", FALSE)
                 /\ UNCHANGED discarded
  /\ UNCHANGED <<sends, window, failures, flushLock, delivered, posted>>

\* reset: forget the timer and the window.
Reset ==
  /\ series' = NoSeries
  /\ discarded' = discarded \cup Live
  /\ flushTimer' = NoThread
  /\ pc' = [u \in Threads |-> IF u = flushTimer /\ pc[u] = "armed" THEN "idle" ELSE pc[u]]
  /\ UNCHANGED <<sends, captured, window, backoff, failures, flushLock, delivered,
                 replaced, posted>>

-----------------------------------------------------------------------------
(* flush *)

Flush(t) ==
  /\ t \in Flushers /\ pc[t] = "idle"
  /\ pc' = [pc EXCEPT ![t] = "lock"]
  /\ UNCHANGED <<sends, captured, series, window, timerVars, failures, flushLock,
                 outcomes, posted>>

\* A timer's thread is gone after its flush.
Over(t) == IF t \in Timers THEN "idle" ELSE "done"

\* Take the window, under both locks; without `send` it ends here.
TakeWindow(t) ==
  /\ pc[t] = "lock" /\ flushLock = NoThread
  /\ series' = NoSeries
  /\ IF Live # {} /\ sends
       THEN /\ window' = series
            /\ flushLock' = t
            /\ pc' = [pc EXCEPT ![t] = "send"]
            /\ UNCHANGED discarded
       ELSE /\ pc' = [pc EXCEPT ![t] = Over(t)]
            /\ discarded' = discarded \cup Live
            /\ UNCHANGED <<window, flushLock>>
  /\ UNCHANGED <<sends, captured, timerVars, failures, delivered, replaced, posted>>

Newest(S) == CHOOSE n \in S : \A m \in S : m <= n

\* What the server keeps of the gauges in the window.
Received ==
  posted' = [s \in Series |-> IF s \in Gauges /\ window[s] # {} THEN Newest(window[s])
                              ELSE posted[s]]

\* _send: a post that fails for the client may have been received all the same.
Send(t) ==
  /\ pc[t] = "send"
  /\ \/ pc' = [pc EXCEPT ![t] = "ok"] /\ Received
     \/ pc' = [pc EXCEPT ![t] = "retry"] /\ (Received \/ UNCHANGED posted)
     \/ pc' = [pc EXCEPT ![t] = "gone"] /\ UNCHANGED posted
  /\ UNCHANGED <<sends, captured, series, window, timerVars, failures, flushLock,
                 outcomes>>

\* The window is done with, and the flush returns.
EndFlush(t) ==
  /\ window' = NoSeries
  /\ flushLock' = NoThread

Sent(t) ==
  /\ pc[t] \in {"ok", "gone"}
  /\ EndFlush(t)
  /\ failures' = 0
  /\ IF pc[t] = "ok"
       THEN delivered' = delivered \cup In(window) /\ UNCHANGED discarded
       ELSE discarded' = discarded \cup In(window) /\ UNCHANGED delivered
  /\ pc' = [pc EXCEPT ![t] = Over(t)]
  /\ UNCHANGED <<sends, captured, series, timerVars, replaced, posted>>

LastFailure == failures + 1 >= MaxFailures

\* Too many failures in a row: drop the window.
GiveUp(t) ==
  /\ pc[t] = "retry" /\ LastFailure
  /\ EndFlush(t)
  /\ failures' = 0
  /\ discarded' = discarded \cup In(window)
  /\ pc' = [pc EXCEPT ![t] = Over(t)]
  /\ UNCHANGED <<sends, captured, series, timerVars, delivered, replaced, posted>>

\* The series of the window that are not live any more ...
Absent == Used(window) \ Used(series)

\* ... and those of them the limit leaves room for.
Admitted ==
  {K \in SUBSET Absent :
     Cardinality(K) = LET room == MaxSeries - Cardinality(Used(series)) IN
                      IF room < Cardinality(Absent) THEN room ELSE Cardinality(Absent)}

\* Mutant: a live series is not merged.
MergedAbsent(K) ==
  [s \in Series |-> IF s \in K THEN window[s] ELSE series[s]]

\* _merge_window_back: counters and histograms add up, the live gauge is newer.
Merged(K) ==
  [s \in Series |-> IF s \in Absent THEN (IF s \in K THEN window[s] ELSE {})
                    ELSE IF s \in Gauges THEN series[s]
                    ELSE series[s] \cup window[s]]

\* Mutant: the old value of a gauge wins.
MergeBackOlder(t) ==
  /\ pc[t] = "retry" /\ ~LastFailure
  /\ failures' = failures + 1
  /\ LET both == Gauges \cap Used(window) \cap Used(series) IN
       /\ \E K \in Admitted :
            /\ series' = [s \in Series |-> IF s \in both THEN window[s] ELSE Merged(K)[s]]
            /\ discarded' = discarded \cup UNION {window[s] : s \in Absent \ K}
       /\ replaced' = [s \in Series |-> replaced[s] \cup IF s \in both THEN series[s] ELSE {}]
  /\ Arm(t, Over(t), TRUE)
  /\ EndFlush(t)
  /\ UNCHANGED <<sends, captured, delivered, posted>>

\* Mutant: no timer is armed for the retry.
MergeBackUnarmed(t) ==
  /\ pc[t] = "retry" /\ ~LastFailure
  /\ failures' = failures + 1
  /\ \E K \in Admitted :
       /\ series' = Merged(K)
       /\ discarded' = discarded \cup UNION {window[s] : s \in Absent \ K}
  /\ replaced' = [s \in Series |-> replaced[s] \cup IF s \in Gauges \ Absent THEN window[s]
                                                   ELSE {}]
  /\ pc' = [pc EXCEPT ![t] = Over(t)]
  /\ EndFlush(t)
  /\ UNCHANGED <<sends, captured, timerVars, delivered, posted>>

MergeBack(t) ==
  /\ pc[t] = "retry" /\ ~LastFailure
  /\ failures' = failures + 1
  /\ \E K \in Admitted :
       /\ series' = Merged(K)
       /\ discarded' = discarded \cup UNION {window[s] : s \in Absent \ K}
  /\ replaced' = [s \in Series |-> replaced[s] \cup IF s \in Gauges \ Absent THEN window[s]
                                                   ELSE {}]
  /\ Arm(t, Over(t), TRUE)
  /\ EndFlush(t)
  /\ UNCHANGED <<sends, captured, delivered, posted>>

FlushStep(t) == TakeWindow(t) \/ Send(t) \/ Sent(t) \/ GiveUp(t) \/ MergeBack(t)
TimerStep(k) == Fire(k) \/ TimerFlush(k)

Next ==
  \/ \E s \in Series : Capture(s)
  \/ Reset
  \/ \E t \in Flushers : Flush(t)
  \/ \E t \in Threads : FlushStep(t)
  \/ \E k \in Timers : TimerStep(k)

Spec == Init /\ [][Next]_vars

\* Posts end, a free lock is taken by one of those who wait for it, armed timers
\* fire.  Nobody has to capture, to flush or to reset.
Fairness ==
  /\ WF_vars(\E t \in Threads : FlushStep(t))
  /\ \A k \in Timers : WF_vars(TimerStep(k))

FairSpec == Spec /\ Fairness

-----------------------------------------------------------------------------
(* Properties *)

(* Every sample is accounted for exactly once: it is live, in the window   *)
(* under way, delivered, given up, or replaced by a newer value of its     *)
(* gauge.  No failed flush loses or doubles samples in the client.         *)
Conservation ==
  LET places == <<Live, In(window), delivered, discarded, In(replaced)>> IN
  /\ UNION {places[i] : i \in 1..5} = 1..captured
  /\ \A i, j \in 1..5 : i # j => places[i] \cap places[j] = {}

(* Samples never wait for a flush that nobody will make: a timer is armed  *)
(* or on its way to the window, whatever flushes, failures and stale       *)
(* timers have met.                                                        *)
NothingStranded ==
  Live # {} =>
    \/ flushTimer # NoThread /\ pc[flushTimer] \in {"armed", "fired"}
    \/ \E t \in Threads : pc[t] = "lock"

(* "The cap applies through merge-back too": an outage with changing       *)
(* attributes never grows the live window beyond its limit.                *)
SeriesBounded == Cardinality(Used(series)) <= MaxSeries

(* The live value of a gauge is newer than the one under way, and not      *)
(* older than the last one the server received: no retry sends a gauge     *)
(* back.                                                                   *)
GaugeNewest ==
  \A s \in Gauges : \A n \in series[s] :
    /\ \A m \in window[s] : m < n
    /\ posted[s] <= n

(* "The live window's value is newer - keep it": a value of a gauge gives  *)
(* way only to a newer one, whichever of the two the merge of a window     *)
(* that failed finds live.  (What reset() drops gives way to nothing.)     *)
ReplacedByNewer ==
  [][\A s \in Gauges : \A m \in replaced'[s] \ replaced[s] :
       \E n \in series'[s] : m < n]_vars

(* What waits for a post is bounded and a gauge of it is the newest, and   *)
(* no merge of a window that failed puts an old value over a new one.      *)
SeriesKept == [](SeriesBounded /\ GaugeNewest) /\ ReplacedByNewer

(* "A persistently unreachable endpoint must not buffer forever": every    *)
(* sample leaves the client, delivered or given up, even if no post ever   *)
(* succeeds and nobody captures or flushes any more.                       *)
Gone(n) == n \in delivered \cup discarded \cup In(replaced)
Settles == \A n \in Samples : n <= captured ~> Gone(n)

(* "If a newer timer replaced this one meanwhile (failed explicit flush    *)
(* arming the backoff timer), the stale body must not ... flush again": no *)
(* timer posts a window that waits for the backoff of another.             *)
BackoffKept ==
  [][\A k \in Timers : pc[k] = "lock" /\ pc'[k] = "send"
       => ~(flushTimer \in backoff \ {k} /\ pc[flushTimer] = "armed")]_vars
=============================================================================
