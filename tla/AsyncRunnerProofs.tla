-------------------------- MODULE AsyncRunnerProofs --------------------------
(***************************************************************************)
(* Proofs about the background event loop (AsyncRunner), for any number of *)
(* callers, which may run an awaitable or close, and of loops that are     *)
(* started one after the other: that it is well typed, that run() leaves   *)
(* no awaitable behind and always finds a startup or a running loop, that  *)
(* the threads awaitables run on are known to be the runner's, that        *)
(* close() waits, and that what has ended is forgotten.  The thread, the   *)
(* loop and the startup are three attributes that close(), the next start  *)
(* and the ending thread each change in part; IInv says how they go        *)
(* together:                                                               *)
(*   InOrder    threads are started in order, so that the next is unused   *)
(*   Current    _thread, _loop and _startup are of one thread, and a loop  *)
(*              that may be scheduled on runs and was not told to stop     *)
(*   Others     any other thread that runs a loop is closing               *)
(*   Queued     an awaitable in a queue waits there once, for its caller   *)
(*   Awaited    what has become of an awaitable follows its caller's place *)
(*   CallState  the loop a call goes on with was started, and one that     *)
(*              close() is to stop is the current one no more              *)
(***************************************************************************)
EXTENDS AsyncRunner, SequenceTheorems, FiniteSetTheorems, TLAPS

Open == {"running", "stopped", "cancelling", "closed"}

InOrder == \E k \in {0} \cup Loops : {l \in Loops : life[l] # "unused"} = 1..k

Current ==
  /\ thread # None => life[thread] \in {"starting"} \cup Open /\ startup = thread
  /\ thread # None /\ loop = None => life[thread] = "starting"
  /\ loop # None => thread = loop /\ life[loop] \in Open
  /\ loop # None /\ ~closeRequested =>
       life[loop] = "running" /\ \A i \in DOMAIN ready[loop] : ready[loop][i] # None

Others ==
  \A g \in Loops :
    /\ life[g] = "starting" => thread = g
    /\ life[g] \in {"running", "stopped", "cancelling"} /\ g # thread => g \in closing
    /\ g \in closing => life[g] \in Open /\ g # thread
    /\ life[g] \in {"unused", "starting"} => ready[g] = <<>>

Queued ==
  \A g \in Loops : \A i \in DOMAIN ready[g] : ready[g][i] # None =>
    /\ pc[ready[g][i]] = "future" /\ on[ready[g][i]] = g /\ awaitable[ready[g][i]] = "new"
    /\ \A j \in DOMAIN ready[g] : ready[g][i] = ready[g][j] => i = j

Awaited ==
  \A t \in Callers :
    /\ pc[t] \in {"idle", "stop", "ask", "join"} => awaitable[t] = "none"
    /\ pc[t] \in {"ensure", "wait", "schedule"} => awaitable[t] = "new"
    /\ pc[t] = "over" /\ awaitable[t] # "none" =>
         /\ awaitable[t] \in {"done", "closed"}
         /\ outcome[t] \in {"value", "raised"} => awaitable[t] = "done"
    /\ awaitable[t] \in {"task", "going"} =>
         /\ pc[t] = "future" /\ on[t] # None
         /\ life[on[t]] \in {"running", "stopped", "cancelling"}

CallState ==
  \A a \in Actors :
    /\ pc[a] = "idle" => on[a] = None
    /\ pc[a] \in {"wait", "schedule", "future", "stop", "ask", "join"} =>
         on[a] # None /\ life[on[a]] # "unused"
    /\ pc[a] \in {"stop", "ask"} => on[a] # loop /\ life[on[a]] # "starting"
    /\ pc[a] = "over" /\ outcome[a] = "returned" => on[a] \in {None, a} \/ Closed(on[a])
    /\ pc[a] \in {"ensure", "wait", "schedule", "future"} => a \in Callers

IInv == TypeOK /\ InOrder /\ Current /\ Others /\ Queued /\ Awaited /\ CallState

-----------------------------------------------------------------------------
(* Facts about the constants, the queue of callbacks and the numbers       *)

(* A caller is no background thread, and None is neither.                  *)
LEMMA Distinct ==
  ASSUME Numbered
  PROVE  /\ None \notin Loops /\ None \notin Callers /\ Callers \cap Loops = {}
         /\ Callers \subseteq Actors /\ Loops \subseteq Actors /\ Actors = Callers \cup Loops
BY DEF Numbered, Actors

(* A callback added at the end of the queue.                               *)
LEMMA Pushed ==
  ASSUME NEW S, NEW s \in Seq(S), NEW x \in S
  PROVE  /\ Append(s, x) \in Seq(S)
         /\ DOMAIN Append(s, x) = DOMAIN s \cup {Len(s) + 1}
         /\ \A i \in DOMAIN s : Append(s, x)[i] = s[i]
         /\ Append(s, x)[Len(s) + 1] = x /\ Len(s) + 1 \notin DOMAIN s
OBVIOUS

(* A callback taken from its head.                                         *)
LEMMA Popped ==
  ASSUME NEW S, NEW s \in Seq(S), s # <<>>
  PROVE  /\ Tail(s) \in Seq(S)
         /\ Head(s) = s[1] /\ s[1] \in S /\ 1 \in DOMAIN s
         /\ \A i \in DOMAIN Tail(s) :
              Tail(s)[i] = s[i + 1] /\ i + 1 \in DOMAIN s /\ i + 1 # 1 /\ i \in Nat
OBVIOUS

(* What it is to start thread g.                                           *)
Starts(t, g) ==
  /\ life[g] = "unused" /\ ~Alive(thread)
  /\ life' = [life EXCEPT ![g] = "starting"]
  /\ thread' = g /\ startup' = g /\ closeRequested' = FALSE
  /\ on' = [on EXCEPT ![t] = g] /\ pc' = [pc EXCEPT ![t] = "wait"]
  /\ {l \in Loops : life'[l] # "unused"} = 1..g
  /\ UNCHANGED <<loop, closing, error, done, ready>>

(* The thread that is started is the next one, which was never used.       *)
LEMMA NextIsUnused ==
  ASSUME Numbered, TypeOK, InOrder, NEW t, StartThread(t)
  PROVE  \E g \in Loops : Starts(t, g)
<1> DEFINE started == {l \in Loops : life[l] # "unused"}
           g == Cardinality(started) + 1
<1>1. PICK n \in Nat : Loops = 1..n
  BY FS_CardinalityType DEF Numbered
<1>2. PICK k \in {0} \cup Loops : started = 1..k
  BY DEF InOrder
<1>3. k \in Nat
  BY <1>1, <1>2
<1>4. Cardinality(1..k) = k
  BY <1>3, FS_Interval
<1>5. /\ g \in Loops /\ life' = [life EXCEPT ![g] = "starting"] /\ thread' = g /\ startup' = g
      /\ closeRequested' = FALSE /\ on' = [on EXCEPT ![t] = g]
      /\ pc' = [pc EXCEPT ![t] = "wait"]
      /\ ~Alive(thread) /\ UNCHANGED <<loop, closing, error, done, ready>>
  BY DEF StartThread, Goto
<1>6. g = k + 1
  BY <1>2, <1>4
<1> HIDE DEF g
<1>7. g \notin 1..k
  BY <1>3, <1>6
<1>8. \A l \in Loops : l \in started <=> life[l] # "unused"
  OBVIOUS
<1> HIDE DEF started
<1>9. life[g] = "unused"
  BY <1>2, <1>5, <1>7, <1>8
<1>10. \A l \in Loops : life'[l] # "unused" <=> l \in 1..k \/ l = g
  BY <1>2, <1>5, <1>8 DEF TypeOK
<1>11. \A l : l \in 1..g <=> l \in 1..k \/ l = g
  BY <1>3, <1>6
<1>12. 1..g \subseteq Loops
  BY <1>1, <1>3, <1>5, <1>6
<1>13. {l \in Loops : life'[l] # "unused"} = 1..g
  BY <1>10, <1>11, <1>12
<1> QED
  BY <1>5, <1>9, <1>13 DEF Starts

(* A step keeps every variable in its type.                                *)
LEMMA TypeOKStep ==
  ASSUME Numbered, IInv, Next
  PROVE  TypeOK'
<1>0. TypeOK /\ InOrder /\ CallState
  BY DEF IInv
<1> USE <1>0, Distinct DEF runnerVars, loopVars, callVars, Goto, EndCall, TypeOK, Lives,
                           Awaitables, Pcs, Outcomes
<1>1. ASSUME NEW t \in Callers, CallRun(t) PROVE TypeOK'
  BY <1>1 DEF CallRun
<1>2. ASSUME NEW t \in Callers, pc[t] = "ensure", UseLoop(t),
               UNCHANGED <<awaitable, outcome>>
        PROVE  TypeOK'
  BY <1>2 DEF UseLoop
<1>3. ASSUME NEW t \in Callers, pc[t] = "ensure", StartThread(t),
               UNCHANGED <<awaitable, outcome>>
        PROVE  TypeOK'
  <2>1. PICK g \in Loops : Starts(t, g)
    BY <1>3, NextIsUnused
  <2> QED
    BY <1>3, <2>1 DEF Starts
<1>4. ASSUME NEW t \in Callers, pc[t] = "ensure", JoinStartup(t),
               UNCHANGED <<awaitable, outcome>>
        PROVE  TypeOK'
  BY <1>4 DEF JoinStartup
<1>5. ASSUME NEW t \in Callers, StartupDone(t) PROVE TypeOK'
  <2>1. CASE error[on[t]] = "none"
    <3>1. /\ pc' = [pc EXCEPT ![t] = "schedule"] /\ UNCHANGED <<awaitable, outcome>>
          /\ UNCHANGED <<runnerVars, loopVars, on>>
      BY <1>5, <2>1 DEF StartupDone
    <3> QED
      BY <3>1
  <2>2. CASE error[on[t]] # "none"
    <3>1. /\ pc' = [pc EXCEPT ![t] = "over"] /\ outcome' = [outcome EXCEPT ![t] = "refused"]
          /\ awaitable' = [awaitable EXCEPT ![t] = "closed"]
          /\ UNCHANGED <<runnerVars, loopVars, on>>
      BY <1>5, <2>2 DEF StartupDone
    <3> QED
      BY <3>1
  <2> QED
    BY <2>1, <2>2
<1>6. ASSUME NEW t \in Callers, Schedule(t) PROVE TypeOK'
  <2>1. on[t] \in Loops /\ pc' \in [Actors -> Pcs]
    BY <1>6 DEF Schedule, CallState
  <2>2. Append(ready[on[t]], t) \in Seq(Callers \cup {None})
    BY <2>1, Pushed
  <2>3. CASE on[t] = loop /\ ~closeRequested
    <3>1. ready' = [ready EXCEPT ![on[t]] = Append(ready[on[t]], t)]
      BY <1>6, <2>3 DEF Schedule
    <3>2. ready' \in [Loops -> Seq(Callers \cup {None})]
      BY <2>1, <2>2, <3>1
    <3> QED
      BY <1>6, <2>1, <3>2 DEF Schedule
  <2>4. CASE ~(on[t] = loop /\ ~closeRequested)
    BY <1>6, <2>1, <2>4 DEF Schedule
  <2> QED
    BY <2>3, <2>4
<1>7. ASSUME NEW t \in Callers, Result(t) PROVE TypeOK'
  <2>1. PICK how \in Outcomes, what \in Awaitables :
            /\ pc' = [pc EXCEPT ![t] = "over"] /\ outcome' = [outcome EXCEPT ![t] = how]
            /\ awaitable' = [awaitable EXCEPT ![t] = what]
    <3>1. CASE awaitable[t] \in {"value", "raised"}
      BY <1>7, <3>1 DEF Result
    <3>2. CASE awaitable[t] = "dropped"
      BY <1>7, <3>2 DEF Result
    <3>3. CASE awaitable[t] = "cancelled"
      BY <1>7, <3>3 DEF Result
    <3> QED
      BY <1>7, <3>1, <3>2, <3>3 DEF Result
  <2>2. UNCHANGED <<runnerVars, loopVars, on>>
    BY <1>7 DEF Result
  <2> QED
    BY <2>1, <2>2
<1>8. ASSUME NEW a \in Actors, Close(a) PROVE TypeOK'
  <2>1. CASE thread = None
    <3>1. /\ pc' = [pc EXCEPT ![a] = "over"] /\ outcome' = [outcome EXCEPT ![a] = "returned"]
          /\ UNCHANGED <<runnerVars, loopVars, awaitable, on>>
      BY <1>8, <2>1 DEF Close
    <3> QED
      BY <3>1
  <2>2. CASE thread # None /\ loop = None
    <3>1. /\ pc' = [pc EXCEPT ![a] = "join"] /\ on' = [on EXCEPT ![a] = thread]
          /\ error' = error \/ error' = [error EXCEPT ![startup] = "closed"]
          /\ closeRequested' = TRUE
          /\ UNCHANGED <<loop, thread, closing, startup, life, done, ready, awaitable, outcome>>
      BY <1>8, <2>2 DEF Close
    <3> QED
      BY <2>2, <3>1
  <2>3. CASE thread # None /\ loop # None
    <3>1. /\ pc' = [pc EXCEPT ![a] = "stop"] /\ on' = [on EXCEPT ![a] = thread]
          /\ loop' = None /\ thread' = None /\ closing' = closing \cup {thread}
          /\ closeRequested' = TRUE
          /\ UNCHANGED <<error, startup, life, done, ready, awaitable, outcome>>
      BY <1>8, <2>3 DEF Close
    <3> QED
      BY <2>3, <3>1
  <2> QED
    BY <2>1, <2>2, <2>3
<1>9. ASSUME NEW a \in Actors, FoundClosed(a) PROVE TypeOK'
  BY <1>9 DEF FoundClosed
<1>10. ASSUME NEW a \in Actors, FoundOpen(a) PROVE TypeOK'
  BY <1>10 DEF FoundOpen
<1>11. ASSUME NEW a \in Actors, AskToStop(a) PROVE TypeOK'
  <2>1. on[a] \in Loops
    BY <1>11 DEF AskToStop, CallState
  <2>2. Append(ready[on[a]], None) \in Seq(Callers \cup {None})
    BY <2>1, Pushed
  <2>3. CASE Closed(on[a])
    BY <1>11, <2>3 DEF AskToStop
  <2>4. CASE ~Closed(on[a])
    <3>1. ready' = [ready EXCEPT ![on[a]] = Append(ready[on[a]], None)]
      BY <1>11, <2>4 DEF AskToStop
    <3>2. ready' \in [Loops -> Seq(Callers \cup {None})]
      BY <2>1, <2>2, <3>1
    <3>3. CASE a = on[a]
      BY <1>11, <2>4, <3>2, <3>3 DEF AskToStop
    <3>4. CASE a # on[a]
      BY <1>11, <2>4, <3>2, <3>4 DEF AskToStop
    <3> QED
      BY <3>3, <3>4
  <2> QED
    BY <2>3, <2>4
<1>12. ASSUME NEW a \in Actors, Join(a) PROVE TypeOK'
  BY <1>12 DEF Join
<1>13. ASSUME NEW g \in Loops, Fails(g) PROVE TypeOK'
  BY <1>13 DEF Fails
<1>14. ASSUME NEW g \in Loops, Publish(g) PROVE TypeOK'
  BY <1>14 DEF Publish
<1>15. ASSUME NEW g \in Loops, Callback(g) PROVE TypeOK'
  <2>1. /\ Tail(ready[g]) \in Seq(Callers \cup {None})
        /\ Head(ready[g]) \in Callers \cup {None}
    BY <1>15, Popped DEF Callback
  <2> QED
    BY <1>15, <2>1 DEF Callback
<1>16. ASSUME NEW t \in Callers, Begin(t) PROVE TypeOK'
  BY <1>16 DEF Begin
<1>17. ASSUME NEW t \in Callers, Finish(t) PROVE TypeOK'
  BY <1>17 DEF Finish
<1>18. ASSUME NEW g \in Loops, Cancel(g) PROVE TypeOK'
  BY <1>18 DEF Cancel
<1>19. ASSUME NEW g \in Loops, CloseLoop(g) PROVE TypeOK'
  BY <1>19 DEF CloseLoop
<1>20. ASSUME NEW g \in Loops, Forget(g) PROVE TypeOK'
  BY <1>20 DEF Forget
<1> QED
  BY <1>1, <1>2, <1>3, <1>4, <1>5, <1>6, <1>7, <1>8, <1>9, <1>10, <1>11, <1>12, <1>13, <1>14,
     <1>15, <1>16, <1>17, <1>18, <1>19, <1>20
     DEF Next, RunStep, EnsureLoop, CloseStep, RunLoop

(* Threads are started in order, and no thread is used again.              *)
LEMMA SameStarted ==
  ASSUME InOrder, \A l \in Loops : life'[l] = "unused" <=> life[l] = "unused"
  PROVE  InOrder'
<1>1. {l \in Loops : life'[l] # "unused"} = {l \in Loops : life[l] # "unused"}
  OBVIOUS
<1> QED
  BY <1>1 DEF InOrder

(* A step starts the next thread or none.                                  *)
LEMMA InOrderStep ==
  ASSUME Numbered, IInv, Next
  PROVE  InOrder'
<1> USE DEF IInv
<1>1. ASSUME NEW t \in Callers, StartThread(t) PROVE InOrder'
  <2>1. PICK g \in Loops : Starts(t, g)
    BY <1>1, NextIsUnused
  <2> QED
    BY <2>1 DEF Starts, InOrder
<1>2. ASSUME NEW g \in Loops, Fails(g) \/ Publish(g) \/ Callback(g) \/ Cancel(g) \/ CloseLoop(g)
             \/ Forget(g)
      PROVE  InOrder'
  <2>1. \A l \in Loops : life'[l] = "unused" <=> life[l] = "unused"
    BY <1>2 DEF Fails, Publish, Callback, Cancel, CloseLoop, Forget, TypeOK
  <2> QED
    BY <2>1, SameStarted
<1>3. ASSUME UNCHANGED life PROVE InOrder'
  BY <1>3, SameStarted
<1>4. ASSUME NEW t \in Callers, CallRun(t) \/ RunStep(t) PROVE StartThread(t) \/ UNCHANGED life
  BY <1>4 DEF CallRun, RunStep, EnsureLoop, UseLoop, JoinStartup, StartupDone, Schedule, Result,
              runnerVars, loopVars
<1>5. ASSUME NEW a \in Actors, Close(a) \/ CloseStep(a) PROVE UNCHANGED life
  BY <1>5 DEF Close, CloseStep, FoundClosed, FoundOpen, AskToStop, Join, runnerVars, loopVars
<1>6. ASSUME NEW t \in Callers, Begin(t) \/ Finish(t) PROVE UNCHANGED life
  BY <1>6 DEF Begin, Finish, loopVars
<1> QED
  BY <1>1, <1>2, <1>3, <1>4, <1>5, <1>6 DEF Next, RunLoop

(* A step keeps _thread, _loop and _startup together.                      *)
LEMMA CurrentStep ==
  ASSUME Numbered, IInv, Next
  PROVE  Current'
<1>0. TypeOK /\ InOrder /\ Current /\ Others /\ CallState
  BY DEF IInv
<1> USE <1>0, Distinct DEF runnerVars, loopVars, callVars, Goto, EndCall, TypeOK, Lives,
                           Current, Others, CallState, Alive, Closed, Open
<1>1. ASSUME NEW t \in Callers, CallRun(t) PROVE Current'
  BY <1>1 DEF CallRun
<1>2. ASSUME NEW t \in Callers, pc[t] = "ensure", UseLoop(t),
               UNCHANGED <<awaitable, outcome>>
        PROVE  Current'
  BY <1>2 DEF UseLoop
<1>3. ASSUME NEW t \in Callers, pc[t] = "ensure", StartThread(t),
               UNCHANGED <<awaitable, outcome>>
        PROVE  Current'
  <2>1. PICK g \in Loops : Starts(t, g)
    BY <1>3, NextIsUnused
  <2> QED
    BY <1>3, <2>1 DEF Starts
<1>4. ASSUME NEW t \in Callers, pc[t] = "ensure", JoinStartup(t),
               UNCHANGED <<awaitable, outcome>>
        PROVE  Current'
  BY <1>4 DEF JoinStartup
<1>5. ASSUME NEW t \in Callers, StartupDone(t) PROVE Current'
  BY <1>5 DEF StartupDone
<1>6. ASSUME NEW t \in Callers, Schedule(t) PROVE Current'
  <2>1. on[t] \in Loops /\ t \in Callers \cup {None}
    BY <1>6 DEF Schedule
  <2>2. CASE on[t] = loop /\ ~closeRequested
    <3> DEFINE longer == Append(ready[on[t]], t)
    <3>1. /\ DOMAIN longer = DOMAIN ready[on[t]] \cup {Len(ready[on[t]]) + 1}
          /\ \A i \in DOMAIN ready[on[t]] : longer[i] = ready[on[t]][i]
          /\ longer[Len(ready[on[t]]) + 1] = t
      BY <2>1, Pushed
    <3>2. \A i \in DOMAIN longer : longer[i] # None
      <4> HIDE DEF longer
      <4>1. \A i \in DOMAIN ready[on[t]] : ready[on[t]][i] # None
        BY <2>1, <2>2
      <4> QED
        BY <2>1, <3>1, <4>1
    <3>3. ready'[loop] = longer
      BY <1>6, <2>1, <2>2 DEF Schedule
    <3> HIDE DEF longer
    <3> QED
      BY <1>6, <2>2, <3>2, <3>3 DEF Schedule
  <2>3. CASE ~(on[t] = loop /\ ~closeRequested)
    BY <1>6, <2>3 DEF Schedule
  <2> QED
    BY <2>2, <2>3
<1>7. ASSUME NEW t \in Callers, Result(t) PROVE Current'
  BY <1>7 DEF Result
<1>8. ASSUME NEW a \in Actors, Close(a) PROVE Current'
  BY <1>8 DEF Close
<1>9. ASSUME NEW a \in Actors, FoundClosed(a) PROVE Current'
  BY <1>9 DEF FoundClosed
<1>10. ASSUME NEW a \in Actors, FoundOpen(a) PROVE Current'
  BY <1>10 DEF FoundOpen
<1>11. ASSUME NEW a \in Actors, AskToStop(a) PROVE Current'
  BY <1>11 DEF AskToStop
<1>12. ASSUME NEW a \in Actors, Join(a) PROVE Current'
  BY <1>12 DEF Join
<1>13. ASSUME NEW g \in Loops, Fails(g) PROVE Current'
  BY <1>13 DEF Fails
<1>14. ASSUME NEW g \in Loops, Publish(g) PROVE Current'
  BY <1>14 DEF Publish
<1>15. ASSUME NEW g \in Loops, Callback(g) PROVE Current'
  BY <1>15 DEF Callback
<1>16. ASSUME NEW t \in Callers, Begin(t) PROVE Current'
  BY <1>16 DEF Begin
<1>17. ASSUME NEW t \in Callers, Finish(t) PROVE Current'
  BY <1>17 DEF Finish
<1>18. ASSUME NEW g \in Loops, Cancel(g) PROVE Current'
  BY <1>18 DEF Cancel
<1>19. ASSUME NEW g \in Loops, CloseLoop(g) PROVE Current'
  BY <1>19 DEF CloseLoop
<1>20. ASSUME NEW g \in Loops, Forget(g) PROVE Current'
  BY <1>20 DEF Forget
<1> QED
  BY <1>1, <1>2, <1>3, <1>4, <1>5, <1>6, <1>7, <1>8, <1>9, <1>10, <1>11, <1>12, <1>13, <1>14,
     <1>15, <1>16, <1>17, <1>18, <1>19, <1>20
     DEF Next, RunStep, EnsureLoop, CloseStep, RunLoop

(* A loop that runs and is not the current one has been asked to close.    *)
LEMMA OthersStep ==
  ASSUME Numbered, IInv, Next
  PROVE  Others'
<1>0. TypeOK /\ InOrder /\ Current /\ Others /\ CallState
  BY DEF IInv
<1> USE <1>0, Distinct DEF runnerVars, loopVars, callVars, Goto, EndCall, TypeOK, Lives,
                           Current, Others, CallState, Alive, Closed, Open
<1>1. ASSUME NEW t \in Callers, CallRun(t) PROVE Others'
  BY <1>1 DEF CallRun
<1>2. ASSUME NEW t \in Callers, pc[t] = "ensure", UseLoop(t),
               UNCHANGED <<awaitable, outcome>>
        PROVE  Others'
  BY <1>2 DEF UseLoop
<1>3. ASSUME NEW t \in Callers, pc[t] = "ensure", StartThread(t),
               UNCHANGED <<awaitable, outcome>>
        PROVE  Others'
  <2>1. PICK g \in Loops : Starts(t, g)
    BY <1>3, NextIsUnused
  <2> QED
    BY <1>3, <2>1 DEF Starts
<1>4. ASSUME NEW t \in Callers, pc[t] = "ensure", JoinStartup(t),
               UNCHANGED <<awaitable, outcome>>
        PROVE  Others'
  BY <1>4 DEF JoinStartup
<1>5. ASSUME NEW t \in Callers, StartupDone(t) PROVE Others'
  BY <1>5 DEF StartupDone
<1>6. ASSUME NEW t \in Callers, Schedule(t) PROVE Others'
  BY <1>6 DEF Schedule
<1>7. ASSUME NEW t \in Callers, Result(t) PROVE Others'
  BY <1>7 DEF Result
<1>8. ASSUME NEW a \in Actors, Close(a) PROVE Others'
  BY <1>8 DEF Close
<1>9. ASSUME NEW a \in Actors, FoundClosed(a) PROVE Others'
  BY <1>9 DEF FoundClosed
<1>10. ASSUME NEW a \in Actors, FoundOpen(a) PROVE Others'
  BY <1>10 DEF FoundOpen
<1>11. ASSUME NEW a \in Actors, AskToStop(a) PROVE Others'
  BY <1>11 DEF AskToStop
<1>12. ASSUME NEW a \in Actors, Join(a) PROVE Others'
  BY <1>12 DEF Join
<1>13. ASSUME NEW g \in Loops, Fails(g) PROVE Others'
  BY <1>13 DEF Fails
<1>14. ASSUME NEW g \in Loops, Publish(g) PROVE Others'
  BY <1>14 DEF Publish
<1>15. ASSUME NEW g \in Loops, Callback(g) PROVE Others'
  BY <1>15 DEF Callback
<1>16. ASSUME NEW t \in Callers, Begin(t) PROVE Others'
  BY <1>16 DEF Begin
<1>17. ASSUME NEW t \in Callers, Finish(t) PROVE Others'
  BY <1>17 DEF Finish
<1>18. ASSUME NEW g \in Loops, Cancel(g) PROVE Others'
  BY <1>18 DEF Cancel
<1>19. ASSUME NEW g \in Loops, CloseLoop(g) PROVE Others'
  BY <1>19 DEF CloseLoop
<1>20. ASSUME NEW g \in Loops, Forget(g) PROVE Others'
  BY <1>20 DEF Forget
<1> QED
  BY <1>1, <1>2, <1>3, <1>4, <1>5, <1>6, <1>7, <1>8, <1>9, <1>10, <1>11, <1>12, <1>13, <1>14,
     <1>15, <1>16, <1>17, <1>18, <1>19, <1>20
     DEF Next, RunStep, EnsureLoop, CloseStep, RunLoop

(* What waits in a loop's queue waits there alone, for its caller.         *)
LEMMA QueuedStep ==
  ASSUME Numbered, IInv, Next
  PROVE  Queued'
<1>0. TypeOK /\ Current /\ Others /\ Queued /\ Awaited /\ CallState
  BY DEF IInv
<1> USE <1>0, Distinct DEF runnerVars, loopVars, callVars, Goto, EndCall, TypeOK, Lives, Others,
                           Queued, Awaited, Alive, Closed, Open
<1>1. ASSUME NEW t \in Callers, CallRun(t) PROVE Queued'
  BY <1>1 DEF CallRun
<1>2. ASSUME NEW t \in Callers, pc[t] = "ensure", UseLoop(t),
               UNCHANGED <<awaitable, outcome>>
        PROVE  Queued'
  BY <1>2 DEF UseLoop
<1>3. ASSUME NEW t \in Callers, pc[t] = "ensure", StartThread(t),
               UNCHANGED <<awaitable, outcome>>
        PROVE  Queued'
  BY <1>3 DEF StartThread
<1>4. ASSUME NEW t \in Callers, pc[t] = "ensure", JoinStartup(t),
               UNCHANGED <<awaitable, outcome>>
        PROVE  Queued'
  BY <1>4 DEF JoinStartup
<1>5. ASSUME NEW t \in Callers, StartupDone(t) PROVE Queued'
  BY <1>5 DEF StartupDone
<1>6. ASSUME NEW t \in Callers, Schedule(t) PROVE Queued'
  <2>1. /\ on[t] \in Loops /\ t \in Callers \cup {None} /\ t # None
        /\ pc[t] = "schedule" /\ awaitable[t] = "new" /\ UNCHANGED <<on, awaitable>>
        /\ \A u \in Actors : u # t => pc'[u] = pc[u]
    BY <1>6 DEF Schedule, CallState
  <2>2. CASE on[t] = loop /\ ~closeRequested
    <3> DEFINE old == ready[on[t]]
               longer == Append(old, t)
    <3>1. /\ DOMAIN longer = DOMAIN old \cup {Len(old) + 1} /\ Len(old) + 1 \notin DOMAIN old
          /\ \A i \in DOMAIN old : longer[i] = old[i]
          /\ longer[Len(old) + 1] = t
      BY <2>1, Pushed
    <3>2. \A h \in Loops : \A i \in DOMAIN ready[h] :
            ready[h][i] \in Callers \cup {None} /\ ready[h][i] # t
      BY <2>1
    <3>3. ready' = [ready EXCEPT ![on[t]] = longer] /\ pc'[t] = "future"
      BY <1>6, <2>1, <2>2 DEF Schedule
    <3> HIDE DEF longer
    <3>4. ASSUME NEW h \in Loops, h # on[t] PROVE ready'[h] = ready[h]
      BY <3>3, <3>4
    <3>5. ready'[on[t]] = longer
      BY <2>1, <3>3
    <3>6. ASSUME NEW h \in Loops, NEW i \in DOMAIN ready'[h], ready'[h][i] # None
          PROVE  /\ pc'[ready'[h][i]] = "future" /\ on[ready'[h][i]] = h
                 /\ awaitable[ready'[h][i]] = "new"
                 /\ \A j \in DOMAIN ready'[h] : ready'[h][i] = ready'[h][j] => i = j
      <4>1. CASE h # on[t]
        BY <2>1, <3>2, <3>4, <3>6, <4>1
      <4>2. CASE h = on[t] /\ i \in DOMAIN old
        <5>1. ready'[h][i] = old[i] /\ old[i] # None /\ old[i] \in Callers /\ old[i] # t
          BY <2>1, <3>1, <3>2, <3>5, <3>6, <4>2
        <5>2. pc[old[i]] = "future" /\ on[old[i]] = h /\ awaitable[old[i]] = "new"
              /\ \A j \in DOMAIN old : old[i] = old[j] => i = j
          BY <2>1, <4>2, <5>1
        <5>3. \A j \in DOMAIN longer : longer[j] = t \/ (j \in DOMAIN old /\ longer[j] = old[j])
          BY <3>1
        <5> HIDE DEF old
        <5> QED
          BY <2>1, <3>5, <4>2, <5>1, <5>2, <5>3
      <4>3. CASE h = on[t] /\ i = Len(old) + 1
        <5> HIDE DEF old
        <5>1. \A j \in DOMAIN old : old[j] # t
          BY <2>1, <3>2 DEF old
        <5> QED
          BY <2>1, <3>1, <3>3, <3>5, <3>6, <4>3, <5>1
      <4> QED
        BY <3>1, <3>5, <3>6, <4>1, <4>2, <4>3
    <3> QED
      BY <2>1, <3>6
  <2>3. CASE ~(on[t] = loop /\ ~closeRequested)
    BY <1>6, <2>1, <2>3 DEF Schedule
  <2> QED
    BY <2>2, <2>3
<1>7. ASSUME NEW t \in Callers, Result(t) PROVE Queued'
  BY <1>7 DEF Result
<1>8. ASSUME NEW a \in Actors, Close(a) PROVE Queued'
  BY <1>8 DEF Close
<1>9. ASSUME NEW a \in Actors, FoundClosed(a) PROVE Queued'
  BY <1>9 DEF FoundClosed
<1>10. ASSUME NEW a \in Actors, FoundOpen(a) PROVE Queued'
  BY <1>10 DEF FoundOpen
<1>11. ASSUME NEW a \in Actors, AskToStop(a) PROVE Queued'
  <2>1. /\ on[a] \in Loops /\ pc[a] = "ask" /\ UNCHANGED <<on, awaitable>>
        /\ \A u \in Actors : u # a => pc'[u] = pc[u]
    BY <1>11 DEF AskToStop, CallState
  <2>2. CASE ~Closed(on[a])
    <3> DEFINE old == ready[on[a]]
               longer == Append(old, None)
    <3>1. /\ DOMAIN longer = DOMAIN old \cup {Len(old) + 1}
          /\ \A i \in DOMAIN old : longer[i] = old[i]
          /\ longer[Len(old) + 1] = None
      BY <2>1, Pushed
    <3>2. ready' = [ready EXCEPT ![on[a]] = longer]
      BY <1>11, <2>1, <2>2 DEF AskToStop
    <3> HIDE DEF longer
    <3>3. ready'[on[a]] = longer /\ \A h \in Loops : h # on[a] => ready'[h] = ready[h]
      BY <2>1, <3>2
    <3>4. \A h \in Loops : \A i \in DOMAIN ready'[h] : ready'[h][i] # None =>
            i \in DOMAIN ready[h] /\ ready'[h][i] = ready[h][i]
      <4>1. \A i \in DOMAIN longer : longer[i] # None => i \in DOMAIN old /\ longer[i] = old[i]
        <5> HIDE DEF old
        <5> QED
          BY <3>1
      <4>2. TAKE h \in Loops
      <4>3. CASE h = on[a]
        BY <3>3, <4>1, <4>3
      <4>4. CASE h # on[a]
        BY <3>3, <4>4
      <4> QED
        BY <4>3, <4>4
    <3>5. \A h \in Loops : \A i \in DOMAIN ready[h] : ready[h][i] # None =>
            ready[h][i] \in Actors /\ ready[h][i] # a
      BY <2>1
    <3> QED
      BY <2>1, <3>4, <3>5
  <2>3. CASE Closed(on[a])
    BY <1>11, <2>1, <2>3 DEF AskToStop
  <2> QED
    BY <2>2, <2>3
<1>12. ASSUME NEW a \in Actors, Join(a) PROVE Queued'
  BY <1>12 DEF Join
<1>13. ASSUME NEW g \in Loops, Fails(g) PROVE Queued'
  BY <1>13 DEF Fails
<1>14. ASSUME NEW g \in Loops, Publish(g) PROVE Queued'
  BY <1>14 DEF Publish
<1>15. ASSUME NEW g \in Loops, Callback(g) PROVE Queued'
  BY <1>15 DEF Callback
<1>16. ASSUME NEW t \in Callers, Begin(t) PROVE Queued'
  BY <1>16 DEF Begin
<1>17. ASSUME NEW t \in Callers, Finish(t) PROVE Queued'
  BY <1>17 DEF Finish
<1>18. ASSUME NEW g \in Loops, Cancel(g) PROVE Queued'
  BY <1>18 DEF Cancel
<1>19. ASSUME NEW g \in Loops, CloseLoop(g) PROVE Queued'
  BY <1>19 DEF CloseLoop
<1>20. ASSUME NEW g \in Loops, Forget(g) PROVE Queued'
  BY <1>20 DEF Forget
<1> QED
  BY <1>1, <1>2, <1>3, <1>4, <1>5, <1>6, <1>7, <1>8, <1>9, <1>10, <1>11, <1>12, <1>13, <1>14,
     <1>15, <1>16, <1>17, <1>18, <1>19, <1>20
     DEF Next, RunStep, EnsureLoop, CloseStep, RunLoop

(* An awaitable is where its caller thinks it is, on a loop that is there. *)
LEMMA AwaitedStep ==
  ASSUME Numbered, IInv, Next
  PROVE  Awaited'
<1>0. TypeOK /\ InOrder /\ Current /\ Others /\ Queued /\ Awaited /\ CallState
  BY DEF IInv
<1> USE <1>0, Distinct DEF runnerVars, loopVars, callVars, Goto, EndCall, TypeOK, Lives,
                           Current, Others, Queued, Awaited, CallState, Alive, Closed, Open,
                           Tasks
<1>1. ASSUME NEW t \in Callers, CallRun(t) PROVE Awaited'
  BY <1>1 DEF CallRun
<1>2. ASSUME NEW t \in Callers, pc[t] = "ensure", UseLoop(t),
               UNCHANGED <<awaitable, outcome>>
        PROVE  Awaited'
  BY <1>2 DEF UseLoop
<1>3. ASSUME NEW t \in Callers, pc[t] = "ensure", StartThread(t),
               UNCHANGED <<awaitable, outcome>>
        PROVE  Awaited'
  <2>1. PICK g \in Loops : Starts(t, g)
    BY <1>3, NextIsUnused
  <2> QED
    BY <1>3, <2>1 DEF Starts
<1>4. ASSUME NEW t \in Callers, pc[t] = "ensure", JoinStartup(t),
               UNCHANGED <<awaitable, outcome>>
        PROVE  Awaited'
  BY <1>4 DEF JoinStartup
<1>5. ASSUME NEW t \in Callers, StartupDone(t) PROVE Awaited'
  BY <1>5 DEF StartupDone
<1>6. ASSUME NEW t \in Callers, Schedule(t) PROVE Awaited'
  BY <1>6 DEF Schedule
<1>7. ASSUME NEW t \in Callers, Result(t) PROVE Awaited'
  BY <1>7 DEF Result
<1>8. ASSUME NEW a \in Actors, Close(a) PROVE Awaited'
  BY <1>8 DEF Close
<1>9. ASSUME NEW a \in Actors, FoundClosed(a) PROVE Awaited'
  BY <1>9 DEF FoundClosed
<1>10. ASSUME NEW a \in Actors, FoundOpen(a) PROVE Awaited'
  BY <1>10 DEF FoundOpen
<1>11. ASSUME NEW a \in Actors, AskToStop(a) PROVE Awaited'
  BY <1>11 DEF AskToStop
<1>12. ASSUME NEW a \in Actors, Join(a) PROVE Awaited'
  BY <1>12 DEF Join
<1>13. ASSUME NEW g \in Loops, Fails(g) PROVE Awaited'
  BY <1>13 DEF Fails
<1>14. ASSUME NEW g \in Loops, Publish(g) PROVE Awaited'
  BY <1>14 DEF Publish
<1>15. ASSUME NEW g \in Loops, Callback(g) PROVE Awaited'
  <2>1. /\ Head(ready[g]) = ready[g][1] /\ 1 \in DOMAIN ready[g]
        /\ Head(ready[g]) \in Callers \cup {None}
    BY <1>15, Popped DEF Callback
  <2>2. /\ life[g] = "running" /\ UNCHANGED <<runnerVars, error, done, pc, on, outcome>>
    BY <1>15 DEF Callback
  <2>3. CASE Head(ready[g]) = None
    <3>1. life' = [life EXCEPT ![g] = "stopped"] /\ awaitable' = awaitable
      BY <1>15, <2>3 DEF Callback
    <3> QED
      BY <2>2, <3>1
  <2>4. CASE Head(ready[g]) # None
    <3>1. life' = life /\ awaitable' = [awaitable EXCEPT ![Head(ready[g])] = "task"]
      BY <1>15, <2>4 DEF Callback
    <3>2. /\ Head(ready[g]) \in Callers /\ pc[Head(ready[g])] = "future" /\ on[Head(ready[g])] = g
          /\ awaitable[Head(ready[g])] = "new"
      BY <2>1, <2>4
    <3> QED
      BY <2>2, <3>1, <3>2
  <2> QED
    BY <2>3, <2>4
<1>16. ASSUME NEW t \in Callers, Begin(t) PROVE Awaited'
  BY <1>16 DEF Begin
<1>17. ASSUME NEW t \in Callers, Finish(t) PROVE Awaited'
  BY <1>17 DEF Finish
<1>18. ASSUME NEW g \in Loops, Cancel(g) PROVE Awaited'
  BY <1>18 DEF Cancel
<1>19. ASSUME NEW g \in Loops, CloseLoop(g) PROVE Awaited'
  BY <1>19 DEF CloseLoop
<1>20. ASSUME NEW g \in Loops, Forget(g) PROVE Awaited'
  BY <1>20 DEF Forget
<1> QED
  BY <1>1, <1>2, <1>3, <1>4, <1>5, <1>6, <1>7, <1>8, <1>9, <1>10, <1>11, <1>12, <1>13, <1>14,
     <1>15, <1>16, <1>17, <1>18, <1>19, <1>20
     DEF Next, RunStep, EnsureLoop, CloseStep, RunLoop

(* A call holds on to a loop that was started.                             *)
LEMMA CallStateStep ==
  ASSUME Numbered, IInv, Next
  PROVE  CallState'
<1>0. TypeOK /\ InOrder /\ Current /\ Others /\ Queued /\ Awaited /\ CallState
  BY DEF IInv
<1> USE <1>0, Distinct DEF runnerVars, loopVars, callVars, Goto, EndCall, TypeOK, Lives,
                           Current, Others, Queued, Awaited, CallState, Alive, Closed, Open,
                           Tasks, MayClose
<1>1. ASSUME NEW t \in Callers, CallRun(t) PROVE CallState'
  BY <1>1 DEF CallRun
<1>2. ASSUME NEW t \in Callers, pc[t] = "ensure", UseLoop(t),
               UNCHANGED <<awaitable, outcome>>
        PROVE  CallState'
  BY <1>2 DEF UseLoop
<1>3. ASSUME NEW t \in Callers, pc[t] = "ensure", StartThread(t),
               UNCHANGED <<awaitable, outcome>>
        PROVE  CallState'
  <2>1. PICK g \in Loops : Starts(t, g)
    BY <1>3, NextIsUnused
  <2> QED
    BY <1>3, <2>1 DEF Starts
<1>4. ASSUME NEW t \in Callers, pc[t] = "ensure", JoinStartup(t),
               UNCHANGED <<awaitable, outcome>>
        PROVE  CallState'
  BY <1>4 DEF JoinStartup
<1>5. ASSUME NEW t \in Callers, StartupDone(t) PROVE CallState'
  BY <1>5 DEF StartupDone
<1>6. ASSUME NEW t \in Callers, Schedule(t) PROVE CallState'
  BY <1>6 DEF Schedule
<1>7. ASSUME NEW t \in Callers, Result(t) PROVE CallState'
  BY <1>7 DEF Result
<1>8. ASSUME NEW a \in Actors, Close(a) PROVE CallState'
  BY <1>8 DEF Close
<1>9. ASSUME NEW a \in Actors, FoundClosed(a) PROVE CallState'
  BY <1>9 DEF FoundClosed
<1>10. ASSUME NEW a \in Actors, FoundOpen(a) PROVE CallState'
  BY <1>10 DEF FoundOpen
<1>11. ASSUME NEW a \in Actors, AskToStop(a) PROVE CallState'
  BY <1>11 DEF AskToStop
<1>12. ASSUME NEW a \in Actors, Join(a) PROVE CallState'
  BY <1>12 DEF Join
<1>13. ASSUME NEW g \in Loops, Fails(g) PROVE CallState'
  BY <1>13 DEF Fails
<1>14. ASSUME NEW g \in Loops, Publish(g) PROVE CallState'
  BY <1>14 DEF Publish
<1>15. ASSUME NEW g \in Loops, Callback(g) PROVE CallState'
  <2>1. /\ Head(ready[g]) = ready[g][1] /\ 1 \in DOMAIN ready[g]
        /\ Head(ready[g]) \in Callers \cup {None}
    BY <1>15, Popped DEF Callback
  <2>2. /\ life[g] = "running" /\ UNCHANGED <<runnerVars, error, done, pc, on, outcome>>
    BY <1>15 DEF Callback
  <2>3. CASE Head(ready[g]) = None
    <3>1. life' = [life EXCEPT ![g] = "stopped"] /\ awaitable' = awaitable
      BY <1>15, <2>3 DEF Callback
    <3> QED
      BY <2>2, <3>1
  <2>4. CASE Head(ready[g]) # None
    <3>1. life' = life /\ awaitable' = [awaitable EXCEPT ![Head(ready[g])] = "task"]
      BY <1>15, <2>4 DEF Callback
    <3>2. /\ Head(ready[g]) \in Callers /\ pc[Head(ready[g])] = "future" /\ on[Head(ready[g])] = g
          /\ awaitable[Head(ready[g])] = "new"
      BY <2>1, <2>4
    <3> QED
      BY <2>2, <3>1, <3>2
  <2> QED
    BY <2>3, <2>4
<1>16. ASSUME NEW t \in Callers, Begin(t) PROVE CallState'
  BY <1>16 DEF Begin
<1>17. ASSUME NEW t \in Callers, Finish(t) PROVE CallState'
  BY <1>17 DEF Finish
<1>18. ASSUME NEW g \in Loops, Cancel(g) PROVE CallState'
  BY <1>18 DEF Cancel
<1>19. ASSUME NEW g \in Loops, CloseLoop(g) PROVE CallState'
  BY <1>19 DEF CloseLoop
<1>20. ASSUME NEW g \in Loops, Forget(g) PROVE CallState'
  BY <1>20 DEF Forget
<1> QED
  BY <1>1, <1>2, <1>3, <1>4, <1>5, <1>6, <1>7, <1>8, <1>9, <1>10, <1>11, <1>12, <1>13, <1>14,
     <1>15, <1>16, <1>17, <1>18, <1>19, <1>20
     DEF Next, RunStep, EnsureLoop, CloseStep, RunLoop

-----------------------------------------------------------------------------
(* The invariant                                                           *)

(* It holds when nothing has been called yet.                              *)
LEMMA InitInvariant == ASSUME Numbered, Init PROVE IInv
<1> USE Distinct DEF Init
<1>1. TypeOK
  <2>1. ready \in [Loops -> Seq(Callers \cup {None})]
    BY <<>> \in Seq(Callers \cup {None})
  <2>2. /\ pc \in [Actors -> Pcs] /\ outcome \in [Actors -> Outcomes]
        /\ awaitable \in [Callers -> Awaitables]
    BY DEF Pcs, Outcomes, Awaitables
  <2>3. /\ life \in [Loops -> Lives] /\ error \in [Loops -> {"none", "closed", "failed"}]
        /\ done \in [Loops -> BOOLEAN] /\ on \in [Actors -> Loops \cup {None}]
    BY DEF Lives
  <2> QED
    BY <2>1, <2>2, <2>3 DEF TypeOK
<1>2. InOrder
  <2>1. {l \in Loops : life[l] # "unused"} = 1..0
    OBVIOUS
  <2> QED
    BY <2>1 DEF InOrder
<1>3. Current /\ Others /\ Queued
  BY DEF Current, Others, Queued, Open
<1>4. Awaited /\ CallState
  BY DEF Awaited, CallState
<1> QED
  BY <1>1, <1>2, <1>3, <1>4 DEF IInv

(* Every step of the runner keeps it.                                      *)
LEMMA StepInvariant == ASSUME Numbered, IInv, [Next]_vars PROVE IInv'
<1>1. CASE Next
  BY <1>1, TypeOKStep, InOrderStep, CurrentStep, OthersStep, QueuedStep, AwaitedStep,
     CallStateStep
     DEF IInv
<1>2. CASE UNCHANGED vars
  <2> USE <1>2 DEF vars, runnerVars, loopVars, callVars, IInv
  <2>1. TypeOK' /\ InOrder' /\ Current'
    BY DEF TypeOK, InOrder, Current
  <2>2. Others' /\ Queued' /\ Awaited'
    BY DEF Others, Queued, Awaited
  <2>3. CallState'
    BY DEF CallState, Closed
  <2> QED
    BY <2>1, <2>2, <2>3
<1> QED
  BY <1>1, <1>2

(* Every state of the runner satisfies it.                                 *)
THEOREM Invariance == ASSUME Numbered PROVE Spec => []IInv
<1>1. Init => IInv
  BY InitInvariant
<1>2. IInv /\ [Next]_vars => IInv'
  BY StepInvariant
<1> QED
  BY <1>1, <1>2, PTL DEF Spec

-----------------------------------------------------------------------------
(* Theorems                                                                *)

(* Every variable of the runner keeps its type: nothing is scheduled but   *)
(* callers' awaitables and stops, and no index of a loop runs out.         *)
THEOREM TypeCorrect == ASSUME Numbered PROVE Spec => []TypeOK
<1>1. IInv => TypeOK
  BY DEF IInv
<1> QED
  BY Invariance, <1>1, PTL

(* What it says of callers, loops and threads.                             *)
LEMMA RunnerSound ==
  ASSUME Numbered, IInv PROVE AwaitableSettled /\ ThreadsOwned /\ CloseWaits /\ RunFinds /\ Forgotten
<1>1. AwaitableSettled
  BY DEF IInv, Awaited, AwaitableSettled
<1>2. ThreadsOwned
  BY Distinct DEF IInv, TypeOK, Awaited, Others, ThreadsOwned
<1>3. CloseWaits
  BY DEF IInv, CallState, CloseWaits
<1>4. RunFinds
  BY Distinct DEF IInv, Current, RunFinds, Alive
<1>5. Forgotten
  BY Distinct DEF IInv, Current, Others, Forgotten, Open
<1> QED
  BY <1>1, <1>2, <1>3, <1>4, <1>5

(* run() leaves no awaitable behind, however closes and starts meet: when  *)
(* it returns its awaitable has ended or was closed, and it ends as the    *)
(* awaitable did.                                                          *)
THEOREM AwaitablesAreSettled == ASSUME Numbered PROVE Spec => []AwaitableSettled
<1>1. IInv => AwaitableSettled
  BY RunnerSound
<1> QED
  BY Invariance, <1>1, PTL

(* owns_thread answers yes for every thread an awaitable is running on,    *)
(* also after close() has taken the thread away or another one was started.*)
THEOREM ThreadsAreOwned == ASSUME Numbered PROVE Spec => []ThreadsOwned
<1>1. IInv => ThreadsOwned
  BY RunnerSound
<1> QED
  BY Invariance, <1>1, PTL

(* close() that has returned to a thread other than the loop's own has     *)
(* waited until the loop it found was closed.                              *)
THEOREM CloseHasWaited == ASSUME Numbered PROVE Spec => []CloseWaits
<1>1. IInv => CloseWaits
  BY RunnerSound
<1> QED
  BY Invariance, <1>1, PTL

(* run() never fails for reasons of the runner's own: while a thread is    *)
(* alive there is the startup to wait for, and the loop that run() may     *)
(* schedule on is running and was not asked to stop.                       *)
THEOREM RunFindsItsLoop == ASSUME Numbered PROVE Spec => []RunFinds
<1>1. IInv => RunFinds
  BY RunnerSound
<1> QED
  BY Invariance, <1>1, PTL

(* The runner forgets a thread, and its loop, by the time it has ended.    *)
THEOREM NothingIsRemembered == ASSUME Numbered PROVE Spec => []Forgotten
<1>1. IInv => Forgotten
  BY RunnerSound
<1> QED
  BY Invariance, <1>1, PTL
=============================================================================
