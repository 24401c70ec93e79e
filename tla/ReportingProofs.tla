--------------------------- MODULE ReportingProofs ---------------------------
(***************************************************************************)
(* Theorems about what is reported: the submission of a batch (CaptureV1), *)
(* AI observability (Observation), exceptions and the calls that make      *)
(* events (EventSources), for any values of the constants.                 *)
(***************************************************************************)
EXTENDS CaptureV1, EventSources, FiniteSetTheorems, SequenceTheorems, TLAPS
------------------------------------------------------------------------------
(* The submission of a batch.                                              *)
\* While the loop runs, nothing is reported yet, its variables agree with what
\* it has heard, and it sleeps only when an attempt is left.
Progress ==
  ~Ended => /\ outcome = NoOutcome
            /\ all_drops = HeardIs("drop")
            /\ at = "backoff" => attempt <= max_retries

IInv == TypeOK /\ Progress /\ ResendsTheUndecided /\ TellsWhatItHeard /\ AttemptsUsed

(* The loop starts with every event undecided and its first attempt.       *)
LEMMA InitInvariant == Init => IInv
<1> SUFFICES ASSUME Init PROVE IInv
  OBVIOUS
<1>1. max_retries \in Nat
  BY RetriesAssumption DEF Init, AtLeastOnce
<1>2. TypeOK
  BY <1>1 DEF Init, TypeOK, Directives, Outcomes, NoOutcome
<1>3. outcome = NoOutcome /\ HeardIs("ok") = {} /\ HeardIs("drop") = {}
      /\ HeardIs("retry") = {}
  BY DEF Init, HeardIs
<1>4. Progress /\ ResendsTheUndecided /\ TellsWhatItHeard
  BY <1>3 DEF Init, Progress, ResendsTheUndecided, TellsWhatItHeard, Ended, NoOutcome
<1>5. AttemptsUsed
  BY <1>1, <1>3 DEF Init, AttemptsUsed, NoOutcome
<1> QED
  BY <1>2, <1>4, <1>5 DEF IInv

(* A post that is not answered event by event changes no verdict: it ends  *)
(* the call, or sleeps if an attempt is left.                              *)
LEMMA UnansweredStep ==
  ASSUME IInv, ~Ended, at = "post", UNCHANGED <<max_retries, attempt>>,
         Unreachable \/ Malformed \/ Transient \/ Refused
  PROVE  IInv'
<1> USE DEF IInv, Ended
<1>1. UNCHANGED <<pending, all_drops, heard>>
  BY DEF Unreachable, Malformed, Transient, Refused
<1>2. \A d : HeardIs(d)' = HeardIs(d)
  BY <1>1 DEF HeardIs
<1>3. CASE Continue /\ ~LastAttempt
  <2>1. attempt <= max_retries
    BY <1>3 DEF LastAttempt, AttemptsUsed, TypeOK
  <2>2. TypeOK'
    BY <1>1, <1>3 DEF TypeOK, Continue
  <2> QED
    BY <1>1, <1>2, <1>3, <2>1, <2>2 DEF Continue, Progress, ResendsTheUndecided,
      TellsWhatItHeard, AttemptsUsed
<1>4. CASE Raise({})
  <2>1. outcome' = [kind |-> "CaptureV1Error", drops |-> all_drops, retry_exhausted |-> {}]
        /\ at' = at
    BY <1>1, <1>4 DEF Raise, End
  <2>2. TypeOK'
    BY <1>1, <2>1 DEF TypeOK, Outcomes
  <2> QED
    BY <1>1, <1>2, <2>1, <2>2 DEF Progress, ResendsTheUndecided, TellsWhatItHeard,
      AttemptsUsed
<1>5. CASE End("transport", {}, {}) /\ LastAttempt
  <2>1. TypeOK'
    BY <1>1, <1>5 DEF TypeOK, Outcomes, End
  <2> QED
    BY <1>1, <1>2, <1>5, <2>1 DEF End, LastAttempt, Progress, ResendsTheUndecided,
      TellsWhatItHeard, AttemptsUsed
<1> QED
  BY <1>3, <1>4, <1>5 DEF Unreachable, Malformed, Transient, Refused

(* An answer settles the pending events it does not tag retry, and only    *)
(* those.                                                                  *)
LEMMA AnsweredStep ==
  ASSUME IInv, ~Ended, at = "post", UNCHANGED <<max_retries, attempt>>,
         NEW S \in SUBSET Events, NEW results \in [S -> Directives],
         Answered(results)
  PROVE  IInv'
<1> USE DEF IInv
<1>1. \A e \in Events : Directive(results, e) \in Directives
  BY DEF Directive, Directives
<1>2. pending \subseteq Events
  BY DEF TypeOK
<1>3. /\ HeardIs("retry")' = ToRetry(results) \cup (HeardIs("retry") \ pending)
      /\ HeardIs("drop")' = all_drops'
      /\ HeardIs("ok")' \cup HeardIs("drop")' = Events \ ToRetry(results)
  <2>1. /\ pending = Events \ (HeardIs("ok") \cup HeardIs("drop"))
        /\ all_drops = HeardIs("drop")
    BY DEF Progress, ResendsTheUndecided
  <2>2. \A e \in Events :
          heard'[e] = IF e \in pending THEN Directive(results, e) ELSE heard[e]
    BY DEF Answered
  <2>3. all_drops' = all_drops \cup {e \in pending : Directive(results, e) = "drop"}
    BY DEF Answered, Dropped
  <2> QED
    BY <1>1, <1>2, <2>1, <2>2, <2>3 DEF HeardIs, ToRetry, Directives
<1>4. /\ heard' \in [Events -> Directives \cup {"nothing"}]
      /\ all_drops' \subseteq Events
      /\ ToRetry(results) \subseteq Events
  BY <1>1, <1>2 DEF Answered, Dropped, TypeOK, ToRetry
<1>5. CASE ToRetry(results) = {} /\ UNCHANGED pending /\ all_drops' = {}
           /\ End("returned", {}, {})
  <2>1. TypeOK'
    BY <1>4, <1>5 DEF TypeOK, Outcomes, End
  <2> QED
    BY <1>3, <1>5, <2>1 DEF End, Progress, ResendsTheUndecided, TellsWhatItHeard,
      AttemptsUsed, Ended, HeardIs
<1>6. CASE ToRetry(results) = {} /\ UNCHANGED pending /\ Raise({})
  <2>1. TypeOK'
    BY <1>4, <1>6 DEF TypeOK, Outcomes, End, Raise
  <2> QED
    BY <1>3, <1>6, <2>1 DEF End, Raise, Progress, ResendsTheUndecided, TellsWhatItHeard,
      AttemptsUsed, Ended, HeardIs
<1>7. CASE LastAttempt /\ Raise(ToRetry(results)) /\ UNCHANGED pending
  <2>1. TypeOK'
    BY <1>4, <1>7 DEF TypeOK, Outcomes, End, Raise
  <2> QED
    BY <1>3, <1>7, <2>1 DEF End, Raise, LastAttempt, Progress, ResendsTheUndecided,
      TellsWhatItHeard, AttemptsUsed, Ended
<1>8. CASE ~LastAttempt /\ pending' = Resend(results) /\ Continue
  <2>1. TypeOK'
    BY <1>4, <1>8 DEF TypeOK, Outcomes, Continue, Resend
  <2>2. attempt <= max_retries
    BY <1>8 DEF LastAttempt, AttemptsUsed, TypeOK
  <2>3. ResendsTheUndecided'
    <3>1. pending' = ToRetry(results)
      BY <1>8 DEF Resend
    <3>2. ToRetry(results) = Events \ (Events \ ToRetry(results))
      BY <1>4
    <3> QED
      BY <1>3, <3>1, <3>2 DEF ResendsTheUndecided
  <2> QED
    BY <1>3, <1>8, <2>1, <2>2, <2>3 DEF Continue, Progress, NoOutcome, TellsWhatItHeard,
      AttemptsUsed, Ended
<1> QED
  BY <1>5, <1>6, <1>7, <1>8 DEF Answered

(* After the backoff there is an attempt left to make.                     *)
LEMMA BackoffStep ==
  ASSUME IInv, ~Ended, at = "backoff", Backoff, UNCHANGED max_retries
  PROVE  IInv'
<1> USE DEF IInv, Backoff
<1>1. attempt' = attempt + 1 /\ attempt <= max_retries
  BY DEF Progress
<1>2. TypeOK'
  BY <1>1 DEF TypeOK
<1>3. AttemptsUsed'
  BY <1>1 DEF AttemptsUsed, TypeOK, Ended, TellsWhatItHeard
<1> QED
  BY <1>2, <1>3 DEF Progress, ResendsTheUndecided, TellsWhatItHeard, Ended, HeardIs

(* Every step keeps the invariant.                                         *)
LEMMA StepInvariant == IInv /\ [Next]_vars => IInv'
<1> SUFFICES ASSUME IInv, [Next]_vars PROVE IInv'
  OBVIOUS
<1>1. CASE Next /\ at = "post" /\ Post /\ UNCHANGED attempt
  <2>1. ~Ended /\ UNCHANGED max_retries
    BY <1>1 DEF Next, Ended
  <2> QED
    BY <1>1, <2>1, UnansweredStep, AnsweredStep DEF Post
<1>2. CASE Next /\ at = "backoff" /\ Backoff
  <2>1. ~Ended /\ UNCHANGED max_retries
    BY <1>2 DEF Next, Ended
  <2> QED
    BY <1>2, <2>1, BackoffStep
<1>3. CASE UNCHANGED vars
  BY <1>3 DEF vars, IInv, TypeOK, Progress, ResendsTheUndecided, TellsWhatItHeard,
    AttemptsUsed, Ended, HeardIs
<1> QED
  BY <1>1, <1>2, <1>3 DEF Next

(* Every reachable state satisfies the inductive invariant.                *)
THEOREM Invariance == Spec => []IInv
  BY InitInvariant, StepInvariant, PTL DEF Spec

(* The variables of the loop keep their types.                             *)
THEOREM TypeCorrect == Spec => []TypeOK
<1>1. IInv => TypeOK
  BY DEF IInv
<1> QED
  BY <1>1, Invariance, PTL

(* Whatever the server answers, the caller is told what it said of each    *)
(* event: a plain return means acceptance of all, the error carries the    *)
(* drops of every attempt.                                                 *)
THEOREM CallerIsTold == Spec => []TellsWhatItHeard
<1>1. IInv => TellsWhatItHeard
  BY DEF IInv
<1> QED
  BY <1>1, Invariance, PTL

(* Partial retry posts exactly the undecided events.                       *)
THEOREM UndecidedResent == Spec => []ResendsTheUndecided
<1>1. IInv => ResendsTheUndecided
  BY DEF IInv
<1> QED
  BY <1>1, Invariance, PTL

(* At least one attempt, at most max_retries + 1, and no giving up before. *)
THEOREM AttemptsBounded == Spec => []AttemptsUsed
<1>1. IInv => AttemptsUsed
  BY DEF IInv
<1> QED
  BY <1>1, Invariance, PTL
------------------------------------------------------------------------------
(* Calls of the wrappers.                                                  *)
Apis == {"responses", "responses.parse", "chat", "chat.parse", "beta.parse", "embeddings", "messages", "contents", "embed_content"}
CallRecords ==
  [api : Apis, async : BOOLEAN, kind : {"tracked", "stream", "embedding"}, id : {"none", "call", "client"},
   made : {"none", "context"}, private : CallsPrivate, chunks : Nat, state : {"asked", "fresh", "running", "over"},
   provider : {"none", "open", "closed"}]
EventRecords ==
  [call : Nat, id : {"trace", "context", "call", "client"}, personless : BOOLEAN, failed : BOOLEAN, private : CallsPrivate]

\* Only a stream waits to be read, and what is unread has no chunks.
CallSound(c) == /\ c.state \in {"asked", "fresh"} => c.chunks = 0
                /\ c.state \in {"fresh", "running"} => c.kind = "stream"
\* A call there is something to tell of.
Telling(c) == c.state = "over" /\ (c.kind = "tracked" \/ c.chunks > 0)
EventSound(e) == e.personless <=> e.id = "trace"

CallsTyped == /\ person \in {"none", "context"}
              /\ modelCalls \in Seq(CallRecords) /\ events \in Seq(EventRecords)
CallsSound == \A i \in DOMAIN modelCalls : CallSound(modelCalls[i])
EventsSound == \A k \in DOMAIN events : EventSound(events[k])
EventsOfOver ==
  \A k \in DOMAIN events : events[k].call \in DOMAIN modelCalls /\ modelCalls[events[k].call].state = "over"
EventsOnce == \A j, k \in DOMAIN events : events[j].call = events[k].call => j = k
ToldOf(i) == \E k \in DOMAIN events : events[k].call = i
TellingTold == \A i \in DOMAIN modelCalls : Telling(modelCalls[i]) => ToldOf(i)
CallsInv == CallsTyped /\ CallsSound /\ EventsSound /\ EventsOfOver /\ EventsOnce /\ TellingTold

\* What a step does: it asks, or it changes one call that is not over and
\* tells of it once it is.
Asks(c) == /\ c \in CallRecords /\ c.state = "asked" /\ c.chunks = 0
           /\ modelCalls' = Append(modelCalls, c)
           /\ UNCHANGED <<person, events>>
Changes(i, c) == /\ i \in DOMAIN modelCalls /\ modelCalls[i].state # "over"
                 /\ c \in CallRecords /\ CallSound(c)
                 /\ modelCalls' = [modelCalls EXCEPT ![i] = c]
                 /\ UNCHANGED person
Silent(i, c) == Changes(i, c) /\ ~Telling(c) /\ UNCHANGED events
Tells(i, c, e) == /\ Changes(i, c) /\ c.state = "over"
                  /\ e \in EventRecords /\ EventSound(e) /\ e.call = i
                  /\ events' = Append(events, e)
Keeps == person' \in {"none", "context"} /\ UNCHANGED <<modelCalls, events>>

(* Asking keeps the invariant.                                             *)
LEMMA AsksKeepsCalls == ASSUME CallsInv, NEW c, Asks(c) PROVE CallsInv'
<1> USE DEF CallsInv, Asks
<1>1. /\ modelCalls' \in Seq(CallRecords) /\ Len(modelCalls') = Len(modelCalls) + 1
      /\ modelCalls'[Len(modelCalls) + 1] = c
      /\ \A i \in DOMAIN modelCalls : i \in DOMAIN modelCalls' /\ modelCalls'[i] = modelCalls[i]
      /\ \A i \in DOMAIN modelCalls' : i \in DOMAIN modelCalls \/ i = Len(modelCalls) + 1
  BY AppendProperties DEF CallsTyped
<1>2. CallsTyped' /\ EventsSound' /\ EventsOnce'
  BY <1>1 DEF CallsTyped, EventsSound, EventsOnce
<1>3. CallSound(c) /\ ~Telling(c)
  BY DEF CallSound, Telling
<1>4. CallsSound' /\ EventsOfOver'
  BY <1>1, <1>3 DEF CallsSound, EventsOfOver
<1>5. TellingTold'
  BY <1>1, <1>3 DEF TellingTold, ToldOf
<1> QED
  BY <1>2, <1>4, <1>5

(* A changed call: the others are as they were.                            *)
LEMMA ChangedCall ==
  ASSUME CallsTyped, NEW i, NEW c, Changes(i, c)
  PROVE  /\ modelCalls' \in Seq(CallRecords) /\ person' \in {"none", "context"}
         /\ DOMAIN modelCalls' = DOMAIN modelCalls /\ modelCalls'[i] = c
         /\ \A j \in DOMAIN modelCalls : j # i => modelCalls'[j] = modelCalls[j]
  BY ExceptSeq DEF CallsTyped, Changes

(* A step that tells nothing leaves nothing to be told.                    *)
LEMMA SilentKeepsCalls == ASSUME CallsInv, NEW i, NEW c, Silent(i, c) PROVE CallsInv'
<1> USE DEF CallsInv
<1>1. /\ modelCalls' \in Seq(CallRecords) /\ person' \in {"none", "context"}
      /\ DOMAIN modelCalls' = DOMAIN modelCalls /\ modelCalls'[i] = c
      /\ \A j \in DOMAIN modelCalls : j # i => modelCalls'[j] = modelCalls[j]
  BY ChangedCall DEF Silent
<1>2. /\ CallSound(c) /\ ~Telling(c) /\ UNCHANGED events
      /\ i \in DOMAIN modelCalls /\ modelCalls[i].state # "over"
  BY DEF Silent, Changes
<1>3. CallsTyped' /\ EventsSound' /\ EventsOnce'
  BY <1>1, <1>2 DEF CallsTyped, EventsSound, EventsOnce
<1>4. CallsSound'
  BY <1>1, <1>2 DEF CallsSound
<1>5. EventsOfOver'
  BY <1>1, <1>2 DEF EventsOfOver
<1>6. TellingTold'
  BY <1>1, <1>2 DEF TellingTold, ToldOf
<1> QED
  BY <1>3, <1>4, <1>5, <1>6

(* A call that is over and was not before is told of for the first time.   *)
LEMMA TellsKeepsCalls == ASSUME CallsInv, NEW i, NEW c, NEW e, Tells(i, c, e) PROVE CallsInv'
<1> USE DEF CallsInv
<1>1. /\ modelCalls' \in Seq(CallRecords) /\ person' \in {"none", "context"}
      /\ DOMAIN modelCalls' = DOMAIN modelCalls /\ modelCalls'[i] = c
      /\ \A j \in DOMAIN modelCalls : j # i => modelCalls'[j] = modelCalls[j]
  BY ChangedCall DEF Tells
<1>2. /\ CallSound(c) /\ c.state = "over" /\ EventSound(e) /\ e.call = i
      /\ i \in DOMAIN modelCalls /\ modelCalls[i].state # "over"
  BY DEF Tells, Changes
<1>3. /\ events' \in Seq(EventRecords)
      /\ \A k \in DOMAIN events : k \in DOMAIN events' /\ events'[k] = events[k]
      /\ \A k \in DOMAIN events' : k \in DOMAIN events \/ (k = Len(events) + 1 /\ events'[k] = e)
      /\ Len(events) + 1 \in DOMAIN events' /\ events'[Len(events) + 1] = e
  BY AppendProperties DEF CallsTyped, Tells
<1>4. CallsTyped' /\ EventsSound'
  BY <1>1, <1>2, <1>3 DEF CallsTyped, EventsSound
<1>5. CallsSound'
  BY <1>1, <1>2 DEF CallsSound
<1>6. EventsOfOver'
  <2>1. ASSUME NEW k \in DOMAIN events'
        PROVE  events'[k].call \in DOMAIN modelCalls' /\ modelCalls'[events'[k].call].state = "over"
    <3>1. CASE k \in DOMAIN events
      BY <1>1, <1>2, <1>3, <3>1 DEF EventsOfOver
    <3>2. CASE k \notin DOMAIN events
      BY <1>1, <1>2, <1>3, <3>2
    <3> QED
      BY <3>1, <3>2
  <2> QED
    BY <2>1 DEF EventsOfOver
<1>7. EventsOnce'
  <2>1. \A k \in DOMAIN events : events[k].call # i
    BY <1>2 DEF EventsOfOver
  <2> QED
    BY <1>2, <1>3, <2>1 DEF EventsOnce
<1>8. TellingTold'
  BY <1>1, <1>2, <1>3 DEF TellingTold, ToldOf
<1> QED
  BY <1>4, <1>5, <1>6, <1>7, <1>8
------------------------------------------------------------------------------
(* What each action of Generations is.                                     *)
LEMMA AsksOf ==
  ASSUME CallsTyped, NEW api \in Apis, NEW async \in BOOLEAN, NEW kind \in {"tracked", "stream", "embedding"},
         NEW given \in SUBSET {"none", "call", "client"}, Calls!Ask(api, async, kind, given)
  PROVE  \E c : Asks(c)
<1>1. PICK id \in given : \E hidden \in CallsPrivate :
        modelCalls' = Append(modelCalls, [api |-> api, async |-> async, kind |-> kind, id |-> id, made |-> person,
          private |-> hidden, chunks |-> 0, state |-> "asked", provider |-> "none"])
  BY DEF Calls!Ask
<1>2. PICK hidden \in CallsPrivate :
        modelCalls' = Append(modelCalls, [api |-> api, async |-> async, kind |-> kind, id |-> id, made |-> person,
          private |-> hidden, chunks |-> 0, state |-> "asked", provider |-> "none"])
  BY <1>1
<1> DEFINE c == [api |-> api, async |-> async, kind |-> kind, id |-> id, made |-> person,
                 private |-> hidden, chunks |-> 0, state |-> "asked", provider |-> "none"]
<1>3. c \in CallRecords
  BY DEF CallRecords, CallsTyped
<1>4. Asks(c)
  BY <1>2, <1>3 DEF Asks, Calls!Ask
<1> QED
  BY <1>4

Asking ==
  \/ Calls!CreateResponse \/ Calls!ParseResponse \/ Calls!CreateCompletion \/ Calls!ParseCompletion
  \/ Calls!ParseBeta \/ Calls!CreateEmbedding \/ Calls!CreateMessage \/ Calls!StreamMessage
  \/ Calls!GenerateContent \/ Calls!GenerateContentStream \/ Calls!EmbedContent
  \/ Calls!CreateResponseAsync \/ Calls!ParseResponseAsync \/ Calls!CreateCompletionAsync
  \/ Calls!ParseCompletionAsync \/ Calls!ParseBetaAsync \/ Calls!CreateEmbeddingAsync
  \/ Calls!CreateMessageAsync \/ Calls!StreamMessageAsync \/ Calls!GenerateContentAsync
  \/ Calls!GenerateContentStreamAsync \/ Calls!EmbedContentAsync
Generating ==
  \/ Calls!ResponsesStreaming \/ Calls!ChatStreaming \/ Calls!MessagesStreaming \/ Calls!ContentsStreaming
  \/ Calls!ResponsesStreamingAsync \/ Calls!ChatStreamingAsync \/ Calls!MessagesStreamingAsync
  \/ Calls!ContentsStreamingAsync

LEMMA AskingAsks == ASSUME CallsTyped, Asking PROVE \E c : Asks(c)
<1>1. Calls!Given \in SUBSET {"none", "call", "client"}
  BY DEF Calls!Given
<1>2. CASE Calls!CreateResponse \/ Calls!CreateCompletion \/ Calls!CreateMessage \/ Calls!CreateResponseAsync \/
         Calls!CreateCompletionAsync \/ Calls!CreateMessageAsync
  BY <1>1, <1>2, AsksOf DEF Apis, Calls!CreateResponse, Calls!CreateCompletion, Calls!CreateMessage, Calls!CreateResponseAsync,
    Calls!CreateCompletionAsync, Calls!CreateMessageAsync, Calls!Whole
<1>3. CASE Calls!ParseResponse \/ Calls!ParseCompletion \/ Calls!ParseBeta \/ Calls!ParseResponseAsync \/
         Calls!ParseCompletionAsync \/ Calls!ParseBetaAsync
  BY <1>1, <1>3, AsksOf DEF Apis, Calls!ParseResponse, Calls!ParseCompletion, Calls!ParseBeta, Calls!ParseResponseAsync,
    Calls!ParseCompletionAsync, Calls!ParseBetaAsync
<1>4. CASE Calls!CreateEmbedding \/ Calls!CreateEmbeddingAsync \/ Calls!StreamMessage \/ Calls!StreamMessageAsync
  BY <1>1, <1>4, AsksOf DEF Apis, Calls!CreateEmbedding, Calls!CreateEmbeddingAsync, Calls!StreamMessage, Calls!StreamMessageAsync
<1>5. CASE Calls!GenerateContent \/ Calls!GenerateContentStream \/ Calls!EmbedContent \/ Calls!GenerateContentAsync \/
         Calls!GenerateContentStreamAsync \/ Calls!EmbedContentAsync
  BY <1>1, <1>5, AsksOf DEF Apis, Calls!GenerateContent, Calls!GenerateContentStream, Calls!EmbedContent, Calls!GenerateContentAsync,
    Calls!GenerateContentStreamAsync, Calls!EmbedContentAsync, Calls!MergedParams, Calls!MergedParamsAsync
<1> QED
  BY <1>2, <1>3, <1>4, <1>5 DEF Asking
\* A step of a call that was asked.
Moves == \E i, c : Silent(i, c) \/ \E e : Tells(i, c, e)

(* The provider answers, or does not.                                      *)
LEMMA AnswerMoves ==
  ASSUME CallsTyped, CallsSound, NEW i \in DOMAIN modelCalls, NEW ends \in {"answers", "raises", "cancelled"},
         Calls!Answer(i, ends)
  PROVE  Moves
<1> DEFINE over == [modelCalls[i] EXCEPT !.state = "over"]
<1>1. modelCalls[i] \in CallRecords /\ CallSound(modelCalls[i]) /\ modelCalls[i].state = "asked" /\ i \in Nat /\ UNCHANGED person
  BY DEF CallsTyped, CallsSound, Calls!Answer
<1>2. over \in CallRecords /\ over.state = "over" /\ over.kind = modelCalls[i].kind /\ over.chunks = 0 /\ CallSound(over)
  BY <1>1 DEF CallRecords, CallSound
<1>3. Calls!Over(i) = [modelCalls EXCEPT ![i] = over]
  BY DEF Calls!Over
<1>4. ASSUME NEW id \in {"trace", "context", "call", "client"}, NEW personless \in BOOLEAN, NEW failed \in BOOLEAN,
             personless <=> id = "trace",
             modelCalls' = Calls!Over(i), events' = Append(events, Calls!Event(i, id, personless, failed))
      PROVE  Moves
  <2> DEFINE e == [call |-> i, id |-> id, personless |-> personless, failed |-> failed, private |-> modelCalls[i].private]
  <2>1. e \in EventRecords /\ EventSound(e) /\ e.call = i
    BY <1>1, <1>4 DEF EventRecords, EventSound, CallRecords
  <2>2. events' = Append(events, e)
    BY <1>4 DEF Calls!Event
  <2> HIDE DEF e, over
  <2>3. Tells(i, over, e)
    BY <1>1, <1>2, <1>3, <1>4, <2>1, <2>2 DEF Tells, Changes
  <2> QED
    BY <2>3 DEF Moves
<1>5. CASE Calls!TrackUsage(i, ends) \/ Calls!TrackUsageAsync(i, ends)
  <2> DEFINE known == modelCalls[i].id # "none" \/ modelCalls[i].made # "none"
             id == IF modelCalls[i].id # "none" THEN modelCalls[i].id
                   ELSE IF modelCalls[i].made # "none" THEN modelCalls[i].made ELSE "trace"
  <2>1. /\ modelCalls' = Calls!Over(i)
        /\ events' = Append(events, Calls!Event(i, id, ~known, ends = "raises"))
    BY <1>5 DEF Calls!TrackUsage, Calls!TrackUsageAsync, Calls!Tracked
  <2>2. id \in {"trace", "context", "call", "client"} /\ ((~known) <=> id = "trace")
    BY <1>1 DEF CallRecords
  <2>3. (~known) \in BOOLEAN /\ (ends = "raises") \in BOOLEAN
    OBVIOUS
  <2> HIDE DEF id, known
  <2> QED
    BY <1>4, <2>1, <2>2, <2>3
<1>6. CASE Calls!Embedded(i, ends) /\ events' # events
  <2> DEFINE id == IF modelCalls[i].id # "none" THEN modelCalls[i].id ELSE "trace"
             failed == ends = "raises"
  <2>1. /\ modelCalls' = Calls!Over(i)
        /\ events' = Append(events, [Calls!ByParameter(i) EXCEPT !.failed = failed])
    BY <1>6 DEF Calls!Embedded
  <2>2. [Calls!ByParameter(i) EXCEPT !.failed = failed] = Calls!Event(i, id, id = "trace", failed)
    BY <1>1 DEF Calls!ByParameter, Calls!Event, CallRecords
  <2>3. id \in {"trace", "context", "call", "client"}
    BY <1>1 DEF CallRecords
  <2>4. (id = "trace") \in BOOLEAN /\ failed \in BOOLEAN
    OBVIOUS
  <2> HIDE DEF id, failed
  <2> QED
    BY <1>4, <2>1, <2>2, <2>3, <2>4
<1>7. CASE Calls!Embedded(i, ends) /\ events' = events
  <2>1. modelCalls[i].kind = "embedding" /\ modelCalls' = Calls!Over(i)
    BY <1>7 DEF Calls!Embedded
  <2>2. Silent(i, over)
    <3> HIDE DEF over
    <3> QED
      BY <1>1, <1>2, <1>3, <1>7, <2>1 DEF Silent, Changes, Telling
  <2> QED
    BY <2>2 DEF Moves
<1>8. CASE Calls!Opened(i, ends)
  <2> DEFINE fresh == [modelCalls[i] EXCEPT !.state = "fresh", !.provider = "open"]
  <2>1. modelCalls[i].kind = "stream" /\ events' = events
    BY <1>8 DEF Calls!Opened
  <2>2. CASE modelCalls' = Calls!Over(i)
    <3> HIDE DEF over
    <3>1. Silent(i, over)
      BY <1>1, <1>2, <1>3, <2>1, <2>2 DEF Silent, Changes, Telling
    <3> QED
      BY <3>1 DEF Moves
  <2>3. CASE modelCalls' = [modelCalls EXCEPT ![i].state = "fresh", ![i].provider = "open"]
    <3>1. modelCalls' = [modelCalls EXCEPT ![i] = fresh]
      BY <1>1, <2>3 DEF CallsTyped, CallRecords
    <3>2. fresh \in CallRecords /\ fresh.state = "fresh" /\ fresh.kind = "stream" /\ fresh.chunks = 0
      BY <1>1, <2>1 DEF CallRecords, CallSound
    <3> HIDE DEF fresh
    <3>3. Silent(i, fresh)
      BY <1>1, <2>1, <3>1, <3>2 DEF Silent, Changes, Telling, CallSound
    <3> QED
      BY <3>3 DEF Moves
  <2> QED
    BY <1>8, <2>2, <2>3 DEF Calls!Opened
<1> QED
  BY <1>5, <1>6, <1>7, <1>8 DEF Calls!Answer

(* A stream is read, ends, is closed or is dropped.                        *)
LEMMA StreamMoves ==
  ASSUME CallsTyped, CallsSound, NEW i \in DOMAIN modelCalls, UNCHANGED person,
         Calls!Consume(i) \/ Calls!CloseWrapper(i) \/ Calls!CloseWrapperAsync(i)
  PROVE  Moves
<1> DEFINE over == [modelCalls[i] EXCEPT !.state = "over"]
           closed == [modelCalls[i] EXCEPT !.state = "over", !.provider = "closed"]
           read == [modelCalls[i] EXCEPT !.state = "running", !.chunks = @ + 1]
           e == [call |-> i, id |-> IF modelCalls[i].id # "none" THEN modelCalls[i].id ELSE "trace",
                 personless |-> modelCalls[i].id = "none", failed |-> FALSE, private |-> modelCalls[i].private]
<1>1. modelCalls[i] \in CallRecords /\ CallSound(modelCalls[i]) /\ i \in Nat
  BY DEF CallsTyped, CallsSound
<1>2. modelCalls[i].state \in {"fresh", "running"} /\ modelCalls[i].kind = "stream"
      /\ (modelCalls[i].state = "fresh" => modelCalls[i].chunks = 0)
  BY <1>1 DEF CallSound, Calls!Consume, Calls!Chunk, Calls!End, Calls!Drop, Calls!CloseWrapper, Calls!CloseWrapperAsync
<1>3. e \in EventRecords /\ EventSound(e) /\ e.call = i /\ Calls!ByParameter(i) = e
  BY <1>1 DEF EventRecords, EventSound, CallRecords, Calls!ByParameter, Calls!Event
<1>4. /\ over \in CallRecords /\ over.state = "over" /\ over.kind = "stream" /\ over.chunks = modelCalls[i].chunks
      /\ closed \in CallRecords /\ closed.state = "over" /\ closed.kind = "stream" /\ closed.chunks = modelCalls[i].chunks
      /\ read \in CallRecords /\ read.state = "running" /\ read.kind = "stream"
  <2>1. over \in CallRecords /\ over.state = "over" /\ over.kind = "stream" /\ over.chunks = modelCalls[i].chunks
    BY <1>1, <1>2 DEF CallRecords
  <2>2. closed \in CallRecords /\ closed.state = "over" /\ closed.kind = "stream" /\ closed.chunks = modelCalls[i].chunks
    BY <1>1, <1>2 DEF CallRecords
  <2>3. PICK n \in Nat : modelCalls[i].chunks = n
    BY <1>1 DEF CallRecords
  <2>4. read = [modelCalls[i] EXCEPT !.state = "running", !.chunks = n + 1] /\ n + 1 \in Nat
    BY <1>1, <2>3 DEF CallRecords
  <2>5. read \in CallRecords /\ read.state = "running" /\ read.kind = "stream"
    BY <1>1, <1>2, <2>4 DEF CallRecords
  <2> QED
    BY <2>1, <2>2, <2>5
<1>5. CASE Calls!Chunk(i)
  <2>1. modelCalls' = [modelCalls EXCEPT ![i] = read] /\ events' = events
    BY <1>5 DEF Calls!Chunk
  <2> HIDE DEF read
  <2>2. Silent(i, read)
    BY <1>2, <1>4, <2>1 DEF Silent, Changes, Telling, CallSound
  <2> QED
    BY <2>2 DEF Moves
<1>6. ASSUME NEW c \in {over, closed}, modelCalls' = [modelCalls EXCEPT ![i] = c],
             events' = Append(events, e) \/ (events' = events /\ modelCalls[i].state = "fresh")
      PROVE  Moves
  <2> c \in CallRecords /\ c.state = "over" /\ c.kind = "stream" /\ c.chunks = modelCalls[i].chunks
    BY <1>4
  <2> HIDE DEF e, over, closed
  <2>1. Tells(i, c, e) \/ Silent(i, c)
    BY <1>1, <1>2, <1>3, <1>6 DEF Tells, Silent, Changes, Telling, CallSound, CallRecords
  <2> QED
    BY <2>1 DEF Moves
<1>7. CASE \E how \in {"exhausted", "raises"} : Calls!End(i, how)
  <2>1. modelCalls' = [modelCalls EXCEPT ![i] = closed] /\ events' = Append(events, Calls!ByParameter(i))
    BY <1>1, <1>7 DEF Calls!End, CallRecords, CallsTyped
  <2> QED
    BY <1>3, <1>6, <2>1
<1>8. \A how : Calls!Finally(i, how) = IF modelCalls[i].state = "running" THEN Append(events, e) ELSE events
  BY <1>3 DEF Calls!Finally
<1>9. CASE Calls!Drop(i)
  <2>1. modelCalls' = [modelCalls EXCEPT ![i] = over] /\ events' = Calls!Finally(i, "dropped")
    BY <1>9 DEF Calls!Drop, Calls!Over
  <2> QED
    BY <1>2, <1>6, <1>8, <2>1
<1>10. CASE Calls!CloseWrapper(i) \/ Calls!CloseWrapperAsync(i)
  <2>1. modelCalls' = [modelCalls EXCEPT ![i] = closed] /\ events' = Calls!Finally(i, "closed")
    BY <1>1, <1>10 DEF Calls!CloseWrapper, Calls!CloseWrapperAsync, CallRecords, CallsTyped
  <2> QED
    BY <1>2, <1>6, <1>8, <2>1
<1> QED
  BY <1>5, <1>7, <1>9, <1>10 DEF Calls!Consume
(* Every step of Generations asks, changes a call, or only enters or       *)
(* leaves a context.                                                       *)
LEMMA CallsStep == ASSUME CallsInv, Calls!Next PROVE CallsInv'
<1>1. CallsTyped /\ CallsSound
  BY DEF CallsInv
<1>2. CASE Calls!EnterContext \/ Calls!LeaveContext
  <2>1. Keeps
    BY <1>2 DEF Calls!EnterContext, Calls!LeaveContext, Keeps
  <2> QED
    BY <2>1 DEF Keeps, CallsInv, CallsTyped, CallsSound, EventsSound, EventsOfOver, EventsOnce, TellingTold, ToldOf
<1>3. CASE Asking
  <2>1. PICK c : Asks(c)
    BY <1>1, <1>3, AskingAsks
  <2> QED
    BY <2>1, AsksKeepsCalls
<1>4. ASSUME Moves PROVE CallsInv'
  <2>1. PICK i, c : Silent(i, c) \/ \E e : Tells(i, c, e)
    BY <1>4 DEF Moves
  <2>2. CASE Silent(i, c)
    BY <2>2, SilentKeepsCalls
  <2>3. ASSUME NEW e, Tells(i, c, e) PROVE CallsInv'
    BY <2>3, TellsKeepsCalls
  <2> QED
    BY <2>1, <2>2, <2>3
<1>5. CASE \E i \in DOMAIN modelCalls, ends \in {"answers", "raises", "cancelled"} : Calls!Answer(i, ends)
  BY <1>1, <1>4, <1>5, AnswerMoves
<1>6. CASE \E api \in Apis, async \in BOOLEAN : Calls!Generator(api, async)
  <2>1. PICK i \in DOMAIN modelCalls : Calls!Consume(i) /\ UNCHANGED person
    BY <1>6 DEF Calls!Generator
  <2> QED
    BY <1>1, <1>4, <2>1, StreamMoves
<1>7. CASE Calls!Close
  <2>1. PICK i \in DOMAIN modelCalls : (Calls!CloseWrapper(i) \/ Calls!CloseWrapperAsync(i)) /\ UNCHANGED person
    BY <1>7 DEF Calls!Close
  <2> QED
    BY <1>1, <1>4, <2>1, StreamMoves
<1>8. CASE Generating
  BY <1>6, <1>8 DEF Generating, Apis, Calls!ResponsesStreaming, Calls!ChatStreaming, Calls!MessagesStreaming,
    Calls!ContentsStreaming, Calls!ResponsesStreamingAsync, Calls!ChatStreamingAsync, Calls!MessagesStreamingAsync,
    Calls!ContentsStreamingAsync
<1> QED
  BY <1>2, <1>3, <1>5, <1>7, <1>8 DEF Calls!Next, Asking, Generating

LEMMA CallsStutter == ASSUME CallsInv, UNCHANGED <<person, modelCalls, events>> PROVE CallsInv'
  BY DEF CallsInv, CallsTyped, CallsSound, EventsSound, EventsOfOver, EventsOnce, TellingTold, ToldOf

LEMMA CallsStart == Calls!Init => CallsInv
<1> SUFFICES ASSUME Calls!Init PROVE CallsInv
  OBVIOUS
<1>1. person = "none" /\ modelCalls = <<>> /\ events = <<>>
  BY DEF Calls!Init
<1>2. CallsTyped
  BY <1>1 DEF CallsTyped
<1>3. DOMAIN modelCalls = {} /\ DOMAIN events = {}
  BY <1>1
<1> QED
  BY <1>2, <1>3 DEF CallsInv, CallsSound, EventsSound, EventsOfOver, EventsOnce, TellingTold

(* What the invariant says of the events of a call.                        *)
LEMMA CallsTold == CallsInv => Calls!OneEventEach /\ Calls!PersonNamed
<1> SUFFICES ASSUME CallsInv PROVE Calls!OneEventEach /\ Calls!PersonNamed
  OBVIOUS
<1>1. Calls!PersonNamed
  BY DEF CallsInv, EventsSound, EventSound, Calls!PersonNamed
<1>2. ASSUME NEW i \in DOMAIN modelCalls
      PROVE  /\ Cardinality(Calls!EventsOf(i)) <= (IF modelCalls[i].state = "over" THEN 1 ELSE 0)
             /\ modelCalls[i].state = "over" /\ (modelCalls[i].kind = "tracked" \/ modelCalls[i].chunks > 0)
                  => Calls!EventsOf(i) # {}
  <2>1. Telling(modelCalls[i]) => Calls!EventsOf(i) # {}
    BY DEF CallsInv, TellingTold, ToldOf, Calls!EventsOf
  <2>2. CASE Calls!EventsOf(i) = {}
    <3>1. Cardinality(Calls!EventsOf(i)) = 0
      BY <2>2, FS_EmptySet
    <3> QED
      BY <2>1, <2>2, <3>1 DEF Telling
  <2>3. CASE Calls!EventsOf(i) # {}
    <3>1. PICK k \in DOMAIN events : events[k].call = i
      BY <2>3 DEF Calls!EventsOf
    <3>2. Calls!EventsOf(i) = {k}
      BY <3>1 DEF Calls!EventsOf, CallsInv, EventsOnce
    <3>3. Cardinality({k}) = 1
      BY FS_Singleton
    <3>4. modelCalls[i].state = "over"
      BY <3>1 DEF CallsInv, EventsOfOver
    <3> QED
      BY <2>3, <3>2, <3>3, <3>4
  <2> QED
    BY <2>2, <2>3
<1>3. \A S : Calls!Cardinality(S) = Cardinality(S)
  BY DEF Calls!Cardinality, Cardinality
<1>4. Calls!OneEventEach
  BY <1>2, <1>3 DEF Calls!OneEventEach, Calls!EventsOf
<1> QED
  BY <1>1, <1>4
------------------------------------------------------------------------------
(* Traces of the Agents SDK.  What is remembered is a sequence, oldest     *)
(* first, in which nothing is twice.                                       *)
Has(kept, x) == \E i \in DOMAIN kept : kept[i] = x
Distinct(kept) == \A i, j \in DOMAIN kept : kept[i] = kept[j] => i = j
Of(kept, S) == kept \in Seq(S) /\ Distinct(kept)

LEMMA PartOf ==
  ASSUME NEW S, NEW s \in Seq(S), NEW a \in Nat, a >= 1, NEW b \in Nat, b <= Len(s), a <= b + 1, NEW t, t = SubSeq(s, a, b)
  PROVE  t \in Seq(S) /\ Len(t) = b - a + 1 /\ \A i \in 1 .. b - a + 1 : t[i] = s[a + i - 1]
<1>1. Len(s) \in Nat /\ DOMAIN s = 1 .. Len(s) /\ \A i \in 1 .. Len(s) : s[i] \in S
  OBVIOUS
<1>2. \A i \in a .. b : s[i] \in S
  BY <1>1
<1>3. /\ SubSeq(s, a, b) \in Seq(S) /\ Len(SubSeq(s, a, b)) = (IF a <= b THEN b - a + 1 ELSE 0)
      /\ \A i \in 1 .. b - a + 1 : SubSeq(s, a, b)[i] = s[a + i - 1]
  BY <1>2, SubSeqProperties
<1> QED
  BY <1>1, <1>3

LEMMA HasIsTracked == \A kept, x : A!Tracked(x, kept) <=> Has(kept, x)
  BY DEF A!Tracked, A!ToSet, Has

(* There is no more of it than there is to remember.                       *)
LEMMA NoMoreThanThereIs ==
  ASSUME NEW S, IsFiniteSet(S), NEW kept, Of(kept, S)
  PROVE  Len(kept) <= Cardinality(S) /\ Cardinality(S) \in Nat
<1>1. kept \in [1 .. Len(kept) -> S] /\ Len(kept) \in Nat
  BY DEF Of
<1>2. kept \in Injection(1 .. Len(kept), S)
  BY <1>1 DEF Of, Distinct, Injection, IsInjective
<1>3. Cardinality(1 .. Len(kept)) <= Cardinality(S)
  BY <1>2, FS_Injection
<1>4. Cardinality(1 .. Len(kept)) = Len(kept)
  <2>1. Cardinality(1 .. Len(kept)) = IF 1 > Len(kept) THEN 0 ELSE Len(kept) - 1 + 1
    BY <1>1, FS_Interval
  <2> QED
    BY <1>1, <2>1
<1> QED
  BY <1>3, <1>4, FS_CardinalityType

(* Eviction happens above the limit, makes room and keeps the rest as it   *)
(* was.                                                                    *)
LEMMA Evicting ==
  ASSUME NEW S, NEW kept, Of(kept, S), Len(kept) <= MaxTracked + 1, NEW left, left = A!Evicted(kept)
  PROVE  /\ Of(left, S) /\ Len(left) <= MaxTracked
         /\ \A x : Has(left, x) => Has(kept, x)
         /\ Len(kept) <= MaxTracked => left = kept
<1>1. MaxTracked \in Nat /\ MaxTracked >= 1
  BY ObservationAssumption
<1>2. PICK n \in Nat : n = Len(kept)
  BY DEF Of
<1>3. CASE n <= MaxTracked
  BY <1>1, <1>2, <1>3 DEF A!Evicted
<1>4. CASE n > MaxTracked
  <2>1. n = MaxTracked + 1 /\ n \div 2 \in Nat /\ n \div 2 >= 1 /\ n \div 2 <= n
    BY <1>1, <1>2, <1>4
  <2>2. PICK m \in Nat : m = n \div 2
    BY <2>1
  <2>3. left = SubSeq(kept, m + 1, n)
    BY <1>1, <1>2, <1>4, <2>2 DEF A!Evicted
  <2>4. /\ left \in Seq(S) /\ Len(left) = n - m
        /\ \A i \in 1 .. (n - m) : left[i] = kept[m + i]
    <3>1. /\ left \in Seq(S) /\ Len(left) = n - (m + 1) + 1
          /\ \A i \in 1 .. n - (m + 1) + 1 : left[i] = kept[m + 1 + i - 1]
      <4>1. kept \in Seq(S) /\ m + 1 \in Nat /\ m + 1 >= 1 /\ n <= Len(kept) /\ m + 1 <= n + 1
        BY <1>2, <2>1, <2>2 DEF Of
      <4> QED
        BY <2>3, <4>1, PartOf
    <3>2. n - (m + 1) + 1 = n - m /\ \A i \in Int : m + 1 + i - 1 = m + i
      OBVIOUS
    <3> QED
      BY <3>1, <3>2
  <2>5. \A i \in DOMAIN left : m + i \in DOMAIN kept /\ left[i] = kept[m + i] /\ i \in Nat
    BY <1>2, <2>4 DEF Of
  <2>6. Distinct(left)
    BY <2>2, <2>5 DEF Distinct, Of
  <2> QED
    BY <1>1, <1>2, <1>4, <2>1, <2>2, <2>4, <2>5, <2>6 DEF Of, Has
<1> QED
  BY <1>1, <1>2, <1>3, <1>4

(* What is forgotten is all that goes.                                     *)
LEMMA Forgetting ==
  ASSUME NEW S, NEW kept, Of(kept, S), NEW x, NEW left, left = A!Forget(x, kept)
  PROVE  /\ Of(left, S) /\ Len(left) <= Len(kept)
         /\ \A y : Has(left, y) <=> Has(kept, y) /\ y # x
<1>1. CASE ~Has(kept, x)
  BY <1>1, HasIsTracked DEF A!Forget, Of, Has
<1>2. CASE Has(kept, x)
  <2>1. PICK n \in Nat : n = Len(kept)
    BY DEF Of
  <2> DEFINE k == CHOOSE i \in DOMAIN kept : kept[i] = x
  <2>2. k \in 1 .. n /\ kept[k] = x
    BY <1>2, <2>1 DEF Has, Of
  <2>3. left = A!RemoveAt(kept, k)
    BY <1>2, HasIsTracked DEF A!Forget
  <2> HIDE DEF k
  <2>4. left = SubSeq(kept, 1, k - 1) \o SubSeq(kept, k + 1, n)
    BY <2>1, <2>3 DEF A!RemoveAt
  <2> DEFINE a == SubSeq(kept, 1, k - 1)  b == SubSeq(kept, k + 1, n)
  <2>5. a \in Seq(S) /\ Len(a) = k - 1 /\ \A i \in 1 .. (k - 1) : a[i] = kept[i]
    <3>1. /\ a \in Seq(S) /\ Len(a) = (k - 1) - 1 + 1
          /\ \A i \in 1 .. (k - 1) - 1 + 1 : a[i] = kept[1 + i - 1]
      <4> HIDE DEF a
      <4> QED
        BY <2>1, <2>2, PartOf DEF Of, a
    <3> HIDE DEF a
    <3> QED
      BY <2>1, <2>2, <3>1
  <2>6. b \in Seq(S) /\ Len(b) = n - k /\ \A i \in 1 .. (n - k) : b[i] = kept[k + i]
    <3>1. /\ b \in Seq(S) /\ Len(b) = n - (k + 1) + 1
          /\ \A i \in 1 .. n - (k + 1) + 1 : b[i] = kept[k + 1 + i - 1]
      <4> HIDE DEF b
      <4> QED
        BY <2>1, <2>2, PartOf DEF Of, b
    <3> HIDE DEF b
    <3> QED
      BY <2>1, <2>2, <3>1
  <2> HIDE DEF a, b
  <2>7. /\ left \in Seq(S) /\ Len(left) = n - 1
        /\ \A i \in 1 .. (n - 1) : left[i] = IF i <= k - 1 THEN a[i] ELSE b[i - (k - 1)]
    <3>1. left = a \o b
      BY <2>4 DEF a, b
    <3>2. /\ a \o b \in Seq(S) /\ Len(a \o b) = Len(a) + Len(b)
          /\ \A i \in 1 .. Len(a) + Len(b) : (a \o b)[i] = IF i <= Len(a) THEN a[i] ELSE b[i - Len(a)]
      BY <2>5, <2>6, ConcatProperties
    <3>3. Len(a) + Len(b) = n - 1
      BY <2>1, <2>2, <2>5, <2>6
    <3> QED
      BY <2>5, <3>1, <3>2, <3>3
  <2>8. ASSUME NEW i \in 1 .. (n - 1) PROVE left[i] = IF i <= k - 1 THEN kept[i] ELSE kept[i + 1]
    <3>1. CASE i <= k - 1
      BY <2>2, <2>5, <2>7, <3>1
    <3>2. CASE ~(i <= k - 1)
      <4>1. i - (k - 1) \in 1 .. (n - k) /\ k + (i - (k - 1)) = i + 1
        BY <2>1, <2>2, <3>2
      <4> QED
        BY <2>6, <2>7, <3>2, <4>1
    <3> QED
      BY <3>1, <3>2
  <2>9. DOMAIN left = 1 .. (n - 1) /\ DOMAIN kept = 1 .. n
    BY <2>1, <2>2, <2>7 DEF Of
  <2>10. Distinct(left)
    <3> SUFFICES ASSUME NEW i \in 1 .. (n - 1), NEW j \in 1 .. (n - 1), left[i] = left[j] PROVE i = j
      BY <2>9 DEF Distinct
    <3>1. ASSUME NEW h \in 1 .. (n - 1)
          PROVE  \E f \in 1 .. n : left[h] = kept[f] /\ ((f = h /\ h <= k - 1) \/ (f = h + 1 /\ h > k - 1))
      <4>1. h \in 1 .. n /\ h + 1 \in 1 .. n
        BY <2>1
      <4> QED
        BY <2>2, <2>8, <4>1
    <3>2. PICK f \in 1 .. n : left[i] = kept[f] /\ ((f = i /\ i <= k - 1) \/ (f = i + 1 /\ i > k - 1))
      BY <3>1
    <3>3. PICK g \in 1 .. n : left[j] = kept[g] /\ ((g = j /\ j <= k - 1) \/ (g = j + 1 /\ j > k - 1))
      BY <3>1
    <3>4. f = g
      BY <2>9, <3>2, <3>3 DEF Distinct, Of
    <3> QED
      BY <2>2, <3>2, <3>3, <3>4
  <2>11. ASSUME NEW y, Has(kept, y), y # x PROVE Has(left, y)
    <3>1. PICK i \in 1 .. n : kept[i] = y
      BY <2>9, <2>11 DEF Has
    <3>2. CASE i < k
      <4>1. i \in 1 .. (n - 1) /\ left[i] = y
        BY <2>1, <2>2, <2>8, <3>1, <3>2
      <4> QED
        BY <2>9, <4>1 DEF Has
    <3>3. CASE i > k
      <4>1. i - 1 \in 1 .. (n - 1) /\ left[i - 1] = y
        BY <2>1, <2>2, <2>8, <3>1, <3>3
      <4> QED
        BY <2>9, <4>1 DEF Has
    <3> QED
      BY <2>2, <2>11, <3>1, <3>2, <3>3
  <2>12. ASSUME NEW y, Has(left, y) PROVE Has(kept, y) /\ y # x
    <3>1. PICK i \in 1 .. (n - 1) : left[i] = y
      BY <2>9, <2>12 DEF Has
    <3>2. \E j \in 1 .. n : j # k /\ kept[j] = y
      BY <2>1, <2>2, <2>8, <3>1
    <3> QED
      BY <2>2, <2>9, <3>2 DEF Has, Distinct, Of
  <2> QED
    BY <2>1, <2>2, <2>7, <2>10, <2>11, <2>12 DEF Of
<1> QED
  BY <1>1, <1>2

(* What is remembered next is remembered with the rest.                    *)
LEMMA Remembering ==
  ASSUME NEW S, NEW kept, Of(kept, S), NEW x \in S, ~Has(kept, x), NEW more, more = Append(kept, x)
  PROVE  /\ Of(more, S) /\ Len(more) = Len(kept) + 1
         /\ \A y : Has(more, y) <=> Has(kept, y) \/ y = x
<1>1. /\ more \in Seq(S) /\ Len(more) = Len(kept) + 1 /\ more[Len(kept) + 1] = x
      /\ Len(kept) + 1 \in DOMAIN more
      /\ \A i \in DOMAIN kept : i \in DOMAIN more /\ more[i] = kept[i]
      /\ \A i \in DOMAIN more : i \in DOMAIN kept \/ i = Len(kept) + 1
  BY AppendProperties DEF Of
<1>2. Distinct(more)
  BY <1>1 DEF Distinct, Of, Has
<1> QED
  BY <1>1, <1>2 DEF Of, Has
\* The types of what the processor is told of and what it has told.
Open(t) == traces[t] = "open"
SpanTold(e) ==
  /\ e.during \in BOOLEAN /\ e.measured \in BOOLEAN /\ e.grouped \in BOOLEAN
  /\ (~crowded /\ e.during) => e.measured /\ e.grouped /\ (e.personless <=> A!GetDistinctId(e.trace) = "none")
  /\ private => e.tells \cap {"input", "output", "data"} = {}
TracesTyped ==
  /\ crowded \in BOOLEAN /\ private \in BOOLEAN
  /\ traces \in [Traces -> {"new", "open", "over"}]
  /\ spans \in [Spans -> [state : {"new", "open", "over"}, trace : Traces \cup {"none"}]]
  /\ \A s \in Spans : spans[s].state = "open" => spans[s].trace \in Traces
Remembered(kept, S, Going(_)) ==
  /\ Of(kept, S) /\ Len(kept) <= MaxTracked + 1
  /\ \A x \in S : Has(kept, x) => Going(x)
  /\ ~crowded => \A x \in S : Going(x) => Has(kept, x)
SpanOpen(s) == spans[s].state = "open"
SpansRemembered == Remembered(spanStartTimes, Spans, SpanOpen)
TracesRemembered == Remembered(traceMetadata, Traces, Open)
TracesInv == TracesTyped /\ SpansRemembered /\ TracesRemembered /\ \A e \in events : SpanTold(e)

(* Whatever is evicted, there was more of it than is tracked.              *)
LEMMA EvictsInACrowd ==
  ASSUME TracesInv
  PROVE  /\ Len(spanStartTimes) > MaxTracked => A!Crowd
         /\ Len(traceMetadata) > MaxTracked => A!Crowd
<1>1. /\ Of(spanStartTimes, A!OpenSpans) /\ IsFiniteSet(A!OpenSpans)
      /\ Of(traceMetadata, A!OpenTraces) /\ IsFiniteSet(A!OpenTraces)
  <2>1. A!OpenSpans \in SUBSET Spans /\ A!OpenTraces \in SUBSET Traces
    BY DEF A!OpenSpans, A!OpenTraces
  <2>2. IsFiniteSet(A!OpenSpans) /\ IsFiniteSet(A!OpenTraces)
    BY <2>1, FS_Subset, ObservationAssumption
  <2>3. \A i \in DOMAIN spanStartTimes : spanStartTimes[i] \in A!OpenSpans
    BY DEF TracesInv, SpansRemembered, Remembered, SpanOpen, Of, Has, A!OpenSpans
  <2>4. \A i \in DOMAIN traceMetadata : traceMetadata[i] \in A!OpenTraces
    BY DEF TracesInv, TracesRemembered, Remembered, Open, Of, Has, A!OpenTraces
  <2>5. spanStartTimes \in Seq(A!OpenSpans) /\ traceMetadata \in Seq(A!OpenTraces)
    BY <2>3, <2>4 DEF TracesInv, SpansRemembered, TracesRemembered, Remembered, Of
  <2> QED
    BY <2>2, <2>5 DEF TracesInv, SpansRemembered, TracesRemembered, Remembered, Of
<1>2. /\ Len(spanStartTimes) <= Cardinality(A!OpenSpans) /\ Cardinality(A!OpenSpans) \in Nat
      /\ Len(traceMetadata) <= Cardinality(A!OpenTraces) /\ Cardinality(A!OpenTraces) \in Nat
  BY <1>1, NoMoreThanThereIs
<1>3. \A S : A!Cardinality(S) = Cardinality(S)
  BY DEF A!Cardinality, Cardinality
<1>4. Len(spanStartTimes) \in Nat /\ Len(traceMetadata) \in Nat /\ MaxTracked \in Nat
  BY <1>1, ObservationAssumption DEF Of
<1>5. A!Crowd <=> Cardinality(A!OpenSpans) > MaxTracked \/ Cardinality(A!OpenTraces) > MaxTracked
  BY <1>3 DEF A!Crowd
<1> QED
  BY <1>2, <1>4, <1>5
(* A trace starts: both dictionaries may lose their older half.            *)
LEMMA TraceStarts == ASSUME TracesInv, NEW t \in Traces, A!OnTraceStart(t) PROVE TracesInv'
<1> USE DEF TracesInv
<1>1. /\ traces[t] = "new" /\ traces' = [traces EXCEPT ![t] = "open"] /\ crowded' = (crowded \/ A!Crowd)
      /\ UNCHANGED <<by, private, spans, events>>
  BY DEF A!OnTraceStart
<1>2. TracesTyped'
  <2>1. crowded' \in BOOLEAN
    BY <1>1, Zenon DEF TracesTyped
  <2> QED
    BY <1>1, <2>1 DEF TracesTyped
<1>3. ~crowded' => ~crowded /\ Len(spanStartTimes) <= MaxTracked /\ Len(traceMetadata) <= MaxTracked
  <2>1. Len(spanStartTimes) \in Nat /\ Len(traceMetadata) \in Nat /\ MaxTracked \in Nat
    BY ObservationAssumption DEF SpansRemembered, TracesRemembered, Remembered, Of
  <2>2. ~crowded' => ~crowded /\ ~A!Crowd
    BY <1>1, Zenon
  <2> QED
    BY <2>1, <2>2, EvictsInACrowd
<1>4. SpansRemembered'
  <2>1. spanStartTimes' = A!Evicted(spanStartTimes)
    BY DEF A!OnTraceStart
  <2>2. /\ Of(spanStartTimes', Spans) /\ Len(spanStartTimes') <= MaxTracked
        /\ \A x : Has(spanStartTimes', x) => Has(spanStartTimes, x)
        /\ Len(spanStartTimes) <= MaxTracked => spanStartTimes' = spanStartTimes
    BY <2>1, Evicting DEF SpansRemembered, Remembered
  <2>3. Len(spanStartTimes') <= MaxTracked + 1
    BY <2>2, ObservationAssumption DEF Of
  <2> QED
    BY <1>1, <1>3, <2>2, <2>3 DEF SpansRemembered, Remembered, SpanOpen
<1>5. TracesRemembered'
  <2> DEFINE left == A!Evicted(traceMetadata)
  <2>1. traceMetadata' = Append(left, t)
    BY DEF A!OnTraceStart
  <2>2. /\ Of(left, Traces) /\ Len(left) <= MaxTracked
        /\ \A x : Has(left, x) => Has(traceMetadata, x)
        /\ Len(traceMetadata) <= MaxTracked => left = traceMetadata
    BY Evicting DEF TracesRemembered, Remembered
  <2> HIDE DEF left
  <2>3. ~Has(left, t)
    BY <1>1, <2>2 DEF TracesRemembered, Remembered, Open
  <2>4. /\ Of(traceMetadata', Traces) /\ Len(traceMetadata') = Len(left) + 1
        /\ \A y : Has(traceMetadata', y) <=> Has(left, y) \/ y = t
    BY <2>1, <2>2, <2>3, Remembering
  <2>5. Len(traceMetadata') <= MaxTracked + 1
    BY <2>2, <2>4, ObservationAssumption DEF Of
  <2>6. \A x \in Traces : Open(x)' <=> Open(x) \/ x = t
    BY <1>1 DEF Open, TracesTyped
  <2> QED
    BY <1>3, <2>2, <2>4, <2>5, <2>6 DEF TracesRemembered, Remembered
<1>6. (\A e \in events : SpanTold(e))'
  BY <1>1, <1>3 DEF SpanTold, A!GetDistinctId
<1> QED
  BY <1>2, <1>4, <1>5, <1>6

(* A span starts, in a trace that goes on.                                 *)
LEMMA SpanStarts == ASSUME TracesInv, NEW s \in Spans, NEW t \in Traces, A!OnSpanStart(s, t) PROVE TracesInv'
<1> USE DEF TracesInv
<1>1. /\ spans[s].state = "new" /\ spans' = [spans EXCEPT ![s] = [state |-> "open", trace |-> t]]
      /\ crowded' = (crowded \/ A!Crowd) /\ UNCHANGED <<by, private, traces, events>>
  BY DEF A!OnSpanStart
<1>2. TracesTyped'
  <2>1. crowded' \in BOOLEAN
    BY <1>1, Zenon DEF TracesTyped
  <2> QED
    BY <1>1, <2>1 DEF TracesTyped
<1>3. ~crowded' => ~crowded /\ Len(spanStartTimes) <= MaxTracked /\ Len(traceMetadata) <= MaxTracked
  <2>1. Len(spanStartTimes) \in Nat /\ Len(traceMetadata) \in Nat /\ MaxTracked \in Nat
    BY ObservationAssumption DEF SpansRemembered, TracesRemembered, Remembered, Of
  <2>2. ~crowded' => ~crowded /\ ~A!Crowd
    BY <1>1, Zenon
  <2> QED
    BY <2>1, <2>2, EvictsInACrowd
<1>4. TracesRemembered'
  <2>1. traceMetadata' = A!Evicted(traceMetadata)
    BY DEF A!OnSpanStart
  <2>2. /\ Of(traceMetadata', Traces) /\ Len(traceMetadata') <= MaxTracked
        /\ \A x : Has(traceMetadata', x) => Has(traceMetadata, x)
        /\ Len(traceMetadata) <= MaxTracked => traceMetadata' = traceMetadata
    BY <2>1, Evicting DEF TracesRemembered, Remembered
  <2>3. Len(traceMetadata') <= MaxTracked + 1
    BY <2>2, ObservationAssumption DEF Of
  <2> QED
    BY <1>1, <1>3, <2>2, <2>3 DEF TracesRemembered, Remembered, Open
<1>5. SpansRemembered'
  <2> DEFINE left == A!Evicted(spanStartTimes)
  <2>1. spanStartTimes' = Append(left, s)
    BY DEF A!OnSpanStart
  <2>2. /\ Of(left, Spans) /\ Len(left) <= MaxTracked
        /\ \A x : Has(left, x) => Has(spanStartTimes, x)
        /\ Len(spanStartTimes) <= MaxTracked => left = spanStartTimes
    BY Evicting DEF SpansRemembered, Remembered
  <2> HIDE DEF left
  <2>3. ~Has(left, s)
    BY <1>1, <2>2 DEF SpansRemembered, Remembered, SpanOpen
  <2>4. /\ Of(spanStartTimes', Spans) /\ Len(spanStartTimes') = Len(left) + 1
        /\ \A y : Has(spanStartTimes', y) <=> Has(left, y) \/ y = s
    BY <2>1, <2>2, <2>3, Remembering
  <2>5. Len(spanStartTimes') <= MaxTracked + 1
    BY <2>2, <2>4, ObservationAssumption DEF Of
  <2>6. \A x \in Spans : SpanOpen(x)' <=> SpanOpen(x) \/ x = s
    BY <1>1 DEF SpanOpen, TracesTyped
  <2> QED
    BY <1>3, <2>2, <2>4, <2>5, <2>6 DEF SpansRemembered, Remembered
<1>6. (\A e \in events : SpanTold(e))'
  BY <1>1, <1>3 DEF SpanTold, A!GetDistinctId
<1> QED
  BY <1>2, <1>4, <1>5, <1>6

(* No handler counts what was said as plain.                               *)
LEMMA NothingSaidIsPlain ==
  ASSUME NEW kind \in DOMAIN A!HandlerOf
  PROVE  A!HandlerOf[kind].plain \cap {"input", "output", "data"} = {}
<1>1. kind \in {"generation", "response", "function", "agent", "handoff", "guardrail", "custom", "audio", "mcp", "generic"}
  BY DEF A!HandlerOf
<1> USE DEF A!HandlerOf, A!Handler
<1>2. CASE kind \in {"generation", "response", "function"}
  BY <1>2 DEF A!HandleGenerationSpan, A!HandleResponseSpan, A!HandleFunctionSpan
<1>3. CASE kind \in {"agent", "handoff", "guardrail"}
  BY <1>3 DEF A!HandleAgentSpan, A!HandleHandoffSpan, A!HandleGuardrailSpan
<1>4. CASE kind \in {"custom", "audio", "mcp", "generic"}
  BY <1>4 DEF A!HandleCustomSpan, A!HandleAudioSpan, A!HandleMcpSpan, A!HandleGenericSpan
<1> QED
  BY <1>1, <1>2, <1>3, <1>4
(* A span ends: while its trace goes on, both are remembered.              *)
LEMMA SpanEnds == ASSUME TracesInv, NEW s \in Spans, A!OnSpanEnd(s) PROVE TracesInv'
<1> USE DEF TracesInv
<1> DEFINE handler == A!HandlerOf[KindOf[s]]
           t == spans[s].trace
           e == [A!BaseProperties(s, A!SpanPerson(t)) EXCEPT !.event = handler.event, !.tells = A!WithPrivacyMode(handler)]
<1>1. /\ spans[s].state = "open" /\ spans' = [spans EXCEPT ![s].state = "over"]
      /\ spanStartTimes' = A!Forget(s, spanStartTimes)
      /\ UNCHANGED <<by, private, traces, traceMetadata, crowded>>
  BY DEF A!OnSpanEnd
<1>2. /\ events' = events \cup {e}
      /\ e.during = (traces[t] = "open") /\ e.trace = t /\ e.tells = A!WithPrivacyMode(handler)
      /\ e.personless = (A!SpanPerson(t) = "none")
      /\ e.measured = A!Tracked(s, spanStartTimes) /\ e.grouped = A!Tracked(t, traceMetadata)
  <2>1. events' = events \cup {e}
    BY DEF A!OnSpanEnd
  <2> HIDE DEF handler, t
  <2> QED
    BY <2>1 DEF A!BaseProperties, t
<1> HIDE DEF e
<1>3. TracesTyped'
  BY <1>1 DEF TracesTyped
<1>4. SpansRemembered'
  <2>1. /\ Of(spanStartTimes', Spans) /\ Len(spanStartTimes') <= Len(spanStartTimes)
        /\ \A y : Has(spanStartTimes', y) <=> Has(spanStartTimes, y) /\ y # s
    BY <1>1, Forgetting DEF SpansRemembered, Remembered
  <2>2. Len(spanStartTimes') <= MaxTracked + 1
    BY <2>1, ObservationAssumption DEF SpansRemembered, Remembered, Of
  <2>3. \A x \in Spans : SpanOpen(x)' <=> SpanOpen(x) /\ x # s
    BY <1>1 DEF SpanOpen, TracesTyped
  <2> QED
    BY <1>1, <2>1, <2>2, <2>3 DEF SpansRemembered, Remembered
<1>5. TracesRemembered'
  BY <1>1 DEF TracesRemembered, Remembered, Open
<1>6. t \in Traces /\ KindOf[s] \in DOMAIN A!HandlerOf
  BY <1>1, ObservationAssumption DEF TracesTyped
<1>7. e.during \in BOOLEAN /\ e.measured \in BOOLEAN /\ e.grouped \in BOOLEAN
  BY <1>2 DEF A!Tracked
<1>8. (~crowded /\ e.during) => e.measured /\ e.grouped /\ (e.personless <=> A!GetDistinctId(e.trace) = "none")
  <2> SUFFICES ASSUME ~crowded, traces[t] = "open"
               PROVE  A!Tracked(s, spanStartTimes) /\ A!Tracked(t, traceMetadata) /\ A!SpanPerson(t) = A!GetDistinctId(t)
    BY <1>2
  <2>1. Has(spanStartTimes, s)
    BY <1>1 DEF SpansRemembered, Remembered, SpanOpen
  <2>2. Has(traceMetadata, t)
    BY <1>6 DEF TracesRemembered, Remembered, Open
  <2> QED
    BY <2>1, <2>2, HasIsTracked DEF A!SpanPerson
<1>9. private => e.tells \cap {"input", "output", "data"} = {}
  BY <1>2, <1>6, NothingSaidIsPlain DEF A!WithPrivacyMode
<1>10. SpanTold(e)
  BY <1>7, <1>8, <1>9 DEF SpanTold
<1>11. (\A d \in events : SpanTold(d))'
  <2>1. \A d : SpanTold(d)' <=> SpanTold(d)
    BY <1>1 DEF SpanTold, A!GetDistinctId
  <2> QED
    BY <1>2, <1>10, <2>1
<1> QED
  BY <1>3, <1>4, <1>5, <1>11

(* A trace ends, remembered until then.                                    *)
LEMMA TraceEnds == ASSUME TracesInv, NEW t \in Traces, A!OnTraceEnd(t) PROVE TracesInv'
<1> USE DEF TracesInv
<1> DEFINE e == [of |-> t, trace |-> t, during |-> TRUE, tells |-> {}, event |-> "trace",
                 id |-> IF A!GetDistinctId(t) = "none" THEN "trace" ELSE A!GetDistinctId(t),
                 personless |-> A!GetDistinctId(t) = "none",
                 measured |-> A!Tracked(t, traceMetadata), grouped |-> TRUE]
<1>1. /\ traces[t] = "open" /\ traces' = [traces EXCEPT ![t] = "over"]
      /\ traceMetadata' = A!Forget(t, traceMetadata)
      /\ UNCHANGED <<by, private, spans, spanStartTimes, crowded>>
      /\ events' = events \cup {e}
  BY DEF A!OnTraceEnd
<1>2. TracesTyped'
  BY <1>1 DEF TracesTyped
<1>3. TracesRemembered'
  <2>1. /\ Of(traceMetadata', Traces) /\ Len(traceMetadata') <= Len(traceMetadata)
        /\ \A y : Has(traceMetadata', y) <=> Has(traceMetadata, y) /\ y # t
    BY <1>1, Forgetting DEF TracesRemembered, Remembered
  <2>2. Len(traceMetadata') <= MaxTracked + 1
    BY <2>1, ObservationAssumption DEF TracesRemembered, Remembered, Of
  <2>3. \A x \in Traces : Open(x)' <=> Open(x) /\ x # t
    BY <1>1 DEF Open, TracesTyped
  <2> QED
    BY <1>1, <2>1, <2>2, <2>3 DEF TracesRemembered, Remembered
<1>4. SpansRemembered'
  BY <1>1 DEF SpansRemembered, Remembered, SpanOpen
<1>5. ~crowded => A!Tracked(t, traceMetadata)
  BY <1>1, HasIsTracked DEF TracesRemembered, Remembered, Open
<1>6. SpanTold(e)
  <2>1. e.during = TRUE /\ e.grouped = TRUE /\ e.measured \in BOOLEAN
    BY DEF A!Tracked
  <2>2. ~crowded => e.measured
    BY <1>5
  <2>3. (e.personless <=> A!GetDistinctId(e.trace) = "none") /\ e.tells \cap {"input", "output", "data"} = {}
    OBVIOUS
  <2> HIDE DEF e
  <2> QED
    BY <2>1, <2>2, <2>3 DEF SpanTold
<1> HIDE DEF e
<1>7. (\A d \in events : SpanTold(d))'
  <2>1. \A d : SpanTold(d)' <=> SpanTold(d)
    BY <1>1 DEF SpanTold, A!GetDistinctId
  <2> QED
    BY <1>1, <1>6, <2>1
<1> QED
  BY <1>2, <1>3, <1>4, <1>7

LEMMA NothingRemembered == ASSUME NEW S PROVE Of(<<>>, S) /\ Len(<<>>) <= MaxTracked + 1 /\ \A x : ~Has(<<>>, x)
  BY ObservationAssumption DEF Of, Distinct, Has

(* Every step of AgentTraces keeps the invariant.                          *)
LEMMA TracesStep == ASSUME TracesInv, A!Next PROVE TracesInv'
<1>1. CASE A!Shutdown
  <2>1. TracesTyped' /\ crowded' = TRUE
    BY <1>1 DEF A!Shutdown, TracesInv, TracesTyped
  <2>2. SpansRemembered'
    BY <1>1, <2>1, NothingRemembered DEF A!Shutdown, SpansRemembered, Remembered
  <2>3. TracesRemembered'
    BY <1>1, <2>1, NothingRemembered DEF A!Shutdown, TracesRemembered, Remembered
  <2>4. (\A e \in events : SpanTold(e))'
    BY <1>1, <2>1 DEF A!Shutdown, TracesInv, SpanTold
  <2> QED
    BY <2>1, <2>2, <2>3, <2>4 DEF TracesInv
<1> QED
  BY <1>1, TraceStarts, TraceEnds, SpanStarts, SpanEnds DEF A!Next

LEMMA TracesStutter == ASSUME TracesInv, UNCHANGED <<events, traceVars>> PROVE TracesInv'
<1>1. TracesTyped' /\ SpansRemembered' /\ TracesRemembered'
  BY DEF TracesInv, traceVars, TracesTyped, SpansRemembered, TracesRemembered, Remembered, SpanOpen, Open
<1>2. \A e : SpanTold(e)' <=> SpanTold(e)
  BY DEF traceVars, SpanTold, A!GetDistinctId
<1> QED
  BY <1>1, <1>2 DEF TracesInv

LEMMA TracesStart == A!Init => TracesInv
<1> SUFFICES ASSUME A!Init PROVE TracesInv
  OBVIOUS
<1>1. TracesTyped
  BY ObservationAssumption DEF A!Init, TracesTyped
<1>2. SpansRemembered
  BY NothingRemembered DEF A!Init, SpansRemembered, Remembered, SpanOpen
<1>3. TracesRemembered
  BY NothingRemembered DEF A!Init, TracesRemembered, Remembered, Open
<1> QED
  BY <1>1, <1>2, <1>3 DEF TracesInv, A!Init

LEMMA TracesTold == TracesInv => A!RememberedWhileOpen /\ A!SaidInPrivate
  BY DEF TracesInv, SpansRemembered, TracesRemembered, Remembered, SpanTold, A!RememberedWhileOpen, A!SaidInPrivate
------------------------------------------------------------------------------
(* A query of the Claude Agent SDK.                                        *)
Inputs == {"nothing", "prompt", "result", "answer"} \X Nat
ModelCalls == [input : Inputs, prompt : Nat, tools : BOOLEAN, output : Nat]
QueryEvents == [is : {"generation"}, of : Nat, input : Inputs, output : Inputs, tokens : Nat]
               \cup [is : {"tool"}, of : Nat, parent : Nat] \cup [is : {"trace"}, of : Nat]
Tokens(c) == IF c.output = 0 THEN 1 ELSE c.output

QueryTyped ==
  /\ streamed \in BOOLEAN /\ order = "stop_last" /\ going \in {"idle", "between", "started", "answered", "disconnected"}
  /\ modelCalls \in Seq(ModelCalls) /\ events \in Seq(QueryEvents)
  /\ {due, currentInput, nextInput, pendingOutput} \subseteq Inputs
  /\ {prompts, current, lastSpan, lastOutput} \subseteq Nat

\* With stream events: the tracker is at the call that goes on, and knows the
\* input of the next.
Following ==
  LET n == Len(modelCalls) IN
  /\ going \in {"started", "answered"} =>
       /\ n >= 1 /\ current = n /\ modelCalls[n].input = currentInput /\ lastOutput = Tokens(modelCalls[n])
  /\ going = "started" => due = Q!Nothing
  /\ going = "answered" => pendingOutput = <<"answer", n>> /\ (due # Q!Nothing => nextInput = due)
  /\ going = "between" /\ due # Q!Nothing => currentInput = due
\* Without them: what is kept are the prompt and the last answer to it.
Watching ==
  LET n == Len(modelCalls) IN
  /\ current = 0 /\ lastSpan = 0 /\ going # "started"
  /\ n > 0 => pendingOutput = <<"answer", n>>
  /\ going = "between" => due # Q!Nothing
  /\ going \in {"between", "answered"} => prompts >= 1
  /\ going = "answered" => n >= 1 /\ modelCalls[n].prompt = prompts
  /\ prompts >= 1 => currentInput = <<"prompt", prompts>>
  /\ mode = "query" => prompts <= 1 /\ \A i \in DOMAIN modelCalls : modelCalls[i].prompt = 1

GenerationFine(e) ==
  IF streamed THEN /\ e.of \in DOMAIN modelCalls
                   /\ e.input = modelCalls[e.of].input /\ e.output = <<"answer", e.of>> /\ e.tokens = Tokens(modelCalls[e.of])
                   /\ going \in {"started", "answered"} => e.of # Len(modelCalls)
  ELSE \E n \in DOMAIN modelCalls : e.output = <<"answer", n>> /\ e.input = <<"prompt", modelCalls[n].prompt>>
ToolFine(e) == e.parent = IF streamed THEN e.of ELSE 0
EventFine(e) == (e.is = "generation" => GenerationFine(e)) /\ (e.is = "tool" => ToolFine(e))
Said(done) == {done[k] : k \in DOMAIN done}
EventsFine == \A e \in Said(events) : EventFine(e)
Once(done) ==
  \A j, k \in DOMAIN done : done[j].is = "generation" /\ done[k].is = "generation" /\ done[j].of = done[k].of => j = k
GenerationsOnce == streamed => Once(events)
QueryInv == /\ QueryTyped /\ (streamed => Following) /\ (~streamed => Watching)
            /\ EventsFine /\ GenerationsOnce

LEMMA Appended ==
  ASSUME NEW S, NEW s \in Seq(S), NEW x \in S, NEW t, t = Append(s, x)
  PROVE  /\ t \in Seq(S) /\ Len(t) = Len(s) + 1 /\ Len(s) \in Nat
         /\ DOMAIN t = DOMAIN s \cup {Len(s) + 1} /\ Len(s) + 1 \notin DOMAIN s
         /\ t[Len(s) + 1] = x /\ \A i \in DOMAIN s : t[i] = s[i]
  BY AppendProperties

(* A prompt is asked.                                                      *)
LEMMA QueryAsks == ASSUME QueryInv, Q!Same, Q!Query PROVE QueryInv'
<1> USE DEF QueryInv
<1>1. /\ going = "idle" /\ (mode = "query" => prompts = 0) /\ going' = "between"
      /\ prompts' = prompts + 1 /\ due' = <<"prompt", prompts + 1>> /\ currentInput' = <<"prompt", prompts + 1>>
      /\ UNCHANGED <<modelCalls, current, lastSpan, lastOutput, nextInput, pendingOutput, events, mode, streamed, order>>
  BY DEF Q!Query, Q!Same
<1>2. prompts \in Nat /\ prompts' \in Nat /\ prompts' >= 1 /\ due' \in Inputs /\ due' # Q!Nothing
  BY <1>1 DEF QueryTyped, Inputs, Q!Nothing
<1>3. QueryTyped'
  BY <1>1, <1>2 DEF QueryTyped
<1>4. streamed => Following'
  BY <1>1 DEF Following
<1>5. ~streamed => Watching'
  BY <1>1, <1>2 DEF Watching, Q!Nothing
<1>6. EventsFine' /\ GenerationsOnce'
  BY <1>1 DEF EventsFine, Said, EventFine, GenerationFine, ToolFine, GenerationsOnce, Once
<1> QED
  BY <1>1, <1>3, <1>4, <1>5, <1>6

(* A call of the model begins, of which nothing is reported.               *)
LEMMA QueryStarts == ASSUME QueryInv, Q!Same, Q!MessageStart PROVE QueryInv'
<1> USE DEF QueryInv
<1>1. /\ streamed /\ going = "between" /\ due # Q!Nothing /\ going' = "started" /\ due' = Q!Nothing
      /\ current' = Len(modelCalls) + 1 /\ lastOutput' = 1
      /\ UNCHANGED <<prompts, lastSpan, currentInput, nextInput, pendingOutput, events, mode, streamed, order>>
  BY DEF Q!MessageStart, Q!Same, Q!Going, Q!Number
<1>2. PICK tools \in BOOLEAN : modelCalls' = Append(modelCalls, [input |-> due, prompt |-> prompts, tools |-> tools, output |-> 0])
  BY DEF Q!MessageStart, Q!Call
<1> DEFINE c == [input |-> due, prompt |-> prompts, tools |-> tools, output |-> 0]
<1>3. c \in ModelCalls /\ c.input = due /\ Tokens(c) = 1
  BY DEF ModelCalls, QueryTyped, Tokens
<1> HIDE DEF c
<1>4. /\ modelCalls' \in Seq(ModelCalls) /\ Len(modelCalls') = Len(modelCalls) + 1 /\ Len(modelCalls) \in Nat
      /\ DOMAIN modelCalls' = DOMAIN modelCalls \cup {Len(modelCalls) + 1} /\ Len(modelCalls) + 1 \notin DOMAIN modelCalls
      /\ modelCalls'[Len(modelCalls) + 1] = c /\ \A i \in DOMAIN modelCalls : modelCalls'[i] = modelCalls[i]
  BY <1>2, <1>3, Appended DEF QueryTyped, c
<1>5. QueryTyped'
  BY <1>1, <1>4 DEF QueryTyped, Inputs, Q!Nothing
<1>6. Following'
  BY <1>1, <1>3, <1>4 DEF Following
<1>7. EventsFine'
  BY <1>1, <1>4 DEF EventsFine, Said, EventFine, GenerationFine, ToolFine
<1> QED
  BY <1>1, <1>5, <1>6, <1>7 DEF GenerationsOnce, Once

(* More tokens are put out.                                                *)
LEMMA QueryGoesOn == ASSUME QueryInv, Q!Same, Q!MessageDelta PROVE QueryInv'
<1> USE DEF QueryInv
<1> DEFINE n == Len(modelCalls)
<1>1. /\ streamed /\ going = "started" /\ n >= 1 /\ n \in DOMAIN modelCalls /\ n \in Nat
      /\ modelCalls' = [modelCalls EXCEPT ![n].output = @ + 1] /\ lastOutput' = modelCalls[n].output + 1
      /\ UNCHANGED <<due, going, prompts, current, lastSpan, currentInput, nextInput, pendingOutput, events, mode, streamed, order>>
  <2>1. current # 0 /\ going = "started"
    BY DEF Q!MessageDelta
  <2>2. streamed
    BY <2>1 DEF Watching, QueryTyped
  <2>3. n >= 1 /\ n \in Nat
    BY <2>1, <2>2 DEF Following, QueryTyped
  <2>4. n \in DOMAIN modelCalls
    BY <2>3 DEF QueryTyped
  <2>5. modelCalls' = [modelCalls EXCEPT ![n].output = @ + 1] /\ lastOutput' = modelCalls[n].output + 1
    BY DEF Q!MessageDelta, Q!Number
  <2>6. UNCHANGED <<due, going, prompts, current, lastSpan, currentInput, nextInput, pendingOutput, events, mode, streamed, order>>
    BY DEF Q!MessageDelta, Q!Same, Q!kept
  <2> HIDE DEF n
  <2> QED
    BY <2>1, <2>2, <2>3, <2>4, <2>5, <2>6
<1>2. PICK o \in Nat : modelCalls[n].output = o /\ modelCalls[n] \in ModelCalls
  <2>1. modelCalls[n] \in ModelCalls
    BY <1>1 DEF QueryTyped
  <2> HIDE DEF n
  <2> QED
    BY <2>1 DEF ModelCalls
<1> DEFINE c == [modelCalls[n] EXCEPT !.output = o + 1]
<1>3. c \in ModelCalls /\ c.input = modelCalls[n].input /\ c.output = o + 1
  BY <1>2 DEF ModelCalls
<1>4. modelCalls' = [modelCalls EXCEPT ![n] = c]
  BY <1>1, <1>2 DEF ModelCalls, QueryTyped
<1> HIDE DEF c
<1>5. /\ modelCalls' \in Seq(ModelCalls) /\ Len(modelCalls') = n /\ DOMAIN modelCalls' = DOMAIN modelCalls
      /\ modelCalls'[n] = c /\ \A i \in DOMAIN modelCalls : i # n => modelCalls'[i] = modelCalls[i]
  <2>1. modelCalls \in Seq(ModelCalls) /\ n \in 1 .. Len(modelCalls)
    BY <1>1 DEF QueryTyped
  <2> HIDE DEF n
  <2>2. /\ modelCalls' \in Seq(ModelCalls) /\ Len(modelCalls') = Len(modelCalls)
        /\ \A j \in 1 .. Len(modelCalls) : modelCalls'[j] = IF j = n THEN c ELSE modelCalls[j]
    BY <1>3, <1>4, <2>1, ExceptSeq
  <2>3. Len(modelCalls') = n
    BY <2>2 DEF n
  <2>4. DOMAIN modelCalls' = 1 .. Len(modelCalls) /\ DOMAIN modelCalls = 1 .. Len(modelCalls)
    BY <2>1, <2>2
  <2> QED
    BY <2>1, <2>2, <2>3, <2>4
<1>6. lastOutput' = o + 1 /\ o + 1 \in Nat /\ Tokens(c) = o + 1
  BY <1>1, <1>2, <1>3 DEF Tokens
<1> HIDE DEF n
<1>7. QueryTyped'
  BY <1>1, <1>5, <1>6 DEF QueryTyped
<1>8. Following'
  BY <1>1, <1>3, <1>5, <1>6 DEF Following, n
<1>9. EventsFine'
  BY <1>1, <1>5 DEF EventsFine, Said, EventFine, GenerationFine, ToolFine, n
<1> QED
  BY <1>1, <1>7, <1>8, <1>9 DEF GenerationsOnce, Once
(* One event more.                                                         *)
LEMMA OneMore ==
  ASSUME NEW done \in Seq(QueryEvents), NEW e \in QueryEvents, NEW more, more = Append(done, e)
  PROVE  /\ more \in Seq(QueryEvents) /\ Said(more) = Said(done) \cup {e}
         /\ Once(done) /\ (e.is = "generation" => \A d \in Said(done) : d.is = "generation" => d.of # e.of) => Once(more)
<1>1. /\ more \in Seq(QueryEvents)
      /\ DOMAIN more = DOMAIN done \cup {Len(done) + 1} /\ Len(done) + 1 \notin DOMAIN done
      /\ more[Len(done) + 1] = e /\ \A i \in DOMAIN done : more[i] = done[i]
  BY Appended
<1> QED
  BY <1>1 DEF Said, Once

(* The call is over: its generation is the first event of it, and what     *)
(* tools gave is the input of the next.                                    *)
LEMMA QueryStops == ASSUME QueryInv, Q!Same, Q!MessageStop PROVE QueryInv'
<1> USE DEF QueryInv
<1> DEFINE n == Len(modelCalls)
<1>1. order = "stop_last" /\ streamed /\ going = "answered"
  BY DEF Q!MessageStop, QueryTyped
<1>2. /\ events' = Append(events, [is |-> "generation", of |-> current, input |-> currentInput,
                                  output |-> pendingOutput, tokens |-> lastOutput])
      /\ currentInput' = nextInput /\ nextInput' = Q!Nothing /\ pendingOutput' = Q!Nothing
      /\ current' = 0 /\ lastSpan' = current /\ going' = "between"
      /\ UNCHANGED <<modelCalls, due, prompts, lastOutput, mode, streamed, order>>
  BY <1>1 DEF Q!MessageStop, Q!Same, Q!EmitGeneration, Q!Generation, Q!Promote
<1>3. /\ n >= 1 /\ n \in DOMAIN modelCalls /\ n \in Nat /\ current = n /\ modelCalls[n].input = currentInput
      /\ lastOutput = Tokens(modelCalls[n]) /\ pendingOutput = <<"answer", n>> /\ (due # Q!Nothing => nextInput = due)
  BY <1>1 DEF Following, QueryTyped
<1>4. [is |-> "generation", of |-> current, input |-> currentInput, output |-> pendingOutput, tokens |-> lastOutput]
      \in QueryEvents
  BY DEF QueryTyped, QueryEvents
<1>5. PICK e \in QueryEvents :
        e = [is |-> "generation", of |-> current, input |-> currentInput, output |-> pendingOutput, tokens |-> lastOutput]
  BY <1>4
<1>6. /\ events' = Append(events, e) /\ e.is = "generation" /\ e.of = n /\ e.input = modelCalls[n].input
      /\ e.output = <<"answer", n>> /\ e.tokens = Tokens(modelCalls[n])
  BY <1>2, <1>3, <1>5
<1>7. QueryTyped'
  <2>1. events' \in Seq(QueryEvents)
    BY <1>6, OneMore DEF QueryTyped
  <2> QED
    BY <1>2, <2>1 DEF QueryTyped, Inputs, Q!Nothing
<1>8. Following'
  BY <1>2, <1>3 DEF Following, Q!Nothing
<1>9. EventFine(e)'
  BY <1>1, <1>2, <1>3, <1>6 DEF EventFine, GenerationFine
<1>10. \A d \in Said(events) : EventFine(d)' /\ (d.is = "generation" => d.of # n)
  BY <1>1, <1>2 DEF EventsFine, EventFine, GenerationFine, ToolFine
<1>11. EventsFine' /\ GenerationsOnce'
  <2>1. events \in Seq(QueryEvents) /\ Once(events) /\ \A d \in Said(events) : d.is = "generation" => d.of # e.of
    BY <1>1, <1>6, <1>10 DEF GenerationsOnce, QueryTyped
  <2>2. Said(events') = Said(events) \cup {e} /\ Once(events')
    BY <1>6, <2>1, OneMore
  <2> QED
    BY <1>9, <1>10, <2>2 DEF EventsFine, GenerationsOnce
<1> QED
  BY <1>1, <1>2, <1>7, <1>8, <1>11

(* What tools gave is queued as the input of the next call.                *)
LEMMA QueryHears == ASSUME QueryInv, Q!Same, Q!UserMessage PROVE QueryInv'
<1> USE DEF QueryInv
<1>1. /\ going = "answered" /\ due = Q!Nothing /\ due' = <<"result", Len(modelCalls)>> /\ nextInput' = <<"result", Len(modelCalls)>>
      /\ going' = (IF streamed THEN going ELSE "between")
      /\ UNCHANGED <<modelCalls, prompts, current, lastSpan, lastOutput, currentInput, pendingOutput, events, mode, streamed, order>>
  BY DEF Q!UserMessage, Q!Same, Q!QueueInput, Q!Number, QueryTyped
<1>2. Len(modelCalls) \in Nat /\ due' # Q!Nothing /\ due' \in Inputs
  BY <1>1 DEF QueryTyped, Inputs, Q!Nothing
<1>3. QueryTyped'
  BY <1>1, <1>2 DEF QueryTyped
<1>4. streamed => Following'
  BY <1>1, <1>2 DEF Following
<1>5. ~streamed => Watching'
  BY <1>1, <1>2 DEF Watching
<1>6. EventsFine' /\ GenerationsOnce'
  BY <1>1 DEF EventsFine, Said, EventFine, GenerationFine, ToolFine, GenerationsOnce, Once
<1> QED
  BY <1>1, <1>3, <1>4, <1>5, <1>6
(* An event that is not a generation is no second report of a call.        *)
LEMMA NoGeneration ==
  ASSUME NEW done \in Seq(QueryEvents), (streamed => Once(done)), \A d \in Said(done) : EventFine(d)', UNCHANGED streamed,
         NEW e \in QueryEvents, e.is # "generation", EventFine(e)', events' = done \/ events' = Append(done, e)
  PROVE  events' \in Seq(QueryEvents) /\ EventsFine' /\ GenerationsOnce'
<1>1. CASE events' = done
  BY <1>1 DEF EventsFine, GenerationsOnce
<1>2. CASE events' = Append(done, e)
  <2>1. events' \in Seq(QueryEvents) /\ Said(events') = Said(done) \cup {e} /\ (Once(done) => Once(events'))
    BY <1>2, OneMore
  <2> QED
    BY <2>1 DEF EventsFine, GenerationsOnce
<1> QED
  BY <1>1, <1>2

(* An answer, with the tools it uses.                                      *)
LEMMA QueryAnswers == ASSUME QueryInv, Q!Same, Q!AssistantMessage PROVE QueryInv'
<1> USE DEF QueryInv
<1> DEFINE n == Len(modelCalls')
<1>1. /\ pendingOutput' = <<"answer", n>> /\ going' = "answered"
      /\ events' = IF modelCalls'[n].tools THEN Append(events, [is |-> "tool", of |-> n, parent |-> Q!Parent]) ELSE events
      /\ UNCHANGED <<prompts, current, lastSpan, lastOutput, currentInput, nextInput, mode, streamed, order>>
  BY DEF Q!AssistantMessage, Q!Same, Q!EmitToolSpan
<1>2. \/ streamed /\ going = "started" /\ UNCHANGED <<modelCalls, due>>
      \/ /\ ~streamed /\ going = "between" /\ due' = Q!Nothing
         /\ \E tools \in BOOLEAN : modelCalls' = Append(modelCalls, [input |-> due, prompt |-> prompts, tools |-> tools, output |-> 0])
  BY DEF Q!AssistantMessage, Q!Going, Q!Call, QueryTyped
<1>3. modelCalls' \in Seq(ModelCalls) /\ n \in Nat /\ n >= 1 /\ (streamed => current = n)
      /\ (~streamed => n = Len(modelCalls) + 1 /\ modelCalls'[n].prompt = prompts /\ DOMAIN modelCalls' = DOMAIN modelCalls \cup {n}
                       /\ \A i \in DOMAIN modelCalls : modelCalls'[i] = modelCalls[i])
  <2>1. CASE streamed /\ UNCHANGED modelCalls /\ going = "started"
    BY <2>1 DEF Following, QueryTyped
  <2>2. ASSUME NEW tools \in BOOLEAN,
               modelCalls' = Append(modelCalls, [input |-> due, prompt |-> prompts, tools |-> tools, output |-> 0]), ~streamed
        PROVE  /\ modelCalls' \in Seq(ModelCalls) /\ n \in Nat /\ n >= 1
               /\ n = Len(modelCalls) + 1 /\ modelCalls'[n].prompt = prompts /\ DOMAIN modelCalls' = DOMAIN modelCalls \cup {n}
               /\ \A i \in DOMAIN modelCalls : modelCalls'[i] = modelCalls[i]
    <3>1. [input |-> due, prompt |-> prompts, tools |-> tools, output |-> 0] \in ModelCalls
      BY DEF ModelCalls, QueryTyped
    <3>2. PICK c \in ModelCalls : c = [input |-> due, prompt |-> prompts, tools |-> tools, output |-> 0]
      BY <3>1
    <3>3. c.prompt = prompts /\ modelCalls' = Append(modelCalls, c) /\ modelCalls \in Seq(ModelCalls)
      BY <2>2, <3>2 DEF QueryTyped
    <3> QED
      BY <3>3, Appended
  <2> QED
    BY <1>2, <2>1, <2>2
<1> HIDE DEF n
<1>4. streamed => n = Len(modelCalls) /\ UNCHANGED modelCalls
  BY <1>2 DEF n
<1>5. Q!Parent = IF streamed THEN n ELSE 0
  BY <1>3 DEF Q!Parent, Watching
<1>6. \A d \in Said(events) : EventFine(d)'
  <2>1. CASE streamed
    BY <1>1, <1>2, <1>4, <2>1 DEF EventsFine, EventFine, GenerationFine, ToolFine
  <2>2. CASE ~streamed
    BY <1>1, <1>3, <2>2 DEF EventsFine, EventFine, GenerationFine, ToolFine
  <2> QED
    BY <2>1, <2>2
<1>7. events' \in Seq(QueryEvents) /\ EventsFine' /\ GenerationsOnce'
  <2>1. [is |-> "tool", of |-> n, parent |-> Q!Parent] \in QueryEvents
    BY <1>3, <1>5 DEF QueryEvents
  <2>2. PICK e \in QueryEvents : e = [is |-> "tool", of |-> n, parent |-> Q!Parent]
    BY <2>1
  <2>3. e.is = "tool" /\ e.of = n /\ e.parent = (IF streamed THEN n ELSE 0) /\ (events' = events \/ events' = Append(events, e))
    BY <1>1, <1>5, <2>2
  <2>4. EventFine(e)'
    BY <1>1, <2>3 DEF EventFine, ToolFine
  <2> QED
    BY <1>1, <1>6, <2>3, <2>4, NoGeneration DEF GenerationsOnce, QueryTyped
<1>8. QueryTyped'
  <2>1. pendingOutput' \in Inputs /\ due' \in Inputs
    BY <1>1, <1>2, <1>3 DEF Inputs, QueryTyped, Q!Nothing
  <2> QED
    BY <1>1, <1>3, <1>7, <2>1 DEF QueryTyped
<1>9. streamed => Following'
  BY <1>1, <1>2, <1>4, <1>3 DEF Following, Q!Nothing, n
<1>10. ~streamed => Watching'
  <2>1. ASSUME ~streamed PROVE \A i \in DOMAIN modelCalls' : mode = "query" => modelCalls'[i].prompt = 1
    BY <1>2, <1>3, <2>1 DEF Watching, QueryTyped
  <2> QED
    BY <1>1, <1>2, <1>3, <2>1 DEF Watching, n
<1> QED
  BY <1>1, <1>7, <1>8, <1>9, <1>10

(* What a prompt started is over: without stream events the answer is      *)
(* reported now.                                                           *)
LEMMA QueryResults == ASSUME QueryInv, Q!Same, Q!ResultMessage PROVE QueryInv'
<1> USE DEF QueryInv
<1> DEFINE n == Len(modelCalls)
           done == Q!EmitFromResult
<1>1. /\ events' = Q!EmitTrace(done) /\ going' = "idle" /\ due' = Q!Nothing
      /\ UNCHANGED <<modelCalls, prompts, lastOutput, current, lastSpan, currentInput, nextInput, pendingOutput, mode, streamed, order>>
  BY DEF Q!ResultMessage, Q!Same, Q!kept
<1>2. \A d \in Said(events) : EventFine(d)'
  BY <1>1 DEF EventsFine, EventFine, GenerationFine, ToolFine
<1>3. done \in Seq(QueryEvents) /\ (streamed => Once(done)) /\ \A d \in Said(done) : EventFine(d)'
  <2>1. CASE streamed \/ ~(n > 0)
    <3>1. done = events
      BY <2>1 DEF Q!EmitFromResult, Q!Number, QueryTyped
    <3> QED
      BY <1>2, <3>1 DEF GenerationsOnce, QueryTyped
  <2>2. CASE ~streamed /\ n > 0
    <3> DEFINE input == IF mode = "query" THEN <<"prompt", 1>> ELSE currentInput
    <3>1. [is |-> "generation", of |-> 0, input |-> input, output |-> pendingOutput, tokens |-> 0] \in QueryEvents
      BY DEF QueryEvents, QueryTyped, Inputs
    <3>2. PICK e \in QueryEvents : e = [is |-> "generation", of |-> 0, input |-> input, output |-> pendingOutput, tokens |-> 0]
      BY <3>1
    <3>3. done = Append(events, e)
      BY <2>2, <3>2 DEF Q!EmitFromResult, Q!Number, Q!Generation
    <3>4. n \in DOMAIN modelCalls /\ n \in Nat /\ pendingOutput = <<"answer", n>>
      BY <2>2 DEF Watching, QueryTyped
    <3>5. prompts >= 1 /\ modelCalls[n].prompt = prompts
      BY <2>2 DEF Q!ResultMessage, Q!Complete, Q!Interrupted, Q!Number, Watching, QueryTyped
    <3>6. input = <<"prompt", modelCalls[n].prompt>>
      BY <2>2, <3>4, <3>5 DEF Watching
    <3>7. EventFine(e)'
      <4>1. e.is = "generation" /\ e.output = <<"answer", n>> /\ e.input = <<"prompt", modelCalls[n].prompt>>
        BY <3>2, <3>4, <3>6
      <4> HIDE DEF n, input
      <4> QED
        BY <1>1, <2>2, <3>4, <4>1 DEF EventFine, GenerationFine
    <3>8. done \in Seq(QueryEvents) /\ Said(done) = Said(events) \cup {e}
      BY <3>3, OneMore DEF QueryTyped
    <3> QED
      BY <1>2, <2>2, <3>7, <3>8
  <2> QED
    BY <2>1, <2>2 DEF QueryTyped
<1>4. events' \in Seq(QueryEvents) /\ EventsFine' /\ GenerationsOnce'
  <2>1. [is |-> "trace", of |-> prompts] \in QueryEvents
    BY DEF QueryEvents, QueryTyped
  <2>2. PICK e \in QueryEvents : e = [is |-> "trace", of |-> prompts]
    BY <2>1
  <2>3. e.is = "trace" /\ (events' = done \/ events' = Append(done, e))
    BY <1>1, <2>2 DEF Q!EmitTrace
  <2>4. EventFine(e)'
    BY <2>3 DEF EventFine
  <2> HIDE DEF done
  <2> QED
    BY <1>1, <1>3, <2>3, <2>4, NoGeneration
<1>5. QueryTyped'
  BY <1>1, <1>4 DEF QueryTyped, Inputs, Q!Nothing
<1>6. (streamed => Following') /\ (~streamed => Watching')
  BY <1>1 DEF Following, Watching
<1> QED
  BY <1>1, <1>4, <1>5, <1>6

(* The session ends.                                                       *)
LEMMA QueryLeaves == ASSUME QueryInv, Q!Same, Q!Disconnect PROVE QueryInv'
<1> USE DEF QueryInv
<1>1. /\ going = "idle" /\ going' = "disconnected" /\ events' = Append(events, [is |-> "trace", of |-> prompts])
      /\ UNCHANGED <<modelCalls, due, prompts, lastOutput, current, lastSpan, currentInput, nextInput, pendingOutput, mode, streamed, order>>
  BY DEF Q!Disconnect, Q!Same, Q!kept
<1>2. \A d \in Said(events) : EventFine(d)'
  BY <1>1 DEF EventsFine, EventFine, GenerationFine, ToolFine
<1>3. events' \in Seq(QueryEvents) /\ EventsFine' /\ GenerationsOnce'
  <2>1. [is |-> "trace", of |-> prompts] \in QueryEvents
    BY DEF QueryEvents, QueryTyped
  <2>2. PICK e \in QueryEvents : e = [is |-> "trace", of |-> prompts]
    BY <2>1
  <2>3. e.is = "trace" /\ events' = Append(events, e)
    BY <1>1, <2>2
  <2>4. EventFine(e)'
    BY <2>3 DEF EventFine
  <2> QED
    BY <1>1, <1>2, <2>3, <2>4, NoGeneration DEF GenerationsOnce, QueryTyped
<1>4. QueryTyped'
  BY <1>1, <1>3 DEF QueryTyped
<1>5. (streamed => Following') /\ (~streamed => Watching')
  BY <1>1 DEF Following, Watching
<1> QED
  BY <1>1, <1>3, <1>4, <1>5
LEMMA QueryStutter == ASSUME QueryInv, UNCHANGED <<events, modelCalls, queryVars>> PROVE QueryInv'
<1> USE DEF QueryInv, queryVars
<1>1. QueryTyped'
  BY DEF QueryTyped
<1>2. (streamed => Following') /\ (~streamed => Watching')
  BY DEF Following, Watching
<1>3. EventsFine' /\ GenerationsOnce'
  BY DEF EventsFine, Said, EventFine, GenerationFine, ToolFine, GenerationsOnce, Once
<1> QED
  BY <1>1, <1>2, <1>3

(* Every step of AgentQuery keeps the invariant.                           *)
LEMMA QueryStep == ASSUME QueryInv, Q!Next PROVE QueryInv'
  BY QueryAsks, QueryStarts, QueryGoesOn, QueryStops, QueryAnswers, QueryHears, QueryResults, QueryLeaves DEF Q!Next

LEMMA QueryStart == Q!Init => QueryInv
<1> SUFFICES ASSUME Q!Init PROVE QueryInv
  OBVIOUS
<1> USE DEF Q!Init
<1>1. DOMAIN events = {} /\ DOMAIN modelCalls = {} /\ Len(modelCalls) = 0
  OBVIOUS
<1>2. QueryTyped
  BY ObservationAssumption DEF QueryTyped, Q!Nothing, Inputs
<1>3. Following /\ Watching
  BY <1>1 DEF Following, Watching
<1> QED
  BY <1>1, <1>2, <1>3 DEF QueryInv, EventsFine, Said, GenerationsOnce, Once

LEMMA QueryIsTold == QueryInv => Q!CallReportedWhole /\ Q!ToolUnderItsCall
<1> SUFFICES ASSUME QueryInv PROVE Q!CallReportedWhole /\ Q!ToolUnderItsCall
  OBVIOUS
<1>1. ASSUME NEW k \in DOMAIN events PROVE EventFine(events[k])
  BY DEF QueryInv, EventsFine, Said
<1>2. Q!ToolUnderItsCall
  BY <1>1 DEF Q!ToolUnderItsCall, Q!Is, EventFine, ToolFine
<1>3. ASSUME NEW k \in Q!Is("generation"), streamed
      PROVE  /\ events[k].input = modelCalls[events[k].of].input /\ events[k].output = <<"answer", events[k].of>>
             /\ events[k].tokens = (IF modelCalls[events[k].of].output = 0 THEN 1 ELSE modelCalls[events[k].of].output)
             /\ \A j \in Q!Is("generation") \ {k} : events[j].of # events[k].of
  <2>1. k \in DOMAIN events /\ GenerationFine(events[k])
    BY <1>1 DEF Q!Is, EventFine
  <2>2. \A j \in Q!Is("generation") \ {k} : events[j].of # events[k].of
    BY <1>3 DEF Q!Is, QueryInv, GenerationsOnce, Once
  <2> QED
    BY <1>3, <2>1, <2>2 DEF GenerationFine, Tokens
<1>4. ASSUME NEW k \in Q!Is("generation"), ~streamed
      PROVE  \E n \in DOMAIN modelCalls : events[k].output = <<"answer", n>> /\ events[k].input = <<"prompt", modelCalls[n].prompt>>
  <2>1. GenerationFine(events[k])
    BY <1>1 DEF Q!Is, EventFine
  <2> QED
    BY <1>4, <2>1 DEF GenerationFine
<1>5. Q!CallReportedWhole
  BY <1>3, <1>4 DEF Q!CallReportedWhole
<1> QED
  BY <1>2, <1>5
------------------------------------------------------------------------------
(* A behaviour of Observation is one of its parts.                         *)
ObservingInv ==
  /\ part = "generations" => CallsInv
  /\ part = "traces" => TracesInv
  /\ part = "queries" => QueryInv

LEMMA ObservingInitInvariant == ObservingInit => ObservingInv
  BY CallsStart, TracesStart, QueryStart DEF ObservingInit, ObservingInv

LEMMA ObservingStepInvariant == ObservingInv /\ [ObservingNext]_<<part, observingVars>> => ObservingInv'
<1> SUFFICES ASSUME ObservingInv, [ObservingNext]_<<part, observingVars>> PROVE ObservingInv'
  OBVIOUS
<1>1. CASE part = "generations" /\ Calls!Next /\ UNCHANGED part
  BY <1>1, CallsStep DEF ObservingInv
<1>2. CASE part = "traces" /\ A!Next /\ UNCHANGED part
  BY <1>2, TracesStep DEF ObservingInv
<1>3. CASE part = "queries" /\ Q!Next /\ UNCHANGED part
  BY <1>3, QueryStep DEF ObservingInv
<1>4. CASE UNCHANGED <<part, observingVars>>
  BY <1>4, CallsStutter, TracesStutter, QueryStutter DEF ObservingInv, observingVars
<1> QED
  BY <1>1, <1>2, <1>3, <1>4 DEF ObservingNext

(* Every reachable state satisfies the inductive invariants of the parts.  *)
THEOREM ObservingInvariance == ObservingSpec => []ObservingInv
  BY ObservingInitInvariant, ObservingStepInvariant, PTL DEF ObservingSpec

(* A call of a wrapper makes at most one event, after it is over, and one  *)
(* if it was tracked or a stream of it was read, however it ended, dropped *)
(* generators included; no person is made of a trace id.                   *)
THEOREM EveryCallIsTold == ObservingSpec => []CallTold
<1>1. ObservingInv => CallTold
  BY CallsTold DEF ObservingInv, CallTold
<1> QED
  BY <1>1, ObservingInvariance, PTL

(* The processor remembers no more than one over its limit whatever never  *)
(* ends, forgets nothing that goes on until there was more of it than the  *)
(* limit, and tells nothing of what was said in privacy mode.              *)
THEOREM EveryTraceIsTold == ObservingSpec => []TraceTold
<1>1. ObservingInv => TraceTold
  BY TracesTold DEF ObservingInv, TraceTold
<1> QED
  BY <1>1, ObservingInvariance, PTL

(* The event of a model call has the input, answer and tokens of that      *)
(* call, whenever it was interrupted or used tools, and no call has two.   *)
THEOREM EveryQueryIsTold == ObservingSpec => []QueryTold
<1>1. ObservingInv => QueryTold
  BY QueryIsTold DEF ObservingInv, QueryTold
<1> QED
  BY <1>1, ObservingInvariance, PTL
------------------------------------------------------------------------------
(* Exceptions and their limiters.                                          *)
ThreadFields == {"pc", "n", "contexts", "hook", "by", "sent", "passed"}
BucketRecords == [tokens : Nat, last : Int, since : Int]
RaisingTyped ==
  /\ now \in Nat /\ buckets \in [Clients -> BucketRecords] /\ allowed \in [Clients -> Nat]
  /\ DOMAIN threads = Threads
  /\ \A t \in Threads : DOMAIN threads[t] = ThreadFields
\* An exception that has been sent is marked, and sent once.
SentMarked ==
  \A t \in Threads : threads[t].sent = 0 \/ (threads[t].sent = 1 /\ <<t, threads[t].n>> \in marked)
\* A bucket's last refill is a number of intervals after its first use, and
\* has paid for the tokens it holds and for those that are spent, but one.
Paid(c, k) ==
  LET b == buckets[c] IN
  /\ b.last = b.since + k * Interval /\ b.last <= now
  /\ b.tokens + allowed[c] <= Size + Rate * k
  /\ allowed[c] <= H!Max({0, Size - 1}) + Rate * k
BucketsPaid == \A c \in Clients : IF buckets[c].since < 0 THEN allowed[c] = 0 ELSE \E k \in Nat : Paid(c, k)
RaisingInv == RaisingTyped /\ SentMarked /\ BucketsPaid

(* Max and Min of two.                                                     *)
LEMMA Larger == ASSUME NEW i \in Int, NEW j \in Int
                PROVE H!Max({i, j}) = IF i < j THEN j ELSE i
  BY DEF H!Max
LEMMA LessOne == ASSUME NEW n \in Nat
                 PROVE H!Max({0, n - 1}) = IF n = 0 THEN 0 ELSE n - 1
<1>1. n - 1 \in Int /\ 0 \in Int
  OBVIOUS
<1>2. H!Max({0, n - 1}) = IF 0 < n - 1 THEN n - 1 ELSE 0
  BY <1>1, Larger
<1> QED
  BY <1>2
LEMMA Smaller == ASSUME NEW i \in Int, NEW j \in Int
                PROVE H!Min({i, j}) = IF i < j THEN i ELSE j
  BY DEF H!Min

(* Nothing has been raised at first.                                       *)
LEMMA RaisingStarts == H!Init => RaisingInv
<1> SUFFICES ASSUME H!Init PROVE RaisingInv
  OBVIOUS
<1>1. RaisingTyped
  BY SourcesAssumption DEF H!Init, RaisingTyped, BucketRecords, ThreadFields, H!Idle
<1>2. SentMarked
  BY DEF H!Init, SentMarked, H!Idle
<1>3. BucketsPaid
  BY DEF H!Init, BucketsPaid
<1> QED
  BY <1>1, <1>2, <1>3 DEF RaisingInv

\* What a step does to what a thread raises: nothing, a new exception, or the
\* one report that marks it.
Same(t, r) == r.sent = threads[t].sent /\ r.n = threads[t].n /\ marked' = marked
New(t, r) == r.sent = 0 /\ marked' = marked
Sent(t, r) == /\ r.sent = threads[t].sent + 1 /\ r.n = threads[t].n
              /\ <<t, r.n>> \notin marked /\ marked' = marked \cup {<<t, r.n>>}
Passes(t, r) == /\ t \in Threads /\ DOMAIN r = ThreadFields /\ threads' = [threads EXCEPT ![t] = r]
                /\ Same(t, r) \/ New(t, r) \/ Sent(t, r)

(* What is sent is marked as long as its thread has not raised another.    *)
LEMMA PassesKeepsMarks ==
  ASSUME RaisingInv, NEW t, NEW r, Passes(t, r)
  PROVE  SentMarked' /\ DOMAIN threads' = Threads /\ \A u \in Threads : DOMAIN threads'[u] = ThreadFields
<1> USE DEF RaisingInv, RaisingTyped
<1>1. /\ DOMAIN threads' = Threads /\ threads'[t] = r /\ \A u \in Threads \ {t} : threads'[u] = threads[u]
      /\ marked \subseteq marked'
  BY DEF Passes, Same, New, Sent
<1>2. ASSUME NEW u \in Threads
      PROVE  threads'[u].sent = 0 \/ (threads'[u].sent = 1 /\ <<u, threads'[u].n>> \in marked')
  <2>1. CASE u # t
    BY <1>1, <2>1 DEF SentMarked
  <2>2. CASE u = t
    BY <1>1, <2>2 DEF SentMarked, Passes, Same, New, Sent
  <2> QED
    BY <2>1, <2>2
<1> QED
  BY <1>1, <1>2 DEF SentMarked, Passes

(* Buckets of which nothing is taken.                                      *)
LEMMA QuietBuckets == ASSUME RaisingInv, UNCHANGED <<now, buckets, allowed>> PROVE BucketsPaid'
  BY DEF RaisingInv, BucketsPaid, Paid

(* Exceptions that go no further.                                          *)
LEMMA QuietThreads ==
  ASSUME RaisingInv, UNCHANGED <<threads, marked>>
  PROVE  SentMarked' /\ DOMAIN threads' = Threads /\ \A u \in Threads : DOMAIN threads'[u] = ThreadFields
  BY DEF RaisingInv, RaisingTyped, SentMarked

(* A thread moves and no bucket is touched.                                *)
LEMMA ThreadMoves ==
  ASSUME RaisingInv, NEW t, NEW r, Passes(t, r), UNCHANGED <<now, buckets, allowed>>
  PROVE  RaisingInv'
<1>1. RaisingTyped' /\ SentMarked'
  BY PassesKeepsMarks DEF RaisingInv, RaisingTyped
<1> QED
  BY <1>1, QuietBuckets DEF RaisingInv

(* The steps of a thread.                                                  *)
LEMMA RaiseKeeps ==
  ASSUME RaisingInv, NEW t \in Threads, NEW contexts, H!Raise(t, contexts)
  PROVE  RaisingInv'
<1> DEFINE r == [H!Idle EXCEPT !.pc = "contexts", !.n = threads[t].n + 1, !.contexts = contexts]
<1>1. DOMAIN r = ThreadFields /\ r.sent = 0
  BY DEF H!Idle, ThreadFields
<1>2. threads' = [threads EXCEPT ![t] = r] /\ UNCHANGED <<now, buckets, allowed, marked>>
  BY DEF H!Raise
<1> HIDE DEF r
<1> QED
  BY <1>1, <1>2, ThreadMoves DEF Passes, New

LEMMA LeaveKeeps == ASSUME RaisingInv, NEW t \in Threads, H!LeaveContext(t) PROVE RaisingInv'
<1> DEFINE x == threads[t]
           left == [x EXCEPT !.contexts = Tail(@), !.by = Head(x.contexts), !.pc = "capture"]
           out == [x EXCEPT !.pc = IF hooks[H!Kind(t)] = H!Interpreter THEN "over" ELSE "hook", !.hook = hooks[H!Kind(t)]]
<1>1. DOMAIN x = ThreadFields
  BY DEF RaisingInv, RaisingTyped
<1>2. UNCHANGED <<now, buckets, allowed, marked>>
  BY DEF H!LeaveContext
<1>3. CASE threads' = [threads EXCEPT ![t] = left]
  <2>1. DOMAIN left = ThreadFields /\ left.sent = x.sent /\ left.n = x.n
    BY <1>1 DEF ThreadFields
  <2> HIDE DEF left
  <2> QED
    BY <1>2, <1>3, <2>1, ThreadMoves DEF Passes, Same
<1>4. CASE threads' = [threads EXCEPT ![t] = out]
  <2>1. DOMAIN out = ThreadFields /\ out.sent = x.sent /\ out.n = x.n
    BY <1>1 DEF ThreadFields
  <2> HIDE DEF out
  <2> QED
    BY <1>2, <1>4, <2>1, ThreadMoves DEF Passes, Same
<1> QED
  BY <1>3, <1>4 DEF H!LeaveContext

LEMMA CaptureKeeps == ASSUME RaisingInv, NEW t \in Threads, H!CaptureException(t) PROVE RaisingInv'
<1> DEFINE x == threads[t]
           same == [x EXCEPT !.pc = H!After(t)]
           sent == [x EXCEPT !.pc = H!After(t), !.sent = @ + 1]
<1>1. DOMAIN x = ThreadFields
  BY DEF RaisingInv, RaisingTyped
<1>2. UNCHANGED <<now, buckets, allowed>>
  BY DEF H!CaptureException
<1>3. CASE threads' = [threads EXCEPT ![t] = same] /\ UNCHANGED marked
  <2>1. DOMAIN same = ThreadFields /\ same.sent = x.sent /\ same.n = x.n
    BY <1>1 DEF ThreadFields
  <2> HIDE DEF same
  <2> QED
    BY <1>2, <1>3, <2>1, ThreadMoves DEF Passes, Same
<1>4. CASE threads' = [threads EXCEPT ![t] = sent] /\ <<t, x.n>> \notin marked /\ marked' = marked \cup {<<t, x.n>>}
  <2>1. DOMAIN sent = ThreadFields /\ sent.sent = x.sent + 1 /\ sent.n = x.n
    BY <1>1 DEF ThreadFields
  <2> HIDE DEF sent
  <2> QED
    BY <1>2, <1>4, <2>1, ThreadMoves DEF Passes, Sent
<1> QED
  BY <1>3, <1>4 DEF H!CaptureException, H!Exception, H!Mark

LEMMA NextHookKeeps == ASSUME RaisingInv, NEW t \in Threads, H!NextHook(t) PROVE RaisingInv'
<1>1. PICK h : /\ threads' = [threads EXCEPT ![t].pc = IF h = H!Interpreter THEN "over" ELSE "hook",
                                             ![t].hook = h, ![t].passed = Append(@, threads[t].hook)]
               /\ UNCHANGED <<now, buckets, allowed, marked>>
  BY DEF H!NextHook
<1> DEFINE x == threads[t]
           r == [x EXCEPT !.pc = IF h = H!Interpreter THEN "over" ELSE "hook", !.hook = h, !.passed = Append(@, x.hook)]
<1>2. DOMAIN x = ThreadFields
  BY DEF RaisingInv, RaisingTyped
<1>3. threads' = [threads EXCEPT ![t] = r]
  BY <1>1
<1>4. DOMAIN r = ThreadFields /\ r.sent = x.sent /\ r.n = x.n
  BY <1>2 DEF ThreadFields
<1> HIDE DEF r
<1> QED
  BY <1>1, <1>3, <1>4, ThreadMoves DEF Passes, Same

(* The clock goes on, and a client opens or closes.                        *)
LEMMA TickKeeps == ASSUME RaisingInv, H!Tick PROVE RaisingInv'
<1>1. RaisingTyped' /\ SentMarked'
  BY QuietThreads DEF RaisingInv, RaisingTyped, H!Tick
<1>2. ASSUME NEW c \in Clients, NEW k \in Nat, Paid(c, k) PROVE Paid(c, k)'
  BY <1>2 DEF RaisingInv, RaisingTyped, BucketRecords, Paid, H!Tick
<1>3. BucketsPaid'
  BY <1>2 DEF RaisingInv, BucketsPaid, H!Tick
<1> QED
  BY <1>1, <1>3 DEF RaisingInv

LEMMA ClientKeeps == ASSUME RaisingInv, NEW c \in Clients, H!Open(c) \/ H!Close(c) PROVE RaisingInv'
<1>1. UNCHANGED <<now, threads, marked>>
  BY DEF H!Open, H!Close, H!ReadHooks, H!Install, H!MarkClosed, H!Resolve, H!RestoreSys, H!RestoreThreading
<1>2. CASE UNCHANGED <<buckets, allowed>>
  BY <1>1, <1>2, QuietThreads, QuietBuckets DEF RaisingInv, RaisingTyped
<1>3. CASE H!RestoreThreading(c)
  <2>1. /\ buckets' = [buckets EXCEPT ![c] = [tokens |-> Size, last |-> 0, since |-> -1]]
        /\ allowed' = [allowed EXCEPT ![c] = 0]
    BY <1>3 DEF H!RestoreThreading
  <2>2. RaisingTyped'
    BY <1>1, <2>1, SourcesAssumption DEF RaisingInv, RaisingTyped, BucketRecords
  <2>3. /\ buckets'[c].since = -1 /\ allowed'[c] = 0
        /\ \A d \in Clients \ {c} : buckets'[d] = buckets[d] /\ allowed'[d] = allowed[d]
    BY <2>1 DEF RaisingInv, RaisingTyped
  <2>4. ASSUME NEW d \in Clients
        PROVE  (IF buckets[d].since < 0 THEN allowed[d] = 0 ELSE \E k \in Nat : Paid(d, k))'
    <3>1. CASE d = c
      BY <2>3, <3>1
    <3>2. CASE d # c
      <4>1. buckets'[d] = buckets[d] /\ allowed'[d] = allowed[d] /\ now' = now
        BY <1>1, <2>3, <3>2
      <4>2. IF buckets[d].since < 0 THEN allowed[d] = 0 ELSE \E k \in Nat : Paid(d, k)
        BY DEF RaisingInv, BucketsPaid
      <4>3. ASSUME NEW k \in Nat, Paid(d, k) PROVE Paid(d, k)'
        BY <4>1, <4>3 DEF Paid
      <4> QED
        BY <4>1, <4>2, <4>3
    <3> QED
      BY <3>1, <3>2
  <2>5. BucketsPaid'
    BY <2>4 DEF BucketsPaid
  <2> QED
    BY <1>1, <2>2, <2>5, QuietThreads DEF RaisingInv
<1>4. H!Open(c) => UNCHANGED <<buckets, allowed>>
  BY DEF H!Open, H!ReadHooks, H!Install
<1>5. H!MarkClosed(c) \/ H!Resolve(c) \/ H!RestoreSys(c) => UNCHANGED <<buckets, allowed>>
  BY DEF H!MarkClosed, H!Resolve, H!RestoreSys
<1> QED
  BY <1>2, <1>3, <1>4, <1>5 DEF H!Close

(* Arithmetic of whole intervals.                                          *)
LEMMA Distributes == ASSUME NEW k \in Nat, NEW i \in Nat, NEW r \in Nat PROVE (k + i) * r = k * r + i * r /\ r * (k + i) = r * k + r * i
  OBVIOUS
LEMMA Grows == ASSUME NEW k \in Nat, NEW r \in Nat PROVE k * r \in Nat /\ r * k \in Nat /\ r * k = k * r
  OBVIOUS
LEMMA WholeIntervals ==
  ASSUME NEW x \in Nat
  PROVE  x \div Interval \in Nat /\ (x \div Interval) * Interval <= x
  BY SourcesAssumption

(* A bucket that is refilled is paid for by the time that has passed.      *)
LEMMA BucketRefilled ==
  ASSUME RaisingInv, NEW c \in Clients, NEW b, b = H!Bucket(c)
  PROVE  /\ b \in BucketRecords /\ b.since >= 0
         /\ \E k \in Nat : /\ b.last = b.since + k * Interval /\ b.last <= now
                           /\ b.tokens + allowed[c] <= Size + Rate * k
                           /\ allowed[c] <= H!Max({0, Size - 1}) + Rate * k
<1> USE SourcesAssumption
<1> DEFINE old == buckets[c]
<1>1. old \in BucketRecords /\ allowed[c] \in Nat /\ now \in Nat
  BY DEF RaisingInv, RaisingTyped
<1>2. CASE old.since < 0
  <2>1. b = [tokens |-> Size, last |-> now, since |-> now]
    BY <1>2 DEF H!Bucket
  <2>2. allowed[c] = 0
    BY <1>2 DEF RaisingInv, BucketsPaid
  <2>3. H!Max({0, Size - 1}) \in Nat
    BY Larger
  <2>4. /\ b.last = b.since + 0 * Interval /\ b.last <= now
        /\ b.tokens + allowed[c] <= Size + Rate * 0 /\ allowed[c] <= H!Max({0, Size - 1}) + Rate * 0
    BY <1>1, <2>1, <2>2, <2>3
  <2>5. b \in BucketRecords /\ b.since >= 0
    BY <1>1, <2>1 DEF BucketRecords
  <2>6. \E k \in Nat : /\ b.last = b.since + k * Interval /\ b.last <= now
                       /\ b.tokens + allowed[c] <= Size + Rate * k
                       /\ allowed[c] <= H!Max({0, Size - 1}) + Rate * k
    <3> WITNESS 0 \in Nat
    <3> QED
      BY <2>4
  <2> QED
    BY <2>5, <2>6
<1>3. CASE ~(old.since < 0)
  <2> DEFINE i == (now - old.last) \div Interval
  <2>1. PICK k \in Nat : Paid(c, k)
    BY <1>3 DEF RaisingInv, BucketsPaid
  <2>2. now - old.last \in Nat
    BY <1>1, <2>1 DEF Paid, BucketRecords
  <2>3. i \in Nat /\ i * Interval <= now - old.last
    BY <2>2, WholeIntervals
  <2>4. b = [tokens |-> H!Min({old.tokens + i * Rate, Size}), last |-> old.last + i * Interval, since |-> old.since]
    BY <1>3 DEF H!Bucket, H!Refilled
  <2> HIDE DEF i
  <2>5. /\ (k + i) * Interval = k * Interval + i * Interval /\ Rate * (k + i) = Rate * k + Rate * i
        /\ i * Interval \in Nat /\ k * Interval \in Nat /\ Rate * k \in Nat /\ Rate * i \in Nat /\ Rate * i = i * Rate
    BY <2>3, Distributes, Grows
  <2>6. H!Min({old.tokens + i * Rate, Size}) = IF old.tokens + i * Rate < Size THEN old.tokens + i * Rate ELSE Size
    BY <1>1, <2>5, Smaller DEF BucketRecords
  <2>7. H!Max({0, Size - 1}) \in Nat
    BY Larger
  <2>8. b \in BucketRecords /\ b.since >= 0
    BY <1>1, <1>3, <2>4, <2>5, <2>6 DEF BucketRecords
  <2>9. b.last = b.since + (k + i) * Interval /\ b.last <= now
    BY <1>1, <2>1, <2>3, <2>4, <2>5 DEF BucketRecords, Paid
  <2>10. b.tokens + allowed[c] <= Size + Rate * (k + i)
    BY <1>1, <2>1, <2>4, <2>5, <2>6 DEF BucketRecords, Paid
  <2>11. allowed[c] <= H!Max({0, Size - 1}) + Rate * (k + i)
    BY <1>1, <2>1, <2>5, <2>7 DEF Paid
  <2>12. \E j \in Nat : /\ b.last = b.since + j * Interval /\ b.last <= now
                        /\ b.tokens + allowed[c] <= Size + Rate * j
                        /\ allowed[c] <= H!Max({0, Size - 1}) + Rate * j
    <3>1. k + i \in Nat
      BY <2>3
    <3> WITNESS k + i \in Nat
    <3> QED
      BY <2>9, <2>10, <2>11
  <2> QED
    BY <2>8, <2>12
<1> QED
  BY <1>2, <1>3

(* The handler takes a token; the call that takes the last one is limited. *)
LEMMA HandlerKeeps == ASSUME RaisingInv, NEW t \in Threads, H!Handler(t) PROVE RaisingInv'
<1> USE SourcesAssumption
<1> DEFINE c == threads[t].hook b == H!Bucket(c)
           skipped == [threads[t] EXCEPT !.pc = "next"]
           handled == [threads[t] EXCEPT !.pc = IF b.tokens > 1 THEN "capture" ELSE "next", !.by = c]
<1>1. DOMAIN threads[t] = ThreadFields /\ UNCHANGED <<now, marked>>
  BY DEF RaisingInv, RaisingTyped, H!Handler
<1>2. CASE H!Closed(c)
  <2>1. threads' = [threads EXCEPT ![t] = skipped] /\ UNCHANGED <<buckets, allowed>>
    BY <1>2 DEF H!Handler
  <2>2. DOMAIN skipped = ThreadFields /\ skipped.sent = threads[t].sent /\ skipped.n = threads[t].n
    BY <1>1 DEF ThreadFields
  <2> HIDE DEF skipped
  <2> QED
    BY <1>1, <2>1, <2>2, ThreadMoves DEF Passes, Same
<1>3. CASE ~H!Closed(c)
  <2>1. /\ threads' = [threads EXCEPT ![t] = handled]
        /\ buckets' = [buckets EXCEPT ![c] = [b EXCEPT !.tokens = H!Max({0, @ - 1})]]
        /\ allowed' = IF b.tokens > 1 THEN [allowed EXCEPT ![c] = @ + 1] ELSE allowed
    BY <1>3 DEF H!Handler
  <2>2. DOMAIN handled = ThreadFields /\ handled.sent = threads[t].sent /\ handled.n = threads[t].n
    BY <1>1 DEF ThreadFields
  <2> HIDE DEF handled
  <2>3. SentMarked' /\ DOMAIN threads' = Threads /\ \A u \in Threads : DOMAIN threads'[u] = ThreadFields
    BY <1>1, <2>1, <2>2, PassesKeepsMarks DEF Passes, Same
  <2> HIDE DEF b, c
  <2>4. CASE c \notin Clients
    <3>1. UNCHANGED <<buckets, allowed>>
      BY <2>1, <2>4 DEF RaisingInv, RaisingTyped
    <3> QED
      BY <1>1, <2>3, <3>1, QuietBuckets DEF RaisingInv, RaisingTyped
  <2>5. CASE c \in Clients
    <3>1. b \in BucketRecords /\ b.since >= 0
      BY <2>5, BucketRefilled DEF b
    <3>2. PICK k \in Nat : /\ b.last = b.since + k * Interval /\ b.last <= now
                           /\ b.tokens + allowed[c] <= Size + Rate * k
                           /\ allowed[c] <= H!Max({0, Size - 1}) + Rate * k
      BY <2>5, BucketRefilled DEF b
    <3>3. /\ allowed[c] \in Nat /\ H!Max({0, b.tokens - 1}) = (IF b.tokens = 0 THEN 0 ELSE b.tokens - 1)
          /\ H!Max({0, Size - 1}) = (IF Size = 0 THEN 0 ELSE Size - 1)
          /\ Rate * k \in Nat /\ (Size = 0 => Rate * k = 0)
      <4>1. allowed[c] \in Nat /\ b.tokens \in Nat
        BY <2>5, <3>1 DEF RaisingInv, RaisingTyped, BucketRecords
      <4>2. H!Max({0, b.tokens - 1}) = (IF b.tokens = 0 THEN 0 ELSE b.tokens - 1)
        BY <4>1, LessOne
      <4>3. H!Max({0, Size - 1}) = (IF Size = 0 THEN 0 ELSE Size - 1)
        BY LessOne
      <4>4. Rate * k \in Nat /\ (Size = 0 => Rate = 0)
        BY Grows
      <4>5. Size = 0 => Rate * k = 0
        BY <4>4
      <4> QED
        BY <4>1, <4>2, <4>3, <4>4, <4>5
    <3>4. /\ buckets'[c] = [b EXCEPT !.tokens = IF b.tokens = 0 THEN 0 ELSE b.tokens - 1]
          /\ allowed'[c] = IF b.tokens > 1 THEN allowed[c] + 1 ELSE allowed[c]
          /\ \A d \in Clients \ {c} : buckets'[d] = buckets[d] /\ allowed'[d] = allowed[d]
      BY <2>1, <2>5, <3>3 DEF RaisingInv, RaisingTyped
    <3>5. RaisingTyped'
      BY <1>1, <2>1, <2>3, <2>5, <3>1, <3>3, <3>4 DEF RaisingInv, RaisingTyped, BucketRecords
    <3>6. ASSUME NEW d \in Clients
          PROVE  (IF buckets[d].since < 0 THEN allowed[d] = 0 ELSE \E j \in Nat : Paid(d, j))'
      <4>1. CASE d # c
        BY <1>1, <3>4, <4>1 DEF RaisingInv, BucketsPaid, Paid
      <4>2. CASE d = c
        <5>1. /\ buckets'[d].since = b.since /\ buckets'[d].last = b.last
              /\ buckets'[d].tokens = IF b.tokens = 0 THEN 0 ELSE b.tokens - 1
          BY <3>1, <3>4, <4>2 DEF BucketRecords
        <5>2. b.tokens \in Nat /\ b.since \in Int /\ b.last \in Int
          BY <3>1 DEF BucketRecords
        <5>3. buckets'[d].tokens + allowed'[d] <= Size + Rate * k
          BY <3>2, <3>3, <3>4, <4>2, <5>1, <5>2
        <5>4. allowed'[d] <= H!Max({0, Size - 1}) + Rate * k
          BY <3>2, <3>3, <3>4, <4>2, <5>2
        <5>5. Paid(d, k)'
          BY <1>1, <3>2, <5>1, <5>3, <5>4 DEF Paid
        <5> QED
          BY <3>1, <5>1, <5>2, <5>5
      <4> QED
        BY <4>1, <4>2
    <3> QED
      BY <2>3, <3>5, <3>6 DEF RaisingInv, BucketsPaid
  <2> QED
    BY <2>4, <2>5
<1> QED
  BY <1>2, <1>3

(* Every step keeps the invariant, and it says what was asked.            *)
LEMMA RaisingStep == ASSUME RaisingInv, H!Next PROVE RaisingInv'
  BY TickKeeps, ClientKeeps, RaiseKeeps, LeaveKeeps, HandlerKeeps, CaptureKeeps, NextHookKeeps DEF H!Next

LEMMA RaisingStutter == ASSUME RaisingInv, UNCHANGED hookVars PROVE RaisingInv'
  BY QuietThreads, QuietBuckets DEF RaisingInv, RaisingTyped, hookVars

LEMMA RaisingTold == RaisingInv => H!ReportedOnce /\ H!RateBounded
<1> SUFFICES ASSUME RaisingInv PROVE H!ReportedOnce /\ H!RateBounded
  OBVIOUS
<1>1. ASSUME NEW t \in Threads PROVE threads[t].sent <= 1
  <2>1. threads[t].sent = 0 \/ threads[t].sent = 1
    BY DEF RaisingInv, SentMarked
  <2> QED
    BY <2>1
<1>2. ASSUME NEW c \in Clients, buckets[c].since >= 0
      PROVE  allowed[c] <= H!Max({0, Size - 1}) + Rate * ((now - buckets[c].since) \div Interval)
  <2> USE SourcesAssumption
  <2> DEFINE x == now - buckets[c].since
  <2>1. buckets[c] \in BucketRecords /\ allowed[c] \in Nat /\ now \in Nat
    BY DEF RaisingInv, RaisingTyped
  <2>2. PICK k \in Nat : Paid(c, k)
    BY <1>2, <2>1 DEF RaisingInv, BucketsPaid, BucketRecords
  <2>3. k * Interval \in Nat /\ Rate * k \in Nat
    BY Grows
  <2>4. x \in Nat /\ k * Interval <= x
    BY <1>2, <2>1, <2>2, <2>3 DEF Paid, BucketRecords
  <2> HIDE DEF x
  <2>5. x \div Interval \in Nat /\ k <= x \div Interval
    BY <2>3, <2>4
  <2>6. Rate * k <= Rate * (x \div Interval)
    BY <2>5
  <2>7. H!Max({0, Size - 1}) \in Nat /\ Rate * (x \div Interval) \in Nat
    BY <2>5, Larger, Grows
  <2> QED
    BY <2>1, <2>2, <2>3, <2>6, <2>7 DEF Paid, x
<1> QED
  BY <1>1, <1>2 DEF H!ReportedOnce, H!RateBounded
------------------------------------------------------------------------------
(* The event a call makes.                                                 *)
(* What Put and From hold.                                                 *)
LEMMA Both ==
  ASSUME NEW f, NEW g
  PROVE  /\ DOMAIN P!Put(f, g) = DOMAIN f \cup DOMAIN g
         /\ \A x \in DOMAIN f : P!Put(f, g)[x] = f[x]
         /\ \A x \in DOMAIN g \ DOMAIN f : P!Put(f, g)[x] = g[x]
  BY DEF P!Put
LEMMA All ==
  ASSUME NEW source, NEW keys
  PROVE  DOMAIN P!From(source, keys) = keys /\ \A x \in keys : P!From(source, keys)[x] = source
  BY DEF P!From

\* What the sdk or the context says of an event, whatever the caller does.
Sources == {"$os", "$context_tags"}

(* A tag adds to the properties, and takes nothing away but $context_tags.  *)
LEMMA TagsAdded ==
  ASSUME NEW t, NEW p, NEW q, q = P!AddContextTags(t, p)
  PROVE  DOMAIN p \subseteq DOMAIN q /\ \A x \in DOMAIN p \ {"$context_tags"} : q[x] = p[x]
<1> DEFINE c == P!Current(t) own == P!From("context", {"$context_tags"}) inner == P!Put(p, P!CollectTags(c))
           tagged == IF c = 0 THEN p ELSE P!Put(own, inner)
           session == P!From(P!GetSessionId(c), {"$session_id"})
<1>1. DOMAIN own = {"$context_tags"}
  BY All
<1>2. DOMAIN p \subseteq DOMAIN inner /\ \A x \in DOMAIN p : inner[x] = p[x]
  BY Both
<1>3. q = (IF P!GetSessionId(c) = P!None THEN tagged ELSE P!Put(tagged, session))
  BY DEF P!AddContextTags
<1> HIDE DEF own, inner, session
<1>4. DOMAIN P!Put(own, inner) = DOMAIN own \cup DOMAIN inner /\ \A x \in DOMAIN inner \ DOMAIN own : P!Put(own, inner)[x] = inner[x]
  BY Both
<1>5. DOMAIN p \subseteq DOMAIN tagged /\ \A x \in DOMAIN p \ {"$context_tags"} : tagged[x] = p[x]
  BY <1>1, <1>2, <1>4
<1> HIDE DEF tagged
<1>6. DOMAIN tagged \subseteq DOMAIN P!Put(tagged, session) /\ \A x \in DOMAIN tagged : P!Put(tagged, session)[x] = tagged[x]
  BY Both
<1> HIDE DEF c
<1> QED
  BY <1>3, <1>5, <1>6

(* What the caller passed is passed on, and a personless event says so.    *)
LEMMA PropertiesMade ==
  ASSUME NEW t, NEW r, NEW config, NEW q, q = P!Properties(t, r, config)
  PROVE  /\ \A x \in r.keys \ Sources : x \in DOMAIN q /\ q[x] = "explicit"
         /\ P!IdentityState(t, r.id) = P!None => "$process_person_profile" \in DOMAIN q
<1> DEFINE os == P!From("sdk", {"$os"}) given == P!From("explicit", r.keys) asked == P!Put(os, given)
           tagged == P!AddContextTags(t, asked)
           profile == P!From("sdk", {"$process_person_profile"})
           named == IF P!IdentityState(t, r.id) = P!None THEN P!Put(tagged, profile) ELSE tagged
           flags == P!FlagProperties(r, config.local)
<1>1. q = P!Put(named, flags)
  BY DEF P!Properties
<1>2. DOMAIN os = {"$os"} /\ DOMAIN given = r.keys /\ (\A x \in r.keys : given[x] = "explicit")
      /\ DOMAIN profile = {"$process_person_profile"}
  BY All
<1> HIDE DEF os, given, profile, flags
<1>3. DOMAIN asked = DOMAIN os \cup DOMAIN given /\ \A x \in DOMAIN given \ DOMAIN os : asked[x] = given[x]
  BY Both
<1> HIDE DEF asked
<1>4. DOMAIN asked \subseteq DOMAIN tagged /\ \A x \in DOMAIN asked \ {"$context_tags"} : tagged[x] = asked[x]
  BY TagsAdded
<1> HIDE DEF tagged
<1>5. /\ DOMAIN P!Put(tagged, profile) = DOMAIN tagged \cup DOMAIN profile
      /\ \A x \in DOMAIN tagged : P!Put(tagged, profile)[x] = tagged[x]
  BY Both
<1>6. /\ DOMAIN tagged \subseteq DOMAIN named /\ \A x \in DOMAIN tagged : named[x] = tagged[x]
      /\ P!IdentityState(t, r.id) = P!None => "$process_person_profile" \in DOMAIN named
  BY <1>2, <1>5
<1> HIDE DEF named
<1>7. /\ DOMAIN P!Put(named, flags) = DOMAIN named \cup DOMAIN flags
      /\ \A x \in DOMAIN named : P!Put(named, flags)[x] = named[x]
  BY Both
<1>8. ASSUME NEW x \in r.keys \ Sources PROVE x \in DOMAIN q /\ q[x] = "explicit"
  <2>1. x \in DOMAIN asked /\ asked[x] = "explicit" /\ x # "$context_tags"
    BY <1>2, <1>3 DEF Sources
  <2>2. x \in DOMAIN tagged /\ tagged[x] = "explicit"
    BY <1>4, <2>1
  <2> QED
    BY <1>1, <1>6, <1>7, <2>2
<1>9. P!IdentityState(t, r.id) = P!None => "$process_person_profile" \in DOMAIN q
  BY <1>1, <1>6, <1>7
<1> QED
  BY <1>8, <1>9

(* An allowlist is the last word, and nothing stands in for $is_server.    *)
LEMMA Enriched ==
  ASSUME NEW p, NEW r, NEW config, config.server \in BOOLEAN, NEW q, q = P!Enrich(p, r, config)
  PROVE  /\ r.allowed # {} => DOMAIN q \subseteq r.allowed
         /\ config.server /\ "$is_server" \in DOMAIN q => q["$is_server"] = "sdk"
         /\ r.allowed = {} => /\ DOMAIN p \subseteq DOMAIN q
                              /\ \A x \in DOMAIN p \ ({"$lib", "$lib_version", "$is_server"} \cup config.super) : q[x] = p[x]
<1> DEFINE library == P!From("sdk", {"$lib", "$lib_version"}) lib == P!Put(library, p)
           given == P!From("super", config.super) super == P!Put(given, lib)
           names == IF config.server THEN {"$is_server"} ELSE {}
           own == P!From("sdk", names) full == P!Put(own, super)
<1>1. q = IF r.allowed = {} THEN full ELSE [k \in DOMAIN full \cap r.allowed |-> full[k]]
  BY DEF P!Enrich
<1>2. /\ DOMAIN library = {"$lib", "$lib_version"} /\ DOMAIN given = config.super
      /\ DOMAIN own = names /\ \A x \in names : own[x] = "sdk"
  BY All
<1> HIDE DEF library, given, own
<1>3. DOMAIN lib = DOMAIN library \cup DOMAIN p /\ \A x \in DOMAIN p \ DOMAIN library : lib[x] = p[x]
  BY Both
<1> HIDE DEF lib
<1>4. DOMAIN super = DOMAIN given \cup DOMAIN lib /\ \A x \in DOMAIN lib \ DOMAIN given : super[x] = lib[x]
  BY Both
<1> HIDE DEF super
<1>5. /\ DOMAIN full = DOMAIN own \cup DOMAIN super
      /\ (\A x \in DOMAIN own : full[x] = own[x]) /\ \A x \in DOMAIN super \ DOMAIN own : full[x] = super[x]
  BY Both
<1> HIDE DEF full
<1>6. r.allowed # {} => DOMAIN q \subseteq r.allowed
  BY <1>1
<1>7. config.server /\ "$is_server" \in DOMAIN q => q["$is_server"] = "sdk"
  BY <1>1, <1>2, <1>5
<1>8. DOMAIN p \subseteq DOMAIN full
      /\ \A x \in DOMAIN p \ ({"$lib", "$lib_version", "$is_server"} \cup config.super) : full[x] = p[x]
  BY <1>2, <1>3, <1>4, <1>5
<1> QED
  BY <1>1, <1>6, <1>7, <1>8

(* The event that is handed to a lane, or refused.                         *)
LEMMA Enqueued ==
  ASSUME NEW t, NEW x \in Trials, NEW p, P!Enqueue(t, x.request, x.config, p) = event',
         x.request.call \in {"capture", "exception"} => p = P!Properties(t, x.request, x.config)
  PROVE  (P!ReturnedIsSent /\ P!Shape)'
<1> DEFINE r == x.request config == x.config
           out == IF P!Refused(r, config) \/ ~P!Admitted(config) THEN P!None ELSE P!SentUuid(r, config)
<1>1. /\ event'.task = t /\ event'.request = r /\ event'.config = config /\ event'.returned = out
      /\ event'.id = P!IdentityState(t, r.id) /\ event'.properties = P!Enrich(p, r, config)
      /\ event'.wire = IF out = P!None THEN P!None ELSE P!Wire(r, config)
  BY DEF P!Enqueue
<1>2. {config.disabled, config.send, config.sync, config.server} \subseteq BOOLEAN
  BY SourcesAssumption
<1>3. out # P!None => ~config.disabled /\ P!Admitted(config) /\ out = P!Wire(r, config)
  BY <1>2 DEF P!Refused, P!SentUuid
<1>4. P!Wire(r, config) # "invalid"
  BY DEF P!Wire, P!NormalizeEventUuid
<1>5. P!Admitted(config) => config.lane # "closed"
  BY <1>2 DEF P!Admitted
<1>6. P!ReturnedIsSent'
  BY <1>1, <1>3, <1>4, <1>5 DEF P!ReturnedIsSent
<1>7. P!Shape'
  <2>1. /\ r.allowed # {} => DOMAIN event'.properties \subseteq r.allowed
        /\ config.server /\ "$is_server" \in DOMAIN event'.properties => event'.properties["$is_server"] = "sdk"
        /\ r.allowed = {} => /\ DOMAIN p \subseteq DOMAIN event'.properties
                             /\ \A k \in DOMAIN p \ ({"$lib", "$lib_version", "$is_server"} \cup config.super) : event'.properties[k] = p[k]
    BY <1>1, <1>2, Enriched
  <2>2. r.call \in {"capture", "exception"} =>
          /\ \A k \in r.keys \ Sources : k \in DOMAIN p /\ p[k] = "explicit"
          /\ event'.id = P!None => "$process_person_profile" \in DOMAIN p
    BY <1>1, PropertiesMade
  <2> HIDE DEF r, config
  <2>3. r.call \in {"capture", "exception"} /\ r.allowed = {} =>
          \A k \in r.keys \ (P!OfTheSdk \cup config.super) : event'.properties[k] = "explicit"
    BY <2>1, <2>2 DEF P!OfTheSdk, Sources
  <2> QED
    BY <1>1, <2>1, <2>2, <2>3 DEF P!Shape
<1> QED
  BY <1>6, <1>7

(* No event is made.                                                      *)
LEMMA NothingMade == ASSUME event' = P!NoEvent PROVE (P!ReturnedIsSent /\ P!Shape)'
  BY DEF P!NoEvent, P!ReturnedIsSent, P!Shape

(* Every step keeps what is said of the last event.                       *)
LEMMA MadeStep == ASSUME P!ReturnedIsSent, P!Shape, P!Next PROVE (P!ReturnedIsSent /\ P!Shape)'
<1>1. CASE event' = event
  BY <1>1 DEF P!ReturnedIsSent, P!Shape
<1>2. ASSUME NEW t \in Tasks, NEW x \in Trials, P!Call(t, x.request, x.config) PROVE (P!ReturnedIsSent /\ P!Shape)'
  <2> DEFINE made == P!Made(t, x.request, x.config)
  <2>1. event' = IF made.dropped THEN P!NoEvent ELSE P!Enqueue(t, x.request, x.config, made.properties)
    BY <1>2 DEF P!Call
  <2>2. x.request.call \in {"capture", "exception"} => made.properties = P!Properties(t, x.request, x.config)
    BY DEF P!Made, P!Capture, P!Message
  <2> HIDE DEF made
  <2> QED
    BY <2>1, <2>2, Enqueued, NothingMade
<1>3. ASSUME NEW t \in Tasks, NEW x \in Trials, P!RaiseOut(t, x.request, x.config) PROVE (P!ReturnedIsSent /\ P!Shape)'
  <2>1. event' = P!NoEvent \/ event' = P!Enqueue(t, x.request, x.config, P!Properties(t, x.request, x.config))
    BY <1>3 DEF P!RaiseOut
  <2> QED
    BY <2>1, Enqueued, NothingMade
<1>4. ASSUME NEW t \in Tasks, NEW s \in Settings, P!SetField(t, s.field, s.value) PROVE event' = event
  BY <1>4, SourcesAssumption DEF P!Fields, P!SetField, P!IdentifyContext, P!SetContextSession, P!SetContextDeviceId, P!SetCodeVariables,
    P!SetMaskPatterns, P!SetIgnorePatterns, P!SetMaskUrlCredentials, P!SetDetectSecrets, P!Assign
<1>5. ASSUME NEW t \in Tasks PROVE P!ExitContext(t) \/ P!Fork(t) => event' = event
  BY DEF P!ExitContext, P!Fork
<1>6. ASSUME NEW t \in Tasks, NEW y, NEW z PROVE P!NewContext(t, y, z) \/ P!Tag(t, y) \/ P!Spawn(t, y) => event' = event
  BY DEF P!NewContext, P!Tag, P!Spawn
<1> QED
  BY <1>1, <1>2, <1>3, <1>4, <1>5, <1>6 DEF P!Next
------------------------------------------------------------------------------
(* A behaviour of EventSources is one of its parts.                        *)
SourcesInv == (Raising => RaisingInv) /\ EventAsAsked

LEMMA SourcesInitInvariant == SourcesInit => SourcesInv
<1>1. P!Init => P!ReturnedIsSent /\ P!Shape
  BY DEF P!Init, P!NoEvent, P!ReturnedIsSent, P!Shape
<1> QED
  BY <1>1, RaisingStarts DEF SourcesInit, SourcesInv, EventAsAsked

LEMMA SourcesStepInvariant == SourcesInv /\ [SourcesNext]_<<part, sourceVars>> => SourcesInv'
<1> SUFFICES ASSUME SourcesInv, [SourcesNext]_<<part, sourceVars>> PROVE SourcesInv'
  OBVIOUS
<1>1. part' = part
  BY DEF SourcesNext
<1>2. (Raising => RaisingInv)'
  BY <1>1, RaisingStep, RaisingStutter DEF SourcesInv, SourcesNext, Raising, sourceVars
<1>3. event' = event => (P!ReturnedIsSent => P!ReturnedIsSent') /\ (P!Shape => P!Shape')
  BY DEF P!ReturnedIsSent, P!Shape
<1>4. EventAsAsked'
  BY <1>1, <1>3, MadeStep DEF SourcesInv, SourcesNext, EventAsAsked, Raising, sourceVars, callVars
<1> QED
  BY <1>2, <1>4 DEF SourcesInv

(* Every reachable state satisfies the inductive invariants of the parts.  *)
THEOREM SourcesInvariance == SourcesSpec => []SourcesInv
  BY SourcesInitInvariant, SourcesStepInvariant, PTL DEF SourcesSpec

(* An exception is reported at most once, whatever contexts and hooks of   *)
(* whichever clients it passes, and a client reports no more of those its  *)
(* hooks see than a burst less one and what every whole interval adds.     *)
THEOREM ExceptionsAreReportedOnce == SourcesSpec => []ReportedOnce
<1>1. SourcesInv => ReportedOnce
  BY RaisingTold DEF SourcesInv, ReportedOnce
<1> QED
  BY <1>1, SourcesInvariance, PTL

(* Whatever the caller passes and before_send does, an event has the shape *)
(* it was asked in, and the id returned is the one it is queued under.     *)
THEOREM EventsAreAsAsked == SourcesSpec => []EventAsAsked
<1>1. SourcesInv => EventAsAsked
  BY DEF SourcesInv
<1> QED
  BY <1>1, SourcesInvariance, PTL
==============================================================================
