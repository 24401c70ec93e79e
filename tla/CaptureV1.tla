------------------------------ MODULE CaptureV1 ------------------------------
(***************************************************************************)
(* One call of _send_v1_batch (posthog/capture_v1.py): the batch is posted *)
(* until every event has a final verdict or the attempts are used up.  A   *)
(* 2xx answer carries a directive per event; only the events tagged        *)
(* "retry" are posted again, the drops are accumulated over the attempts   *)
(* and reported by the CaptureV1Error that ends the call.                  *)
(*                                                                         *)
(* Left out: the transformation of messages into wire events, compression, *)
(* headers, and how long the backoff sleeps.                               *)
(***************************************************************************)
EXTENDS Integers, FiniteSets

CONSTANTS
  Events,   \* the events of the batch, by uuid
  Retries   \* the values max_retries may have: any integers, negative ones too

ASSUME RetriesAssumption == Retries \subseteq Int

VARIABLES
  max_retries,  \* after max(0, max_retries)
  at,           \* about to post, or in _backoff
  attempt,      \* the number of the current or last attempt, from 1
  pending,      \* pending_uuids
  all_drops,    \* the uuids in all_drops
  heard,        \* ghost: per event, the last directive read from an answer
  outcome       \* how the call ended

vars == <<max_retries, at, attempt, pending, all_drops, heard, outcome>>

\* "ok" stands for ok, warning and values this SDK does not know: the loop
\* tests for "retry" and "drop" only.
Directives == {"ok", "drop", "retry"}

NoOutcome == [kind |-> "none", drops |-> {}, retry_exhausted |-> {}]

Outcomes == [kind : {"none", "returned", "CaptureV1Error", "transport"},
             drops : SUBSET Events, retry_exhausted : SUBSET Events]

TypeOK ==
  /\ max_retries \in Nat
  /\ at \in {"post", "backoff"}
  /\ attempt \in Nat
  /\ pending \subseteq Events
  /\ all_drops \subseteq Events
  /\ heard \in [Events -> Directives \cup {"nothing"}]
  /\ outcome \in Outcomes

AtLeastOnce(retries) == IF retries < 0 THEN 0 ELSE retries

Init ==
  /\ \E r \in Retries : max_retries = AtLeastOnce(r)
  /\ at = "post"
  /\ attempt = 1
  /\ pending = Events
  /\ all_drops = {}
  /\ heard = [e \in Events |-> "nothing"]
  /\ outcome = NoOutcome

-----------------------------------------------------------------------------
LastAttempt == attempt = max_retries + 1

End(kind, drops, exhausted) ==
  /\ outcome' = [kind |-> kind, drops |-> drops, retry_exhausted |-> exhausted]
  /\ UNCHANGED at

\* The loop goes on after _backoff has slept.
Continue ==
  /\ at' = "backoff"
  /\ UNCHANGED outcome

Raise(exhausted) == End("CaptureV1Error", all_drops', exhausted)

\* _post_v1 raised: no connection, a timeout.  The last exception is raised
\* again as it is; it carries no drops.
Unreachable ==
  /\ \/ LastAttempt /\ End("transport", {}, {})
     \/ ~LastAttempt /\ Continue
  /\ UNCHANGED <<pending, all_drops, heard>>

\* A 2xx whose body is no results map.
Malformed ==
  /\ UNCHANGED <<pending, all_drops, heard>>
  /\ Raise({})

\* 408, 500, 502, 503, 504.
Transient ==
  /\ UNCHANGED <<pending, all_drops, heard>>
  /\ \/ LastAttempt /\ Raise({})
     \/ ~LastAttempt /\ Continue

\* Any other status.
Refused ==
  /\ UNCHANGED <<pending, all_drops, heard>>
  /\ Raise({})

\* An event the results map does not mention is accepted.
Directive(results, e) == IF e \in DOMAIN results THEN results[e] ELSE "ok"

ToRetry(results) == {e \in pending : Directive(results, e) = "retry"}

\* Mutant: the drops of this attempt only.
DroppedLast(results) == {e \in pending : Directive(results, e) = "drop"}

Dropped(results) ==
  all_drops \cup {e \in pending : Directive(results, e) = "drop"}

\* Mutant: the whole batch is posted again, as v0 does.
ResendAll(results) == pending

Resend(results) == ToRetry(results)

\* A 2xx with a results map, which may mention any of the events.
Answered(results) ==
  /\ all_drops' = Dropped(results)
  /\ heard' = [e \in Events |->
                 IF e \in pending THEN Directive(results, e) ELSE heard[e]]
  /\ \/ /\ ToRetry(results) = {}
        /\ \/ all_drops' = {} /\ End("returned", {}, {})
           \/ all_drops' # {} /\ Raise({})
        /\ UNCHANGED pending
     \/ /\ ToRetry(results) # {} /\ LastAttempt
        /\ Raise(ToRetry(results))
        /\ UNCHANGED pending
     \/ /\ ToRetry(results) # {} /\ ~LastAttempt
        /\ pending' = Resend(results)
        /\ Continue

Post ==
  \/ Unreachable \/ Malformed \/ Transient \/ Refused
  \/ \E S \in SUBSET Events : \E results \in [S -> Directives] : Answered(results)

Backoff ==
  /\ at' = "post"
  /\ attempt' = attempt + 1
  /\ UNCHANGED <<pending, all_drops, heard, outcome>>

Next ==
  /\ outcome.kind = "none"
  /\ \/ at = "post" /\ Post /\ UNCHANGED attempt
     \/ at = "backoff" /\ Backoff
  /\ UNCHANGED max_retries

Spec == Init /\ [][Next]_vars

\* The loop waits for nothing but the request, which has a timeout, and the
\* backoff, which is capped.
FairSpec == Spec /\ WF_vars(Next)

-----------------------------------------------------------------------------
Ended == outcome.kind # "none"

HeardIs(d) == {e \in Events : heard[e] = d}

\* What the call tells its caller is what the server said of every event over
\* all the attempts: a plain return means that each one was accepted, and the
\* error carries exactly the events dropped, the early ones too
\* (_send_v1_batch, all_drops).
TellsWhatItHeard ==
  /\ outcome.kind = "returned" => HeardIs("ok") = Events
  /\ outcome.kind = "CaptureV1Error" => outcome.drops = HeardIs("drop")
  /\ outcome.retry_exhausted \subseteq HeardIs("retry")

\* Partial retry: an event with a final verdict is not posted again, and one
\* without is in every later post until the call ends.
ResendsTheUndecided ==
  ~Ended => pending = Events \ (HeardIs("ok") \cup HeardIs("drop"))

\* A failure worth a retry is given up after max_retries + 1 attempts, not
\* before, not later, and a negative max_retries still posts once.
AttemptsUsed ==
  /\ attempt \in 1 .. max_retries + 1
  /\ outcome.kind = "transport" \/ outcome.retry_exhausted # {}
       => attempt = max_retries + 1

\* The uuids the server told us to retry but we never delivered are carried by
\* the CaptureV1Error that ends the last attempt (docstring of _send_v1_batch,
\* comment in CaptureV1Error).
ExhaustedReported ==
  outcome.kind = "CaptureV1Error" /\ attempt = max_retries + 1
    => HeardIs("retry") \subseteq outcome.retry_exhausted

\* The call ends whatever the server answers: no answer is waited for or
\* posted against for ever (_send_v1_batch, _parse_v1_response).
Ends == <>Ended

=============================================================================
