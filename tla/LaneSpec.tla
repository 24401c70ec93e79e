------------------------------ MODULE LaneSpec ------------------------------
(***************************************************************************)
(* What a capture lane promises its client, without queue, batches,        *)
(* threads or retries: every captured event is refused at once or          *)
(* accepted, an accepted event gets one outcome and keeps it, no event is  *)
(* accepted once the lane is closed, and a shutdown that has returned      *)
(* leaves no accepted event without an outcome.                            *)
(***************************************************************************)
CONSTANTS
  Events,       \* the captured events
  Outcomes      \* the ways an accepted event can end, each a final status

VARIABLES
  status,       \* what has become of each event
  closed,       \* no admission any more
  finished      \* a shutdown of the lane has returned

vars == <<status, closed, finished>>

Statuses == {"new", "refused", "accepted"} \cup Outcomes

TypeOK ==
  /\ status \in [Events -> Statuses]
  /\ closed \in BOOLEAN
  /\ finished \in BOOLEAN

Init ==
  /\ status = [e \in Events |-> "new"]
  /\ closed = FALSE
  /\ finished = FALSE

Accept(e) ==
  /\ status[e] = "new"
  /\ ~closed
  /\ status' = [status EXCEPT ![e] = "accepted"]
  /\ UNCHANGED <<closed, finished>>

Refuse(e) ==
  /\ status[e] = "new"
  /\ status' = [status EXCEPT ![e] = "refused"]
  /\ UNCHANGED <<closed, finished>>

\* The events of one batch end together, all in the same way.
Settle(S, o) ==
  /\ \A e \in S : status[e] = "accepted"
  /\ status' = [e \in Events |-> IF e \in S THEN o ELSE status[e]]
  /\ UNCHANGED <<closed, finished>>

Close ==
  /\ ~closed
  /\ closed' = TRUE
  /\ UNCHANGED <<status, finished>>

Finish ==
  /\ closed
  /\ ~finished
  /\ \A e \in Events : status[e] # "accepted"
  /\ finished' = TRUE
  /\ UNCHANGED <<status, closed>>

Next ==
  \/ \E e \in Events : Accept(e) \/ Refuse(e)
  \/ \E S \in SUBSET Events, o \in Outcomes : Settle(S, o)
  \/ Close
  \/ Finish

Spec == Init /\ [][Next]_vars
=============================================================================
