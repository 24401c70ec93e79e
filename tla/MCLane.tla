------------------------------- MODULE MCLane -------------------------------
(* A small instance of Lane for TLC. *)
EXTENDS Lane, TLC

CONSTANTS e1, e2, e3, c1, c2, f1

\* Three events while nobody flushes, and two beside a flush(None).
Flushing == \E t \in Flushers : tpc[t] # "call"
MCNext == Next /\ (Flushing' => Cardinality({e \in Events : status'[e] # "new"}) <= 2)
MCSpec == Init /\ [][MCNext]_vars

Symmetry == Permutations(Consumers) \cup Permutations({e2, e3})
=============================================================================
