----------------------------- MODULE FlagMatching -----------------------------
(***************************************************************************)
(* Local evaluation of feature flags: _compute_flag_locally and the        *)
(* recursive matching of conditions, cohorts and flag dependencies, with   *)
(* the evaluation cache threaded through it as the code threads it.  What  *)
(* one property filter answers is a fact of the request (module            *)
(* FlagValues computes it from operators and values).  Beside it stands    *)
(* what the flag's definition means when everything is known, as the       *)
(* server knows it: no caches, no order of evaluation, no exceptions.      *)
(***************************************************************************)
EXTENDS Integers, Sequences, FiniteSets, SequencesExt, TLC

CONSTANTS Scenarios     \* what is evaluated: [flags, cohorts, request, truth]

VARIABLES scene,        \* the definitions, the request and what is really so
          answers       \* for each flag evaluated so far, the local answer

vars == <<scene, answers>>

NoKey == "no key"
NoRollout == "no rollout"

Flag(f) == scene.flags[f]
Request == scene.request
Defined == DOMAIN scene.flags

(* Results: a flag's value ("true", "false" or a variant), or the          *)
(* exception that ended the evaluation: "unknown" (InconclusiveMatchError) *)
(* or "server" (RequiresServerEvaluation).  Matches of filters, cohorts    *)
(* and groups are "yes" or "no", or one of the same two.                   *)
Exceptions == {"unknown", "server"}
Out(r, c) == [r |-> r, c |-> c]
Not(r) == IF r = "yes" THEN "no" ELSE IF r = "no" THEN "yes" ELSE r
Answer(b) == IF b THEN "yes" ELSE "no"

(* matches_dependency_value: any variant satisfies an expected true.       *)
MatchesDependencyValue(expected, actual) ==
  IF actual \in {"true", "false"} THEN actual = expected ELSE expected \in {"true", actual}

(* resolve_bucketing_value                                                 *)
Bucketed(flag) == flag.device => Request.device

(* _hash against the rollout percentage: a subject is in the lower or the  *)
(* upper half of a flag's buckets, and a condition admits everyone, the    *)
(* lower half or nobody.                                                   *)
InRollout(cond, lower) == \/ cond.rollout \in {NoRollout, "all"}
                          \/ cond.rollout = "half" /\ lower

(* variant_lookup_table, get_matching_variant: the variants share the      *)
(* buckets 0..3 in order; a bucket past them all has no variant.           *)
LookupTable(flag) ==
  [i \in DOMAIN flag.variants |->
     [key |-> flag.variants[i].key,
      min |-> FoldLeft(LAMBDA n, v : n + v.share, 0, SubSeq(flag.variants, 1, i - 1)),
      max |-> FoldLeft(LAMBDA n, v : n + v.share, 0, SubSeq(flag.variants, 1, i))]]
Variant(flag, cond, bucket) ==
  IF \E i \in DOMAIN flag.variants : flag.variants[i].key = cond.variant THEN cond.variant
  ELSE LET hit == SelectInSeq(LookupTable(flag), LAMBDA v : v.min <= bucket /\ bucket < v.max)
       IN  IF hit = 0 THEN "true" ELSE flag.variants[hit].key
------------------------------------------------------------------------------
(* The matching as the code does it.  c is the evaluation cache: a         *)
(* function from flags to values, "none" for one that was inconclusive.    *)
RECURSIVE Match(_, _, _, _), MatchGroup(_, _, _)

CohortAnswer(p, m) ==
  IF m.r \in Exceptions \/ p.op \in {"exact", "in"} THEN m
  ELSE Out(IF p.op = "not_in" THEN Not(m.r) ELSE "unknown", m.c)
MatchCohort(p, who, c) ==
  IF p.cohort \notin DOMAIN scene.cohorts THEN Out("server", c)
  ELSE CohortAnswer(p, MatchGroup(scene.cohorts[p.cohort], who, c))

(* One member of a dependency chain: evaluate and cache it.                *)
Cached(f, m) == CASE m.r = "server"  -> m
                  [] m.r = "unknown" -> Out("unknown", f :> "none" @@ m.c)
                  [] OTHER           -> Out("yes", f :> m.r @@ m.c)
EvaluateMember(acc, f, who) ==
  IF acc.r # "yes" \/ f \in DOMAIN acc.c THEN acc
  ELSE IF f \notin Defined THEN Out("unknown", acc.c @@ f :> "none")
  ELSE IF ~Flag(f).active THEN Out("yes", acc.c @@ f :> "false")
  ELSE IF Flag(f).agg = "person" /\ ~Bucketed(Flag(f)) THEN Out("unknown", acc.c @@ f :> "none")
  ELSE Cached(f, Match(f, who, FALSE, acc.c))

(* The chain only fills the cache: the flag named decides.                 *)
Compared(p, walk) ==
  IF walk.r # "yes" THEN walk
  ELSE IF p.key \notin DOMAIN walk.c \/ walk.c[p.key] = "none" THEN Out("unknown", walk.c)
  ELSE Out(Answer(MatchesDependencyValue(p.expected, walk.c[p.key])), walk.c)
EvaluateFlagDependency(p, who, c) ==
  IF p.op # "flag_evaluates_to" \/ p.key = NoKey THEN Out("no", c)
  ELSE IF p.chain = <<>> THEN Out("unknown", c)
  ELSE Compared(p, FoldLeft(LAMBDA acc, f : EvaluateMember(acc, f, who), Out("yes", c), p.chain))

MatchOne(p, who, c) ==
  CASE p.type = "cohort" -> MatchCohort(p, who, c)
    [] p.type = "flag"   -> EvaluateFlagDependency(p, who, c)
    [] p.type = "group"  -> MatchGroup(p, who, c)
    [] OTHER             -> Out(Request.known[who][p.key], c)

(* match_property_group: every entry is evaluated, so one that needs the   *)
(* server is found even when another has decided the group.                *)
\* Mutant: an entry that cannot be decided counts as one that does not match.
GroupEntryUndecided(acc, p, group, m) ==
  [acc EXCEPT !.c = m.c, !.r = IF ((m.r = "yes") # p.negation) = group.all THEN @ ELSE Answer(~group.all)]
GroupEntry(acc, p, group, m) ==
  CASE m.r = "server"  -> [acc EXCEPT !.r = "server"]
    [] m.r = "unknown" -> [acc EXCEPT !.inconclusive = TRUE, !.c = m.c]
    [] OTHER -> [acc EXCEPT !.c = m.c,
                   !.r = IF ((m.r = "yes") # p.negation) = group.all THEN @ ELSE Answer(~group.all)]
GroupAnswer(group, all) ==
  Out(IF all.r # "" THEN all.r ELSE IF all.inconclusive THEN "unknown" ELSE Answer(group.all), all.c)
MatchGroup(group, who, c) ==
  IF group.malformed THEN Out("server", c)
  ELSE IF group.values = <<>> THEN Out("yes", c)
  ELSE GroupAnswer(group,
         FoldLeft(LAMBDA acc, p : IF acc.r = "server" THEN acc ELSE GroupEntry(acc, p, group, MatchOne(p, who, acc.c)),
                  [r |-> "", inconclusive |-> FALSE, c |-> c], group.values))

(* is_condition_match: stops at the first filter that does not match.      *)
RolledOut(cond, who, props) ==
  CASE props.r = "no" -> Out("no match", props.c)
    [] props.r \in Exceptions -> props
    [] OTHER -> Out(IF InRollout(cond, Request.lower[who]) THEN "match" ELSE "out of rollout", props.c)
IsConditionMatch(cond, who, c) ==
  RolledOut(cond, who, FoldLeft(LAMBDA acc, p : IF acc.r = "yes" THEN MatchOne(p, who, acc.c) ELSE acc,
                                Out("yes", c), cond.props))

(* match_feature_flag_properties, condition by condition: outer is FALSE   *)
(* in a dependency, where the groups of the request are not passed on.     *)
Subject(cond, flag, who) == IF cond.agg # flag.agg /\ cond.agg # "person" THEN cond.agg ELSE who
Conditional(acc, cond, flag, subject, m) ==
  CASE m.r = "match"   -> [acc EXCEPT !.c = m.c, !.r = Variant(flag, cond, Request.bucket[subject])]
    [] m.r = "out of rollout" -> [acc EXCEPT !.c = m.c, !.r = IF flag.earlyExit THEN "false" ELSE @]
    [] m.r = "server"  -> [acc EXCEPT !.r = "server"]
    [] m.r = "unknown" -> [acc EXCEPT !.c = m.c, !.inconclusive = TRUE]
    [] OTHER           -> [acc EXCEPT !.c = m.c]
ConditionStep(acc, cond, flag, who, subject, outer) ==
  IF acc.r # "" \/ (subject # who /\ (~outer \/ Request.group = "absent")) THEN acc
  ELSE IF subject # who /\ Request.group = "key only" THEN [acc EXCEPT !.inconclusive = TRUE]
  ELSE Conditional(acc, cond, flag, subject, IsConditionMatch(cond, subject, acc.c))
FlagAnswer(all) ==
  Out(IF all.r # "" THEN all.r ELSE IF all.inconclusive THEN "unknown" ELSE "false", all.c)
Match(f, who, outer, c) ==
  FlagAnswer(FoldLeft(LAMBDA acc, cond : ConditionStep(acc, cond, Flag(f), who, Subject(cond, Flag(f), who), outer),
                      [r |-> "", inconclusive |-> FALSE, c |-> c], Flag(f).conditions))

(* _compute_flag_locally: each flag starts with an empty cache.            *)
ComputeFlagLocally(f) ==
  LET flag == Flag(f) IN
  CASE flag.continuity -> "unknown"
    [] ~flag.continuity /\ ~flag.active -> "false"
    [] ~flag.continuity /\ flag.active /\ flag.agg # "person" ->
         CASE flag.agg = "unknown group"       -> "unknown"
           [] flag.agg # "unknown group" /\ Request.group = "absent"   -> "false"
           [] flag.agg # "unknown group" /\ Request.group = "key only" -> "unknown"
           [] OTHER -> Match(f, flag.agg, TRUE, <<>>).r
    [] OTHER -> IF Bucketed(flag) THEN Match(f, "person", TRUE, <<>>).r ELSE "unknown"

Init == scene \in Scenarios /\ answers = <<>>

Evaluate(f) ==
  /\ f \notin DOMAIN answers
  /\ answers' = answers @@ f :> ComputeFlagLocally(f)
  /\ UNCHANGED scene

Next == \E f \in Defined : Evaluate(f)
Spec == Init /\ [][Next]_vars
------------------------------------------------------------------------------
(* What the definitions mean.  A condition admits a subject when all its   *)
(* filters hold; a flag takes the value of its first condition that admits *)
(* its subject and is in rollout, unless early_exit ends it before.        *)
RECURSIVE Value(_, _, _), Holds(_, _)

Entry(p, holds) == holds # p.negation
GroupHolds(g, who) ==
  g.values = <<>> \/ Cardinality({i \in DOMAIN g.values : Entry(g.values[i], Holds(g.values[i], who))})
                      \in (IF g.all THEN {Len(g.values)} ELSE 1 .. Len(g.values))
InCohortTruly(p, who) ==
  IF p.cohort \in DOMAIN scene.cohorts THEN GroupHolds(scene.cohorts[p.cohort], who)
                                       ELSE p.cohort \in scene.truth.memberOf
Holds(p, who) ==
  CASE p.type = "cohort" -> InCohortTruly(p, who) = (p.op # "not_in")
    [] p.type = "flag"   -> p.op = "flag_evaluates_to" /\ p.key # NoKey /\
                              MatchesDependencyValue(p.expected, Value(p.key, who, FALSE))
    [] p.type = "group"  -> GroupHolds(p, who)
    [] OTHER             -> scene.truth.facts[who][p.key]

Admitted(cond, who, subject, outer) ==
  /\ subject = who \/ (outer /\ Request.group # "absent")
  /\ \A i \in DOMAIN cond.props : Holds(cond.props[i], subject)
InRolloutAs(cond, subject) == InRollout(cond, Request.lower[subject])
ValueAt(flag, who, first) ==
  IF first = 0 \/ ~InRolloutAs(flag.conditions[first], Subject(flag.conditions[first], flag, who)) THEN "false"
  ELSE Variant(flag, flag.conditions[first], Request.bucket[Subject(flag.conditions[first], flag, who)])
Value(f, who, outer) ==
  IF ~Flag(f).active THEN "false"
  ELSE ValueAt(Flag(f), who, SelectInSeq(Flag(f).conditions, LAMBDA cond :
         /\ Flag(f).earlyExit \/ InRolloutAs(cond, Subject(cond, Flag(f), who))
         /\ Admitted(cond, who, Subject(cond, Flag(f), who), outer)))
TrueValue(f) ==
  IF Flag(f).agg = "person" THEN Value(f, "person", TRUE)
  ELSE IF Request.group = "absent" THEN "false" ELSE Value(f, Flag(f).agg, TRUE)

(* A local answer never contradicts the definition: what is answered       *)
(* without the server, from whatever part of the facts the caller passed,  *)
(* is on or off as it would be with all of them (_compute_flag_locally and *)
(* everything it calls; an exception leaves the question to the server).   *)
LocalAnswersAgree ==
  \A f \in DOMAIN answers :
    answers[f] \notin Exceptions => (answers[f] = "false") = (TrueValue(f) = "false")

(* With every fact supplied the answer has the right variant too, and a    *)
(* request that names its device, its group's properties and no static     *)
(* cohort is always answered: no false fallback to the server.             *)
Informed == \A who \in DOMAIN Request.known : \A k \in DOMAIN Request.known[who] : Request.known[who][k] # "unknown"
Answerable(f) == ~Flag(f).continuity /\ Request.device /\ Request.group # "key only" /\ Flag(f).agg # "unknown group"
InformedAnswersAreExact ==
  Informed => \A f \in DOMAIN answers :
    /\ answers[f] \notin Exceptions => answers[f] = TrueValue(f)
    /\ answers[f] \in Exceptions => ~Answerable(f) \/ scene.incomplete

LocalAnswers == LocalAnswersAgree /\ InformedAnswersAreExact

(* "We can only return False when either all conditions are False, or no   *)
(* condition was inconclusive" (match_feature_flag_properties): a flag is  *)
(* not answered off while a condition the code could not decide may be on. *)
FalseIsConclusive ==
  \A f \in DOMAIN answers : answers[f] = "false" => TrueValue(f) = "false"
===============================================================================
