--------------------------- MODULE MCFlagEvaluation ---------------------------
(***************************************************************************)
(* The parts of flag evaluation that share no state, checked in one run: a *)
(* behaviour exercises the comparison of one filter (FlagValues), one set  *)
(* of definitions (FlagMatching), the calls of two threads, or one         *)
(* snapshot (FlagResults), and leaves the variables of the others alone.   *)
(***************************************************************************)
EXTENDS FlagResults, TLC

CONSTANT Parts      \* the parts this run exercises

VARIABLES part, filter, override, matches, scene, answers

valueVars == <<filter, override, matches>>
matchVars == <<scene, answers>>
NoValues == filter = 0 /\ override = 0 /\ matches = 0
NoMatching == scene = 0 /\ answers = 0
NoResults == Init /\ backend = "memory" /\ definitions.local = [f \in Flags |-> "on"]
------------------------------------------------------------------------------
(* FlagValues: letters 11, 12 and the capitals 21, 22; digits; one version *)
(* of each shape; the days around the end of February.                     *)
Text(w) == [kind |-> "text", is |-> w]
Num(n) == [kind |-> "number", is |-> n]
Version(v) == [kind |-> "version", is |-> v]
Date(d) == [kind |-> "date", is |-> d]
Words == {Text(w) : w \in {<<>>, <<11>>, <<21>>, <<11, 12>>, <<12, 21, 12>>, <<9>>, <<1, 0>>}}
Numbers == {Num(n) : n \in {1, 9, 10}}
Versions == {Version(v) : v \in {<<>>, <<1>>, <<0, 1>>, <<1, -1>>, <<-1>>, <<1, -3>>, <<0, 1, -3>>, <<-3>>}
                                  \cup [1 .. 3 -> 0 .. 2]}
Dates == {Date(d) : d \in {<<2024, 1, 31>>, <<2024, 2, 28>>, <<2024, 2, 29>>, <<2024, 3, 1>>, <<2023, 2, 28>>, <<2023, 3, 1>>}}
Ago == {[kind |-> "ago", is |-> [number |-> n, interval |-> i]] :
          n \in {0, 1, 2, 12, 13, 10000}, i \in {"d", "w", "m", "y", "x"}}
SomeFilters ==
  [op : {"exact", "is_not", "is_set", "is_not_set", "icontains", "not_icontains", "starts_with", "not_starts_with",
         "ends_with", "not_ends_with", "gt", "gte", "lt", "lte", "no such operator"}, value : Words \cup Numbers]
  \cup [op : {"exact", "is_not"}, value : {[kind |-> "list", is |-> {<<11>>, <<12, 11, 12>>}]}]
  \cup [op : {"regex", "not_regex"}, value : Words \cup {[kind |-> "bad pattern", is |-> <<>>]}]
  \cup [op : {"is_date_before", "is_date_after"}, value : Dates \cup Ago]
  \cup [op : {"semver_eq", "semver_neq", "semver_gt", "semver_gte", "semver_lt", "semver_lte",
              "semver_tilde", "semver_caret", "semver_wildcard"}, value : Versions]
SomeOverrides == {[kind |-> "not given"], [kind |-> "none"]} \cup Words \cup Numbers \cup Versions \cup Dates
V == INSTANCE FlagValues WITH Filters <- SomeFilters, Overrides <- SomeOverrides, Today <- <<2024, 3, 31>>
------------------------------------------------------------------------------
(* FlagMatching: facts that the caller passed or left out, of a person and *)
(* of a group; a cohort of two entries of every kind; two conditions; a    *)
(* dependency chain; group targeting, of the flag and of a condition.      *)
Prop(k) == [type |-> "property", key |-> k, negation |-> FALSE]
Neg(p) == [p EXCEPT !.negation = TRUE]
InCohort(c, op) == [type |-> "cohort", cohort |-> c, op |-> op, negation |-> FALSE]
Static == InCohort("static", "in")
Dep(f, op, expected, chain) ==
  [type |-> "flag", key |-> f, op |-> op, expected |-> expected, chain |-> chain, negation |-> FALSE]
Group(all, values) == [type |-> "group", all |-> all, values |-> values, malformed |-> FALSE, negation |-> FALSE]
Cond(props, rollout) == [props |-> props, rollout |-> rollout, agg |-> "person", variant |-> "no variant"]
FlagOf(conds) == [active |-> TRUE, continuity |-> FALSE, agg |-> "person", device |-> FALSE,
                  earlyExit |-> FALSE, variants |-> <<>>, conditions |-> conds]

Facts == {x \in [known : {"yes", "no", "unknown"}, true : BOOLEAN] : x.known # "unknown" => x.true = (x.known = "yes")}
Known == {x \in Facts : x.known # "unknown"}
Yes == [known |-> "yes", true |-> TRUE]

Scene(flags, cohorts, p1, p2, o1, group, device, lower, incomplete) ==
  [flags |-> flags, cohorts |-> cohorts, incomplete |-> incomplete,
   request |-> [known |-> [person |-> [k1 |-> p1.known, k2 |-> p2.known], org |-> [k1 |-> o1.known]],
                group |-> group, device |-> device, bucket |-> [person |-> 2, org |-> 1],
                lower |-> [person |-> lower, org |-> ~lower]],
   truth |-> [memberOf |-> IF p1.true THEN {"static"} ELSE {},
              facts |-> [person |-> [k1 |-> p1.true, k2 |-> p2.true], org |-> [k1 |-> o1.true]]]]
Asked(flags, cohorts, p1, p2, incomplete) == Scene(flags, cohorts, p1, p2, Yes, "full", TRUE, TRUE, incomplete)

Entries == {Prop("k1"), Neg(Prop("k2")), Neg(InCohort("c2", "exact")),
            Group(TRUE, <<Neg(Prop("k1")), Prop("k2")>>), Group(FALSE, <<>>), Static}
CohortScenes ==
  {Asked([top |-> FlagOf(<<Cond(<<InCohort("c1", op)>>, "all")>>)],
         [c1 |-> Group(all, <<e1, e2>>), c2 |-> Group(FALSE, <<Prop("k2"), Prop("k1")>>)], p1, p2, Static \in {e1, e2}) :
     op \in {"exact", "not_in"}, all \in BOOLEAN, e1 \in Entries, e2 \in Entries, p1 \in Facts, p2 \in Facts}
  \cup {Asked([top |-> FlagOf(<<Cond(<<InCohort("c1", op)>>, "all")>>)], [c1 |-> [Group(TRUE, vs) EXCEPT !.malformed = bad]], p1, Yes, TRUE) :
     op \in {"exact", "is"}, bad \in BOOLEAN, vs \in {<<>>, <<Prop("k1")>>}, p1 \in Facts}

Conds == {Cond(ps, r) : ps \in {<<>>, <<Prop("k2"), Prop("k1")>>, <<Prop("k1"), Static>>}, r \in {"no rollout", "half", "nobody"}}
ConditionScenes(facts, early) ==
  {Asked([top |-> [FlagOf(<<c1, [c2 EXCEPT !.variant = "b"]>>) EXCEPT !.earlyExit = early, !.variants = vs]],
         <<>>, p1, p2, Static \in {c1.props[i] : i \in DOMAIN c1.props} \cup {c2.props[i] : i \in DOMAIN c2.props}) :
     c1 \in Conds, c2 \in Conds, vs \in {<<>>, <<[key |-> "a", share |-> 2], [key |-> "b", share |-> 1]>>},
     p1 \in facts, p2 \in Known}

Bases == {FlagOf(<<Cond(<<Prop("k1")>>, "all")>>), [FlagOf(<<Cond(<<>>, "all")>>) EXCEPT !.active = FALSE],
          [FlagOf(<<Cond(<<Prop("k1")>>, "half")>>) EXCEPT !.device = TRUE], FlagOf(<<Cond(<<Static>>, "all")>>),
          [FlagOf(<<Cond(<<Prop("k1")>>, "all")>>) EXCEPT !.variants = <<[key |-> "a", share |-> 4]>>]}
DependencyScenes ==
  {Scene([base |-> b, mid |-> FlagOf(<<Cond(<<Prop("k2")>>, "all")>>),
          top |-> FlagOf(<<Cond(<<Prop("k2")>>, "nobody"), Cond(<<Dep("base", op, expected, chain)>>, "all"),
                           Cond(<<Dep("base", op, "true", <<"base">>)>>, "half")>>)],
         <<>>, p1, p2, Yes, "full", device, TRUE,
         b = FlagOf(<<Cond(<<Static>>, "all")>>) \/ chain \notin {<<"base">>, <<"mid", "base">>}) :
    b \in Bases, op \in {"flag_evaluates_to", "exact"}, expected \in {"true", "false", "a"},
    chain \in {<<>>, <<"base">>, <<"mid", "base">>, <<"mid">>, <<"gone", "base">>}, p1 \in Facts, p2 \in Known, device \in BOOLEAN}

Targets == {<<"person", a1, a2>> : a1 \in {"person", "org"}, a2 \in {"person", "org"}}
             \cup {<<"org", "org", "org">>, <<"unknown group", "unknown group", "unknown group">>}
GroupScenes ==
  {Scene([top |-> [FlagOf(<<[Cond(<<Prop("k1")>>, "half") EXCEPT !.agg = t[2]], [Cond(<<Prop("k1")>>, "all") EXCEPT !.agg = t[3]]>>)
                     EXCEPT !.agg = t[1], !.device = (t[1] = "person"), !.continuity = cont, !.active = on]],
         <<>>, p1, Yes, o1, group, device, lower, FALSE) :
    t \in Targets, group \in {"absent", "key only", "full"}, device \in BOOLEAN, cont \in BOOLEAN, on \in BOOLEAN,
    p1 \in Facts, o1 \in Facts, lower \in BOOLEAN}

(* early_exit is left to requests that know every fact: see MatchingEarly. *)
M == INSTANCE FlagMatching WITH Scenarios <- CohortScenes \cup ConditionScenes(Facts, FALSE) \cup
        ConditionScenes(Known, TRUE) \cup DependencyScenes \cup GroupScenes
MatchingEarly == INSTANCE FlagMatching WITH Scenarios <- ConditionScenes(Facts, TRUE)
------------------------------------------------------------------------------
(* FlagResults: two threads that ask for the flag f while time stands      *)
(* still; one thread with a Redis cache; one thread that reads snapshots.  *)
f_only == definitions'.local["g"] = "on" /\ \A c \in Calls : calls'[c].flag # "g"
c1_only == calls'["c2"] = Idle
ResultsInit ==
  /\ Init
  /\ part = "redis" <=> backend = "redis"
  /\ part # "snapshots" => definitions.local["g"] = "on"
ResultsNext ==
  \/ part = "calls" /\ (Poller \/ CallNext \/ Reports) /\ f_only /\ now' = 0
  \/ part = "redis" /\ (Poller \/ CallNext \/ Reports) /\ f_only /\ c1_only
  \/ part = "snapshots" /\ (Poller \/ SnapshotNext \/ Reports) /\ c1_only

PartsInit ==
  /\ part \in Parts
  /\ IF part = "values" THEN V!Init ELSE NoValues
  /\ IF part = "matching" THEN M!Init ELSE IF part = "early exit" THEN MatchingEarly!Init ELSE NoMatching
  /\ IF part \in {"calls", "snapshots", "redis"} THEN ResultsInit ELSE NoResults

PartsNext ==
  /\ UNCHANGED part
  /\ \/ part = "values" /\ V!Next /\ UNCHANGED <<matchVars, vars>>
     \/ part \in {"matching", "early exit"} /\ M!Next /\ UNCHANGED <<valueVars, vars>>
     \/ ResultsNext /\ UNCHANGED <<valueVars, matchVars>>

(* The modules' properties, each for the behaviours of its part; those of  *)
(* FlagResults are checked as they are.                                    *)
(* FlagValues: negated operators, version ranges and relative dates are    *)
(* what they say; FlagMatching: no local answer contradicts the            *)
(* definitions, and a request that passes every fact is answered exactly.  *)
LocalAnswers == /\ part = "values" => V!Comparisons
                /\ part = "matching" => M!LocalAnswers
(* FlagMatching: a flag is not answered off by early_exit while an earlier *)
(* condition is undecided.                                                 *)
FalseIsConclusive == part = "early exit" => M!FalseIsConclusive
================================================================================
