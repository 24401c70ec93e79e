------------------------------ MODULE FlagValues ------------------------------
(***************************************************************************)
(* One property filter of a flag condition against the value a caller      *)
(* supplied: match_property, its dates and its version ranges.  A word is  *)
(* a sequence of letters: digits are 0..9, a capital is its small letter   *)
(* plus 10.  A version is the sequence of its dotted parts.  A date is     *)
(* year, month and day; hours and time zones are left out.                 *)
(***************************************************************************)
EXTENDS Integers, Sequences, SequencesExt

CONSTANTS Filters,      \* the filters [op, value] compared
          Overrides,    \* the values supplied for the filter's key
          Today         \* the date on which relative dates are resolved

VARIABLES filter,       \* the filter of the comparison
          override,     \* the value supplied, NotGiven without one
          matches       \* "yes", "no", "unknown" (InconclusiveMatchError), or ""

vars == <<filter, override, matches>>

NotGiven == [kind |-> "not given"]
NoneValue == [kind |-> "none"]

Bad   == -1     \* a part of a version that is no number, or has a leading zero
Star  == -3     \* a wildcard part of a version

Answer(b) == IF b THEN "yes" ELSE "no"

(* The operators of PROPERTY_OPERATORS, those that negate another, and the *)
(* one they negate.                                                        *)
Negates == [is_not |-> "exact", not_icontains |-> "icontains", not_starts_with |-> "starts_with",
            not_ends_with |-> "ends_with", not_regex |-> "regex", semver_neq |-> "semver_eq"]

NoneValuesAllowed == {"is_not"}
------------------------------------------------------------------------------
(* Text: comparisons ignore case; a filter may list several words.  A      *)
(* pattern is a word looked for anywhere, or one that does not compile.    *)
Casefold(w) == [i \in DOMAIN w |-> IF w[i] >= 20 THEN w[i] - 10 ELSE w[i]]
Str(v) == IF v.kind = "number"
          THEN IF v.is < 10 THEN <<v.is>> ELSE <<v.is \div 10, v.is % 10>>
          ELSE IF v.kind = "none" THEN <<13, 12, 11>> ELSE v.is

StrIEquals(a, b) == Casefold(a) = Casefold(b)
StrIContains(a, b) == \E i \in 1 .. Len(a) + 1 : IsPrefix(Casefold(b), SubSeq(Casefold(a), i, Len(a)))
StrIStartsWith(a, b) == IsPrefix(Casefold(b), Casefold(a))
StrIEndsWith(a, b) == IsSuffix(Casefold(b), Casefold(a))

ComputeExactMatch(value, v) ==
  IF value.kind = "list" THEN \E w \in value.is : StrIEquals(w, Str(v))
                         ELSE StrIEquals(Str(value), Str(v))

(* An invalid pattern matches neither way.                                 *)
RegexMatch(value, v, wanted) ==
  /\ value.kind # "bad pattern"
  /\ (\E i \in 1 .. Len(Str(v)) + 1 : IsPrefix(Str(value), SubSeq(Str(v), i, Len(Str(v))))) = wanted

(* Words and versions are compared element by element.                     *)
Less(a, b) ==
  \/ IsStrictPrefix(a, b)
  \/ \E i \in DOMAIN a \cap DOMAIN b : a[i] < b[i] /\ SubSeq(a, 1, i - 1) = SubSeq(b, 1, i - 1)
AtMost(a, b) == a = b \/ Less(a, b)

Ordered(op, less, equal) ==
  CASE op \in {"gt", "semver_gt"}   -> ~less /\ ~equal
    [] op \in {"gte", "semver_gte"} -> ~less
    [] op \in {"lt", "semver_lt"}   -> less
    [] op \in {"lte", "semver_lte"} -> less \/ equal
    [] op = "semver_eq"             -> equal
    [] op = "semver_neq"            -> ~equal

(* Numbers are compared as numbers unless the supplied value is text.      *)
CompareNumeric(op, value, v) ==
  IF value.kind = "number" /\ v.kind = "number"
  THEN Ordered(op, v.is < value.is, v.is = value.is)
  ELSE Ordered(op, Less(Str(v), Str(value)), Str(v) = Str(value))
------------------------------------------------------------------------------
(* Dates, as the number of the day.                                        *)
LeapYears(y) == y \div 4 - y \div 100 + y \div 400
MonthRange(y, m) ==
  IF m = 2 THEN IF LeapYears(y) > LeapYears(y - 1) THEN 29 ELSE 28
           ELSE IF m \in {4, 6, 9, 11} THEN 30 ELSE 31
Day(d) == 365 * d[1] + LeapYears(d[1] - 1) + d[3]
            + FoldLeft(LAMBDA n, m : n + MonthRange(d[1], m), 0, [m \in 1 .. d[2] - 1 |-> m])

(* A month or a year back from a day the target month does not have is     *)
(* that month's last day; a year before 1 is no date.                      *)
Clamped(y, m, d) == IF y < 1 THEN Bad ELSE Day(<<y, m, IF d > MonthRange(y, m) THEN MonthRange(y, m) ELSE d>>)
SubtractMonths(d, n) ==
  LET index == d[1] * 12 + d[2] - 1 - n IN Clamped(index \div 12, (index % 12) + 1, d[3])
SubtractYears(d, n) == Clamped(d[1] - n, d[2], d[3])

RelativeDate(back) ==
  IF back.number >= 10000 THEN Bad
  ELSE CASE back.interval = "d" -> Day(Today) - back.number
         [] back.interval = "w" -> Day(Today) - 7 * back.number
         [] back.interval = "m" -> SubtractMonths(Today, back.number)
         [] back.interval = "y" -> SubtractYears(Today, back.number)
         [] OTHER -> Bad

ParseDate(value) ==
  CASE value.kind = "ago"  -> RelativeDate(value.is)
    [] value.kind = "date" -> Day(value.is)
    [] OTHER -> Bad

CompareDate(op, value, v) ==
  IF ParseDate(value) = Bad \/ v.kind # "date" THEN "unknown"
  ELSE Answer(IF op = "is_date_before" THEN Day(v.is) < ParseDate(value) ELSE Day(v.is) > ParseDate(value))
------------------------------------------------------------------------------
(* Versions: parts that are missing are 0, a leading zero or a wildcard is *)
(* refused.  A range is a lower bound and the first version above it.      *)
ParseSemver(v) ==
  IF v.kind # "version" \/ Len(v.is) = 0 \/ \E i \in DOMAIN v.is : i <= 3 /\ v.is[i] < 0 THEN <<>>
  ELSE [i \in 1 .. 3 |-> IF i <= Len(v.is) THEN v.is[i] ELSE 0]

TildeBounds(p) == [from |-> p, to |-> <<p[1], p[2] + 1, 0>>]
CaretBounds(p) ==
  [from |-> p,
   to   |-> CASE p[1] > 0 -> <<p[1] + 1, 0, 0>>
              [] p[1] = 0 /\ p[2] > 0 -> <<0, p[2] + 1, 0>>
              [] OTHER -> <<0, 0, p[3] + 1>>]
WildcardBounds(parts) ==
  CASE Len(parts) = 1 -> [from |-> <<parts[1], 0, 0>>, to |-> <<parts[1] + 1, 0, 0>>]
    [] Len(parts) = 2 -> [from |-> <<parts[1], parts[2], 0>>, to |-> <<parts[1], parts[2] + 1, 0>>]
    [] OTHER -> [from |-> SubSeq(parts, 1, 3), to |-> <<parts[1], parts[2], parts[3] + 1>>]
WildcardParts(v) == SelectSeq(v.is, LAMBDA p : p # Star)

Within(bounds, p) == AtMost(bounds.from, p) /\ Less(p, bounds.to)

SemverRange(op, value, p) ==
  IF op = "semver_wildcard"
  THEN IF WildcardParts(value) = <<>> \/ \E i \in DOMAIN WildcardParts(value) : WildcardParts(value)[i] = Bad
       THEN "unknown" ELSE Answer(Within(WildcardBounds(WildcardParts(value)), p))
  ELSE IF ParseSemver(value) = <<>> THEN "unknown"
       ELSE Answer(Within(IF op = "semver_tilde" THEN TildeBounds(ParseSemver(value))
                                                 ELSE CaretBounds(ParseSemver(value)), p))

CompareSemver(op, value, v) ==
  LET p == ParseSemver(v) q == ParseSemver(value) IN
  IF p = <<>> THEN "unknown"
  ELSE IF op \in {"semver_tilde", "semver_caret", "semver_wildcard"} THEN SemverRange(op, value, p)
  ELSE IF q = <<>> THEN "unknown" ELSE Answer(Ordered(op, Less(p, q), p = q))
------------------------------------------------------------------------------
(* match_property.                                                         *)
MatchProperty(f, v) ==
  LET op == f.op IN
  IF v = NotGiven \/ op \in {"is_not_set", "no such operator"} THEN "unknown"
  ELSE IF v = NoneValue /\ op \notin NoneValuesAllowed THEN "no"
  ELSE CASE op = "exact"           -> Answer(ComputeExactMatch(f.value, v))
         [] op = "is_not"          -> Answer(~ComputeExactMatch(f.value, v))
         [] op = "is_set"          -> "yes"
         [] op = "icontains"       -> Answer(StrIContains(Str(v), Str(f.value)))
         [] op = "not_icontains"   -> Answer(~StrIContains(Str(v), Str(f.value)))
         [] op = "starts_with"     -> Answer(StrIStartsWith(Str(v), Str(f.value)))
         [] op = "not_starts_with" -> Answer(~StrIStartsWith(Str(v), Str(f.value)))
         [] op = "ends_with"       -> Answer(StrIEndsWith(Str(v), Str(f.value)))
         [] op = "not_ends_with"   -> Answer(~StrIEndsWith(Str(v), Str(f.value)))
         [] op = "regex"           -> Answer(RegexMatch(f.value, v, TRUE))
         [] op = "not_regex"       -> Answer(RegexMatch(f.value, v, FALSE))
         [] op \in {"gt", "gte", "lt", "lte"} -> Answer(CompareNumeric(op, f.value, v))
         [] op \in {"is_date_before", "is_date_after"} -> CompareDate(op, f.value, v)
         [] OTHER -> CompareSemver(op, f.value, v)

(* Text operators meet text and numbers, dates dates, versions versions:   *)
(* what str() makes of the other pairs is left out.                        *)
Textual == {"text", "number", "none", "list", "bad pattern", "not given"}
Comparable(f, v) == v \in {NotGiven, NoneValue} \/ (f.value.kind \in Textual) = (v.kind \in Textual)

Init == /\ filter \in Filters /\ override \in Overrides
        /\ Comparable(filter, override)
        /\ matches = ""

Compare ==
  /\ matches = ""
  /\ matches' = MatchProperty(filter, override)
  /\ UNCHANGED <<filter, override>>

Next == Compare
Spec == Init /\ [][Next]_vars
------------------------------------------------------------------------------
(* A negated operator answers the opposite of the one it negates wherever  *)
(* that one is decided from a value that is there; a pattern that does not *)
(* compile matches under neither (match_property's pairs of branches).     *)
OppositesDisagree ==
  (filter.op \in DOMAIN Negates /\ matches \in {"yes", "no"}
     /\ override # NoneValue /\ filter.value.kind # "bad pattern")
  => matches = Answer(MatchProperty([filter EXCEPT !.op = Negates[filter.op]], override) = "no")

(* A version range keeps the parts it fixes: ^ the parts up to the first   *)
(* that is not 0, ~ major and minor, a wildcard the parts before the star; *)
(* and ^ and ~ admit nothing older than the version they name.             *)
Fixed(op, p) == CASE op = "semver_tilde" -> 2
                  [] op = "semver_caret" -> IF p[1] > 0 THEN 1 ELSE IF p[2] > 0 THEN 2 ELSE 3
RangesKeepTheirParts ==
  LET p == ParseSemver(filter.value) q == ParseSemver(override) IN
  (matches \in {"yes", "no"} /\ q # <<>>) =>
    /\ filter.op \in {"semver_tilde", "semver_caret"} =>
         matches = Answer(AtMost(p, q) /\ SubSeq(p, 1, Fixed(filter.op, p)) = SubSeq(q, 1, Fixed(filter.op, p)))
    /\ filter.op = "semver_wildcard" => matches = Answer(IsPrefix(WildcardParts(filter.value), q))

(* Going back further never finds a later date: what is before "n + 1      *)
(* months ago" is before "n months ago", and so for years, in spite of the *)
(* clamping to the end of short months.                                    *)
LongerAgoIsEarlier ==
  (matches = "yes" /\ filter.op = "is_date_before" /\ filter.value.kind = "ago" /\ filter.value.is.number > 0)
  => MatchProperty([filter EXCEPT !.value.is.number = @ - 1], override) = "yes"

Comparisons == OppositesDisagree /\ RangesKeepTheirParts /\ LongerAgoIsEarlier
==============================================================================
