--------------------------- MODULE ExceptionReports ---------------------------
(***************************************************************************)
(* What capture_exception puts in an event: the list of the exceptions     *)
(* that led to the one caught, the frames of each, which of them are the   *)
(* application's own, and the values of the variables of those, masked.    *)
(*                                                                         *)
(* A scene is a graph of exceptions with their tracebacks and a heap of    *)
(* values the variables refer to; the report is computed in one step, as   *)
(* one thread does it.                                                     *)
(***************************************************************************)
EXTENDS Integers, Sequences, FiniteSets, SequencesExt

CONSTANTS Scenarios,      \* [exceptions, caught, heap, config]
          MaxMaskDepth,   \* _MAX_MASK_DEPTH
          MaxNodes,       \* _MAX_TOTAL_NODES_TO_MASK
          MaxItems,       \* _MAX_COLLECTION_ITEMS_TO_SCAN
          Budget          \* DEFAULT_TOTAL_VARIABLES_SIZE_LIMIT

VARIABLES scene, report
vars == <<scene, report>>

NoException == "none"
Exc(e) == scene.exceptions[e]
Config == scene.config
------------------------------------------------------------------------------
(* The exception behind e: the cause it was raised from, or the one that   *)
(* was being handled.                                                      *)
Behind(e) == IF Exc(e).suppress THEN Exc(e).cause ELSE Exc(e).context
Next1(e) == IF Behind(e) = NoException THEN {} ELSE {Behind(e)}
Led(e) == Next1(e) \cup ToSet(Exc(e).members)

IterStacks(e) == SelectSeq(Exc(e).frames, LAMBDA f : ~f.hidden)
SingleException(e, id, parent, source) ==
  [exc |-> e, id |-> id, parent |-> IF id = 0 THEN 0 ELSE parent, source |-> source, frames |-> IterStacks(e)]

(* walk_exception_chain ends at an exception it has listed already.        *)
RECURSIVE WalkChain(_, _)
WalkChain(e, seen) ==
  IF e = NoException \/ e \in seen THEN <<>>
  ELSE <<SingleException(e, -1, 0, "")>> \o WalkChain(Behind(e), seen \cup {e})

(* exceptions_from_error numbers the list as it grows: an exception, what  *)
(* is behind it, then the members of a group.  It does not look for        *)
(* cycles: one makes the recursion fail.                                   *)
\* Mutant: every member of a group starts at the same number.
RECURSIVE FromError(_, _, _, _)
MembersAgain(e, list, id) ==
  FoldLeft(LAMBDA acc, m : acc \o FromError(m, id + Len(list), id, "member"), list, Exc(e).members)
Members(e, list, id) ==
  FoldLeft(LAMBDA acc, m : acc \o FromError(m, id + Len(acc), id, "member"), list, Exc(e).members)
FromError(e, id, parent, source) ==
  Members(e, <<SingleException(e, id, parent, source)>> \o
             (IF Next1(e) = {} THEN <<>> ELSE FromError(Behind(e), id + 1, 0, "behind")), id)

RECURSIVE Reach(_, _)
Reach(front, found) ==
  IF front \subseteq found THEN found ELSE Reach(UNION {Led(e) : e \in front \ found}, found \cup front)
LedTo(e) == Reach(Led(e), {})
Unending(e) == \E f \in {e} \cup LedTo(e) : f \in LedTo(f)
IsGroup(e) == Exc(e).members # <<>>

ExceptionsFromErrorTuple(e) == IF IsGroup(e) THEN FromError(e, 0, 0, "") ELSE WalkChain(e, {})
------------------------------------------------------------------------------
(* set_in_app_in_frames, with no list of excluded modules.                 *)
InApp(f) == CASE f.module \in Config.inAppModules -> "yes"
              [] f.module \notin Config.inAppModules /\ f.path = "site-packages" -> "no"
              [] f.module \notin Config.inAppModules /\ f.path = "project"       -> "yes"
              [] OTHER -> "unset"
HandleInApp(list) == [i \in DOMAIN list |->
  [list[i] EXCEPT !.frames = [j \in DOMAIN @ |-> [id |-> @[j].id, inApp |-> InApp(@[j]), variables |-> <<>>]]]]
------------------------------------------------------------------------------
(* Masking.  A node of the heap is a text, a number, a collection of       *)
(* [key, value] items (a sequence has the key "plain"), an object whose    *)
(* attributes are not to be had, or one with class members named like      *)
(* something to mask.  The result is the set of nodes shown as they are.   *)
Masked(key) == Config.mask /\ key = "sensitive"
LooksLikeSecret(text) == text.pem \/ (~text.short /\ (text.dense \/ (~text.huge /\ text.known)))
MaskString(text) == text.oversized \/ (Config.mask /\ text.sensitive) \/ (Config.detect /\ LooksLikeSecret(text))
SafeRepr(node) == node.raises \/ MaskString(node.text)
Off == ~Config.mask /\ ~Config.detect /\ ~Config.urls

Result(shown, seen) == [shown |-> shown, seen |-> seen]
RECURSIVE MaskValue(_, _, _)
MaskItem(acc, item, depth) ==
  IF item.key = "oversized" \/ Masked(item.key) THEN acc ELSE
  LET m == MaskValue(item.value, acc.seen, depth + 1) IN Result(acc.shown \cup m.shown, m.seen)
MaskMapping(node, seen, depth) ==
  IF Len(node.items) > MaxItems THEN Result({}, seen)
  ELSE FoldLeft(LAMBDA acc, item : MaskItem(acc, item, depth), Result({}, seen), node.items)
MaskLeaf(v, node, seen) ==
  CASE node.kind = "number" -> Result({v}, seen)
    [] node.kind = "text"   -> Result(IF MaskString(node.text) THEN {} ELSE {v}, seen)
    [] node.kind = "opaque" -> Result(IF (Config.mask /\ node.sensitiveMembers) \/ SafeRepr(node) THEN {} ELSE {v}, seen)
MaskValue(v, seen, depth) ==
  IF Off THEN Result({v}, seen)
  ELSE IF scene.heap[v].kind \in {"number", "text"} THEN MaskLeaf(v, scene.heap[v], seen)
  ELSE IF depth >= MaxMaskDepth \/ v \in seen THEN Result({}, seen)
  ELSE IF Cardinality(seen \cup {v}) > MaxNodes THEN Result({}, seen \cup {v})
  ELSE IF scene.heap[v].kind = "opaque" THEN MaskLeaf(v, scene.heap[v], seen \cup {v})
  ELSE MaskMapping(scene.heap[v], seen \cup {v}, depth)

(* One variable, in the space the frames share: sizes are what is left of  *)
(* a value after truncation.                                               *)
EncodeVariable(x) == IF Masked(x.name) THEN {} ELSE MaskValue(x.value, {}, 0).shown
AddVariable(acc, x) ==
  IF acc.spent \/ acc.size + x.size > Budget THEN [acc EXCEPT !.spent = TRUE]
  ELSE [acc EXCEPT !.size = @ + x.size,
          !.out = Append(@, [of |-> x.of, name |-> x.name, value |-> x.value, shown |-> EncodeVariable(x)])]
Ordered(variables) == SelectSeq(variables, LAMBDA x : x.simple) \o SelectSeq(variables, LAMBDA x : ~x.simple)
SerializeFrame(f, size) ==
  FoldLeft(AddVariable, [out |-> <<>>, size |-> size, spent |-> FALSE],
           Ordered(SelectSeq(f.variables, LAMBDA x : x.name # "ignored")))

(* attach_code_variables_to_frames pairs the frames of every exception     *)
(* with those of the traceback that was caught.                            *)
AttachTo(acc, i, j, stack) ==
  IF acc.list[i].frames[j].inApp # "yes" THEN acc ELSE
  LET one == SerializeFrame(stack[j], acc.size)
  IN  [list |-> [acc.list EXCEPT ![i].frames[j].variables = one.out], size |-> one.size]
Places(list, stack) ==
  FoldLeft(LAMBDA acc, i : acc \o [j \in 1 .. (IF Len(list[i].frames) < Len(stack) THEN Len(list[i].frames) ELSE Len(stack)) |-> <<i, j>>],
           <<>>, [i \in DOMAIN list |-> i])
Attach(list, stack) ==
  IF ~Config.enabled THEN list ELSE
  FoldLeft(LAMBDA acc, place : AttachTo(acc, place[1], place[2], stack), [list |-> list, size |-> 0], Places(list, stack)).list

Init == scene \in Scenarios /\ report = [is |-> "pending", exceptions |-> <<>>]

(* capture_exception, from the traceback to the event; a failure of any    *)
(* part of it leaves no event.                                             *)
CaptureException ==
  /\ report.is = "pending"
  /\ report' = IF IsGroup(scene.caught) /\ Unending(scene.caught) THEN [report EXCEPT !.is = "failed"]
               ELSE [is |-> "event", exceptions |->
                     Attach(HandleInApp(ExceptionsFromErrorTuple(scene.caught)), IterStacks(scene.caught))]
  /\ UNCHANGED scene

Next == CaptureException
Spec == Init /\ [][Next]_vars
------------------------------------------------------------------------------
Listed == report.is = "event"
List == report.exceptions

(* The list starts with the exception caught and puts every exception      *)
(* behind its wrapper; without a group it is the chain, once each, even    *)
(* when the chain closes on itself.  In a group every exception that led   *)
(* to it is there, numbered by its place, and a member names its group     *)
(* (exceptions_from_error_tuple).                                          *)
ListInOrder ==
  Listed =>
    /\ List[1].exc = scene.caught
    /\ IsGroup(scene.caught) => {List[i].exc : i \in DOMAIN List} = {scene.caught} \cup LedTo(scene.caught)
    /\ IsGroup(scene.caught) =>
         \A i \in DOMAIN List :
           /\ List[i].id = i - 1
           /\ List[i].source = "member" =>
                List[i].parent + 1 < i /\ List[i].exc \in ToSet(Exc(List[List[i].parent + 1].exc).members)
           /\ List[i].source = "behind" => i > 1 /\ List[i].exc \in Led(List[i - 1].exc)
    /\ ~IsGroup(scene.caught) =>
         /\ \A i \in DOMAIN List \ {1} : List[i].exc = Behind(List[i - 1].exc)
         /\ \A i, j \in DOMAIN List : List[i].exc = List[j].exc => i = j
         /\ Behind(Last(List).exc) \in {NoException} \cup {List[i].exc : i \in DOMAIN List}

(* The leaves a variable shows when everything is scanned: those on a path *)
(* of at most n items none of which has a key to mask.                     *)
RECURSIVE Leaves(_, _)
Leaves(v, n) ==
  IF scene.heap[v].kind \notin {"map", "object"} THEN {v}
  ELSE IF n = 0 THEN {}
  ELSE UNION {IF Masked(item.key) THEN {} ELSE Leaves(item.value, n - 1) : item \in ToSet(scene.heap[v].items)}
Sensitive(v) == LET node == scene.heap[v] IN
  CASE node.kind = "text"   -> (Config.mask /\ node.text.sensitive) \/ (Config.detect /\ LooksLikeSecret(node.text))
    [] node.kind = "opaque" -> Config.mask /\ node.sensitiveMembers
    [] OTHER -> FALSE
Shown == UNION {UNION {{[x |-> x, leaf |-> l] : l \in x.shown} : x \in ToSet(f.variables)} :
                f \in UNION {ToSet(List[i].frames) : i \in DOMAIN List}}

(* Whatever is shared, cyclic, deep or large, no value is shown that is to *)
(* be masked by its name, by the key of anything on the way to it or by    *)
(* what it looks like (_mask_value, _mask_mapping, _add_variable).         *)
MaskedValuesHidden ==
  Listed /\ ~Off => \A s \in Shown :
    /\ ~Sensitive(s.leaf) /\ ~Masked(s.x.name)
    /\ s.leaf \in Leaves(s.x.value, MaxMaskDepth)

(* "Capture local variable values on exception stack frames" (Client): the *)
(* values shown in a frame are those of that frame.                        *)
VariablesOwnFrame ==
  Listed => \A i \in DOMAIN List : \A j \in DOMAIN List[i].frames :
    \A x \in ToSet(List[i].frames[j].variables) : x.of = List[i].frames[j].id
===============================================================================
