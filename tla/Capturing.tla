------------------------------- MODULE Capturing -------------------------------
(***************************************************************************)
(* Contexts and the calls that make an event: tasks open and leave blocks  *)
(* of new_context, spawn tasks that inherit the current one, and fork; a   *)
(* call takes its identity and tags from the context it is made in and     *)
(* passes its event through _enqueue to a lane.                            *)
(*                                                                         *)
(* A property of an event is the source its value came from.               *)
(***************************************************************************)
EXTENDS Integers, Sequences, FiniteSets, SequencesExt

CONSTANTS Tasks, MaxScopes, MaxForks,     \* bounds of the model
          Keys,                           \* of tags
          Settings,                       \* the values contexts are given, of Fields
          Captures,                       \* what capture_exceptions may be
          Trials                          \* the arguments of a call, with what its client, its
                                          \* before_send and its lane do: [request, config]

VARIABLES generation,   \* _context_generation
          scopes,       \* every ContextScope made: parent, fresh, generation, values, tags
          stack,        \* _context_stack of each task, 0 for None
          blocks,       \* the blocks each task is in: scope and generation when it was entered
          enclosing,    \* the scopes of the blocks around each task in this process
          calls,        \* calls left; a behaviour ends with the last one
          event         \* what the last call made and returned

vars == <<generation, scopes, stack, blocks, enclosing, calls, event>>

Fields == {"distinct_id", "session_id", "device_id", "code_variables",
           "mask_patterns", "ignore_patterns", "mask_url_credentials", "detect_secrets"}
None == "none"
NoEvent == [task |-> None, returned |-> None]

Init ==
  /\ generation = 0 /\ scopes = <<>>
  /\ stack = [t \in Tasks |-> 0] /\ blocks = [t \in Tasks |-> <<>>]
  /\ enclosing = [t \in Tasks |-> <<>>]
  /\ calls = 1 /\ event = NoEvent
------------------------------------------------------------------------------
\* Mutant: a context from before the fork is still the current one.
CurrentStale(t) == stack[t]
Current(t) == IF stack[t] # 0 /\ scopes[stack[t]].generation = generation THEN stack[t] ELSE 0

(* What a scope says, or the scopes it inherits from.                      *)
Parent(s) == IF scopes[s].fresh THEN 0 ELSE scopes[s].parent
Inherited(s, f) ==
  LET value[x \in 0 .. Len(scopes)] ==
        IF x = 0 THEN None ELSE IF f \in DOMAIN scopes[x].values THEN scopes[x].values[f] ELSE value[Parent(x)]
  IN  value[s]
GetDistinctId(s) == Inherited(s, "distinct_id")
GetSessionId(s) == Inherited(s, "session_id")
GetDeviceId(s) == Inherited(s, "device_id")
GetCodeVariables(s) == Inherited(s, "code_variables")
GetMaskPatterns(s) == Inherited(s, "mask_patterns")
GetIgnorePatterns(s) == Inherited(s, "ignore_patterns")
GetMaskUrlCredentials(s) == Inherited(s, "mask_url_credentials")
GetDetectSecrets(s) == Inherited(s, "detect_secrets")
Put(f, g) == [x \in DOMAIN f \cup DOMAIN g |-> IF x \in DOMAIN f THEN f[x] ELSE g[x]]   \* f takes precedence
CollectTags(s) ==
  LET tags[x \in 0 .. Len(scopes)] == IF x = 0 THEN <<>> ELSE Put([k \in scopes[x].tags |-> x], tags[Parent(x)])
  IN  tags[s]

NewContext(t, fresh, captures) ==
  /\ Len(scopes) < MaxScopes
  /\ scopes' = Append(scopes, [parent |-> Current(t), fresh |-> fresh, generation |-> generation,
                                captures |-> captures, values |-> <<>>, tags |-> {}])
  /\ stack' = [stack EXCEPT ![t] = Len(scopes')]
  /\ blocks' = [blocks EXCEPT ![t] = Append(@, [scope |-> Len(scopes'), generation |-> generation])]
  /\ enclosing' = [enclosing EXCEPT ![t] = Append(@, Len(scopes'))]
  /\ UNCHANGED <<generation, calls, event>>

(* Leaving a block, in the finally clause of new_context.                  *)
Restore(t, b) == stack' = IF b.generation = generation THEN [stack EXCEPT ![t] = scopes[b.scope].parent] ELSE stack
Leave(t) ==
  LET b == Last(blocks[t]) IN
  /\ blocks' = [blocks EXCEPT ![t] = Front(@)]
  /\ Restore(t, b)
  /\ enclosing' = [enclosing EXCEPT ![t] = SelectSeq(@, LAMBDA s : s # b.scope)]
  /\ UNCHANGED <<generation, scopes>>
ExitContext(t) == blocks[t] # <<>> /\ Leave(t) /\ UNCHANGED <<calls, event>>

Assign(t, f, v) ==
  /\ Current(t) # 0
  /\ scopes' = [scopes EXCEPT ![Current(t)].values = Put([x \in {f} |-> v], @)]
  /\ UNCHANGED <<generation, stack, blocks, enclosing, calls, event>>
IdentifyContext(t, v) == Assign(t, "distinct_id", v)
SetContextSession(t, v) == Assign(t, "session_id", v)
SetContextDeviceId(t, v) == Assign(t, "device_id", v)
SetCodeVariables(t, v) == Assign(t, "code_variables", v)
SetMaskPatterns(t, v) == Assign(t, "mask_patterns", v)
SetIgnorePatterns(t, v) == Assign(t, "ignore_patterns", v)
SetMaskUrlCredentials(t, v) == Assign(t, "mask_url_credentials", v)
SetDetectSecrets(t, v) == Assign(t, "detect_secrets", v)
SetField(t, f, v) ==
  CASE f = "distinct_id" -> IdentifyContext(t, v)       [] f = "session_id" -> SetContextSession(t, v)
    [] f = "device_id" -> SetContextDeviceId(t, v)      [] f = "code_variables" -> SetCodeVariables(t, v)
    [] f = "mask_patterns" -> SetMaskPatterns(t, v)     [] f = "ignore_patterns" -> SetIgnorePatterns(t, v)
    [] f = "detect_secrets" -> SetDetectSecrets(t, v)   [] f = "mask_url_credentials" -> SetMaskUrlCredentials(t, v)
Tag(t, k) ==
  /\ Current(t) # 0
  /\ scopes' = [scopes EXCEPT ![Current(t)].tags = @ \cup {k}]
  /\ UNCHANGED <<generation, stack, blocks, enclosing, calls, event>>

(* A task runs in a copy of the context variables of the one that made it; *)
(* it has left no block of its own yet.                                    *)
Spawn(t, u) ==
  /\ blocks[u] = <<>> /\ enclosing[u] = <<>> /\ stack[u] = 0 /\ t # u
  /\ stack' = [stack EXCEPT ![u] = stack[t]]
  /\ enclosing' = [enclosing EXCEPT ![u] = enclosing[t]]
  /\ UNCHANGED <<generation, scopes, blocks, calls, event>>

(* The process goes on as a child forked by t.                             *)
Fork(t) ==
  /\ generation < MaxForks /\ generation' = generation + 1
  /\ stack' = [stack EXCEPT ![t] = 0]
  /\ enclosing' = [u \in Tasks |-> <<>>]
  /\ UNCHANGED <<scopes, blocks, calls, event>>
------------------------------------------------------------------------------
(* From the arguments of a call to the event handed on.  A request gives   *)
(* an id or none, the properties, a flags snapshot or the older option, an *)
(* allowlist or none, and a uuid.                                          *)
IdentityState(t, id) == IF id # None THEN id ELSE GetDistinctId(Current(t))
From(source, keys) == [k \in keys |-> source]
AddContextTags(t, properties) ==
  LET c == Current(t)
      tagged == IF c = 0 THEN properties ELSE Put(From("context", {"$context_tags"}), Put(properties, CollectTags(c)))
  IN  IF GetSessionId(c) = None THEN tagged ELSE Put(tagged, From(GetSessionId(c), {"$session_id"}))

(* get_all_flags or get_feature_variants, which may fail; the event is     *)
(* captured without flags then.                                            *)
FlagSource(r, local) ==
  CASE r.flags = "snapshot" -> "snapshot"
    [] r.flags = "failing"  -> None
    [] r.flags \in {"local", "remote"} -> r.flags
    [] r.flags = "either"   -> IF local THEN "local" ELSE "remote"
    [] OTHER -> None
FlagProperties(r, local) ==
  IF FlagSource(r, local) = None THEN <<>> ELSE From(FlagSource(r, local), {"$feature/f", "$active_feature_flags"})

Properties(t, r, config) ==
  LET tagged == AddContextTags(t, Put(From("sdk", {"$os"}), From("explicit", r.keys)))
      person == IF IdentityState(t, r.id) = None THEN Put(tagged, From("sdk", {"$process_person_profile"})) ELSE tagged
  IN  Put(person, FlagProperties(r, config.local))

(* The calls: whether there is an event to send and its properties.  What  *)
(* set and set_once set is not among those, and nobody has nothing to set. *)
Message(dropped, properties) == [dropped |-> dropped, properties |-> properties]
Session(t) == IF GetSessionId(Current(t)) = None THEN <<>> ELSE From(GetSessionId(Current(t)), {"$session_id"})
Capture(t, r, config) == Message(FALSE, Properties(t, r, config))
Set(t, r) == Message(IdentityState(t, r.id) = None \/ (r.keys = {} /\ Current(t) = 0), <<>>)
SetOnce(t, r) == Message(IdentityState(t, r.id) = None \/ (r.keys = {} /\ Current(t) = 0), <<>>)
GroupIdentify(t, r) == Message(r.incomplete, Session(t))
Alias(t, r) == Message(r.incomplete \/ IdentityState(t, r.id) = None, Session(t))
Made(t, r, config) ==
  CASE r.call \in {"capture", "exception"} -> Capture(t, r, config)
    [] r.call = "set" -> Set(t, r)                        [] r.call = "set_once" -> SetOnce(t, r)
    [] r.call = "group_identify" -> GroupIdentify(t, r)   [] r.call = "alias" -> Alias(t, r)

NormalizeEventUuid(uuid) == IF uuid \in {None, "invalid"} THEN "generated" ELSE uuid
Enrich(properties, r, config) ==
  LET full == Put(From("sdk", IF config.server THEN {"$is_server"} ELSE {}),
                  Put(From("super", config.super), Put(From("sdk", {"$lib", "$lib_version"}), properties)))
  IN  IF r.allowed = {} THEN full ELSE [k \in DOMAIN full \cap r.allowed |-> full[k]]

(* before_send may change the event, drop it, or fail.                     *)
BeforeSend(uuid, config) ==
  CASE config.beforeSend \in {None, "pass"} -> uuid
    [] config.beforeSend = "other uuid" -> "other"
    [] config.beforeSend = "bad uuid" -> "invalid"
    [] config.beforeSend = "no uuid" -> None
    [] OTHER -> "no event"
Wire(r, config) == NormalizeEventUuid(BeforeSend(NormalizeEventUuid(r.uuid), config))
\* Mutant: the uuid returned is the one from before before_send.
SentUuidBefore(r, config) == NormalizeEventUuid(r.uuid)
SentUuid(r, config) == Wire(r, config)
Refused(r, config) == config.disabled \/ BeforeSend(r.uuid, config) = "no event"

(* Where the event goes.  A synchronous post that fails is answered None,  *)
(* by no_throw.                                                            *)
Admitted(config) ==
  CASE ~config.send -> config.lane # "closed"
    [] config.send /\ config.sync -> config.lane # "closed" /\ config.post = "ok"
    [] OTHER -> config.lane = "open"
Enqueue(t, r, config, properties) ==
  LET out == IF Refused(r, config) \/ ~Admitted(config) THEN None ELSE SentUuid(r, config) IN
  [task |-> t, request |-> r, config |-> config, returned |-> out, scopes |-> enclosing[t],
   id |-> IdentityState(t, r.id), properties |-> Enrich(properties, r, config),
   wire |-> IF out = None THEN None ELSE Wire(r, config)]

Call(t, r, config) ==
  /\ calls > 0 /\ calls' = calls - 1
  /\ LET made == Made(t, r, config) IN
     event' = IF made.dropped THEN NoEvent ELSE Enqueue(t, r, config, made.properties)
  /\ UNCHANGED <<generation, scopes, stack, blocks, enclosing>>

(* An exception passes the end of a block: it is captured inside it.       *)
RaiseOut(t, r, config) ==
  /\ blocks[t] # <<>> /\ calls > 0 /\ calls' = calls - 1 /\ r.call = "exception"
  /\ event' = IF scopes[Last(blocks[t]).scope].captures THEN Enqueue(t, r, config, Properties(t, r, config)) ELSE NoEvent
  /\ Leave(t)

Next ==
  \/ /\ calls > 0
     /\ \E t \in Tasks : \/ \E fresh \in BOOLEAN, captures \in Captures : NewContext(t, fresh, captures)
                         \/ ExitContext(t)
                         \/ \E s \in Settings : SetField(t, s.field, s.value)
                         \/ \E k \in Keys : Tag(t, k)
                         \/ \E u \in Tasks : Spawn(t, u)
                         \/ Fork(t)
  \/ \E t \in Tasks, x \in Trials : Call(t, x.request, x.config) \/ RaiseOut(t, x.request, x.config)

Spec == Init /\ [][Next]_vars
------------------------------------------------------------------------------
(* The scopes a task sees, innermost first: those around it in this        *)
(* process up to a fresh one.                                              *)
Seen(around) ==
  LET from == {i \in DOMAIN around : \A j \in i + 1 .. Len(around) : ~scopes[around[j]].fresh} IN
  [i \in 1 .. Cardinality(from) |-> around[Len(around) + 1 - i]]
Innermost(seen, P(_)) == LET some == {i \in DOMAIN seen : P(seen[i])} IN
  IF some = {} THEN 0 ELSE seen[CHOOSE i \in some : \A j \in some : i <= j]

(* In every task, however blocks were left, spawned in and forked in, the  *)
(* current context is the innermost block around it, and an event carries  *)
(* the identity and the tags of the innermost one that sets them, up to a  *)
(* fresh one: never those of another task, of a block that was left, or of *)
(* the process it was forked from (new_context, _reset_context_after_fork).*)
Lexical ==
  /\ \A t \in Tasks : LET seen == Seen(enclosing[t]) IN
       /\ Current(t) = IF seen = <<>> THEN 0 ELSE seen[1]
       /\ \A f \in Fields : Inherited(Current(t), f) =
            LET s == Innermost(seen, LAMBDA x : f \in DOMAIN scopes[x].values) IN
            IF s = 0 THEN None ELSE scopes[s].values[f]
       /\ \A k \in Keys : LET s == Innermost(seen, LAMBDA x : k \in scopes[x].tags) IN
            IF s = 0 THEN k \notin DOMAIN CollectTags(Current(t)) ELSE CollectTags(Current(t))[k] = s

(* A call returns the uuid the event is queued under, and None when it is  *)
(* not, whatever before_send did (_normalize_event_uuid, _enqueue).        *)
ReturnedIsSent ==
  event.task # None =>
    /\ event.returned = event.wire
    /\ event.returned # None => event.returned # "invalid" /\ ~event.config.disabled /\ event.config.lane # "closed"

OfTheSdk == {"$os", "$lib", "$lib_version", "$is_server", "$context_tags"}
(* A minimal event has the properties of its allowlist and no other, also  *)
(* those contexts, flags and super properties add; the caller's value      *)
(* beats a tag and a flag, and nothing stands in for $is_server            *)
(* (_enqueue, _capture).                                                   *)
Shape ==
  event.task # None =>
    LET p == event.properties r == event.request IN
    /\ r.allowed # {} => DOMAIN p \subseteq r.allowed
    /\ event.config.server /\ "$is_server" \in DOMAIN p => p["$is_server"] = "sdk"
    /\ r.call \in {"capture", "exception"} /\ r.allowed = {} =>
         /\ \A k \in r.keys \ (OfTheSdk \cup event.config.super) : p[k] = "explicit"
         /\ event.id = None => "$process_person_profile" \in DOMAIN p
===============================================================================
