------------------------------ MODULE FlagResults ------------------------------
(***************************************************************************)
(* What the client does with a flag's value once it is evaluated: the      *)
(* fallback cache that answers when the server does not, the               *)
(* $feature_flag_called event of the first answer of each kind, and the    *)
(* snapshots of evaluate_flags that are read, narrowed and attached to     *)
(* events later.  Calls of several threads interleave with each other and  *)
(* with the poller that replaces the definitions.                          *)
(***************************************************************************)
EXTENDS Integers, Sequences, FiniteSets, SequencesExt

CONSTANTS Calls,        \* threads that ask for flags
          Persons, Flags,
          Backends,     \* what the fallback cache may be: of "memory", "redis"
          Plain,        \* the flags the server reports as in no experiment
          MaxUsers,     \* FlagCache.max_size
          MaxIds,       \* the size of distinct_ids_feature_flags_reported
          StaleTTL,     \* how long an entry may answer for the server
          MaxTime, MaxVersion, MaxCalls, MaxViews     \* bounds of the model

(* A cache and a dictionary without room would be over their size with the *)
(* first entry, and an entry that is stale at once answers for nobody.     *)
ASSUME FlagResultsAssumption ==
  /\ Backends \subseteq {"memory", "redis"}
  /\ {MaxUsers, MaxIds, StaleTTL} \subseteq Nat \ {0}
  /\ {MaxTime, MaxVersion, MaxCalls, MaxViews} \subseteq Nat

VARIABLES backend,      \* the fallback cache the client was made with
          definitions,  \* [version, local]: the published definitions
          gate,         \* _minimal_flag_called_events, of the whole client
          now,
          cache,        \* FlagCache.cache: person -> flag -> entry
          usedAt,       \* FlagCache.access_times
          reported,     \* the persons reported on, oldest first: [id, set, keys]
          calls,        \* for each thread, the call it is in
          views,        \* snapshots: the first is evaluate_flags', others narrow it
          events,       \* the $feature_flag_called events captured
          attached      \* the flags of the last event captured with a view, if any

vars == <<backend, definitions, gate, now, cache, usedAt, reported, calls, views, events, attached>>

NoValue == "none"
NoSet == <<"nobody", 0>>
Idle == [pc |-> "idle", n |-> 0, id |-> "nobody", flag |-> "none", value |-> NoValue, store |-> NoValue,
         override |-> NoValue, send |-> FALSE, source |-> "nowhere", gate |-> FALSE, minimal |-> FALSE,
         origin |-> 0, version |-> 0, set |-> NoSet]
(* A call that is over keeps only what it told its caller.                 *)
Told(call) == [Idle EXCEPT !.n = call.n, !.id = call.id, !.flag = call.flag, !.value = call.value, !.send = call.send]
Set(c, call) == calls' = [calls EXCEPT ![c] = IF call.pc = "idle" THEN Told(call) ELSE call]
Started == FoldLeft(LAMBDA n, c : n + calls[c].n, 0, SetToSeq(Calls))

Nothing == [x \in {} |-> x]
Put(f, x, y) == [z \in DOMAIN f \cup {x} |-> IF z = x THEN y ELSE f[z]]

(* An entry: its value, when it was stored and under which version; origin *)
(* is the version the value was really evaluated with, late says that the  *)
(* definitions were replaced between that evaluation and the store, asked  *)
(* that the value is one the caller named and no evaluation.               *)
Entry(value, version, origin) ==
  [value |-> value, version |-> version, at |-> now, origin |-> origin,
   late |-> origin # definitions.version, asked |-> value = "asked"]
------------------------------------------------------------------------------
(* FlagCache.  At capacity a new person evicts the least recently used     *)
(* fifth of the persons, at least one.                                     *)
LeastUsed(n) == {E \in SUBSET DOMAIN usedAt :
                   Cardinality(E) = n /\ \A p \in E, q \in DOMAIN usedAt \ E : usedAt[p] <= usedAt[q]}
EvictLRU(p) ==
  IF p \in DOMAIN cache \/ Cardinality(DOMAIN cache) < MaxUsers \/ DOMAIN usedAt = {} THEN {{}}
  ELSE LeastUsed(Max({1, Cardinality(DOMAIN usedAt) \div 5}))
With(kept, p, f, entry) == Put(kept, p, Put(IF p \in DOMAIN kept THEN kept[p] ELSE Nothing, f, entry))
MemorySet(p, f, value, version, origin) ==
  \E evicted \in EvictLRU(p) :
    /\ cache' = With([q \in DOMAIN cache \ evicted |-> cache[q]], p, f, Entry(value, version, origin))
    /\ usedAt' = Put([q \in DOMAIN usedAt \ evicted |-> usedAt[q]], p, now)

(* invalidate_version drops the old version's entries and then the persons *)
(* left without any.                                                       *)
Keep(kept) == [p \in {q \in DOMAIN cache : kept[q] # {}} |-> [f \in kept[p] |-> cache[p][f]]]
Drop(version) ==
  /\ cache' = Keep([p \in DOMAIN cache |-> {f \in DOMAIN cache[p] : cache[p][f].version # version}])
  /\ usedAt' = [p \in DOMAIN usedAt \cap DOMAIN cache' |-> usedAt[p]]
\* Mutant: the version that was just published is invalidated instead.
InvalidateVersionNew(old) == Drop(old + 1)
InvalidateVersion(old) == Drop(old)

StaleCached(p, f) == p \in DOMAIN cache /\ f \in DOMAIN cache[p] /\ now - cache[p][f].at < StaleTTL
Fallback(p, f) == {IF StaleCached(p, f) THEN cache[p][f].value ELSE NoValue} \cup
                    (IF backend = "redis" THEN {NoValue} ELSE {})

(* RedisFlagCache has no limit of its own: Redis drops an entry StaleTTL   *)
(* after it was set.  A command that fails is swallowed, so a set may do   *)
(* nothing, and an invalidation may stop after any part of its scan.       *)
RedisSet(p, f, value, version, origin) ==
  /\ cache' \in {cache, With(cache, p, f, Entry(value, version, origin))}
  /\ UNCHANGED usedAt
RedisInvalidate(old) ==
  /\ \E done \in SUBSET DOMAIN cache :
       cache' = Keep([p \in DOMAIN cache |-> {f \in DOMAIN cache[p] : p \in done => cache[p][f].version # old}])
  /\ UNCHANGED usedAt
RedisExpire == cache' = Keep([p \in DOMAIN cache |-> {f \in DOMAIN cache[p] : now + 1 - cache[p][f].at < StaleTTL}])

SetCachedFlag(p, f, value, version, origin) ==
  IF backend = "memory" THEN MemorySet(p, f, value, version, origin) ELSE RedisSet(p, f, value, version, origin)

Init ==
  /\ backend \in Backends
  /\ definitions \in [version : {0}, local : [Flags -> {"on", "unknown"}]]
  /\ gate = FALSE /\ now = 0
  /\ cache = Nothing /\ usedAt = Nothing /\ reported = <<>>
  /\ calls = [c \in Calls |-> Idle] /\ views = <<>>
  /\ events = {} /\ attached = {}

(* _update_flag_state, from the poller: other definitions and their gate.  *)
UpdateFlagState(local, g) ==
  /\ definitions.version < MaxVersion /\ local # definitions.local
  /\ definitions' = [version |-> definitions.version + 1, local |-> local]
  /\ gate' = g
  /\ IF backend = "memory" THEN InvalidateVersion(definitions.version) ELSE RedisInvalidate(definitions.version)
  /\ UNCHANGED <<backend, now, reported, calls, views, events, attached>>

Tick == /\ now < MaxTime /\ now' = now + 1
        /\ IF backend = "memory" THEN UNCHANGED cache ELSE RedisExpire
        /\ UNCHANGED <<backend, definitions, gate, usedAt, reported, calls, views, events, attached>>
------------------------------------------------------------------------------
(* One call of _get_feature_flag_result.  A value of the definitions is    *)
(* stored and reported; without one the server is asked, unless the caller *)
(* wants local answers only.  A caller may name the value it wants the     *)
(* payload of: it becomes the answer, whatever the evaluation said.        *)
LocallyEvaluateFlag(f) == definitions.local[f]
After(c) == IF calls[c].send THEN "report" ELSE "idle"

Begin(c, p, f, onlyLocal, override, send) ==
  /\ calls[c].pc = "idle" /\ Started < MaxCalls
  /\ LET value == LocallyEvaluateFlag(f)
         answer == IF value = "unknown" THEN NoValue ELSE IF override # NoValue THEN override ELSE value
     IN  Set(c, [Idle EXCEPT !.id = p, !.flag = f, !.value = answer, !.store = value, !.override = override, !.send = send,
                   !.source = IF value # "unknown" THEN "local" ELSE "nowhere",
                   !.gate = gate, !.origin = definitions.version, !.n = calls[c].n + 1,
                   !.pc = IF value # "unknown" THEN "store"
                          ELSE IF ~onlyLocal THEN "ask" ELSE IF send THEN "report" ELSE "idle"])
  /\ UNCHANGED <<backend, definitions, gate, now, cache, usedAt, reported, views, events, attached>>

(* The public calls differ in what they make of the result.                *)
FeatureEnabled(c, p, f) == \E onlyLocal, send \in BOOLEAN : Begin(c, p, f, onlyLocal, NoValue, send)
GetFeatureFlagResult(c, p, f) == \E onlyLocal, send \in BOOLEAN : Begin(c, p, f, onlyLocal, NoValue, send)
GetFeatureFlag(c, p, f) == \E onlyLocal, send \in BOOLEAN : Begin(c, p, f, onlyLocal, NoValue, send)
GetFeatureFlagPayload(c, p, f) ==
  \E onlyLocal, send \in BOOLEAN, override \in {NoValue, "asked"} : Begin(c, p, f, onlyLocal, override, send)

(* _get_flags_decision sets the client's gate from its own response; a     *)
(* failure of any kind leaves it and answers from the cache.               *)
GetFlagsDecision(c) ==
  /\ calls[c].pc = "ask"
  /\ \/ \E value \in {"on", NoValue}, g \in BOOLEAN :
          LET answer == IF value # NoValue /\ calls[c].override # NoValue THEN calls[c].override ELSE value IN
          /\ gate' = g
          /\ Set(c, [calls[c] EXCEPT !.value = answer, !.store = answer, !.gate = g,
                       !.pc = IF value = NoValue THEN After(c) ELSE "store",
                       !.source = IF value = NoValue THEN "nowhere" ELSE "server"])
     \/ /\ \E value \in Fallback(calls[c].id, calls[c].flag) : Set(c, [calls[c] EXCEPT !.value = value, !.pc = After(c)])
        /\ UNCHANGED gate
  /\ UNCHANGED <<backend, definitions, now, cache, usedAt, reported, views, events, attached>>

(* get_all_flags: the definitions' answers when they answer every flag, or *)
(* the server's, or the part the definitions could answer.  The calls that *)
(* return a decision as it is only move the gate.                          *)
GetAllFlagsAndPayloads(c, onlyLocal) ==
  /\ calls[c].pc = "idle" /\ Started < MaxCalls
  /\ LET complete == \A f \in Flags : LocallyEvaluateFlag(f) # "unknown" IN
     Set(c, [Idle EXCEPT !.n = calls[c].n + 1, !.pc = IF complete \/ onlyLocal THEN "idle" ELSE "ask_all"])
  /\ UNCHANGED <<backend, definitions, gate, now, cache, usedAt, reported, views, events, attached>>
AskAll(c) ==
  /\ calls[c].pc = "ask_all"
  /\ Set(c, [calls[c] EXCEPT !.pc = "idle"])
  /\ gate' \in BOOLEAN \cup {gate}
  /\ UNCHANGED <<backend, definitions, now, cache, usedAt, reported, views, events, attached>>
GetAllFlags(c) == \E onlyLocal \in BOOLEAN : GetAllFlagsAndPayloads(c, onlyLocal)

(* The version the entry gets is the one read before it is stored, not the *)
(* one the value was evaluated with.                                       *)
ReadVersion(c) ==
  /\ calls[c].pc = "store"
  /\ Set(c, [calls[c] EXCEPT !.pc = "storing", !.version = definitions.version])
  /\ UNCHANGED <<backend, definitions, gate, now, cache, usedAt, reported, views, events, attached>>
Store(c) ==
  /\ calls[c].pc = "storing"
  /\ SetCachedFlag(calls[c].id, calls[c].flag, calls[c].store, calls[c].version, calls[c].origin)
  /\ Set(c, [calls[c] EXCEPT !.pc = After(c)])
  /\ UNCHANGED <<backend, definitions, gate, now, reported, views, events, attached>>

(* _capture_feature_flag_called_if_needed: the event is trimmed when the   *)
(* gate is on and the flag is known to be in no experiment.  The gate of a *)
(* local answer is read here; a remote one and a snapshot bring their own. *)
\* Mutant: one event per person and flag, whatever the value.
KeyFlag(c) == calls[c].flag
Key(c) == <<calls[c].flag, calls[c].value>>
Minimal(c) == /\ IF calls[c].source = "local" THEN gate ELSE calls[c].gate
              /\ calls[c].source # "nowhere" /\ calls[c].flag \in Plain
Event(c) == [id |-> calls[c].id, flag |-> calls[c].flag, value |-> calls[c].value, minimal |-> calls[c].minimal,
             pinned |-> calls[c].gate /\ calls[c].source # "nowhere" /\ calls[c].flag \in Plain]
EntryOf(p) == IF \E i \in DOMAIN reported : reported[i].id = p
              THEN CHOOSE i \in DOMAIN reported : reported[i].id = p ELSE 0

LookUpReported(c) ==
  /\ calls[c].pc = "report"
  /\ LET i == EntryOf(calls[c].id) IN
     IF i = 0 THEN Set(c, [calls[c] EXCEPT !.pc = "create", !.minimal = Minimal(c)])
     ELSE IF Key(c) \in reported[i].keys THEN Set(c, [calls[c] EXCEPT !.pc = "idle"])
     ELSE Set(c, [calls[c] EXCEPT !.pc = "emit", !.set = reported[i].set, !.minimal = Minimal(c)])
  /\ UNCHANGED <<backend, definitions, gate, now, cache, usedAt, reported, views, events, attached>>

(* SizeLimitedDict.__setitem__: the oldest persons make room for a new one *)
(* and another thread's set for the same person is replaced.  A set is     *)
(* named after the call that created it.                                   *)
CreateReported(c) ==
  /\ calls[c].pc = "create"
  /\ LET new == [id |-> calls[c].id, set |-> <<c, calls[c].n>>, keys |-> {}]
         i == EntryOf(calls[c].id)
         room == IF Len(reported) >= MaxIds THEN SubSeq(reported, Len(reported) - MaxIds + 2, Len(reported)) ELSE reported
     IN  /\ reported' = IF i # 0 THEN [reported EXCEPT ![i] = new] ELSE Append(room, new)
         /\ Set(c, [calls[c] EXCEPT !.pc = "emit", !.set = new.set])
  /\ UNCHANGED <<backend, definitions, gate, now, cache, usedAt, views, events, attached>>

(* The key is recorded after the capture, in the set the call looked up,   *)
(* which may be out of the dictionary by now.                              *)
EmitEvent(c) ==
  /\ calls[c].pc = "emit"
  /\ events' = events \cup {Event(c)}
  /\ reported' = [i \in DOMAIN reported |->
       IF reported[i].set = calls[c].set THEN [reported[i] EXCEPT !.keys = @ \cup {Key(c)}] ELSE reported[i]]
  /\ Set(c, [calls[c] EXCEPT !.pc = "idle"])
  /\ UNCHANGED <<backend, definitions, gate, now, cache, usedAt, views, attached>>
------------------------------------------------------------------------------
(* evaluate_flags: the definitions' answers, and for the flags they leave  *)
(* open the server's, in one record per flag.  seen is what the caller was *)
(* told by this view, and of its flags by those it was narrowed from;      *)
(* expect is what a view of accessed flags must attach.                    *)
EvaluateFlags(p) ==
  /\ views = <<>>
  /\ LET local == {f \in Flags : LocallyEvaluateFlag(f) # "unknown"} IN
     \E known \in SUBSET (Flags \ local) :
     \E remote \in [known -> {"on", "off"}], g \in (IF local = Flags THEN {gate} ELSE BOOLEAN) :
       /\ gate' = g
       /\ views' = <<[id |-> p, gate |-> g, accessed |-> {}, seen |-> Nothing, expect |-> {},
                      flags |-> [f \in local \cup known |-> IF f \in local THEN LocallyEvaluateFlag(f) ELSE remote[f]]]>>
  /\ UNCHANGED <<backend, definitions, now, cache, usedAt, reported, calls, events, attached>>

ValueIn(view, f) == IF f \in DOMAIN view.flags THEN view.flags[f] ELSE NoValue

(* is_enabled, get_flag: count as an access and report the flag.           *)
Access(c, v, f) ==
  /\ calls[c].pc = "idle" /\ Started < MaxCalls /\ v \in DOMAIN views
  /\ views' = [views EXCEPT ![v].accessed = @ \cup {f}, ![v].seen = Put(@, f, ValueIn(views[v], f))]
  /\ Set(c, [Idle EXCEPT !.id = views[v].id, !.flag = f, !.value = ValueIn(views[v], f), !.gate = views[v].gate,
               !.source = IF ValueIn(views[v], f) = NoValue THEN "nowhere" ELSE "snapshot", !.send = TRUE,
               !.n = calls[c].n + 1, !.pc = "report"])
  /\ UNCHANGED <<backend, definitions, gate, now, cache, usedAt, reported, events, attached>>

(* only_accessed and only: a new view with a copy of the accessed set.     *)
\* Mutant: a flag is counted as accessed when it is on.
NarrowedOn(view, flags, expect) ==
  [view EXCEPT !.flags = [f \in {g \in DOMAIN @ : @[g] = "on"} |-> @[f]], !.expect = expect]
Narrowed(view, flags, expect) ==
  [view EXCEPT !.flags = [f \in flags \cap DOMAIN @ |-> @[f]], !.seen = [f \in flags \cap DOMAIN @ |-> @[f]],
               !.expect = expect]
Narrow(v) ==
  /\ v \in DOMAIN views /\ Len(views) < MaxViews
  /\ \/ views' = Append(views, Narrowed(views[v], views[v].accessed, {views[v].seen}))
     \/ \E keys \in SUBSET Flags : views' = Append(views, Narrowed(views[v], keys, {}))
  /\ UNCHANGED <<backend, definitions, gate, now, cache, usedAt, reported, calls, events, attached>>

(* capture(flags=view) attaches the flags of the view.                     *)
CaptureWith(v) ==
  /\ v \in DOMAIN views
  /\ attached' = {[flags |-> views[v].flags, view |-> v]}
  /\ UNCHANGED <<backend, definitions, gate, now, cache, usedAt, reported, calls, views, events>>

Poller == \E local \in [Flags -> {"on", "unknown"}], g \in BOOLEAN : UpdateFlagState(local, g)
Reports == \E c \in Calls : LookUpReported(c) \/ CreateReported(c) \/ EmitEvent(c)
CallNext ==
  \/ Tick
  \/ \E c \in Calls, p \in Persons, f \in Flags :
       FeatureEnabled(c, p, f) \/ GetFeatureFlagResult(c, p, f) \/ GetFeatureFlag(c, p, f) \/ GetFeatureFlagPayload(c, p, f)
  \/ \E c \in Calls : GetFlagsDecision(c) \/ ReadVersion(c) \/ Store(c) \/ GetAllFlags(c) \/ AskAll(c)
SnapshotNext ==
  \/ \E p \in Persons : EvaluateFlags(p)
  \/ \E c \in Calls, f \in Flags, v \in DOMAIN views : Access(c, v, f)
  \/ \E v \in DOMAIN views : Narrow(v) \/ CaptureWith(v)

Next == Poller \/ CallNext \/ SnapshotNext \/ Reports

Spec == Init /\ [][Next]_vars
------------------------------------------------------------------------------
(* Answers are deduplicated, never dropped: when a call is over, an event  *)
(* was captured for its person, flag and value, by this call or an earlier *)
(* one, whatever was evicted or replaced meanwhile; and the dictionary     *)
(* holds each person once and no more persons than its size                *)
(* (_capture_feature_flag_called_if_needed, SizeLimitedDict).              *)
AnswersReported ==
  /\ Len(reported) <= MaxIds
  /\ \A i, j \in DOMAIN reported : reported[i].id = reported[j].id => i = j
  /\ \A c \in Calls : calls[c].pc = "idle" /\ calls[c].send =>
       \E e \in events : e.id = calls[c].id /\ e.flag = calls[c].flag /\ e.value = calls[c].value

(* The cache in memory keeps its bound and its two maps together, and      *)
(* holds a value of replaced definitions only if they were replaced before *)
(* the call that evaluated it came to store it (set_cached_flag,           *)
(* _evict_lru, invalidate_version); in Redis, where commands are lost, no  *)
(* entry outlives StaleTTL.                                                *)
FallbackCurrent ==
  /\ backend = "memory" =>
       /\ DOMAIN cache = DOMAIN usedAt /\ Cardinality(DOMAIN cache) <= MaxUsers
       /\ \A p \in DOMAIN cache : DOMAIN cache[p] # {} /\ \A f \in DOMAIN cache[p] :
            cache[p][f].origin = definitions.version \/ cache[p][f].late
  /\ backend = "redis" => \A p \in DOMAIN cache : \A f \in DOMAIN cache[p] : now - cache[p][f].at < StaleTTL

(* A view of the accessed flags attaches what the caller branched on:      *)
(* every flag it read that exists, with the value it was told, and nothing *)
(* else (only_accessed, _get_event_properties).                            *)
AttachedAsBranched ==
  \A a \in attached : \A told \in views[a.view].expect :
    a.flags = [f \in {g \in DOMAIN told : told[g] # NoValue} |-> told[f]]

(* "Cache the local evaluation, not a payload lookup override"             *)
(* (_get_feature_flag_result): the fallback answers with evaluations only. *)
EvaluationsCached == \A p \in DOMAIN cache : \A f \in DOMAIN cache[p] : ~cache[p][f].asked

(* "minimal_flag_called_events is the gate as observed by the evaluation   *)
(* that produced response, not a fresh read of client-wide state"          *)
(* (_capture_feature_flag_called_if_needed).                               *)
GatePinned == \A e \in events : e.minimal = e.pinned
===============================================================================
