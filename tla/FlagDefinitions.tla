--------------------------- MODULE FlagDefinitions ---------------------------
(***************************************************************************)
(* How a client loads the definitions its flags are evaluated from: the    *)
(* poller and every caller of load_feature_flags may load at the same      *)
(* time, from the API or, with a cache provider, from a cache shared with  *)
(* other workers (client.py, _load_feature_flags).                         *)
(*                                                                         *)
(* A payload is a version of the server's definitions and its ETag is that *)
(* version too; 0 stands for no definitions and no ETag.  A payload has    *)
(* two parts because _update_flag_state assigns them one after the other:  *)
(* the flags, and what goes with them (group type mapping, cohorts, the    *)
(* gate of minimal events).  The cache of evaluation results that it also  *)
(* invalidates is a component of its own.                                  *)
(***************************************************************************)
EXTENDS Naturals

CONSTANTS
  Loaders,      \* threads that load: the poller, callers of load_feature_flags
  MaxVersion,   \* bound on the versions of the server's definitions
  MaxFetch,     \* bound on the requests sent
  NoThread

ASSUME FlagDefinitionsAssumption ==
  /\ MaxVersion \in Nat \ {0}
  /\ MaxFetch \in Nat
  /\ NoThread \notin Loaders

VARIABLES
  usesCache,            \* a flag_definition_cache_provider is configured
  server,               \* the version the server serves
  cache,                \* the shared cache, and who of us last wrote it
  flags,                \* feature_flags
  cohorts,              \* group_type_mapping, cohorts, ...
  etag,                 \* _flags_etag
  fetchGeneration,      \* _flag_definition_fetch_generation
  publishedGeneration,  \* _flag_definition_published_generation
  cacheGeneration,      \* _flag_definition_cache_generation
  publicationLock,      \* who holds _flag_definition_publication_lock over a step
  writeLock,            \* who holds _flag_definition_cache_write_lock
  pc,                   \* where each loader is
  generation,           \* the local fetch_generation
  requestEtag,          \* the local request_etag
  answer,               \* the response to its request
  data                  \* the payload it installs or stores

installed == <<flags, cohorts>>
generations == <<fetchGeneration, publishedGeneration, cacheGeneration>>
locks == <<publicationLock, writeLock>>
request == <<generation, requestEtag>>
world == <<usesCache, server>>
vars == <<world, cache, installed, etag, generations, locks, pc, request, answer, data>>

Versions == 0..MaxVersion
Payloads == [flags : Versions, cohorts : Versions]
Payload(v) == [flags |-> v, cohorts |-> v]
Kinds == {"ok", "not_modified", "reset", "error"}
\* `served`: the version the server answered from, which a 304 stands for too
Answers == [kind : Kinds, served : Versions, etag : Versions]

Pcs == {"idle", "lookup", "cached", "cached_rest", "fetch", "sent", "answered",
        "flags", "rest", "publish", "store", "storing"}
Publishing == {"flags", "rest", "publish"}

TypeOK ==
  /\ usesCache \in BOOLEAN
  /\ server \in Versions
  /\ cache \in [flags : Versions, cohorts : Versions, by : 0..MaxFetch]
  /\ {flags, cohorts, etag} \subseteq Versions
  /\ {fetchGeneration, publishedGeneration, cacheGeneration} \subseteq 0..MaxFetch
  /\ {publicationLock, writeLock} \subseteq Loaders \cup {NoThread}
  /\ pc \in [Loaders -> Pcs]
  /\ generation \in [Loaders -> 0..MaxFetch]
  /\ requestEtag \in [Loaders -> Versions]
  /\ answer \in [Loaders -> Answers]
  /\ data \in [Loaders -> Payloads]

Init ==
  /\ usesCache \in BOOLEAN
  /\ server = 1
  /\ cache = [flags |-> 0, cohorts |-> 0, by |-> 0]
  /\ flags = 0 /\ cohorts = 0 /\ etag = 0
  /\ fetchGeneration = 0 /\ publishedGeneration = 0 /\ cacheGeneration = 0
  /\ publicationLock = NoThread /\ writeLock = NoThread
  /\ pc = [t \in Loaders |-> "idle"]
  /\ generation = [t \in Loaders |-> 0]
  /\ requestEtag = [t \in Loaders |-> 0]
  /\ answer = [t \in Loaders |-> [kind |-> "error", served |-> 0, etag |-> 0]]
  /\ data = [t \in Loaders |-> Payload(0)]

Step(t, p, q) == pc[t] = p /\ pc' = [pc EXCEPT ![t] = q]

-----------------------------------------------------------------------------
(* The server and the other workers *)

ServerChanges ==
  /\ server < MaxVersion
  /\ server' = server + 1
  /\ UNCHANGED <<usesCache, cache, installed, etag, generations, locks, pc, request,
                 answer, data>>

\* Another worker stores what it fetched, at once or long after.
OtherWorkerStores ==
  /\ usesCache
  /\ \E v \in 1..server : cache' = [flags |-> v, cohorts |-> v, by |-> cache.by]
  /\ UNCHANGED <<world, installed, etag, generations, locks, pc, request, answer, data>>

\* The server answers 304 only for its own version; it may leave the ETag out.
ServerAnswers(t) ==
  /\ Step(t, "sent", "answered")
  /\ \E a \in Answers :
       /\ a.served = IF a.kind \in {"ok", "not_modified"} THEN server ELSE 0
       /\ CASE a.kind = "ok" -> server # requestEtag[t] /\ a.etag \in {0, server}
            [] a.kind = "not_modified" -> server = requestEtag[t] /\ a.etag = server
            [] OTHER -> a.etag = 0
       /\ answer' = [answer EXCEPT ![t] = a]
  /\ UNCHANGED <<world, cache, installed, etag, generations, locks, request, data>>

-----------------------------------------------------------------------------
(* _load_feature_flags *)

\* should_fetch_flag_definitions decides, and an error of it means yes.
Load(t) ==
  /\ \/ Step(t, "idle", "fetch")
     \/ usesCache /\ Step(t, "idle", "lookup")
  /\ UNCHANGED <<world, cache, installed, etag, generations, locks, request, answer, data>>

\* get_flag_definitions: a payload, nothing, or an error.
LookUp(t) ==
  /\ \/ Step(t, "lookup", "fetch") /\ UNCHANGED data
     \/ /\ cache.flags # 0
        /\ Step(t, "lookup", "cached")
        /\ data' = [data EXCEPT ![t] = [flags |-> cache.flags, cohorts |-> cache.cohorts]]
     \/ /\ cache.flags = 0
        /\ Step(t, "lookup", IF flags = 0 THEN "fetch" ELSE "idle")
        /\ UNCHANGED data
  /\ UNCHANGED <<world, cache, installed, etag, generations, locks, request, answer>>

\* _update_flag_state with the cached payload, under no lock
InstallCached(t) ==
  /\ Step(t, "cached", "cached_rest")
  /\ flags' = data[t].flags
  /\ UNCHANGED <<world, cache, cohorts, etag, generations, locks, request, answer, data>>

InstallCachedRest(t) ==
  /\ Step(t, "cached_rest", "idle")
  /\ cohorts' = data[t].cohorts
  /\ UNCHANGED <<world, cache, flags, etag, generations, locks, request, answer, data>>

-----------------------------------------------------------------------------
(* _fetch_feature_flags_from_api *)

Send(t) ==
  /\ Step(t, "fetch", "sent")
  /\ publicationLock = NoThread
  /\ fetchGeneration < MaxFetch
  /\ fetchGeneration' = fetchGeneration + 1
  /\ generation' = [generation EXCEPT ![t] = fetchGeneration + 1]
  /\ requestEtag' = [requestEtag EXCEPT ![t] = etag]
  /\ UNCHANGED <<world, cache, installed, etag, publishedGeneration, cacheGeneration,
                 locks, answer, data>>

\* Mutant: an answer is never late.
NeverStale(t) == FALSE

Stale(t) == generation[t] <= publishedGeneration

\* A late answer, a 304 for a superseded ETag, or an error without consequence.
Ignore(t) ==
  /\ Step(t, "answered", "idle")
  /\ \/ answer[t].kind = "error"
     \/ /\ publicationLock = NoThread
        /\ Stale(t) \/ (answer[t].kind = "not_modified" /\ etag # requestEtag[t])
  /\ UNCHANGED <<world, cache, installed, etag, generations, locks, request, answer, data>>

\* Mutant: the ETag stays when the server stops sending one.
PublishKeepsEtag(t) ==
  /\ etag' = IF answer[t].etag = 0 THEN etag ELSE answer[t].etag
  /\ publishedGeneration' = generation[t]
  /\ cacheGeneration' = generation[t]

\* What ends the publication of a load.
Publish(t) ==
  /\ etag' = answer[t].etag
  /\ publishedGeneration' = generation[t]
  /\ cacheGeneration' = generation[t]

\* Mutant: any 304 is accepted, for the definitions there are.
AcceptAnyNotModified(t) ==
  /\ Step(t, "answered", "idle")
  /\ publicationLock = NoThread
  /\ ~Stale(t) /\ answer[t].kind = "not_modified"
  /\ publishedGeneration' = generation[t]
  /\ cacheGeneration' = generation[t]
  /\ UNCHANGED <<world, cache, installed, etag, fetchGeneration, locks, request, answer,
                 data>>

AcceptNotModified(t) ==
  /\ Step(t, "answered", "idle")
  /\ publicationLock = NoThread
  /\ ~Stale(t) /\ answer[t].kind = "not_modified" /\ etag = requestEtag[t]
  /\ Publish(t)
  /\ UNCHANGED <<world, cache, installed, fetchGeneration, locks, request, answer, data>>

\* A payload is to be installed: take the lock ...
Accept(t) ==
  /\ Step(t, "answered", "flags")
  /\ publicationLock = NoThread
  /\ ~Stale(t)
  /\ publicationLock' = t
  /\ data' = [data EXCEPT ![t] = Payload(answer[t].served)]
  /\ UNCHANGED <<world, cache, installed, etag, generations, writeLock, request, answer>>

AcceptDefinitions(t) == answer[t].kind = "ok" /\ Accept(t)

\* ... after a 401 or a 402 the one that is empty ...
AcceptReset(t) == answer[t].kind = "reset" /\ Accept(t)

\* ... install both parts ...
InstallFlags(t) ==
  /\ Step(t, "flags", "rest")
  /\ flags' = data[t].flags
  /\ UNCHANGED <<world, cache, cohorts, etag, generations, locks, request, answer, data>>

InstallRest(t) ==
  /\ Step(t, "rest", "publish")
  /\ cohorts' = data[t].cohorts
  /\ UNCHANGED <<world, cache, flags, etag, generations, locks, request, answer, data>>

\* ... keep what is installed for the cache, publish, and release the lock.
PublishInstalled(t) ==
  /\ Step(t, "publish", IF usesCache /\ answer[t].kind = "ok" THEN "store" ELSE "idle")
  /\ data' = [data EXCEPT ![t] = [flags |-> flags, cohorts |-> cohorts]]
  /\ Publish(t)
  /\ publicationLock' = NoThread
  /\ UNCHANGED <<world, cache, installed, fetchGeneration, writeLock, request, answer>>

\* Mutant: no lock covers the test and the store.
CheckStoreUnlocked(t) ==
  /\ publicationLock = NoThread
  /\ \/ /\ generation[t] = cacheGeneration
        /\ Step(t, "store", "storing")
     \/ /\ generation[t] # cacheGeneration
        /\ Step(t, "store", "idle")
  /\ UNCHANGED <<world, cache, installed, etag, generations, locks, request, answer,
                 data>>

\* Under the write lock: is this still the load whose payload is to be stored?
CheckStore(t) ==
  /\ writeLock = NoThread /\ publicationLock = NoThread
  /\ \/ /\ generation[t] = cacheGeneration
        /\ Step(t, "store", "storing")
        /\ writeLock' = t
     \/ /\ generation[t] # cacheGeneration
        /\ Step(t, "store", "idle")
        /\ UNCHANGED writeLock
  /\ UNCHANGED <<world, cache, installed, etag, generations, publicationLock, request,
                 answer, data>>

\* on_flag_definitions_received succeeds or raises.
Store(t) ==
  /\ Step(t, "storing", "idle")
  /\ \/ cache' = [flags |-> data[t].flags, cohorts |-> data[t].cohorts,
                  by |-> generation[t]]
     \/ UNCHANGED cache
  /\ writeLock' = NoThread
  /\ UNCHANGED <<world, installed, etag, generations, publicationLock, request, answer,
                 data>>

-----------------------------------------------------------------------------
LoadStep(t) ==
  \/ Load(t) \/ LookUp(t) \/ InstallCached(t) \/ InstallCachedRest(t)
  \/ Send(t) \/ ServerAnswers(t) \/ Ignore(t) \/ AcceptNotModified(t)
  \/ AcceptDefinitions(t) \/ AcceptReset(t) \/ InstallFlags(t) \/ InstallRest(t)
  \/ PublishInstalled(t) \/ CheckStore(t) \/ Store(t)

Next == ServerChanges \/ OtherWorkerStores \/ \E t \in Loaders : LoadStep(t)

Spec == Init /\ [][Next]_vars

-----------------------------------------------------------------------------
(* Properties *)

(* "Publish the ETag only after its matching flag state is installed":     *)
(* without a cache provider, and whatever loads overlap, the flags and     *)
(* what goes with them are of one payload whenever no load is installing   *)
(* one, and so is the ETag the next request will send.                     *)
InstalledTogether ==
  ~usesCache /\ publicationLock = NoThread =>
    /\ flags = cohorts
    /\ etag # 0 => etag = flags

(* What a load publishes is what the server answered to that load, a 304   *)
(* included: it never publishes, as unchanged, definitions that another    *)
(* load has replaced.                                                      *)
PublishesItsAnswer ==
  [][\A t \in Loaders :
       ~usesCache /\ publishedGeneration' # publishedGeneration /\ pc'[t] # pc[t]
         => flags' = answer[t].served /\ cohorts' = answer[t].served]_vars

(* A load never undoes one that started after it: once a load is           *)
(* published, no definitions change on behalf of an older one.             *)
LoadsInOrder ==
  [][flags' # flags =>
       \A t \in Loaders : pc[t] = "flags" /\ pc'[t] = "rest"
          => generation[t] > publishedGeneration]_vars

(* "The separate lock preserves cache write order": this client never      *)
(* overwrites in the shared cache what a later load of its own has stored. *)
CacheWritesInOrder == [][cache'.by >= cache.by]_vars

(* "A 304 is valid only for the ETag used by this request": a load that    *)
(* accepts a 304 has the definitions installed that the server stands by.  *)
NotModifiedIsCurrent ==
  [][\A t \in Loaders :
       answer[t].kind = "not_modified" /\ publishedGeneration' = generation[t]
       /\ publishedGeneration' # publishedGeneration
         => flags' = answer[t].served]_vars

(* on_flag_definitions_received is "called after successfully fetching new *)
(* definitions": a load whose definitions are the ones installed does not  *)
(* end without having given them to the provider, unless another load has  *)
(* received them too.                                                      *)
FetchedIsStored ==
  [][\A t \in Loaders :
       pc[t] = "store" /\ pc'[t] = "idle"
         => \/ flags # answer[t].served
            \/ \E u \in Loaders \ {t} : answer[u].kind = "ok"]_vars
=============================================================================
