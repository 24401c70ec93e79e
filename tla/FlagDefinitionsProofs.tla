------------------------ MODULE FlagDefinitionsProofs ------------------------
(***************************************************************************)
(* Theorems about FlagDefinitions, for any number of loading threads,      *)
(* versions and requests.                                                  *)
(***************************************************************************)
EXTENDS FlagDefinitions, TLAPS

\* One thread at a time publishes, and one at a time stores.
LocksHeld ==
  \A t \in Loaders : /\ pc[t] \in Publishing <=> publicationLock = t
                     /\ pc[t] = "storing" <=> writeLock = t

\* An answer that has arrived is one the server gives to that request.
AnswersGenuine ==
  /\ server # 0
  /\ \A t \in Loaders : pc[t] \in {"answered"} \cup Publishing =>
       /\ answer[t].kind \in {"ok", "reset"} => answer[t].etag \in {0, answer[t].served}
       /\ answer[t].kind = "not_modified" =>
            /\ answer[t].served # 0
            /\ answer[t].served = requestEtag[t]
            /\ answer[t].etag = requestEtag[t]
       /\ pc[t] \in Publishing => answer[t].kind \in {"ok", "reset"}

\* How far the holder of the publication lock has come.
WholeInstalls ==
  ~usesCache => \A t \in Loaders :
    /\ pc[t] \notin {"lookup", "cached", "cached_rest", "store", "storing"}
    /\ pc[t] \in Publishing => data[t] = Payload(answer[t].served)
    /\ pc[t] \in {"rest", "publish"} => flags = answer[t].served
    /\ pc[t] = "publish" => cohorts = answer[t].served

\* Generations only grow, through the publication and into the cache.
GenerationsGrow ==
  /\ cacheGeneration = publishedGeneration
  /\ cache.by <= cacheGeneration
  /\ \A t \in Loaders : /\ pc[t] \in Publishing => generation[t] > publishedGeneration
                        /\ pc[t] = "storing" => /\ cache.by <= generation[t]
                                                /\ generation[t] <= cacheGeneration

IInv == TypeOK /\ LocksHeld /\ AnswersGenuine /\ WholeInstalls /\ GenerationsGrow
        /\ InstalledTogether

(* The client starts with no definitions and no load under way.            *)
LEMMA InitInvariant == Init => IInv
<1> SUFFICES ASSUME Init PROVE IInv
  OBVIOUS
<1> USE FlagDefinitionsAssumption DEF Init
<1>1. TypeOK
  BY DEF TypeOK, Versions, Payloads, Payload, Answers, Kinds, Pcs
<1>2. LocksHeld /\ AnswersGenuine /\ WholeInstalls
  BY DEF LocksHeld, AnswersGenuine, WholeInstalls, Publishing
<1>3. GenerationsGrow /\ InstalledTogether
  BY DEF GenerationsGrow, InstalledTogether, Publishing
<1> QED
  BY <1>1, <1>2, <1>3 DEF IInv

(* Every step keeps the types.                                             *)
LEMMA TypeStep ==
  ASSUME TypeOK, [Next]_vars
  PROVE  TypeOK'
<1> USE FlagDefinitionsAssumption DEF TypeOK, Versions, installed, generations, locks,
        request, world
<1>1. CASE UNCHANGED vars
  BY <1>1 DEF vars
<1>2. CASE ServerChanges
  BY <1>2 DEF ServerChanges
<1>3. CASE OtherWorkerStores
  BY <1>3 DEF OtherWorkerStores
<1>4. ASSUME NEW t \in Loaders, LoadStep(t)
      PROVE  TypeOK'
  <2> USE DEF Step, Pcs
  <2>1. CASE Load(t)
    BY <2>1 DEF Load
  <2>2. CASE LookUp(t)
    <3>1. [flags |-> cache.flags, cohorts |-> cache.cohorts] \in Payloads
      BY DEF Payloads
    <3> QED
      BY <2>2, <3>1 DEF LookUp
  <2>3. CASE InstallCached(t) \/ InstallCachedRest(t)
    BY <2>3 DEF InstallCached, InstallCachedRest, Payloads
  <2>4. CASE Send(t)
    BY <2>4 DEF Send
  <2>5. CASE ServerAnswers(t)
    BY <2>5 DEF ServerAnswers
  <2>6. CASE Ignore(t)
    BY <2>6 DEF Ignore
  <2>7. CASE AcceptNotModified(t)
    BY <2>7 DEF AcceptNotModified, Publish, Answers
  <2>8. CASE AcceptDefinitions(t) \/ AcceptReset(t)
    <3>1. answer[t].served \in 0..MaxVersion
      BY DEF Answers
    <3>2. Payload(answer[t].served) \in Payloads
      BY <3>1 DEF Payload, Payloads
    <3> QED
      BY <2>8, <3>2 DEF AcceptDefinitions, AcceptReset, Accept
  <2>9. CASE InstallFlags(t) \/ InstallRest(t)
    BY <2>9 DEF InstallFlags, InstallRest, Payloads
  <2>10. CASE PublishInstalled(t)
    BY <2>10 DEF PublishInstalled, Publish, Payloads, Answers
  <2>11. CASE CheckStore(t)
    BY <2>11 DEF CheckStore
  <2>12. CASE Store(t)
    BY <2>12 DEF Store, Payloads
  <2> QED
    BY <1>4, <2>1, <2>2, <2>3, <2>4, <2>5, <2>6, <2>7, <2>8, <2>9, <2>10, <2>11, <2>12
    DEF LoadStep
<1> QED
  BY <1>1, <1>2, <1>3, <1>4 DEF Next

(* Every step keeps the rest of the invariant.                             *)
LEMMA InvariantStep ==
  ASSUME IInv, [Next]_vars
  PROVE  /\ LocksHeld' /\ AnswersGenuine' /\ WholeInstalls'
         /\ GenerationsGrow' /\ InstalledTogether'
<1> DEFINE Goal == /\ LocksHeld' /\ AnswersGenuine' /\ WholeInstalls'
                   /\ GenerationsGrow' /\ InstalledTogether'
<1> USE FlagDefinitionsAssumption
    DEF IInv, TypeOK, Versions, installed, generations, locks, request, world,
        LocksHeld, AnswersGenuine, WholeInstalls, GenerationsGrow, InstalledTogether,
        Publishing
<1>1. CASE UNCHANGED vars
  BY <1>1 DEF vars
<1>2. CASE ServerChanges
  BY <1>2 DEF ServerChanges
<1>3. CASE OtherWorkerStores
  BY <1>3 DEF OtherWorkerStores
<1>4. ASSUME NEW t \in Loaders, LoadStep(t)
      PROVE  Goal
  <2> USE DEF Step
  <2>1. CASE Load(t)
    BY <2>1 DEF Load
  <2>2. CASE LookUp(t)
    BY <2>2 DEF LookUp
  <2>3. CASE InstallCached(t) \/ InstallCachedRest(t)
    BY <2>3 DEF InstallCached, InstallCachedRest
  <2>4. CASE Send(t)
    BY <2>4 DEF Send
  <2>5. CASE ServerAnswers(t)
    <3>1. LocksHeld' /\ GenerationsGrow'
      BY <2>5 DEF ServerAnswers
    <3>2. PICK a \in Answers :
            /\ a.served = IF a.kind \in {"ok", "not_modified"} THEN server ELSE 0
            /\ CASE a.kind = "ok" -> server # requestEtag[t] /\ a.etag \in {0, server}
                 [] a.kind = "not_modified" -> server = requestEtag[t] /\ a.etag = server
                 [] OTHER -> a.etag = 0
            /\ answer' = [answer EXCEPT ![t] = a]
      BY <2>5 DEF ServerAnswers
    <3>3. a.kind \in {"ok", "not_modified", "reset", "error"}
      BY DEF Answers, Kinds
    <3>4. AnswersGenuine'
      BY <2>5, <3>2, <3>3 DEF ServerAnswers
    <3>5. WholeInstalls' /\ InstalledTogether'
      BY <2>5, <3>2 DEF ServerAnswers
    <3> QED
      BY <3>1, <3>4, <3>5
  <2>6. CASE Ignore(t)
    BY <2>6 DEF Ignore
  <2>7. CASE AcceptNotModified(t)
    BY <2>7 DEF AcceptNotModified, Publish, Stale
  <2>8. CASE AcceptDefinitions(t) \/ AcceptReset(t)
    BY <2>8 DEF AcceptDefinitions, AcceptReset, Accept, Payload, Stale
  <2>9. CASE InstallFlags(t) \/ InstallRest(t)
    BY <2>9 DEF InstallFlags, InstallRest, Payload
  <2>10. CASE PublishInstalled(t)
    BY <2>10 DEF PublishInstalled, Publish
  <2>11. CASE CheckStore(t)
    BY <2>11 DEF CheckStore
  <2>12. CASE Store(t)
    BY <2>12 DEF Store
  <2> QED
    BY <1>4, <2>1, <2>2, <2>3, <2>4, <2>5, <2>6, <2>7, <2>8, <2>9, <2>10, <2>11, <2>12
    DEF LoadStep
<1> QED
  BY <1>1, <1>2, <1>3, <1>4 DEF Next

LEMMA Invariant == Spec => []IInv
<1>1. IInv /\ [Next]_vars => IInv'
  BY TypeStep, InvariantStep DEF IInv
<1> QED
  BY InitInvariant, <1>1, PTL DEF Spec

(* Every variable keeps its type, whatever the number of loads.            *)
THEOREM TypeCorrect == Spec => []TypeOK
<1>1. IInv => TypeOK
  BY DEF IInv
<1> QED
  BY Invariant, <1>1, PTL

(* Without a cache provider, overlapping loads never mix two payloads nor  *)
(* leave the ETag of one with the definitions of another.                  *)
THEOREM DefinitionsInstalledTogether == Spec => []InstalledTogether
<1>1. IInv => InstalledTogether
  BY DEF IInv
<1> QED
  BY Invariant, <1>1, PTL

(* Without a cache provider, what a load publishes is what the server      *)
(* answered to it, 304 included.                                           *)
THEOREM LoadsPublishTheirAnswer == Spec => PublishesItsAnswer
<1> DEFINE A == \A t \in Loaders :
       ~usesCache /\ publishedGeneration' # publishedGeneration /\ pc'[t] # pc[t]
         => flags' = answer[t].served /\ cohorts' = answer[t].served
<1>1. ASSUME IInv, [Next]_vars PROVE [A]_vars
  <2> USE FlagDefinitionsAssumption DEF installed, generations, locks, request, world, Step
  <2> SUFFICES ASSUME NEW t \in Loaders, ~usesCache,
                      publishedGeneration' # publishedGeneration, pc'[t] # pc[t]
               PROVE  flags' = answer[t].served /\ cohorts' = answer[t].served
    OBVIOUS
  <2>1. pc \in [Loaders -> Pcs]
    BY <1>1 DEF IInv, TypeOK
  <2>2. PICK u \in Loaders : AcceptNotModified(u) \/ PublishInstalled(u)
    BY <1>1 DEF Next, vars, ServerChanges, OtherWorkerStores, LoadStep, Load, LookUp,
       InstallCached, InstallCachedRest, Send, ServerAnswers, Ignore, AcceptDefinitions,
       AcceptReset, Accept, InstallFlags, InstallRest, CheckStore, Store
  <2>3. u = t
    BY <2>1, <2>2 DEF AcceptNotModified, PublishInstalled
  <2>4. CASE AcceptNotModified(t)
    BY <1>1, <2>4 DEF AcceptNotModified, IInv, LocksHeld, AnswersGenuine,
       InstalledTogether, Publishing
  <2>5. CASE PublishInstalled(t)
    BY <1>1, <2>5 DEF PublishInstalled, IInv, WholeInstalls
  <2> QED
    BY <2>2, <2>3, <2>4, <2>5
<1>2. Spec => [][A]_vars
  BY Invariant, <1>1, PTL DEF Spec
<1> QED
  BY <1>2 DEF PublishesItsAnswer

(* Definitions never change on behalf of a load older than the published   *)
(* one.                                                                    *)
THEOREM LoadsKeepOrder == Spec => LoadsInOrder
<1> DEFINE A == flags' # flags =>
       \A t \in Loaders : pc[t] = "flags" /\ pc'[t] = "rest"
          => generation[t] > publishedGeneration
<1>1. IInv => A
  BY DEF IInv, GenerationsGrow, Publishing
<1>2. Spec => [][A]_vars
  BY Invariant, <1>1, PTL DEF Spec
<1> QED
  BY <1>2 DEF LoadsInOrder

(* This client's writes of the shared cache are in the order of its loads. *)
THEOREM CacheWrittenInOrder == Spec => CacheWritesInOrder
<1>1. ASSUME IInv, [Next]_vars PROVE [cache'.by >= cache.by]_vars
  <2> USE DEF IInv, TypeOK, installed, generations, locks, request, world, Step
  <2>1. cache.by \in Nat
    BY <1>1, FlagDefinitionsAssumption
  <2>2. CASE cache'.by = cache.by
    BY <2>1, <2>2
  <2>3. ASSUME NEW t \in Loaders, Store(t)
        PROVE  cache'.by >= cache.by
    BY <1>1, <2>1, <2>3 DEF Store, GenerationsGrow
  <2>4. CASE cache'.by # cache.by
    <3>1. \E t \in Loaders : Store(t)
      BY <1>1, <2>4 DEF Next, vars, ServerChanges, OtherWorkerStores, LoadStep, Load,
         LookUp, InstallCached, InstallCachedRest, Send, ServerAnswers, Ignore,
         AcceptNotModified, AcceptDefinitions, AcceptReset, Accept, InstallFlags,
         InstallRest, PublishInstalled, CheckStore
    <3> QED
      BY <2>3, <3>1
  <2> QED
    BY <2>2, <2>4
<1>2. Spec => [][cache'.by >= cache.by]_vars
  BY Invariant, <1>1, PTL DEF Spec
<1> QED
  BY <1>2 DEF CacheWritesInOrder
=============================================================================
